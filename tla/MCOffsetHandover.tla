-------------------------- MODULE MCOffsetHandover --------------------------
(* A small configuration for OffsetHandover.                                *)
EXTENDS OffsetHandover

\* Two connectors of one table, one with two partitions, and one of another table.
ThreePipelines ==
    <<[connector |-> "c1", table |-> "a", topic |-> "t1", partitions |-> 2],
      [connector |-> "c2", table |-> "a", topic |-> "t2", partitions |-> 1],
      [connector |-> "c3", table |-> "b", topic |-> "t3", partitions |-> 1]>>

\* Two records in one partition, and one in a partition that a topic may grow by.
MCLogEnd == [k \in Keys |-> CASE k = <<"t1", 0>> -> 2
                              [] k = <<"t2", 1>> -> 1
                              [] OTHER -> 0]

To(key, offset) == [key |-> key, offset |-> offset]

\* A good vector in another order, and one each that leaves a partition out, names
\* one twice, one too many, is beyond the log's end and beyond i64.
MCRequests ==
    {<<To(<<"t2", 0>>, 0), To(<<"t1", 1>>, 0), To(<<"t1", 0>>, 2)>>,
     <<To(<<"t1", 0>>, 1), To(<<"t1", 1>>, 0), To(<<"t2", 0>>, 0)>>,
     <<To(<<"t1", 0>>, 2), To(<<"t2", 0>>, 0)>>,
     <<To(<<"t1", 0>>, 2), To(<<"t1", 0>>, 1), To(<<"t1", 1>>, 0), To(<<"t2", 0>>, 0)>>,
     <<To(<<"t1", 0>>, 2), To(<<"t1", 1>>, 0), To(<<"t2", 0>>, 0), To(<<"t3", 0>>, 0)>>,
     <<To(<<"t1", 0>>, 2), To(<<"t1", 1>>, 0), To(<<"t2", 0>>, 1)>>,
     <<To(<<"t1", 0>>, MaxUnsigned), To(<<"t1", 1>>, 0), To(<<"t2", 0>>, 0)>>}

Odd(key, min, max) == [key |-> key, min |-> min, max |-> max, state |-> "AFTER_PROCESSING"]

\* Rows that end with u64 and with i64 and one with no range. In the rows of the
\* other connector they are of an unexpected topic.
MCOddRows ==
    {Odd(<<"t1", 0>>, 0, MaxUnsigned), Odd(<<"t1", 0>>, 0, MaxSigned),
     Odd(<<"t1", 0>>, 1, 0)}

\* Of the sink and the catalog a recovery reads one backup, and both rest from its
\* request on: what else they hold makes no difference then.
View ==
    IF place = "none" THEN vars
    ELSE <<kafkaVars, recoveryVars, backups[request.backup]>>
=============================================================================
