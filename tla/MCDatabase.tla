------------------------------ MODULE MCDatabase ------------------------------
(* The TLC instance of Database and Query, with the comments of two         *)
(* articles: a behaviour has transactions of two threads, or a reader and   *)
(* the transactions of one.                                                 *)
EXTENDS Query

CONSTANT Second   \* the thread that rests while there is a reader

VARIABLE reading

Comments == {[article |-> 1, views |-> 1], [article |-> 2, views |-> 0]}

By(column, descending) == [column |-> column, descending |-> descending]
Popular == <<[column |-> "views", op |-> "Gte", value |-> 1]>>
PagedQueries == {Q(<<>>, By("id", FALSE)), Q(Popular, None), has_many("article", 2), Q(<<>>, By("views", TRUE))}

MCInit == QueryInit /\ reading \in BOOLEAN

MCNext ==
  \/ ~reading /\ Next /\ UNCHANGED <<walk, reading>>
  \/ reading /\ QueryNext /\ pc'[Second] = "out" /\ UNCHANGED reading

MCSpec == MCInit /\ [][MCNext]_<<vars, walk, reading>>
===============================================================================
