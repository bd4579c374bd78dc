------------------------- MODULE MCSearchMaintenance -------------------------
(* Three of the six targets of the program, on its two tables, in its      *)
(* order.                                                                  *)
EXTENDS SearchMaintenance

MCOrder == <<"memory_vector", "memory", "thread">>

MCTableOf ==
    [t \in {"memory_vector", "memory", "thread"} |->
       IF t = "thread" THEN "thread" ELSE "memory"]

MCAsked == {{"compact"}}

=============================================================================
