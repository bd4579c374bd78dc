----------------------------- MODULE Replacement -----------------------------
(***************************************************************************)
(* What a procedure that exchanges a whole data set in place promises: a    *)
(* reader of the data set meets the old content, the new content, or - and *)
(* only between the two - an exchange in progress; the exchange is         *)
(* reported as settled only when the new content is whole, and nothing     *)
(* changes after that.                                                     *)
(*                                                                         *)
(* ThreadTimes is shown to implement it.                                   *)
(***************************************************************************)
VARIABLES
    content,   \* "old", "partial" or "new"
    settled    \* whether the exchange has been reported as finished

vars == <<content, settled>>

\* An earlier tool may have left the data set in any of the three.
Init == content \in {"old", "partial", "new"} /\ settled = FALSE

Begin == ~settled /\ content' = "partial" /\ UNCHANGED settled

Finish ==
    /\ ~settled /\ content = "partial"
    /\ content' = "new" /\ UNCHANGED settled

Settle == content = "new" /\ settled' = TRUE /\ UNCHANGED content

Next == Begin \/ Finish \/ Settle

Spec == Init /\ [][Next]_vars

=============================================================================
