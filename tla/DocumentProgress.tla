-------------------------- MODULE DocumentProgress --------------------------
(***************************************************************************)
(* What becomes of a document inside MIDDLE EARTH, without the stream, the *)
(* worker or the retries.  It waits to be prepared, then has an outcome    *)
(* (a document whose expression is invalid has one at once), and then the  *)
(* outcome is reported.  Documents may be lost, several at a time, but a   *)
(* lost one does not come back and a reported one does not start again.    *)
(***************************************************************************)
CONSTANT Document

VARIABLE stage

Init == stage = [d \in Document |-> "absent"]

Moves(d, from, to) ==
    /\ stage[d] = from
    /\ stage' = [stage EXCEPT ![d] = to]

Record(d) == \E to \in {"waiting", "outcome"} : Moves(d, "absent", to)

Prepare(d) == Moves(d, "waiting", "outcome")

Report(d) == Moves(d, "outcome", "reported")

Lose(lost) ==
    /\ \A d \in lost : stage[d] \in {"waiting", "outcome"}
    /\ stage' = [d \in Document |-> IF d \in lost THEN "lost" ELSE stage[d]]

Next ==
    \/ \E d \in Document : Record(d) \/ Prepare(d) \/ Report(d)
    \/ \E lost \in SUBSET Document : Lose(lost)

ProgressSpec == Init /\ [][Next]_stage

=============================================================================
