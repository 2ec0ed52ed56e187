--------------------------- MODULE ReportPromise ---------------------------
(***************************************************************************)
(* What the owner of a report may rely on, without processes, copies or    *)
(* crashes.  A report is stored, its content arrives or is given up, and   *)
(* after that it only loses: it leaves the list, its content leaves the    *)
(* database, and neither comes back.                                       *)
(***************************************************************************)
CONSTANT Report

VARIABLES
    stage,   \* stage[i]: where the content of report i is
    listed   \* the reports on their owners' lists

Stage == {"absent", "arriving", "available", "gone"}

PromiseTypeOK ==
    /\ stage \in [Report -> Stage]
    /\ listed \subseteq Report

Init ==
    /\ stage = [i \in Report |-> "absent"]
    /\ listed = {}

Store(i) ==
    /\ stage[i] = "absent"
    /\ stage' = [stage EXCEPT ![i] = "arriving"]
    /\ listed' = listed \cup {i}

Attach(i) ==
    /\ stage[i] = "arriving"
    /\ stage' = [stage EXCEPT ![i] = "available"]
    /\ UNCHANGED listed

\* A crash gives up every content that was arriving.
GiveUp(lost) ==
    /\ \A i \in lost : stage[i] = "arriving"
    /\ stage' = [i \in Report |-> IF i \in lost THEN "gone" ELSE stage[i]]
    /\ UNCHANGED listed

Withdraw(i) ==
    /\ stage[i] = "available"
    /\ stage' = [stage EXCEPT ![i] = "gone"]
    /\ UNCHANGED listed

\* A report whose content is still arriving is never taken off the list.
Hide(i) ==
    /\ stage[i] \in {"available", "gone"}
    /\ listed' = listed \ {i}
    /\ UNCHANGED stage

Next ==
    \/ \E i \in Report : Store(i) \/ Attach(i) \/ Withdraw(i) \/ Hide(i)
    \/ \E lost \in SUBSET Report : GiveUp(lost)

PromiseSpec == Init /\ [][Next]_<<stage, listed>>

=============================================================================
