------------------------------ MODULE MCDltUser ------------------------------
(* Scenarios of DltUser small enough to be explored completely.            *)
EXTENDS DltUser

CONSTANTS l1, l2

Case(start, exits, n1, n2, crash, ring) ==
    [start |-> start, lazy |-> FALSE, exits |-> exits,
     limit |-> (l1 :> n1 @@ l2 :> n2), crashes |-> crash, ring |-> ring]

(* an application that is being set up; one thread that logs until the     *)
(* buffer overflows; two threads that log; an application that exits       *)
MCScenarios == {Case("fresh", FALSE, 0, 0, 1, 2), Case("registered", FALSE, 2, 0, 1, 2),
                Case("registered", FALSE, 2, 1, 0, 1), Case("orphan", FALSE, 2, 0, 0, 2),
                Case("orphan", TRUE, 1, 0, 0, 1)}

(* smaller ones, for the liveness properties                               *)
MCLive == {Case("fresh", FALSE, 0, 0, 1, 1), Case("registered", FALSE, 2, 1, 0, 1),
           Case("registered", TRUE, 2, 0, 0, 1)}

(* two threads whose first call is dlt_init, as a library may make it      *)
MCLazy == {[Case("fresh", FALSE, 1, 1, 0, 1) EXCEPT !.lazy = TRUE]}
==============================================================================
