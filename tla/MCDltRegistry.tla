--------------------------- MODULE MCDltRegistry ---------------------------
(* Scenarios of DltRegistry: one or two processes, one or two context ids, *)
(* four descriptors above the standard ones, a few levels.                 *)
EXTENDS DltRegistry

MCDefault == [ll |-> 4, ts |-> 0]

Unset == [ll |-> -2, ts |-> -2]
TooHigh == [ll |-> {7}, ts |-> {}]
Few == [ll |-> {5, 255}, ts |-> {1}]

(* Processes with one context each. *)
Two(opts, appOf, n) ==
    [options |-> opts, appOf |-> appOf, ctids |-> {1}, offers |-> {Unset}, requests |-> TooHigh,
     slots |-> 1, restarts |-> n]

(* One process with two contexts, and requests of clients. *)
Alone(opts) ==
    [options |-> opts, appOf |-> <<1>>, ctids |-> {1, 2},
     offers |-> {Unset, [ll |-> 5, ts |-> -2]}, requests |-> Few, slots |-> 2, restarts |-> 1]

(* Two applications, or one that restarts. *)
MCScenarios ==
    {Two({"injection"}, <<1, 2>>, 1), Two({"reinits"}, <<1, 2>>, 0)}
    \cup {Two({"clients", o}, appOf, 0) : o \in {"files", "fills", "sockets"},
                                         appOf \in {<<1, 2>>, <<1, 1>>}}
    \cup {Alone({"requests"}), Alone({"requests", "enforce"})}

(* Log files that the daemon opens while applications use sockets. *)
MCSocketsAndFiles == {Two({"sockets", "files"}, <<1, 2>>, 0)}
=============================================================================
