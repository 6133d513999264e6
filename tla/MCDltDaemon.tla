---------------------------- MODULE MCDltDaemon ----------------------------
(* Instances of DltDaemon with a small ring buffer: one client after the   *)
(* other, with all that applications and timers do; and several clients at *)
(* the same time, with log messages only.                                  *)
EXTENDS DltDaemon

CONSTANTS c1, c2, c3, app

VARIABLE scenario   \* which of the two, fixed at the start

MCClients == {c1, c2, c3}

MCInit == Init /\ scenario \in {"alone", "several"}

(* The bounds of the scenario. *)
MCNext ==
    /\ Next /\ UNCHANGED scenario
    /\ scenario = "alone" => connected' \subseteq {c1, c2} /\ Len(clients') <= 1
    /\ scenario = "several" =>
          userLost' = 0 /\ sixty' = 0 /\ appsGone' = 0 /\ ~timingpackets'

MCSpec == MCInit /\ [][MCNext]_<<vars, scenario>> /\ Fairness

(* What was dropped is counted and the count is told to a client; and,     *)
(* while clients come one after the other, a log message reaches one of    *)
(* them, waits in the ring buffer or was dropped and counted, and one that *)
(* was sent does not wait to be sent again.  With two clients a message is *)
(* lost when the first one fails (README, Findings).                       *)
LossesAreKnown ==
    LossesAreCounted /\ (scenario = "alone" => NothingLost /\ SentIsNotStored)
==============================================================================
