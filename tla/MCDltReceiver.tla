--------------------------- MODULE MCDltReceiver ---------------------------
(* Two applications over app_recv_buffer.  One sends a message of a type   *)
(* without a handler, a registration with a description longer than the    *)
(* fixed part, of which four of five bytes are read, one that unregisters, *)
(* and a log message; the other one only the first of these.               *)
EXTENDS DltReceiver, TLC

CONSTANTS a, b

MCConn == {a, b}
MCStart == {0, 2, 10, 13, 16}
MCSize == 0 :> 2 @@ 2 :> 8 @@ 10 :> 3 @@ 13 :> 3 @@ 16 :> 2
MCKind == 0 :> "not_sup" @@ 2 :> "register" @@ 10 :> "unregister" @@ 13 :> "log"
          @@ 16 :> "log"
MCSends == a :> 16 @@ b :> 2
==============================================================================
