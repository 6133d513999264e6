---------------------------- MODULE MCDltBuffer ----------------------------
(* Small rings for DltBuffer: byte sizes shrunk so that a few messages     *)
(* wrap, fill, grow and shrink the ring.                                   *)
EXTENDS DltBuffer, TLC

CONSTANTS m1, m2

MCMsg == {m1, m2}

(* m1: two one-byte parts; m2: a single part of one byte, the others empty *)
MCParts == m1 :> <<1, 1, 0>> @@ m2 :> <<0, 1, 0>>

(* a message larger than the smallest ring                                 *)
MCLargeParts == m1 :> <<2, 2, 1>> @@ m2 :> <<0, 1, 0>>
==============================================================================
