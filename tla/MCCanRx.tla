------------------------------- MODULE MCCanRx -------------------------------
(***************************************************************************)
(* Small instances of CanRx: two status replies, so that frames of one can *)
(* be mixed with frames of the other, one reply of the longest kind, a     *)
(* short confirmation and the answer to a link request.                    *)
(***************************************************************************)
EXTENDS CanRx

CONSTANTS s1, s2, v1, c1, l1

MCFunc   == [m \in Reply |-> CASE m = v1 -> "SEEKVALUE"
                               [] m = c1 -> "CONFIG"
                               [] m = l1 -> "LINK"
                               [] OTHER  -> "SEEKSTAT"]
MCFrames == [m \in Reply |-> CASE m = v1 -> 6
                               [] m = c1 -> 2
                               [] m = l1 -> 3
                               [] OTHER  -> 5]
=============================================================================
