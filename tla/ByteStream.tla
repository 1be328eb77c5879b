----------------------------- MODULE ByteStream -----------------------------
(***************************************************************************)
(* What a forwarding mode promises about one direction of a connection,    *)
(* whatever it reads, holds back or rewrites to get there: the bytes that  *)
(* have been delivered are the beginning of the promised ones, in order    *)
(* and without gap or repetition, until the connection breaks.             *)
(***************************************************************************)
EXTENDS Integers, Sequences

VARIABLES promised, delivered, up

(* What has been delivered grows along the promised bytes.                 *)
Grow ==
    /\ Len(delivered) <= Len(delivered')
    /\ Len(delivered') <= Len(promised)
    /\ delivered' = SubSeq(promised, 1, Len(delivered'))

Init == delivered = <<>> /\ up = TRUE

Deliver ==
    /\ up
    /\ Grow
    /\ UNCHANGED <<promised, up>>

(* A write that fails may have delivered a part of what it was given.      *)
Break ==
    /\ up
    /\ up' = FALSE
    /\ Grow
    /\ UNCHANGED promised

Spec == Init /\ [][Deliver \/ Break]_<<promised, delivered, up>>
=============================================================================
