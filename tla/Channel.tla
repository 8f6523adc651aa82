-------------------------------- MODULE Channel --------------------------------
(***************************************************************************)
(* What a serial direction promises: the packets that come out are packets *)
(* that went in, whole, in order and at most once.  Any of them may be     *)
(* missing.                                                                *)
(***************************************************************************)
EXTENDS Naturals

VARIABLES sent,  \* packets 1 .. sent went in
          last,  \* the latest that came out, 0 for none
          turn   \* flips with each packet that comes out, so that one that
                 \* comes out twice shows

vars == <<sent, last, turn>>

Init == sent = 0 /\ last = 0 /\ turn = FALSE

Send == sent' = sent + 1 /\ UNCHANGED <<last, turn>>

Deliver ==
  \E n \in (last + 1) .. sent : last' = n /\ turn' = ~turn /\ UNCHANGED sent

Next == Send \/ Deliver

Spec == Init /\ [][Next]_vars
=============================================================================
