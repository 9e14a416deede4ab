--------------------------- MODULE OrderedChannel ---------------------------
(***************************************************************************)
(* What AsyncTCPXMLClient::WriteTextToSocket promises its callers: every   *)
(* text it accepts reaches the socket once, in the order the texts were    *)
(* accepted, for as long as the channel works.  Texts are numbered by the  *)
(* order in which they are accepted.                                       *)
(***************************************************************************)
EXTENDS Naturals, Sequences

VARIABLES accepted,   \* how many texts were accepted
          delivered,  \* their numbers, in the order they reached the socket
          broken      \* the channel no longer promises to deliver

vars == <<accepted, delivered, broken>>

Init == /\ accepted = 0
        /\ delivered = <<>>
        /\ broken = FALSE

Accept == /\ accepted' = accepted + 1
          /\ UNCHANGED <<delivered, broken>>

(* The next text, and no other; a broken channel may still deliver. *)
Deliver == /\ Len(delivered) < accepted
           /\ delivered' = Append(delivered, Len(delivered) + 1)
           /\ UNCHANGED <<accepted, broken>>

Break == /\ ~broken
         /\ broken' = TRUE
         /\ UNCHANGED <<accepted, delivered>>

Next == Accept \/ Deliver \/ Break

SafeSpec == Init /\ [][Next]_vars

Spec == SafeSpec /\ WF_vars(~broken /\ Deliver)
=============================================================================
