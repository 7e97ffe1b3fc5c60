-------------------------- MODULE ReliableTransfer --------------------------
(***************************************************************************)
(* What a session promises to the applications at its two ends: datagrams  *)
(* accepted at one end are handed over at the other, in any order and      *)
(* perhaps more than once; nothing else is handed over; and the sending    *)
(* side closes only when everything it accepted was handed over.  The      *)
(* receiving side may be ended at any time, and then takes nothing more,   *)
(* so that what is missing at that time keeps the sending side open.       *)
(***************************************************************************)
EXTENDS Integers

CONSTANT MaxSeq

VARIABLES
    accepted,      \* how many datagrams the sending side has accepted
    handed,        \* those handed over at the receiving side
    closed,        \* the sending side is done
    ended          \* the receiving side is done

abstractVars == << accepted, handed, closed, ended >>

Everything == 0 .. (accepted - 1)

AInit ==
    /\ accepted = 0
    /\ handed = {}
    /\ closed = FALSE
    /\ ended = FALSE

Accept ==
    /\ ~ closed
    /\ accepted' \in accepted .. MaxSeq
    /\ UNCHANGED << handed, closed, ended >>

HandOver ==
    /\ ~ ended
    /\ \E s \in Everything : handed' = handed \cup {s}
    /\ UNCHANGED << accepted, closed, ended >>

Close ==
    /\ ~ closed
    /\ Everything \subseteq handed
    /\ closed' = TRUE
    /\ UNCHANGED << accepted, handed, ended >>

End ==
    /\ ~ ended
    /\ ended' = TRUE
    /\ UNCHANGED << accepted, handed, closed >>

ANext == Accept \/ HandOver \/ Close \/ End

ASpec == AInit /\ [][ANext]_abstractVars
=============================================================================
