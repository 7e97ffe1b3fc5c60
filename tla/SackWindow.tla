----------------------------- MODULE SackWindow -----------------------------
(***************************************************************************)
(* The receive window as a state machine over the set-level payload of     *)
(* Sack: arrivals in any order.                                            *)
(***************************************************************************)
EXTENDS Sack

CONSTANT MaxSeq          \* bound: sequence numbers that arrive are below it

VARIABLE window

WInit == window = new_payload(0)

Arrive(seq) == window' = on_packet_received(window, seq)

WNext == \E seq \in 0 .. (MaxSeq - 1) : Arrive(seq)

WSpec == WInit /\ [][WNext]_window
=============================================================================
