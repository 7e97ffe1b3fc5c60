---------------------------- MODULE RudpReceiver ----------------------------
(***************************************************************************)
(* The Receiver task of crates/protocol/src/receiver.rs, as far as the     *)
(* acknowledged state and the hand-over to the application go.             *)
(***************************************************************************)
EXTENDS Sack

VARIABLES
    payload,       \* the SackManager's bitmap
    delivered,     \* sequence numbers handed to the application (data_tx)
    fin_seen       \* run has returned after a FIN

receiverVars == << payload, delivered, fin_seen >>

ReceiverInit ==
    /\ payload = new_payload(0)
    /\ delivered = {}
    /\ fin_seen = FALSE

\* The DATA branch of process_datagram.  The payload is handed over whatever
\* the bitmap says: also when it is a duplicate or beyond the window.
process_data(seq) ==
    /\ ~ fin_seen
    /\ payload' = on_packet_received(payload, seq)
    /\ delivered' = delivered \cup {seq}
    /\ UNCHANGED fin_seen

\* The FIN branch: the loop ends, whatever the bitmap says.
process_fin ==
    /\ ~ fin_seen
    /\ fin_seen' = TRUE
    /\ UNCHANGED << payload, delivered >>
=============================================================================
