-------------------------------- MODULE Sack --------------------------------
(***************************************************************************)
(* The selective-acknowledgement payload of crates/protocol/src/sack.rs at *)
(* the level of sets: `bits' holds the offsets k for which base_seq + k    *)
(* was received.  SackBits is the word-and-shift version of the same       *)
(* structure and is shown to implement this one.                           *)
(* Sequence numbers are u64 in the code and Nat here: a session would need *)
(* 2^64 datagrams to tell the two apart.                                   *)
(***************************************************************************)
EXTENDS Integers

CONSTANT SACK_WINDOW     \* 16 words of 64 bits in the code

ASSUME SackWindowAssumption == SACK_WINDOW \in Nat \ {0}

Offsets == 0 .. (SACK_WINDOW - 1)

SackPayload == [base_seq : Nat, bits : SUBSET Offsets]

new_payload(initial_seq) == [base_seq |-> initial_seq, bits |-> {}]

\* Below the base everything is implicitly acknowledged; beyond the window
\* nothing is known to have been received.
is_received(p, seq) ==
    \/ seq < p.base_seq
    \/ /\ seq - p.base_seq < SACK_WINDOW
       /\ seq - p.base_seq \in p.bits

\* Faulty variant: the bits are assigned where the new one should be added.
mark_received_assigns(p, seq) ==
    IF seq < p.base_seq \/ seq - p.base_seq >= SACK_WINDOW
    THEN p
    ELSE [p EXCEPT !.bits = {seq - p.base_seq}]

mark_received(p, seq) ==
    IF seq < p.base_seq \/ seq - p.base_seq >= SACK_WINDOW
    THEN p
    ELSE [p EXCEPT !.bits = @ \cup {seq - p.base_seq}]

\* Faulty variant: the base moves and the bits are not shifted with it.
advance_base_no_shift(p, new_base) ==
    IF new_base <= p.base_seq THEN p ELSE [p EXCEPT !.base_seq = new_base]

advance_base(p, new_base) ==
    IF new_base <= p.base_seq
    THEN p
    ELSE LET shift == new_base - p.base_seq
         IN  [base_seq |-> new_base,
              bits     |-> {k \in Offsets : k + shift \in p.bits}]

\* The sequence number at which the contiguous received prefix ends.
IsFirstGap(p, n) ==
    /\ ~ is_received(p, n)
    /\ \A m \in p.base_seq .. (n - 1) : is_received(p, m)

first_gap(p) ==
    CHOOSE n \in p.base_seq .. (p.base_seq + SACK_WINDOW) : IsFirstGap(p, n)

\* Faulty variant: the base follows the arrival instead of the first gap.
on_packet_received_cumulative(p, seq) == advance_base(mark_received(p, seq), seq + 1)

\* Mark the arrival and slide the base over the contiguous prefix.
on_packet_received(p, seq) ==
    LET marked == mark_received(p, seq)
    IN  advance_base(marked, first_gap(marked))

missing_seqs(p) == {p.base_seq + k : k \in Offsets \ p.bits}
=============================================================================
