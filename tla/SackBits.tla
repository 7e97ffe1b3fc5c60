------------------------------ MODULE SackBits ------------------------------
(***************************************************************************)
(* The SackPayload of crates/protocol/src/sack.rs as it is stored: an      *)
(* array of machine words, a count of the words in use, shifts with a      *)
(* carry from word to word, and the serialised form.  A word is the set of *)
(* the positions of its bits that are 1: zero is {}, `|' is union, and a   *)
(* shift moves the positions and loses those that leave the word.          *)
(* SackManager is the state machine over these operators.                  *)
(***************************************************************************)
EXTENDS Integers, Sequences

CONSTANTS
    SACK_WORDS,    \* 16 in the code
    WORD_BITS,     \* 64 in the code
    MaxSeq         \* bound: sequence numbers that arrive are below it

ASSUME BitsAssumption == /\ SACK_WORDS \in Nat \ {0}
                         /\ WORD_BITS \in Nat \ {0}
                         /\ MaxSeq \in Nat

SACK_WINDOW == SACK_WORDS * WORD_BITS
WordIdx == 0 .. (SACK_WORDS - 1)
BitIdx == 0 .. (WORD_BITS - 1)
Word == SUBSET BitIdx

Payload == [base_seq   : 0 .. (MaxSeq + SACK_WINDOW),
            word_count : 0 .. SACK_WORDS,
            words      : [WordIdx -> Word]]

default == [base_seq |-> 0, word_count |-> 0, words |-> [i \in WordIdx |-> {}]]

\* (w >> k) & 1 == 1
Bit(w, k) == k \in w

\* w | 1 << k
SetBit(w, k) == w \cup {k}

\* w >> n and w << n
ShiftRight(w, n) == {k \in BitIdx : k + n \in w}
ShiftLeft(w, n) == {k \in BitIdx : k - n \in w}

is_received(p, seq) ==
    \/ seq < p.base_seq
    \/ LET offset == seq - p.base_seq
       IN  /\ offset < SACK_WINDOW
           /\ Bit(p.words[offset \div WORD_BITS], offset % WORD_BITS)

\* Faulty variant: word_count does not follow the highest word in use.
mark_received_no_count(p, seq) ==
    LET offset == seq - p.base_seq
    IN  IF seq < p.base_seq \/ offset >= SACK_WINDOW
        THEN p
        ELSE [p EXCEPT !.words[offset \div WORD_BITS] = SetBit(@, offset % WORD_BITS)]

mark_received(p, seq) ==
    LET offset == seq - p.base_seq
        i      == offset \div WORD_BITS
    IN  IF seq < p.base_seq \/ offset >= SACK_WINDOW
        THEN p
        ELSE [p EXCEPT !.words[i]   = SetBit(@, offset % WORD_BITS),
                       !.word_count = IF i + 1 > @ THEN i + 1 ELSE @]

\* copy_within: whole words move down, zeros come in from above.
shift_words(words, n) ==
    [i \in WordIdx |-> IF i + n < SACK_WORDS THEN words[i + n] ELSE {}]

\* Faulty variant: the bits that leave a word downwards are lost.
shift_bits_no_carry(words, n) == [i \in WordIdx |-> ShiftRight(words[i], n)]

\* The carry loop, which runs from the highest word down: each word takes the
\* n lowest bits of the word above it, and loses its own n lowest bits.
shift_bits(words, n) ==
    LET carry(i) == IF i + 1 < SACK_WORDS
                    THEN ShiftLeft(words[i + 1], WORD_BITS - n)
                    ELSE {}
    IN  IF n = 0
        THEN words
        ELSE [i \in WordIdx |-> ShiftRight(words[i], n) \cup carry(i)]

\* The trailing loop that drops zero words from the count.
trim(words) ==
    CHOOSE c \in 0 .. SACK_WORDS :
        /\ c > 0 => words[c - 1] # {}
        /\ \A i \in WordIdx : i >= c => words[i] = {}

advance_base(p, new_base) ==
    LET shift == new_base - p.base_seq
        moved == shift_bits(shift_words(p.words, shift \div WORD_BITS),
                            shift % WORD_BITS)
    IN  IF new_base <= p.base_seq
        THEN p
        ELSE IF shift >= SACK_WINDOW
             THEN [default EXCEPT !.base_seq = new_base]
             ELSE [base_seq |-> new_base, word_count |-> trim(moved), words |-> moved]

\* Faulty variant: the base moves by one at the most.
record_arrival_once(p, seq) ==
    LET marked == mark_received(p, seq)
    IN  IF is_received(marked, marked.base_seq)
        THEN advance_base(marked, marked.base_seq + 1)
        ELSE marked

\* The bitmap half of SackManager::on_packet_received: mark the arrival, then
\* slide the base over the contiguous prefix.
record_arrival(p, seq) ==
    LET marked == mark_received(p, seq)
        gap(n) == /\ ~ is_received(marked, n)
                  /\ \A m \in marked.base_seq .. (n - 1) : is_received(marked, m)
    IN  advance_base(marked,
                     CHOOSE n \in marked.base_seq .. (marked.base_seq + SACK_WINDOW) :
                        gap(n))

missing_seqs(p) ==
    {p.base_seq + k : k \in {k \in 0 .. (SACK_WINDOW - 1) :
        ~ Bit(p.words[k \div WORD_BITS], k % WORD_BITS)}}

\* One element for base_seq, one for word_count and one for each word in use.
serialise(p) ==
    << p.base_seq, p.word_count >> \o [i \in 1 .. p.word_count |-> p.words[i - 1]]

\* None is the empty set, Some(x) the set {x}.  For what serialise produces and
\* its truncations: a count of words beyond the array, which they never hold,
\* would index out of bounds and panic.
deserialise(data) ==
    IF Len(data) < 2 \/ Len(data) < 2 + data[2]
    THEN {}
    ELSE {[base_seq   |-> data[1],
           word_count |-> data[2],
           words      |-> [i \in WordIdx |-> IF i < data[2] THEN data[i + 3] ELSE {}]]}

-----------------------------------------------------------------------------
\* The set-level view of a stored payload.
AsSet(p) == [base_seq |-> p.base_seq,
             bits     |-> {k \in 0 .. (SACK_WINDOW - 1) :
                             Bit(p.words[k \div WORD_BITS], k % WORD_BITS)}]
=============================================================================
