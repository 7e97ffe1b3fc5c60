------------------------- MODULE SackManager_proofs -------------------------
(***************************************************************************)
(* Proofs about SackManager, for every number and width of words and every *)
(* sequence of arrivals and heartbeats: the array of words implements the  *)
(* set-level window, survives serialisation, and the loss accounting       *)
(* counts each slot once.                                                  *)
(***************************************************************************)
EXTENDS SackManager, NaturalsInduction, WellFoundedInduction, TLAPS

Offsets == 0 .. (SACK_WINDOW - 1)

Stored == [base_seq : Nat, word_count : 0 .. SACK_WORDS, words : [WordIdx -> Word]]

\* c words are in use: the last of them is not zero, and all beyond are.
InUse(words, c) ==
    /\ c > 0 => words[c - 1] # {}
    /\ \A i \in WordIdx : i >= c => words[i] = {}

WellStored(p) == p \in Stored /\ InUse(p.words, p.word_count)

\* The word and the bit for offset k.
WordOf(k) == k \div WORD_BITS
BitOf(k) == k % WORD_BITS
Has(words, k) == BitOf(k) \in words[WordOf(k)]

CountersOK ==
    /\ packets \in Nat /\ expected \in Nat /\ next_expected \in Nat /\ accounted \in Nat
    /\ loss_ema \in Nat /\ ticks \in Nat

NothingBeyond == \A s \in Nat : is_received(payload, s) => s < next_expected

\* The interval is the one for the current estimate.
IntervalFits == interval = interval_for(loss_ema)

SackInv ==
    /\ WellStored(payload)
    /\ CountersOK
    /\ accounted + expected = next_expected
    /\ NothingBeyond
    /\ IntervalFits

-----------------------------------------------------------------------------
(* Words and offsets.                                                      *)

\* An offset is a word and a bit, in one way.
LEMMA Places ==
    ASSUME NEW q \in Int, NEW r \in BitIdx
    PROVE  WordOf(q * WORD_BITS + r) = q /\ BitOf(q * WORD_BITS + r) = r
  BY BitsAssumption DEF BitIdx, WordOf, BitOf

LEMMA PlaceOf ==
    ASSUME NEW k \in Nat
    PROVE  /\ WordOf(k) \in Nat
           /\ BitOf(k) \in BitIdx
           /\ k = WordOf(k) * WORD_BITS + BitOf(k)
<1>0. WORD_BITS \in Nat \ {0}
  BY BitsAssumption
<1>1. WordOf(k) \in Nat
  BY <1>0, Z3 DEF WordOf
<1>2. BitOf(k) \in BitIdx
  BY <1>0 DEF BitOf, BitIdx
<1>3. BitOf(k) = k - WordOf(k) * WORD_BITS
  BY <1>0 DEF BitOf, WordOf
<1>4. WordOf(k) * WORD_BITS \in Int
  BY <1>0, <1>1
<1>. QED
  BY <1>1, <1>2, <1>3, <1>4

\* The offsets of the window are the bits of its words.
LEMMA InWindow ==
    ASSUME NEW q \in Nat, NEW r \in BitIdx
    PROVE  q * WORD_BITS + r < SACK_WINDOW <=> q < SACK_WORDS
  BY BitsAssumption DEF BitIdx, SACK_WINDOW

LEMMA WindowType == SACK_WINDOW \in Nat \ {0}
  BY BitsAssumption DEF SACK_WINDOW

\* Moving an offset up by another one moves the bit within its word, or into
\* the next one.
LEMMA PlaceOfSum ==
    ASSUME NEW k \in Nat, NEW n \in Nat
    PROVE  /\ WordOf(k + n) = IF BitOf(k) + BitOf(n) < WORD_BITS
                               THEN WordOf(k) + WordOf(n)
                               ELSE WordOf(k) + WordOf(n) + 1
           /\ BitOf(k + n) = IF BitOf(k) + BitOf(n) < WORD_BITS
                              THEN BitOf(k) + BitOf(n)
                              ELSE BitOf(k) + BitOf(n) - WORD_BITS
<1>. DEFINE W == WORD_BITS
            a == WordOf(k)
            b == BitOf(k)
            c == WordOf(n)
            d == BitOf(n)
<1>1. a \in Nat /\ b \in BitIdx /\ k = a * W + b
  BY PlaceOf
<1>2. c \in Nat /\ d \in BitIdx /\ n = c * W + d
  BY PlaceOf
<1>3. W \in Nat \ {0} /\ b \in 0 .. (W - 1) /\ d \in 0 .. (W - 1)
  BY <1>1, <1>2, BitsAssumption DEF BitIdx
<1>. HIDE DEF a, b, c, d
<1>4. k + n = (a + c) * W + (b + d)
  BY <1>1, <1>2, <1>3
<1>5. k + n = (a + c + 1) * W + (b + d - W)
  BY <1>1, <1>2, <1>3
<1>6. CASE b + d < W
  <2>1. b + d \in BitIdx /\ a + c \in Int
    BY <1>1, <1>2, <1>3, <1>6 DEF BitIdx
  <2>2. WordOf(k + n) = a + c /\ BitOf(k + n) = b + d
    BY <2>1, <1>4, Places
  <2>. QED
    BY <2>2, <1>6 DEF a, b, c, d
<1>7. CASE ~ (b + d < W)
  <2>1. b + d - W \in BitIdx /\ a + c + 1 \in Int
    BY <1>1, <1>2, <1>3, <1>7 DEF BitIdx
  <2>2. WordOf(k + n) = a + c + 1 /\ BitOf(k + n) = b + d - W
    BY <2>1, <1>5, Places
  <2>. QED
    BY <2>2, <1>7, <1>1, <1>2, <1>3 DEF a, b, c, d
<1>. QED
  BY <1>6, <1>7

\* A number is an offset of the window if its word is one of the array.
LEMMA OffsetWord ==
    ASSUME NEW k \in Nat
    PROVE  k < SACK_WINDOW <=> WordOf(k) \in WordIdx
<1>1. WordOf(k) \in Nat /\ BitOf(k) \in BitIdx /\ k = WordOf(k) * WORD_BITS + BitOf(k)
  BY PlaceOf
<1>2. k < SACK_WINDOW <=> WordOf(k) < SACK_WORDS
  BY <1>1, InWindow
<1>. QED
  BY <1>1, <1>2, BitsAssumption DEF WordIdx

\* Word shift, bit shift and carry move each bit down by the shift.
LEMMA ShiftMoves ==
    ASSUME NEW words \in [WordIdx -> Word], NEW n \in Nat, NEW k \in Offsets
    PROVE  LET moved == shift_bits(shift_words(words, WordOf(n)), BitOf(n))
           IN  /\ moved \in [WordIdx -> Word]
               /\ Has(moved, k) <=> k + n < SACK_WINDOW /\ Has(words, k + n)
<1>. DEFINE W == WORD_BITS
            q == WordOf(k)
            r == BitOf(k)
            Q == WordOf(n)
            R == BitOf(n)
            sw == shift_words(words, Q)
            moved == shift_bits(sw, R)
<1>0. W \in Nat \ {0} /\ SACK_WORDS \in Nat \ {0} /\ k \in Nat
  BY BitsAssumption, WindowType DEF Offsets
<1>1. q \in Nat /\ r \in BitIdx /\ Q \in Nat /\ R \in BitIdx
  BY <1>0, PlaceOf
<1>2. q \in WordIdx
  <2>1. k < SACK_WINDOW
    BY WindowType DEF Offsets
  <2>. QED
    BY <2>1, <1>0, OffsetWord, Zenon
<1>3. BitIdx = 0 .. (W - 1) /\ WordIdx = 0 .. (SACK_WORDS - 1)
  BY DEF BitIdx, WordIdx
<1>4. WordOf(k + n) = IF r + R < W THEN q + Q ELSE q + Q + 1
  BY <1>0, PlaceOfSum
<1>5. BitOf(k + n) = IF r + R < W THEN r + R ELSE r + R - W
  BY <1>0, PlaceOfSum, Zenon
<1>6. k + n < SACK_WINDOW <=> WordOf(k + n) \in WordIdx
  BY <1>0, OffsetWord
<1>7. sw = [i \in WordIdx |-> IF i + Q < SACK_WORDS THEN words[i + Q] ELSE {}]
  BY DEF shift_words
<1>8. moved = IF R = 0 THEN sw
              ELSE [i \in WordIdx |-> ShiftRight(sw[i], R) \cup
                      (IF i + 1 < SACK_WORDS THEN ShiftLeft(sw[i + 1], W - R) ELSE {})]
  BY Zenon DEF shift_bits
<1>9. sw \in [WordIdx -> Word]
  <2>1. \A i \in WordIdx : i + Q < SACK_WORDS => i + Q \in WordIdx
    BY <1>1, <1>3, <1>0
  <2>. QED
    BY <2>1, <1>7 DEF Word
<1>. HIDE DEF W, q, r, Q, R, sw, moved
<1>10. moved \in [WordIdx -> Word]
  <2>1. \A w, m : ShiftRight(w, m) \in Word /\ ShiftLeft(w, m) \in Word /\ {} \in Word
    BY DEF ShiftRight, ShiftLeft, Word
  <2>2. \A w, m, x : x \in Word => ShiftRight(w, m) \cup x \in Word
    BY <2>1 DEF Word
  <2>. QED
    BY <2>1, <2>2, <1>8, <1>9, Zenon
<1>11. r \in moved[q] <=> WordOf(k + n) \in WordIdx /\ BitOf(k + n) \in words[WordOf(k + n)]
  <2>1. CASE R = 0
    <3>1. moved[q] = IF q + Q < SACK_WORDS THEN words[q + Q] ELSE {}
      BY <2>1, <1>2, <1>7, <1>8
    <3>2. WordOf(k + n) = q + Q /\ BitOf(k + n) = r
      BY <2>1, <1>0, <1>1, <1>3, <1>4, <1>5
    <3>. QED
      BY <3>1, <3>2, <1>0, <1>1, <1>3
  <2>2. CASE R # 0
    <3>1. moved[q] = ShiftRight(sw[q], R) \cup
                     (IF q + 1 < SACK_WORDS THEN ShiftLeft(sw[q + 1], W - R) ELSE {})
      BY <2>2, <1>2, <1>8
    <3>2. r \in moved[q] <=> \/ r + R \in sw[q]
                             \/ q + 1 < SACK_WORDS /\ r - (W - R) \in sw[q + 1]
      BY <3>1, <1>1 DEF ShiftRight, ShiftLeft
    <3>3. sw[q] \subseteq BitIdx /\ (q + 1 < SACK_WORDS => sw[q + 1] \subseteq BitIdx)
      BY <1>9, <1>2, <1>3, <1>0, <1>1 DEF Word
    <3>4. CASE r + R < W
      <4>1. r - (W - R) \notin BitIdx
        BY <3>4, <1>0, <1>1, <1>3
      <4>2. r \in moved[q] <=> r + R \in sw[q]
        BY <3>2, <3>3, <4>1
      <4>. QED
        BY <4>2, <3>4, <1>0, <1>1, <1>2, <1>3, <1>4, <1>5, <1>7
    <3>5. CASE r + R >= W
      <4>1. r + R \notin BitIdx /\ r - (W - R) = r + R - W
        BY <3>5, <1>0, <1>1, <1>3
      <4>2. r \in moved[q] <=> q + 1 < SACK_WORDS /\ r + R - W \in sw[q + 1]
        BY <3>2, <3>3, <4>1
      <4>3. WordOf(k + n) = q + Q + 1 /\ BitOf(k + n) = r + R - W
        BY <3>5, <1>0, <1>1, <1>3, <1>4, <1>5
      <4>4. q + 1 < SACK_WORDS => sw[q + 1] = IF q + 1 + Q < SACK_WORDS THEN words[q + 1 + Q] ELSE {}
        BY <1>0, <1>1, <1>3, <1>7
      <4>5. q + 1 + Q = q + Q + 1 /\ q + Q + 1 \in Nat /\ (q + Q + 1 < SACK_WORDS => q + 1 < SACK_WORDS)
        BY <1>0, <1>1
      <4>. QED
        BY <4>2, <4>3, <4>4, <4>5, <1>0, <1>3
    <3>. QED
      BY <3>4, <3>5, <1>0, <1>1, <1>3
  <2>. QED
    BY <2>1, <2>2
<1>. QED
  BY <1>10, <1>11, <1>6 DEF Has, W, q, r, Q, R, sw, moved

\* The loop that trims the count ends with the number of words in use.
LEMMA TrimCounts ==
    ASSUME NEW words \in [WordIdx -> Word]
    PROVE  trim(words) \in 0 .. SACK_WORDS /\ InUse(words, trim(words))
<1>. DEFINE G == {c \in Nat : \A i \in WordIdx : i >= c => words[i] = {}}
<1>0. SACK_WORDS \in Nat \ {0} /\ WordIdx = 0 .. (SACK_WORDS - 1)
  BY BitsAssumption DEF WordIdx
<1>1. SACK_WORDS \in G
  BY <1>0
<1>2. PICK c \in G : \A d \in G : << d, c >> \notin OpToRel(<, Nat)
  BY <1>1, WFMin, NatLessThanWellFounded, Zenon
<1>3. \A d \in G : ~ (d < c)
  BY <1>2, Zenon DEF OpToRel
<1>4. c \in 0 .. SACK_WORDS
  BY <1>0, <1>1, <1>3
<1>5. c > 0 => words[c - 1] # {}
  <2>. SUFFICES ASSUME c > 0, words[c - 1] = {} PROVE FALSE
    OBVIOUS
  <2>1. \A i \in WordIdx : i >= c - 1 => words[i] = {}
    BY <1>0, <1>4
  <2>2. c - 1 \in G
    BY <2>1, <1>4
  <2>. QED
    BY <2>2, <1>3, <1>4
<1>6. InUse(words, c)
  BY <1>5 DEF InUse
<1>. QED
  BY <1>4, <1>6 DEF trim, InUse
-----------------------------------------------------------------------------
(* The operations of the bitmap, on words and on sets.                     *)

LEMMA AsSetIs ==
    ASSUME NEW p
    PROVE  AsSet(p) = [base_seq |-> p.base_seq, bits |-> {k \in Offsets : Has(p.words, k)}]
  BY Zenon DEF AsSet, Has, WordOf, BitOf, Bit, Offsets

LEMMA ReceivedIs ==
    ASSUME NEW p \in Stored, NEW s \in Nat
    PROVE  is_received(p, s) <=>
              \/ s < p.base_seq
              \/ s - p.base_seq \in Offsets /\ Has(p.words, s - p.base_seq)
<1>1. p.base_seq \in Nat
  BY DEF Stored
<1>2. is_received(p, s) <=>
         \/ s < p.base_seq
         \/ s - p.base_seq < SACK_WINDOW /\ Has(p.words, s - p.base_seq)
  BY Zenon DEF is_received, Has, WordOf, BitOf, Bit
<1>3. ~ (s < p.base_seq) => (s - p.base_seq \in Offsets <=> s - p.base_seq < SACK_WINDOW)
  BY <1>1, WindowType DEF Offsets
<1>. QED
  BY <1>2, <1>3

\* Reading a bit of the words is reading an element of the set.
LEMMA ReceivedSame ==
    ASSUME NEW p \in Stored, NEW s \in Nat
    PROVE  is_received(p, s) <=> Window!is_received(AsSet(p), s)
<1>1. p.base_seq \in Nat
  BY DEF Stored
<1>2. Window!is_received(AsSet(p), s) <=>
         \/ s < p.base_seq
         \/ /\ s - p.base_seq < SACK_WINDOW
            /\ s - p.base_seq \in {k \in Offsets : Has(p.words, k)}
  BY AsSetIs DEF Window!is_received
<1>3. s - p.base_seq \in Offsets => s - p.base_seq < SACK_WINDOW
  BY <1>1, WindowType DEF Offsets
<1>. QED
  BY <1>2, <1>3, ReceivedIs

\* Setting a bit of a word adds an element to the set, and the count follows.
LEMMA Mark ==
    ASSUME NEW p, WellStored(p), NEW seq \in Nat
    PROVE  /\ WellStored(mark_received(p, seq))
           /\ mark_received(p, seq).base_seq = p.base_seq
           /\ AsSet(mark_received(p, seq)) = Window!mark_received(AsSet(p), seq)
<1>. DEFINE offset == seq - p.base_seq
            i == WordOf(offset)
            b == BitOf(offset)
            m == mark_received(p, seq)
<1>0. /\ p.base_seq \in Nat /\ p.word_count \in 0 .. SACK_WORDS
      /\ p.words \in [WordIdx -> Word] /\ p \in Stored
      /\ InUse(p.words, p.word_count)
  BY DEF WellStored, Stored
<1>1. CASE seq < p.base_seq \/ offset >= SACK_WINDOW
  <2>1. m = p
    BY <1>1 DEF mark_received
  <2>2. Window!mark_received(AsSet(p), seq) = AsSet(p)
    BY <1>1, AsSetIs DEF Window!mark_received
  <2>. QED
    BY <2>1, <2>2
<1>2. CASE ~ (seq < p.base_seq \/ offset >= SACK_WINDOW)
  <2>1. offset \in Nat /\ offset < SACK_WINDOW /\ offset \in Offsets
    BY <1>0, <1>2, WindowType DEF Offsets
  <2>2. i \in WordIdx /\ b \in BitIdx
    BY <2>1, OffsetWord, PlaceOf
  <2>. DEFINE ws == [p.words EXCEPT ![i] = @ \cup {b}]
              c == IF i + 1 > p.word_count THEN i + 1 ELSE p.word_count
  <2>3. m = [p EXCEPT !.words[i] = @ \cup {b}, !.word_count = IF i + 1 > @ THEN i + 1 ELSE @]
    BY <1>2, Zenon DEF mark_received, WordOf, BitOf, SetBit
  <2>4. m = [base_seq |-> p.base_seq, word_count |-> c, words |-> ws]
    <3>. HIDE DEF m, i, b
    <3>. QED
      BY <2>3, <1>0 DEF Stored
  <2>. HIDE DEF m, i, b
  <2>5. ws \in [WordIdx -> Word] /\ \A j \in WordIdx : ws[j] = IF j = i THEN p.words[i] \cup {b} ELSE p.words[j]
    BY <2>2, <1>0 DEF Word
  <2>6. c \in 0 .. SACK_WORDS /\ InUse(ws, c)
    <3>1. WordIdx = 0 .. (SACK_WORDS - 1) /\ SACK_WORDS \in Nat
      BY BitsAssumption DEF WordIdx
    <3>2. c \in 0 .. SACK_WORDS /\ c >= i + 1 /\ c >= p.word_count /\ c > 0 /\ (c = i + 1 \/ c = p.word_count)
      BY <3>1, <2>2, <1>0
    <3>. HIDE DEF ws, c
    <3>3. ws[c - 1] # {}
      <4>1. c - 1 \in WordIdx
        BY <3>1, <3>2
      <4>2. CASE c - 1 = i
        BY <4>1, <4>2, <2>5
      <4>3. CASE c - 1 # i
        BY <4>1, <4>3, <2>5, <3>1, <3>2, <2>2, <1>0 DEF InUse
      <4>. QED
        BY <4>2, <4>3
    <3>4. \A j \in WordIdx : j >= c => ws[j] = {}
      BY <3>1, <3>2, <2>2, <2>5, <1>0 DEF InUse
    <3>. QED
      BY <3>2, <3>3, <3>4 DEF InUse
  <2>7. WellStored(m)
    BY <2>4, <2>5, <2>6, <1>0 DEF WellStored, Stored
  <2>8. ASSUME NEW k \in Offsets
        PROVE  Has(ws, k) <=> Has(p.words, k) \/ k = offset
    <3>1. k \in Nat /\ k < SACK_WINDOW
      BY WindowType DEF Offsets
    <3>2. WordOf(k) \in WordIdx /\ BitOf(k) \in BitIdx /\ k = WordOf(k) * WORD_BITS + BitOf(k)
      BY <3>1, OffsetWord, PlaceOf
    <3>3. offset = i * WORD_BITS + b
      BY <2>1, PlaceOf DEF i, b
    <3>4. WordOf(k) = i /\ BitOf(k) = b <=> k = offset
      BY <3>2, <3>3, Zenon DEF i, b
    <3>. HIDE DEF ws
    <3>. QED
      BY <3>2, <3>4, <2>5 DEF Has
  <2>9. AsSet(m) = [base_seq |-> p.base_seq, bits |-> {k \in Offsets : Has(p.words, k)} \cup {offset}]
    <3>1. {k \in Offsets : Has(ws, k)} = {k \in Offsets : Has(p.words, k)} \cup {offset}
      BY <2>8, <2>1
    <3>. QED
      BY <3>1, <2>4, AsSetIs
  <2>10. Window!mark_received(AsSet(p), seq)
           = [base_seq |-> p.base_seq, bits |-> {k \in Offsets : Has(p.words, k)} \cup {offset}]
    BY <1>2, AsSetIs DEF Window!mark_received
  <2>. QED
    BY <2>4, <2>7, <2>9, <2>10 DEF m
<1>. QED
  BY <1>1, <1>2

\* Sliding the words is sliding the set, and the count is trimmed.
LEMMA Advance ==
    ASSUME NEW p, WellStored(p), NEW new_base \in Nat
    PROVE  /\ WellStored(advance_base(p, new_base))
           /\ AsSet(advance_base(p, new_base)) = Window!advance_base(AsSet(p), new_base)
<1>. DEFINE shift == new_base - p.base_seq
            moved == shift_bits(shift_words(p.words, WordOf(shift)), BitOf(shift))
            q == advance_base(p, new_base)
            B == {k \in Offsets : Has(p.words, k)}
<1>0. p.base_seq \in Nat /\ p.words \in [WordIdx -> Word] /\ AsSet(p).bits = B /\ AsSet(p).base_seq = p.base_seq
  BY AsSetIs DEF WellStored, Stored
<1>1. CASE new_base <= p.base_seq
  BY <1>0, <1>1 DEF advance_base, Window!advance_base
<1>2. CASE ~ (new_base <= p.base_seq) /\ shift >= SACK_WINDOW
  <2>1. q = [base_seq |-> new_base, word_count |-> 0, words |-> [i \in WordIdx |-> {}]]
    BY <1>2 DEF advance_base, default
  <2>2. WellStored(q)
    BY <2>1, BitsAssumption DEF WellStored, Stored, InUse, Word
  <2>3. \A k \in Offsets : ~ Has(q.words, k)
    <3>1. \A k \in Offsets : WordOf(k) \in WordIdx
      BY OffsetWord, WindowType DEF Offsets
    <3>. QED
      BY <3>1, <2>1 DEF Has
  <2>4. AsSet(q) = [base_seq |-> new_base, bits |-> {}]
    <3>1. q.base_seq = new_base /\ {k \in Offsets : Has(q.words, k)} = {}
      BY <2>1, <2>3
    <3>. QED
      BY <3>1, AsSetIs, Zenon
  <2>5. \A k \in Offsets : k + shift \notin B
    BY <1>0, <1>2, WindowType DEF Offsets
  <2>6. Window!advance_base(AsSet(p), new_base)
          = [base_seq |-> new_base, bits |-> {k \in Window!Offsets : k + shift \in B}]
    BY <1>0, <1>2 DEF Window!advance_base
  <2>7. Window!Offsets = Offsets
    BY DEF Window!Offsets, Offsets
  <2>. QED
    BY <2>2, <2>4, <2>5, <2>6, <2>7
<1>3. CASE ~ (new_base <= p.base_seq) /\ ~ (shift >= SACK_WINDOW)
  <2>1. q = [base_seq |-> new_base, word_count |-> trim(moved), words |-> moved]
    BY <1>3, Zenon DEF advance_base, WordOf, BitOf
  <2>2. shift \in Nat
    BY <1>0, <1>3
  <2>3. \A k \in Offsets : /\ moved \in [WordIdx -> Word]
                           /\ Has(moved, k) <=> k + shift < SACK_WINDOW /\ Has(p.words, k + shift)
    <3>. HIDE DEF shift
    <3>. QED
      BY <1>0, <2>2, ShiftMoves
  <2>4. 0 \in Offsets
    BY WindowType DEF Offsets
  <2>. HIDE DEF moved
  <2>5. trim(moved) \in 0 .. SACK_WORDS /\ InUse(moved, trim(moved))
    BY <2>3, <2>4, TrimCounts
  <2>6. WellStored(q)
    BY <2>1, <2>3, <2>4, <2>5 DEF WellStored, Stored
  <2>7. \A k \in Offsets : k + shift \in Offsets <=> k + shift < SACK_WINDOW
    BY <2>2, WindowType DEF Offsets
  <2>8. {k \in Offsets : Has(moved, k)} = {k \in Offsets : k + shift \in B}
    BY <2>3, <2>7
  <2>9. Window!advance_base(AsSet(p), new_base)
          = [base_seq |-> new_base, bits |-> {k \in Window!Offsets : k + shift \in B}]
    BY <1>0, <1>3 DEF Window!advance_base
  <2>10. Window!Offsets = Offsets
    BY DEF Window!Offsets, Offsets
  <2>11. AsSet(q) = [base_seq |-> new_base, bits |-> {k \in Offsets : Has(moved, k)}]
    <3>1. q.base_seq = new_base /\ q.words = moved
      BY <2>1
    <3>. QED
      BY <3>1, AsSetIs, Zenon
  <2>. QED
    BY <2>6, <2>8, <2>9, <2>10, <2>11
<1>. QED
  BY <1>1, <1>2, <1>3

Gap(p, n) ==
    /\ ~ is_received(p, n)
    /\ \A m \in p.base_seq .. (n - 1) : is_received(p, m)

\* The search for the first gap ends, at the latest one past the window, and
\* there is only one.
LEMMA GapExists ==
    ASSUME NEW p \in Stored
    PROVE  /\ \E n \in p.base_seq .. (p.base_seq + SACK_WINDOW) : Gap(p, n)
           /\ \A n, m \in p.base_seq .. (p.base_seq + SACK_WINDOW) : Gap(p, n) /\ Gap(p, m) => n = m
<1>0. p.base_seq \in Nat /\ SACK_WINDOW \in Nat \ {0}
  BY WindowType DEF Stored
<1>. DEFINE G == {n \in Nat : n >= p.base_seq /\ ~ is_received(p, n)}
<1>1. p.base_seq + SACK_WINDOW \in G
  BY <1>0, ReceivedIs DEF Offsets
<1>2. PICK n \in G : \A k \in G : << k, n >> \notin OpToRel(<, Nat)
  BY <1>1, WFMin, NatLessThanWellFounded, Zenon
<1>3. \A k \in G : ~ (k < n)
  BY <1>2, Zenon DEF OpToRel
<1>4. n \in p.base_seq .. (p.base_seq + SACK_WINDOW)
  BY <1>0, <1>1, <1>3
<1>5. Gap(p, n)
  BY <1>0, <1>3 DEF Gap
<1>6. ASSUME NEW a \in p.base_seq .. (p.base_seq + SACK_WINDOW),
             NEW b \in p.base_seq .. (p.base_seq + SACK_WINDOW),
             Gap(p, a), Gap(p, b), a < b
      PROVE  FALSE
  BY <1>0, <1>6 DEF Gap
<1>7. \A a, b \in p.base_seq .. (p.base_seq + SACK_WINDOW) : a < b \/ b < a \/ a = b
  BY <1>0
<1>. QED
  BY <1>4, <1>5, <1>6, <1>7

\* Sliding the base over received sequence numbers changes nothing about what
\* is received.
LEMMA SlideKeeps ==
    ASSUME NEW p, WellStored(p), NEW n \in Nat, n >= p.base_seq,
           \A m \in p.base_seq .. (n - 1) : is_received(p, m)
    PROVE  /\ advance_base(p, n).base_seq = n
           /\ \A s \in Nat : is_received(advance_base(p, n), s) <=> is_received(p, s)
<1>. DEFINE q == advance_base(p, n)
            B == {k \in Offsets : Has(p.words, k)}
<1>0. /\ p \in Stored /\ p.base_seq \in Nat
      /\ AsSet(p) = [base_seq |-> p.base_seq, bits |-> B]
  BY AsSetIs DEF WellStored, Stored
<1>1. CASE n = p.base_seq
  BY <1>0, <1>1 DEF advance_base
<1>2. CASE n > p.base_seq
  <2>. DEFINE shift == n - p.base_seq
  <2>1. q \in Stored /\ AsSet(q) = Window!advance_base(AsSet(p), n)
    BY Advance DEF WellStored
  <2>2. Window!Offsets = Offsets
    BY DEF Window!Offsets, Offsets
  <2>3. Window!advance_base(AsSet(p), n)
          = [base_seq |-> n, bits |-> {k \in Offsets : k + shift \in B}]
    BY <1>0, <1>2, <2>2 DEF Window!advance_base
  <2>. HIDE DEF q
  <2>4. q.base_seq = n /\ {k \in Offsets : Has(q.words, k)} = {k \in Offsets : k + shift \in B}
    <3>1. AsSet(q) = [base_seq |-> q.base_seq, bits |-> {k \in Offsets : Has(q.words, k)}]
      BY AsSetIs
    <3>. HIDE DEF B
    <3>. QED
      BY <3>1, <2>1, <2>3
  <2>5. ASSUME NEW s \in Nat
        PROVE  is_received(q, s) <=> is_received(p, s)
    <3>1. is_received(q, s) <=> s < n \/ (s - n \in Offsets /\ s - n + shift \in B)
      BY <2>1, <2>4, ReceivedIs
    <3>2. is_received(p, s) <=> s < p.base_seq \/ s - p.base_seq \in B
      BY <1>0, ReceivedIs
    <3>3. CASE s < n
      BY <3>1, <3>3, <1>0, <1>2, ReceivedIs
    <3>4. CASE ~ (s < n)
      <4>1. s - n + shift = s - p.base_seq /\ ~ (s < p.base_seq)
        BY <1>0, <1>2, <3>4
      <4>2. s - p.base_seq \in Offsets => s - n \in Offsets
        BY <1>0, <1>2, <3>4, WindowType DEF Offsets
      <4>. QED
        BY <3>1, <3>2, <3>4, <4>1, <4>2
    <3>. QED
      BY <3>3, <3>4
  <2>. QED
    BY <2>4, <2>5 DEF q
<1>. QED
  BY <1>0, <1>1, <1>2

\* What an arrival does to the stored bitmap.
LEMMA Arrival ==
    ASSUME NEW p, WellStored(p), NEW seq \in Nat
    PROVE  LET q == record_arrival(p, seq)
           IN  /\ WellStored(q)
               /\ AsSet(q) = Window!on_packet_received(AsSet(p), seq)
               /\ q.base_seq >= p.base_seq
               /\ ~ is_received(q, q.base_seq)
               /\ \A s \in Nat : is_received(q, s) => is_received(p, s) \/ s = seq
<1>. DEFINE m == mark_received(p, seq)
            Range == m.base_seq .. (m.base_seq + SACK_WINDOW)
            n == CHOOSE x \in Range : Gap(m, x)
            q == record_arrival(p, seq)
<1>1. /\ WellStored(m) /\ m \in Stored /\ m.base_seq = p.base_seq /\ p.base_seq \in Nat
      /\ p \in Stored
      /\ AsSet(m) = Window!mark_received(AsSet(p), seq)
  BY Mark DEF WellStored, Stored
<1>2. q = advance_base(m, n)
  BY Zenon DEF record_arrival, Gap
<1>3. n \in Range /\ Gap(m, n)
  <2>. HIDE DEF m
  <2>. QED
    BY <1>1, GapExists
<1>4. n \in Nat /\ n >= m.base_seq
  BY <1>1, <1>3, WindowType
<1>5. n = Window!first_gap(AsSet(m))
  <2>. HIDE DEF m, n
  <2>1. AsSet(m).base_seq = m.base_seq
    BY AsSetIs
  <2>2. \A x \in Range : Window!IsFirstGap(AsSet(m), x) <=> Gap(m, x)
    <3>1. \A x \in Range : x \in Nat /\ \A y \in m.base_seq .. (x - 1) : y \in Nat
      BY <1>1, WindowType
    <3>. QED
      BY <3>1, <2>1, <1>1, ReceivedSame DEF Gap, Window!IsFirstGap
  <2>3. Window!first_gap(AsSet(m)) = CHOOSE x \in Range : Window!IsFirstGap(AsSet(m), x)
    BY <2>1 DEF Window!first_gap
  <2>. DEFINE w == Window!first_gap(AsSet(m))
  <2>4. w \in Range /\ Window!IsFirstGap(AsSet(m), w)
    BY <2>2, <2>3, <1>3
  <2>. HIDE DEF w
  <2>5. Gap(m, w)
    BY <2>2, <2>4
  <2>6. n = w
    BY <2>4, <2>5, <1>1, <1>3, GapExists
  <2>. QED
    BY <2>6 DEF w
<1>6. AsSet(q) = Window!on_packet_received(AsSet(p), seq) /\ WellStored(q)
  <2>1. AsSet(advance_base(m, n)) = Window!advance_base(AsSet(m), n) /\ WellStored(advance_base(m, n))
    BY <1>1, <1>4, Advance
  <2>. QED
    BY <2>1, <1>1, <1>2, <1>5, Zenon DEF Window!on_packet_received
<1>7. q.base_seq = n /\ \A s \in Nat : is_received(q, s) <=> is_received(m, s)
  <2>1. \A x \in m.base_seq .. (n - 1) : is_received(m, x)
    BY <1>3 DEF Gap
  <2>. HIDE DEF m, n
  <2>. QED
    BY <2>1, <1>1, <1>2, <1>4, SlideKeeps
<1>8. ASSUME NEW s \in Nat, is_received(m, s)
      PROVE  is_received(p, s) \/ s = seq
  <2>. DEFINE B == {k \in Offsets : Has(p.words, k)}
  <2>1. AsSet(p) = [base_seq |-> p.base_seq, bits |-> B]
    BY AsSetIs
  <2>2. Window!is_received(Window!mark_received(AsSet(p), seq), s)
    BY <1>1, <1>8, ReceivedSame
  <2>3. Window!is_received(AsSet(p), s) \/ s = seq
    <3>. HIDE DEF B, m
    <3>. QED
      BY <2>1, <2>2, <1>1 DEF Window!is_received, Window!mark_received
  <2>. QED
    BY <2>3, <1>1, ReceivedSame
<1>9. ~ is_received(q, q.base_seq)
  BY <1>7, <1>4, <1>3 DEF Gap
<1>. HIDE DEF m, n
<1>. QED
  BY <1>1, <1>4, <1>6, <1>7, <1>8, <1>9
-----------------------------------------------------------------------------
(* The state machine.                                                      *)

LEMMA LossTypes ==
    ASSUME CountersOK
    PROVE  interval_loss \in Nat /\ smoothed_loss \in Nat
<1>0. SCALE \in Nat \ {0} /\ packets \in Nat /\ expected \in Nat /\ loss_ema \in Nat
  BY ManagerAssumption DEF CountersOK
<1>1. \A a \in Nat, b \in Nat \ {0} : a \div b \in Nat
  BY Z3
<1>2. packets < expected => expected \in Nat \ {0} /\ (expected - packets) * SCALE \in Nat
  <2>1. \A a, b \in Nat : a * b \in Nat
    OBVIOUS
  <2>2. packets < expected => expected \in Nat \ {0} /\ expected - packets \in Nat
    BY <1>0
  <2>. QED
    BY <2>1, <2>2, <1>0
<1>3. interval_loss \in Nat
  <2>1. CASE packets >= expected
    BY <2>1 DEF interval_loss
  <2>2. CASE ~ (packets >= expected)
    <3>1. packets < expected
      BY <2>2, <1>0
    <3>2. interval_loss = ((expected - packets) * SCALE) \div expected
      BY <2>2 DEF interval_loss
    <3>. QED
      BY <3>1, <3>2, <1>1, <1>2, Zenon
  <2>. QED
    BY <2>1, <2>2
<1>4. 3 * loss_ema + interval_loss \in Nat /\ 4 \in Nat \ {0}
  BY <1>0, <1>3
<1>5. (3 * loss_ema + interval_loss) \div 4 \in Nat
  BY <1>1, <1>4, Zenon
<1>. QED
  BY <1>0, <1>3, <1>5 DEF smoothed_loss

LEMMA SackInitInv == Init => SackInv
<1>. SUFFICES ASSUME Init PROVE SackInv
  OBVIOUS
<1>0. SACK_WORDS \in Nat \ {0} /\ SCALE \in Nat \ {0}
  BY BitsAssumption, ManagerAssumption
<1>1. payload = [base_seq |-> 0, word_count |-> 0, words |-> [i \in WordIdx |-> {}]]
  BY DEF Init, default
<1>2. WellStored(payload)
  BY <1>0, <1>1 DEF WellStored, Stored, InUse, Word
<1>3. ASSUME NEW s \in Nat PROVE ~ is_received(payload, s)
  <2>1. ~ (s < payload.base_seq)
    BY <1>1
  <2>2. ASSUME NEW k \in Offsets PROVE ~ Has(payload.words, k)
    <3>1. WordOf(k) \in WordIdx
      BY OffsetWord, WindowType DEF Offsets
    <3>. QED
      BY <3>1, <1>1 DEF Has
  <2>. QED
    BY <2>1, <2>2, <1>2, ReceivedIs DEF WellStored
<1>4. CountersOK /\ accounted + expected = next_expected
  BY DEF Init, CountersOK
<1>5. IntervalFits
  BY <1>0 DEF Init, IntervalFits, interval_for
<1>. QED
  BY <1>2, <1>3, <1>4, <1>5 DEF SackInv, NothingBeyond

LEMMA SackStep == SackInv /\ [Next]_vars => SackInv'
<1>. SUFFICES ASSUME SackInv, [Next]_vars PROVE SackInv'
  OBVIOUS
<1>. USE DEF SackInv
<1>1. CASE Tick
  <2>1. CountersOK'
    BY <1>1, LossTypes DEF Tick, CountersOK
  <2>2. payload' = payload /\ next_expected' = next_expected
    BY <1>1 DEF Tick
  <2>3. WellStored(payload') /\ NothingBeyond'
    BY <2>2 DEF NothingBeyond
  <2>4. (accounted + expected = next_expected)'
    BY <1>1 DEF Tick, CountersOK
  <2>5. IntervalFits'
    BY <1>1 DEF Tick, IntervalFits, interval_for
  <2>. QED
    BY <2>1, <2>3, <2>4, <2>5
<1>2. ASSUME NEW seq \in 0 .. (MaxSeq - 1), on_packet_received(seq)
      PROVE  SackInv'
  <2>0. seq \in Nat
    BY BitsAssumption
  <2>1. CountersOK' /\ (accounted + expected = next_expected)'
    BY <1>2, <2>0 DEF on_packet_received, CountersOK
  <2>2. next_expected' >= next_expected /\ next_expected' > seq
    BY <1>2, <2>0 DEF on_packet_received, CountersOK
  <2>3. payload' = record_arrival(payload, seq)
    BY <1>2 DEF on_packet_received
  <2>4. /\ WellStored(payload')
        /\ \A s \in Nat : is_received(payload', s) => is_received(payload, s) \/ s = seq
    BY <2>0, <2>3, Arrival
  <2>5. NothingBeyond'
    <3>1. next_expected \in Nat /\ next_expected' \in Nat
      BY <2>1 DEF CountersOK
    <3>. QED
      BY <3>1, <2>0, <2>2, <2>4 DEF NothingBeyond
  <2>6. IntervalFits'
    BY <1>2 DEF on_packet_received, IntervalFits, interval_for
  <2>. QED
    BY <2>1, <2>4, <2>5, <2>6
<1>3. CASE UNCHANGED vars
  <2>1. /\ payload' = payload /\ next_expected' = next_expected /\ packets' = packets
        /\ expected' = expected /\ accounted' = accounted /\ loss_ema' = loss_ema
        /\ ticks' = ticks /\ interval' = interval
    BY <1>3 DEF vars
  <2>2. CountersOK' /\ (accounted + expected = next_expected)' /\ WellStored(payload')
    BY <2>1 DEF CountersOK
  <2>3. NothingBeyond'
    BY <2>1 DEF NothingBeyond
  <2>4. IntervalFits'
    BY <2>1 DEF IntervalFits, interval_for
  <2>. QED
    BY <2>2, <2>3, <2>4
<1>. QED
  BY <1>1, <1>2, <1>3 DEF Next, Horizon

\* The stored bitmap is always trimmed, holds nothing beyond the highest
\* sequence number seen, and the interval is the one for the current loss.
THEOREM SackInvariance == Spec => []SackInv
  BY SackInitInv, SackStep, PTL DEF Spec

\* Over any number of heartbeats, duplicates and late arrivals, each sequence
\* number up to the highest seen is counted as expected once, and SACKs
\* acknowledge nothing beyond it.
THEOREM SlotsAreCountedOnce == Spec => []SlotsCountedOnce
<1>1. SackInv => SlotsCountedOnce
  <2>1. \A seq \in 0 .. (MaxSeq + SACK_WINDOW) : seq \in Nat
    BY BitsAssumption, WindowType
  <2>. QED
    BY <2>1 DEF SackInv, NothingBeyond, SlotsCountedOnce
<1>. QED
  BY <1>1, SackInvariance, PTL

\* Whatever has arrived, the peer parses the bitmap that was serialised, and
\* no truncated form of it parses.
THEOREM SurvivesTheWire == Spec => []RoundTrip
<1>1. SackInv => RoundTrip
  <2>. SUFFICES ASSUME SackInv PROVE RoundTrip
    OBVIOUS
  <2>. DEFINE c == payload.word_count
              tail == [i \in 1 .. c |-> payload.words[i - 1]]
              data == serialise(payload)
              back == [i \in WordIdx |-> IF i < data[2] THEN data[i + 3] ELSE {}]
  <2>1. /\ payload = [base_seq |-> payload.base_seq, word_count |-> c, words |-> payload.words]
        /\ c \in 0 .. SACK_WORDS /\ payload.words \in [WordIdx -> Word]
        /\ c > 0 => payload.words[c - 1] # {}
        /\ \A i \in WordIdx : i >= c => payload.words[i] = {}
        /\ SACK_WORDS \in Nat /\ WordIdx = 0 .. (SACK_WORDS - 1)
    BY BitsAssumption DEF SackInv, WellStored, Stored, InUse, WordIdx
  <2>2. data = << payload.base_seq, c >> \o tail
    BY DEF serialise
  <2>. HIDE DEF data
  <2>. DEFINE D == {payload.base_seq, c} \cup {payload.words[i] : i \in WordIdx}
  <2>3. << payload.base_seq, c >> \in Seq(D) /\ tail \in Seq(D) /\ Len(tail) = c
    BY <2>1
  <2>. HIDE DEF tail, D
  <2>4. /\ data \in Seq(D) /\ Len(data) = 2 + c
        /\ data[1] = payload.base_seq /\ data[2] = c
        /\ \A i \in 1 .. c : data[i + 2] = tail[i]
    BY <2>1, <2>2, <2>3
  <2>5. \A i \in WordIdx : i < c => data[i + 3] = payload.words[i]
    <3>1. \A i \in WordIdx : i < c => i + 1 \in 1 .. c /\ (i + 1) + 2 = i + 3 /\ (i + 1) - 1 = i
      BY <2>1
    <3>. QED
      BY <3>1, <2>4 DEF tail
  <2>6. back = payload.words
    <3>1. ASSUME NEW i \in WordIdx PROVE back[i] = payload.words[i]
      <4>1. back[i] = IF i < c THEN data[i + 3] ELSE {}
        BY <2>4
      <4>2. ~ (i < c) => payload.words[i] = {}
        BY <2>1
      <4>. QED
        BY <4>1, <4>2, <2>5, Zenon
    <3>. QED
      BY <3>1, <2>1
  <2>7. deserialise(data) = {payload}
    <3>1. ~ (Len(data) < 2 \/ Len(data) < 2 + data[2])
      BY <2>1, <2>4
    <3>2. deserialise(data) = {[base_seq |-> data[1], word_count |-> data[2], words |-> back]}
      BY <3>1, Zenon DEF deserialise
    <3>. QED
      BY <3>2, <2>1, <2>4, <2>6, Zenon
  <2>8. ASSUME NEW n \in 0 .. (Len(data) - 1)
        PROVE  deserialise(SubSeq(data, 1, n)) = {}
    <3>. DEFINE short == SubSeq(data, 1, n)
    <3>1. n \in Nat /\ n < 2 + c /\ Len(short) = n /\ (n >= 2 => short[2] = c)
      BY <2>1, <2>4
    <3>2. Len(short) < 2 \/ Len(short) < 2 + short[2]
      <4>. HIDE DEF short
      <4>. QED
        BY <3>1, <2>1
    <3>. QED
      BY <3>2, Zenon DEF deserialise
  <2>. QED
    BY <2>1, <2>7, <2>8 DEF RoundTrip, data
<1>. QED
  BY <1>1, SackInvariance, PTL

\* After every arrival the base is the lowest sequence number not received.
THEOREM BaseFollowsGap == Spec => BaseIsLowestGap
<1>. DEFINE A == \A seq \in 0 .. (MaxSeq - 1) : on_packet_received(seq)
          => /\ payload'.base_seq \in missing_seqs(payload')
             /\ \A s \in payload.base_seq .. (payload'.base_seq - 1) :
                   s \notin missing_seqs(payload) \/ s = seq
<1>1. SackInv /\ [Next]_vars => [A]_vars
  <2>. SUFFICES ASSUME SackInv, NEW seq \in 0 .. (MaxSeq - 1), on_packet_received(seq)
                PROVE  /\ payload'.base_seq \in missing_seqs(payload')
                       /\ \A s \in payload.base_seq .. (payload'.base_seq - 1) :
                             s \notin missing_seqs(payload) \/ s = seq
    OBVIOUS
  <2>0. seq \in Nat
    BY BitsAssumption
  <2>1. payload' = record_arrival(payload, seq) /\ WellStored(payload)
    BY DEF on_packet_received, SackInv
  <2>2. /\ WellStored(payload')
        /\ payload'.base_seq >= payload.base_seq
        /\ ~ is_received(payload', payload'.base_seq)
        /\ \A s \in Nat : is_received(payload', s) => is_received(payload, s) \/ s = seq
    BY <2>0, <2>1, Arrival
  <2>3. ASSUME NEW p
        PROVE  missing_seqs(p) = {p.base_seq + k : k \in {k \in Offsets : ~ Has(p.words, k)}}
    BY Zenon DEF missing_seqs, Has, WordOf, BitOf, Bit, Offsets
  <2>4. /\ payload \in Stored /\ payload' \in Stored
        /\ payload.base_seq \in Nat /\ payload'.base_seq \in Nat
    BY <2>1, <2>2 DEF WellStored, Stored
  <2>5. payload'.base_seq \in missing_seqs(payload')
    <3>1. 0 \in Offsets /\ payload'.base_seq - payload'.base_seq = 0 /\ payload'.base_seq + 0 = payload'.base_seq
      BY <2>4, WindowType DEF Offsets
    <3>2. ~ Has(payload'.words, 0)
      BY <3>1, <2>2, <2>4, ReceivedIs
    <3>. QED
      BY <3>1, <3>2, <2>3
  <2>6. ASSUME NEW s \in payload.base_seq .. (payload'.base_seq - 1), s # seq
        PROVE  s \notin missing_seqs(payload)
    <3>1. s \in Nat /\ s < payload'.base_seq /\ ~ (s < payload.base_seq)
      BY <2>4
    <3>2. is_received(payload', s)
      BY <3>1, <2>4, ReceivedIs
    <3>3. Has(payload.words, s - payload.base_seq)
      BY <3>1, <3>2, <2>2, <2>4, <2>6, ReceivedIs
    <3>4. \A k \in Offsets : s = payload.base_seq + k => k = s - payload.base_seq
      BY <3>1, <2>4, WindowType DEF Offsets
    <3>. QED
      BY <3>3, <3>4, <2>3
  <2>. QED
    BY <2>5, <2>6
<1>. QED
  BY <1>1, SackInvariance, PTL DEF Spec, BaseIsLowestGap

\* One heartbeat takes the interval from 5 ms to 1 ms only when more than half
\* of the packets of the interval were missing, for every unit of the loss.
THEOREM HurriesOnHeavyLoss == Spec => HurryNeedsHeavyLoss
<1>. DEFINE A == interval = 5 /\ interval' = 1 => 2 * packets < expected
<1>1. SackInv /\ [Next]_vars => [A]_vars
  <2>. SUFFICES ASSUME SackInv, Next, interval = 5, interval' = 1
                PROVE  2 * packets < expected
    BY DEF vars
  <2>0. SCALE \in Nat \ {0} /\ packets \in Nat /\ expected \in Nat /\ loss_ema \in Nat
    BY ManagerAssumption DEF SackInv, CountersOK
  <2>1. Tick
    BY DEF Next, on_packet_received, Horizon, vars
  <2>2. interval_loss \in Nat /\ smoothed_loss \in Nat
    BY LossTypes DEF SackInv
  <2>3. loss_ema * 10 <= SCALE
    BY <2>0 DEF SackInv, IntervalFits, interval_for
  <2>4. smoothed_loss * 10 > 2 * SCALE
    BY <2>1, <2>0, <2>2 DEF Tick, interval_for
  <2>5. expected > 0
    BY <2>0, <2>3, <2>4 DEF smoothed_loss
  <2>6. 4 * smoothed_loss <= 3 * loss_ema + interval_loss
    <3>1. smoothed_loss = (3 * loss_ema + interval_loss) \div 4
      BY <2>5 DEF smoothed_loss
    <3>. QED
      BY <3>1, <2>0, <2>2
  <2>7. 2 * interval_loss > SCALE
    BY <2>0, <2>2, <2>3, <2>4, <2>6
  <2>8. packets < expected /\ interval_loss * expected <= (expected - packets) * SCALE
    <3>1. ~ (packets >= expected)
      BY <2>0, <2>7 DEF interval_loss
    <3>2. interval_loss = ((expected - packets) * SCALE) \div expected
      BY <3>1 DEF interval_loss
    <3>3. \A a \in Int, b \in Int : b > 0 => (a \div b) * b <= a
      OBVIOUS
    <3>4. (expected - packets) * SCALE \in Int /\ expected \in Int
      BY <2>0
    <3>. QED
      BY <3>1, <3>2, <3>3, <3>4, <2>0, <2>5
  <2>9. ASSUME NEW e \in Nat \ {0}, NEW m \in Nat, NEW l \in Nat, NEW S \in Nat \ {0},
               l * e <= m * S, 2 * l > S
        PROVE  2 * m > e
    <3>. SUFFICES ASSUME 2 * m <= e PROVE FALSE
      OBVIOUS
    <3>1. 2 * (m * S) <= e * S
      <4>1. (2 * m) * S <= e * S
        OBVIOUS
      <4>. QED
        BY <4>1
    <3>2. S * e < (2 * l) * e
      <4>1. 2 * l - S \in Nat \ {0}
        BY <2>9
      <4>2. (2 * l - S) * e > 0
        BY <4>1
      <4>3. (2 * l - S) * e = (2 * l) * e - S * e
        OBVIOUS
      <4>. QED
        BY <4>2, <4>3
    <3>3. (2 * l) * e = 2 * (l * e) /\ S * e = e * S
      OBVIOUS
    <3>4. 2 * (l * e) <= 2 * (m * S)
      BY <2>9
    <3>. QED
      BY <3>1, <3>2, <3>3, <3>4
  <2>10. 2 * (expected - packets) > expected
    BY <2>0, <2>2, <2>5, <2>7, <2>8, <2>9
  <2>. QED
    BY <2>0, <2>10
<1>. QED
  BY <1>1, SackInvariance, PTL DEF Spec, HurryNeedsHeavyLoss

\* Seen as a set, the array of words is the window of Sack, arrival by
\* arrival; a heartbeat leaves it alone.
THEOREM WordsImplementWindow == Spec => ImplementsWindow
<1>1. Init => Window!WInit
  <2>. SUFFICES ASSUME Init PROVE AsSet(payload) = [base_seq |-> 0, bits |-> {}]
    BY DEF Window!WInit, Window!new_payload
  <2>1. payload = [base_seq |-> 0, word_count |-> 0, words |-> [i \in WordIdx |-> {}]]
    BY DEF Init, default
  <2>2. \A k \in Offsets : ~ Has(payload.words, k)
    <3>1. \A k \in Offsets : WordOf(k) \in WordIdx
      BY OffsetWord, WindowType DEF Offsets
    <3>. QED
      BY <3>1, <2>1 DEF Has
  <2>. QED
    BY <2>1, <2>2, AsSetIs
<1>2. SackInv /\ [Next]_vars => [Window!WNext]_(AsSet(payload))
  <2>. SUFFICES ASSUME SackInv, [Next]_vars, ~ (AsSet(payload)' = AsSet(payload))
                PROVE  Window!WNext
    OBVIOUS
  <2>1. payload' # payload
    BY Zenon DEF AsSet
  <2>2. PICK seq \in 0 .. (MaxSeq - 1) : on_packet_received(seq)
    BY <2>1 DEF Next, Tick, Horizon, vars
  <2>3. payload' = record_arrival(payload, seq) /\ WellStored(payload) /\ seq \in Nat
    BY <2>2, BitsAssumption DEF on_packet_received, SackInv
  <2>4. AsSet(payload') = Window!on_packet_received(AsSet(payload), seq)
    BY <2>3, Arrival
  <2>5. AsSet(payload)' = AsSet(payload')
    BY DEF AsSet
  <2>. QED
    BY <2>2, <2>4, <2>5 DEF Window!WNext, Window!Arrive
<1>. QED
  BY <1>1, <1>2, SackInvariance, PTL DEF Spec, ImplementsWindow, Window!WSpec

=============================================================================
