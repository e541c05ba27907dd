--------------------------- MODULE TraceRingProofs ---------------------------
(***************************************************************************)
(* What a snapshot of the ring keeps and what the ring keeps for it, for   *)
(* any number of threads and any size of the ring.                         *)
(*                                                                         *)
(* The argument is about the sequences that are live: claimed, not lapped, *)
(* and not written by two calls at once.  No other call writes the slot of *)
(* a live sequence (Alone), because two sequences that share a slot are at *)
(* least Size apart: a call that claims the slot laps the live sequence,   *)
(* and one that comes back to it finds a record that is not its own, or    *)
(* marks the sequence as mixed.  So what the one call has stored is still  *)
(* there when the reader looks, until the sequence is live no longer.      *)
(***************************************************************************)
EXTENDS TraceRing, TLAPS

-----------------------------------------------------------------------------
(* Slots *)

LEMMA ProductGrows ==
  ASSUME NEW N \in Nat \ {0}, NEW p \in Int, NEW q \in Int, p < q
  PROVE  N * q >= N * p + N
  <1>1. PICK d \in Nat : q = p + 1 + d
    <2>1. q - p - 1 \in Nat /\ q = p + 1 + (q - p - 1)
      OBVIOUS
    <2> QED BY <2>1
  <1>2. N * q = N * p + N + N * d
    BY <1>1
  <1>3. N * d >= 0 /\ N * d \in Int /\ N * p \in Int
    BY <1>1
  <1> QED BY <1>2, <1>3

\* Two numbers with the same remainder are at least the divisor apart.
LEMMA RemaindersApart ==
  ASSUME NEW N \in Nat \ {0}, NEW a \in Nat, NEW b \in Nat, a % N = b % N, a < b
  PROVE  a + N <= b
  <1> DEFINE p == a \div N
             q == b \div N
  <1>1. p \in Nat /\ q \in Nat /\ a % N \in Nat
    OBVIOUS
  <1>2. a = N * p + (a % N) /\ b = N * q + (a % N)
    OBVIOUS
  <1> HIDE DEF p, q
  <1>3. p < q
    <2>1. SUFFICES ASSUME q <= p PROVE FALSE
      BY <1>1
    <2>2. CASE q = p
      BY <2>2, <1>2
    <2>3. CASE q < p
      <3>1. N * p >= N * q + N
        BY <2>3, <1>1, ProductGrows
      <3> QED BY <3>1, <1>1, <1>2
    <2> QED BY <2>1, <2>2, <2>3, <1>1
  <1> DEFINE x == N * p
             y == N * q
             r == a % N
  <1>4. x \in Int /\ y \in Int /\ r \in Nat /\ a = x + r /\ b = y + r /\ y >= x + N
    BY <1>1, <1>2, <1>3, ProductGrows
  <1> HIDE DEF x, y, r
  <1> QED BY <1>4

\* Whole turns of the ring lead to the same slot.
LEMMA SameRemainder ==
  ASSUME NEW N \in Nat \ {0}, NEW a \in Nat, NEW k \in Nat, N * k \in Nat
  PROVE  (a + N * k) % N = a % N
  <1> DEFINE b == a + N * k
             p == a \div N
             q == b \div N
             r == a % N
             u == b % N
  <1>1. b \in Nat
    OBVIOUS
  <1> HIDE DEF b
  <1>2. p \in Nat /\ q \in Nat /\ r \in 0..(N - 1) /\ u \in 0..(N - 1) /\ a = N * p + r /\ b = N * q + u
    BY <1>1
  <1>3. b = N * (p + k) + r
    <2>1. p \in Nat
      BY <1>2
    <2>2. N * (p + k) = N * p + N * k
      BY <2>1
    <2> QED BY <1>2, <2>2 DEF b
  <1> HIDE DEF p, q, r, u
  <1> DEFINE m == p + k
             x == N * m
             y == N * q
  <1>4. m \in Nat /\ x \in Int /\ y \in Int
    BY <1>2
  <1>5. x + r = y + u
    BY <1>2, <1>3
  <1>6. m < q => y >= x + N
    BY <1>2, <1>4, ProductGrows
  <1>7. q < m => x >= y + N
    BY <1>2, <1>4, ProductGrows
  <1>8. m = q => x = y
    OBVIOUS
  <1> HIDE DEF m, x, y
  <1>9. r = u
    BY <1>2, <1>4, <1>5, <1>6, <1>7, <1>8
  <1> QED BY <1>9 DEF r, u, b

\* Of any N numbers in a row one has the remainder of a smaller number.
LEMMA RemainderReached ==
  ASSUME NEW N \in Nat \ {0}, NEW a \in Nat, NEW w \in Nat, a < w
  PROVE  \E t \in Nat : t < w /\ w <= t + N /\ t % N = a % N
  <1> DEFINE d == w - 1 - a
             k == d \div N
             r == d % N
             x == N * k
  <1>1. d \in Nat
    OBVIOUS
  <1> HIDE DEF d
  <1>2. k \in Nat /\ r \in 0..(N - 1) /\ d = x + r
    BY <1>1
  <1>3. x \in Nat
    BY <1>2
  <1>4. (a + x) % N = a % N
    BY <1>2, <1>3, SameRemainder
  <1> HIDE DEF k, r, x
  <1>5. a + x < w /\ w <= (a + x) + N /\ a + x \in Nat
    BY <1>2, <1>3 DEF d
  <1> QED BY <1>4, <1>5

LEMMA SlotInRing == \A s \in Nat : Slot(s) \in 0..(Size - 1)
  BY SizeAssumption DEF Slot

LEMMA SlotsApart == \A s, t \in Nat : Slot(s) = Slot(t) /\ s < t => s + Size <= t
  BY SizeAssumption, RemaindersApart DEF Slot

-----------------------------------------------------------------------------
(* The inductive invariant *)

Writing == Recording \cup Returning
Sequences == 0..MaxCalls

\* The slot of s is its own.
Live(s) == s < write_sequence /\ ~Lapped(s) /\ s \notin mixed

\* A thread that is in the detour holds a sequence that it claimed, alone.
Claimed ==
  /\ \A c \in Calls : call[c].at # "none" => call[c].sequence < write_sequence
  /\ \A c, d \in Calls : call[c].at # "none" /\ call[d].at # "none"
                           /\ call[c].sequence = call[d].sequence => c = d

\* A slot shows one of its own sequences, of a call that is done with its entry.
Shows ==
  \A s \in Sequences, i \in 0..(Size - 1) :
    ring[i].published_sequence = s + 1 =>
      /\ s < write_sequence /\ Slot(s) = i
      /\ \A c \in Calls : call[c].at \in Recording => call[c].sequence # s

\* No other call writes the slot of a live sequence.
Alone ==
  \A c \in Calls, s \in Sequences :
    call[c].at \in Writing /\ Live(s) /\ Slot(s) = Slot(call[c].sequence) => call[c].sequence = s

\* What a call at a step of the detour has stored so far in the record of its sequence.
Stored(at, s, record) ==
  /\ at \in {"argument", "clear", "publish"} => record.header = Mine(s)
  /\ at \in {"clear", "publish"} => record.argument = Mine(s)
  /\ at = "publish" => ~record.return_published
  /\ at \in {"body", "check", "value", "returned"} /\ record.published_sequence = s + 1 =>
       ~record.return_published
  /\ at = "returned" => record.value = Mine(s)

Progress ==
  \A c \in Calls, s \in Sequences :
    call[c].sequence = s /\ Live(s) => Stored(call[c].at, s, ring[Slot(s)])

\* The published record of a live sequence is whole.
Entire(s, record) ==
  /\ record.header = Mine(s) /\ record.argument = Mine(s)
  /\ record.return_published => record.value = Mine(s)

Whole ==
  \A s \in Sequences :
    Live(s) /\ ring[Slot(s)].published_sequence = s + 1 => Entire(s, ring[Slot(s)])

\* copy_snapshot has copied fields of the record that it is at.
CopiedSoFar(s, record) ==
  /\ record.published_sequence = s + 1
  /\ reader.at # "header" => reader.header = Mine(s)
  /\ reader.at = "value" => record.return_published
  /\ reader.at \in {"argument", "recheck"} /\ reader.return_captured => reader.value = Mine(s)
  /\ reader.at = "recheck" => reader.argument = Mine(s)

Copied ==
  /\ reader.at # "none" => reader.sequence < reader.total /\ reader.total <= write_sequence
  /\ \A s \in Sequences :
       reader.sequence = s /\ reader.at \notin {"none", "check"} /\ Live(s) => CopiedSoFar(s, ring[Slot(s)])

\* A live sequence whose call did not fault is published, or being recorded.
Dense ==
  \A s \in Sequences :
    Live(s) /\ s \notin faulted =>
      \/ ring[Slot(s)].published_sequence = s + 1
      \/ \E c \in Calls : call[c].at \in Recording /\ call[c].sequence = s

RingInv == TypeOK /\ Claimed /\ Shows /\ Alone /\ Progress /\ Whole /\ Copied /\ Dense

-----------------------------------------------------------------------------
(* Every step keeps it *)

LEMMA Starts == Init => RingInv
  <1> SUFFICES ASSUME Init PROVE RingInv
    OBVIOUS
  <1>1. TypeOK
    BY SizeAssumption, BoundsAssumption
       DEF Init, TypeOK, NoSnapshot, Blank, Mark, Recording, Returning
  <1>2. Claimed /\ Alone /\ Progress /\ Copied
    BY DEF Init, Claimed, Alone, Progress, Copied, Live, NoSnapshot, Writing, Recording, Returning
  <1>3. Shows
    BY DEF Init, Shows, Sequences
  <1>4. Whole /\ Dense
    BY DEF Init, Whole, Dense, Live, Sequences
  <1> QED BY <1>1, <1>2, <1>3, <1>4 DEF RingInv

\* What the lemmas about the calls use of the types.
LEMMA Typed ==
  ASSUME TypeOK
  PROVE  /\ write_sequence \in Nat /\ Sequences \subseteq Nat /\ Size \in Nat \ {0}
         /\ \A c \in Calls : call[c].sequence \in Sequences /\ Slot(call[c].sequence) \in 0..(Size - 1)
         /\ \A s \in Sequences : Slot(s) \in 0..(Size - 1) /\ Mine(s) \in Mark
  <1>1. write_sequence \in Nat /\ Sequences \subseteq Nat /\ Size \in Nat \ {0}
    BY SizeAssumption, BoundsAssumption DEF TypeOK, Sequences
  <1>2. \A c \in Calls : call[c].sequence \in Sequences
    BY DEF TypeOK, Sequences
  <1>3. \A s \in Sequences : Mine(s) \in Mark
    BY <1>1 DEF TypeOK, Mine, Mark
  <1> QED BY <1>1, <1>2, <1>3, SlotInRing

LEMMA ClaimKeeps ==
  ASSUME RingInv, NEW c \in Calls, Claim(c)
  PROVE  RingInv'
  <1> DEFINE w == write_sequence
  <1>i. TypeOK /\ Claimed /\ Shows /\ Alone /\ Progress /\ Whole /\ Copied /\ Dense
    BY DEF RingInv
  <1>y. /\ w \in Nat /\ Size \in Nat \ {0} /\ Sequences \subseteq Nat
        /\ \A d \in Calls : call[d].sequence \in Sequences
    BY <1>i, Typed
  <1>t. w \in Sequences /\ w + 1 \in Sequences /\ Slot(w) \in 0..(Size - 1)
    <2>1. w \in 0..MaxCalls /\ w < MaxCalls
      BY <1>i DEF TypeOK, Claim
    <2> QED BY <2>1, <1>y, SlotInRing, BoundsAssumption DEF Sequences
  <1>c. /\ call[c].at = "none" /\ write_sequence' = w + 1
        /\ call'[c].at = "header" /\ call'[c].sequence = w
        /\ \A d \in Calls : d # c => call'[d] = call[d]
        /\ ring' = ring /\ reader' = reader /\ resets' = resets /\ faulted' = faulted
        /\ mixed \subseteq mixed'
        /\ w \notin mixed' => ~Busy(w)
    BY <1>i DEF Claim, TypeOK, Rest
  <1>m. \A s : Mine(s)' = Mine(s)
    BY <1>c DEF Mine
  <1>l. \A s \in Sequences : Live(s)' => (s = w \/ (Live(s) /\ s < w /\ Slot(s) # Slot(w)))
    <2> SUFFICES ASSUME NEW s \in Sequences, Live(s)', s # w PROVE Live(s) /\ s < w /\ Slot(s) # Slot(w)
      OBVIOUS
    <2>1. s \in Nat /\ s < w + 1 /\ ~(w + 1 > s + Size) /\ s \notin mixed
      BY <1>y, <1>c DEF Live, Lapped
    <2>2. s < w /\ ~(w > s + Size) /\ ~(s + Size <= w)
      BY <2>1, <1>y
    <2> QED BY <2>1, <2>2, <1>y, SlotsApart DEF Live, Lapped
  <1>1. TypeOK'
    BY <1>i, <1>t DEF Claim, Rest, TypeOK, Sequences, Recording, Mark
  <1>2. Claimed'
    <2>1. ASSUME NEW d \in Calls, call'[d].at # "none"
          PROVE  call'[d].sequence < w + 1
      <3>1. CASE d = c
        BY <3>1, <1>c, <1>y
      <3>2. CASE d # c
        <4>1. call[d].sequence < w /\ call[d].sequence \in Nat
          BY <3>2, <2>1, <1>i, <1>c, <1>y DEF Claimed
        <4> QED BY <4>1, <3>2, <1>c, <1>y
      <3> QED BY <3>1, <3>2
    <2>2. ASSUME NEW d \in Calls, call'[d].at # "none", d # c
          PROVE  call'[d].sequence # w
      BY <2>2, <1>i, <1>c, <1>y DEF Claimed
    <2>3. ASSUME NEW d \in Calls, NEW e \in Calls, call'[d].at # "none", call'[e].at # "none",
                 call'[d].sequence = call'[e].sequence
          PROVE  d = e
      BY <2>2, <2>3, <1>i, <1>c DEF Claimed
    <2> QED BY <2>1, <2>3, <1>c DEF Claimed
  <1>3. Shows'
    BY <1>i, <1>y, <1>c DEF Shows, Recording
  <1>4. Alone'
    <2> SUFFICES ASSUME NEW d \in Calls, NEW s \in Sequences,
                        call'[d].at \in Writing, Live(s)', Slot(s) = Slot(call'[d].sequence)
                 PROVE  call'[d].sequence = s
      BY DEF Alone
    <2>1. CASE d = c
      BY <2>1, <1>l, <1>c
    <2>2. CASE d # c
      <3>1. call[d].at \in Writing /\ Slot(s) = Slot(call[d].sequence)
        BY <2>2, <1>c
      <3>2. s # w
        BY <3>1, <1>c DEF Busy, Writing, Live
      <3> QED BY <2>2, <3>1, <3>2, <1>l, <1>c, <1>i DEF Alone
    <2> QED BY <2>1, <2>2
  <1>5. Progress'
    <2> SUFFICES ASSUME NEW d \in Calls, NEW s \in Sequences, call'[d].sequence = s, Live(s)'
                 PROVE  Stored(call'[d].at, s, ring[Slot(s)])
      BY <1>c, <1>m DEF Progress, Stored
    <2>1. CASE d = c
      BY <2>1, <1>c DEF Stored
    <2>2. CASE d # c
      <3>1. CASE call[d].at = "none"
        BY <3>1, <2>2, <1>c DEF Stored
      <3>2. CASE call[d].at # "none"
        <4>1. call[d].sequence # w
          BY <3>2, <1>i, <1>y DEF Claimed
        <4> QED BY <4>1, <2>2, <1>c, <1>l, <1>i DEF Progress
      <3> QED BY <3>1, <3>2
    <2> QED BY <2>1, <2>2
  <1>6. Whole'
    BY <1>c, <1>m, <1>l, <1>t, <1>y, <1>i DEF Whole, Shows, Entire
  <1>7. Copied'
    <2>1. reader.sequence \in Sequences /\ reader.total \in Nat
      BY <1>i DEF TypeOK, Sequences
    <2>2. reader.at # "none" => reader.sequence < reader.total /\ reader.total <= w + 1 /\ reader.sequence # w
      BY <2>1, <1>y, <1>i DEF Copied
    <2> QED BY <2>1, <2>2, <1>l, <1>c, <1>m, <1>i DEF Copied, CopiedSoFar
  <1>8. Dense'
    BY <1>c, <1>l, <1>t, <1>i DEF Dense, Recording
  <1> QED BY <1>1, <1>2, <1>3, <1>4, <1>5, <1>6, <1>7, <1>8 DEF RingInv

\* A step of the call c that stores at most in the record of its own sequence, or is
\* done with it.  What is left to show of such a step is about that record alone.
StepOf(c) ==
  /\ call[c].at # "none" /\ call'[c].sequence = call[c].sequence
  /\ \A d \in Calls : d # c => call'[d] = call[d]
  /\ call'[c].at \in Writing => call[c].at \in Writing
  /\ call'[c].at \in Recording => call[c].at \in Recording
  /\ write_sequence' = write_sequence /\ mixed' = mixed /\ reader' = reader /\ resets' = resets
  /\ faulted \subseteq faulted'
  /\ ring' = ring \/ call[c].at \in Writing
  /\ \A i \in 0..(Size - 1) : i # Slot(call[c].sequence) => ring'[i] = ring[i]

RecordKept(c, s) ==
  LET old == ring[Slot(s)]
      new == ring'[Slot(s)]
  IN  /\ \/ new.published_sequence = old.published_sequence
         \/ new.published_sequence = s + 1 /\ call'[c].at \notin Recording
      /\ call[c].at \in Recording /\ call'[c].at \notin Recording =>
           new.published_sequence = s + 1 \/ s \in faulted'
      /\ Live(s) =>
           /\ Stored(call'[c].at, s, new)
           /\ new.published_sequence = s + 1 => Entire(s, new)
           /\ reader.sequence = s /\ reader.at \notin {"none", "check"} => CopiedSoFar(s, new)

LEMMA StepKeeps ==
  ASSUME RingInv, TypeOK', NEW c \in Calls, StepOf(c),
         NEW q \in Sequences, call[c].sequence = q, RecordKept(c, q)
  PROVE  RingInv'
  <1>i. TypeOK /\ Claimed /\ Shows /\ Alone /\ Progress /\ Whole /\ Copied /\ Dense
    BY DEF RingInv
  <1>y. /\ write_sequence \in Nat /\ Size \in Nat \ {0} /\ Sequences \subseteq Nat
        /\ \A s \in Sequences : Slot(s) \in 0..(Size - 1)
        /\ \A d \in Calls : call[d].sequence \in Sequences
    BY <1>i, Typed
  <1>c. /\ call[c].at # "none" /\ call'[c].sequence = q
        /\ \A d \in Calls : d # c => call'[d] = call[d]
        /\ call'[c].at \in Writing => call[c].at \in Writing
        /\ call'[c].at \in Recording => call[c].at \in Recording
        /\ write_sequence' = write_sequence /\ mixed' = mixed /\ reader' = reader /\ resets' = resets
        /\ faulted \subseteq faulted'
        /\ \A i \in 0..(Size - 1) : i # Slot(q) => ring'[i] = ring[i]
    BY DEF StepOf
  <1>m. \A s : Mine(s)' = Mine(s)
    BY <1>c DEF Mine
  <1>l. \A s \in Sequences : Live(s)' = Live(s)
    BY <1>c DEF Live, Lapped
  \* A live sequence other than c's has its record as it was.
  <1>o. ASSUME NEW s \in Sequences, Live(s), s # q
        PROVE  ring'[Slot(s)] = ring[Slot(s)]
    <2>1. CASE ring' = ring
      BY <2>1
    <2>2. CASE call[c].at \in Writing
      BY <2>2, <1>o, <1>i, <1>c, <1>y DEF Alone
    <2> QED BY <2>1, <2>2 DEF StepOf
  <1>2. Claimed'
    BY <1>i, <1>c DEF Claimed
  <1>3. Shows'
    <2> SUFFICES ASSUME NEW s \in Sequences, NEW i \in 0..(Size - 1),
                        ring'[i].published_sequence = s + 1
                 PROVE  /\ s < write_sequence /\ Slot(s) = i
                        /\ \A d \in Calls : call'[d].at \in Recording => call'[d].sequence # s
      BY <1>c DEF Shows
    <2>1. CASE ring[i].published_sequence = s + 1
      BY <2>1, <1>i, <1>c DEF Shows
    <2>2. CASE ring[i].published_sequence # s + 1
      <3>1. i = Slot(q) /\ s = q /\ call'[c].at \notin Recording
        BY <2>2, <1>c, <1>y DEF RecordKept
      <3>2. q < write_sequence
        BY <1>c, <1>i DEF Claimed
      <3>3. \A d \in Calls : d # c /\ call[d].at \in Recording => call[d].sequence # q
        BY <1>c, <1>i DEF Claimed, Recording
      <3> QED BY <3>1, <3>2, <3>3, <1>c
    <2> QED BY <2>1, <2>2
  <1>4. Alone'
    BY <1>i, <1>c, <1>l DEF Alone
  <1>5. Progress'
    <2> SUFFICES ASSUME NEW d \in Calls, NEW s \in Sequences, call'[d].sequence = s, Live(s)
                 PROVE  Stored(call'[d].at, s, ring'[Slot(s)])
      BY <1>l, <1>m DEF Progress, Stored
    <2>1. CASE d = c
      BY <2>1, <1>c DEF RecordKept
    <2>2. CASE d # c /\ s # q
      BY <2>2, <1>i, <1>c, <1>o DEF Progress
    <2>3. CASE d # c /\ s = q
      BY <2>3, <1>i, <1>c DEF Claimed, Stored
    <2> QED BY <2>1, <2>2, <2>3
  <1>6. Whole'
    <2> SUFFICES ASSUME NEW s \in Sequences, Live(s), ring'[Slot(s)].published_sequence = s + 1
                 PROVE  Entire(s, ring'[Slot(s)])
      BY <1>l, <1>m DEF Whole, Entire
    <2> QED BY <1>i, <1>o DEF RecordKept, Whole
  <1>7. Copied'
    <2>1. ASSUME NEW s \in Sequences, Live(s), reader.sequence = s, reader.at \notin {"none", "check"}
          PROVE  CopiedSoFar(s, ring'[Slot(s)])
      BY <2>1, <1>i, <1>o DEF RecordKept, Copied
    <2> QED BY <2>1, <1>c, <1>i, <1>l, <1>m DEF Copied, CopiedSoFar
  <1>8. Dense'
    <2> SUFFICES ASSUME NEW s \in Sequences, Live(s), s \notin faulted',
                        ring'[Slot(s)].published_sequence # s + 1
                 PROVE  \E d \in Calls : call'[d].at \in Recording /\ call'[d].sequence = s
      BY <1>l DEF Dense
    <2>1. CASE s = q
      BY <2>1, <1>i, <1>c DEF Dense, RecordKept, Claimed
    <2>2. CASE s # q
      BY <2>2, <1>i, <1>c, <1>o DEF Dense
    <2> QED BY <2>1, <2>2
  <1> QED BY <1>2, <1>3, <1>4, <1>5, <1>6, <1>7, <1>8 DEF RingInv

LEMMA StoreHeaderKeeps ==
  ASSUME RingInv, NEW c \in Calls, StoreHeader(c)
  PROVE  RingInv'
  <1> DEFINE q == call[c].sequence
  <1>i. TypeOK /\ Claimed /\ Shows /\ Alone /\ Progress /\ Whole /\ Copied
    BY DEF RingInv
  <1>y. q \in Sequences /\ Slot(q) \in 0..(Size - 1) /\ Mine(q) \in Mark
    BY <1>i, Typed
  <1>1. TypeOK'
    BY <1>i, <1>y DEF StoreHeader, Enters, Store, Rest, TypeOK, Recording, Returning, Sequences
  <1>2. StepOf(c)
    BY <1>i, <1>y DEF StoreHeader, Enters, Store, Rest, TypeOK, StepOf, Writing, Recording, Returning
  <1>3. RecordKept(c, q)
    <2>1. /\ call[c].at = "header"
          /\ ring'[Slot(q)] = [ring[Slot(q)] EXCEPT !.header = Mine(q)]
          /\ ring[Slot(q)] \in [published_sequence: 0..MaxCalls, header: Mark, argument: Mark,
                                value: Mark, return_published: BOOLEAN]
      BY <1>i, <1>y DEF StoreHeader, Enters, Store, TypeOK
    <2>2. call'[c].at = "argument"
      BY <1>i DEF StoreHeader, Enters, TypeOK
    <2>3. ring[Slot(q)].published_sequence # q + 1
      BY <2>1, <1>i, <1>y DEF Shows, Recording
    <2>4. Live(q) => Stored("header", q, ring[Slot(q)])
      BY <2>1, <1>i, <1>y DEF Progress
    <2>5. Live(q) /\ reader.sequence = q => reader.at \in {"none", "check"}
      BY <2>3, <1>i, <1>y DEF Copied, CopiedSoFar
    <2> QED BY <2>1, <2>2, <2>3, <2>4, <2>5 DEF RecordKept, Stored, Recording
  <1> QED BY <1>1, <1>2, <1>3, <1>y, StepKeeps

LEMMA StoreArgumentKeeps ==
  ASSUME RingInv, NEW c \in Calls, StoreArgument(c)
  PROVE  RingInv'
  <1> DEFINE q == call[c].sequence
  <1>i. TypeOK /\ Claimed /\ Shows /\ Alone /\ Progress /\ Whole /\ Copied
    BY DEF RingInv
  <1>y. q \in Sequences /\ Slot(q) \in 0..(Size - 1) /\ Mine(q) \in Mark
    BY <1>i, Typed
  <1>1. TypeOK'
    BY <1>i, <1>y DEF StoreArgument, Enters, Store, Rest, TypeOK, Recording, Returning, Sequences
  <1>2. StepOf(c)
    BY <1>i, <1>y DEF StoreArgument, Enters, Store, Rest, TypeOK, StepOf, Writing, Recording, Returning
  <1>3. RecordKept(c, q)
    <2>1. /\ call[c].at = "argument"
          /\ ring'[Slot(q)] = [ring[Slot(q)] EXCEPT !.argument = Mine(q)]
          /\ ring[Slot(q)] \in [published_sequence: 0..MaxCalls, header: Mark, argument: Mark,
                                value: Mark, return_published: BOOLEAN]
      BY <1>i, <1>y DEF StoreArgument, Enters, Store, TypeOK
    <2>2. call'[c].at = "clear"
      BY <1>i DEF StoreArgument, Enters, TypeOK
    <2>3. ring[Slot(q)].published_sequence # q + 1
      BY <2>1, <1>i, <1>y DEF Shows, Recording
    <2>4. Live(q) => Stored("argument", q, ring[Slot(q)])
      BY <2>1, <1>i, <1>y DEF Progress
    <2>5. Live(q) /\ reader.sequence = q => reader.at \in {"none", "check"}
      BY <2>3, <1>i, <1>y DEF Copied, CopiedSoFar
    <2> QED BY <2>1, <2>2, <2>3, <2>4, <2>5 DEF RecordKept, Stored, Recording
  <1> QED BY <1>1, <1>2, <1>3, <1>y, StepKeeps

LEMMA ClearReturnKeeps ==
  ASSUME RingInv, NEW c \in Calls, ClearReturn(c)
  PROVE  RingInv'
  <1> DEFINE q == call[c].sequence
  <1>i. TypeOK /\ Claimed /\ Shows /\ Alone /\ Progress /\ Whole /\ Copied
    BY DEF RingInv
  <1>y. q \in Sequences /\ Slot(q) \in 0..(Size - 1) /\ Mine(q) \in Mark
    BY <1>i, Typed
  <1>1. TypeOK'
    BY <1>i, <1>y DEF ClearReturn, Enters, Store, Rest, TypeOK, Recording, Returning, Sequences
  <1>2. StepOf(c)
    BY <1>i, <1>y DEF ClearReturn, Enters, Store, Rest, TypeOK, StepOf, Writing, Recording, Returning
  <1>3. RecordKept(c, q)
    <2>1. /\ call[c].at = "clear"
          /\ ring'[Slot(q)] = [ring[Slot(q)] EXCEPT !.return_published = FALSE]
          /\ ring[Slot(q)] \in [published_sequence: 0..MaxCalls, header: Mark, argument: Mark,
                                value: Mark, return_published: BOOLEAN]
      BY <1>i, <1>y DEF ClearReturn, Enters, Store, TypeOK
    <2>2. call'[c].at = "publish"
      BY <1>i DEF ClearReturn, Enters, TypeOK
    <2>3. ring[Slot(q)].published_sequence # q + 1
      BY <2>1, <1>i, <1>y DEF Shows, Recording
    <2>4. Live(q) => Stored("clear", q, ring[Slot(q)])
      BY <2>1, <1>i, <1>y DEF Progress
    <2>5. Live(q) /\ reader.sequence = q => reader.at \in {"none", "check"}
      BY <2>3, <1>i, <1>y DEF Copied, CopiedSoFar
    <2> QED BY <2>1, <2>2, <2>3, <2>4, <2>5 DEF RecordKept, Stored, Recording
  <1> QED BY <1>1, <1>2, <1>3, <1>y, StepKeeps

LEMMA PublishKeeps ==
  ASSUME RingInv, NEW c \in Calls, Publish(c)
  PROVE  RingInv'
  <1> DEFINE q == call[c].sequence
  <1>i. TypeOK /\ Claimed /\ Shows /\ Alone /\ Progress /\ Whole /\ Copied
    BY DEF RingInv
  <1>y. q \in Sequences /\ Slot(q) \in 0..(Size - 1) /\ Mine(q) \in Mark
    BY <1>i, Typed
  <1>1. TypeOK'
    <2>1. q + 1 \in 0..MaxCalls
      BY <1>i, <1>y, BoundsAssumption DEF Publish, Enters, Claimed, TypeOK, Sequences
    <2> QED BY <1>i, <1>y, <2>1 DEF Publish, Enters, Store, Rest, TypeOK, Recording
  <1>2. StepOf(c)
    BY <1>i, <1>y DEF Publish, Enters, Store, Rest, TypeOK, StepOf, Writing, Recording, Returning
  <1>3. RecordKept(c, q)
    <2>1. /\ call[c].at = "publish"
          /\ ring'[Slot(q)] = [ring[Slot(q)] EXCEPT !.published_sequence = q + 1]
          /\ ring[Slot(q)] \in [published_sequence: 0..MaxCalls, header: Mark, argument: Mark,
                                value: Mark, return_published: BOOLEAN]
      BY <1>i, <1>y DEF Publish, Enters, Store, TypeOK
    <2>2. call'[c].at \in {"body", "none"}
      BY <1>i DEF Publish, Enters, TypeOK
    <2>3. ring[Slot(q)].published_sequence # q + 1
      BY <2>1, <1>i, <1>y DEF Shows, Recording
    <2>4. Live(q) => Stored("publish", q, ring[Slot(q)])
      BY <2>1, <1>i, <1>y DEF Progress
    <2>5. Live(q) /\ reader.sequence = q => reader.at \in {"none", "check"}
      BY <2>3, <1>i, <1>y DEF Copied, CopiedSoFar
    <2> QED BY <2>1, <2>2, <2>3, <2>4, <2>5 DEF RecordKept, Stored, Entire, Recording
  <1> QED BY <1>1, <1>2, <1>3, <1>y, StepKeeps

LEMMA StoreValueKeeps ==
  ASSUME RingInv, NEW c \in Calls, StoreValue(c)
  PROVE  RingInv'
  <1> DEFINE q == call[c].sequence
  <1>i. TypeOK /\ Claimed /\ Shows /\ Alone /\ Progress /\ Whole /\ Copied
    BY DEF RingInv
  <1>y. q \in Sequences /\ Slot(q) \in 0..(Size - 1) /\ Mine(q) \in Mark
    BY <1>i, Typed
  <1>1. TypeOK'
    BY <1>i, <1>y DEF StoreValue, Enters, Store, Rest, TypeOK, Recording, Returning, Sequences
  <1>2. StepOf(c)
    BY <1>i, <1>y DEF StoreValue, Enters, Store, Rest, TypeOK, StepOf, Writing, Recording, Returning
  <1>3. RecordKept(c, q)
    <2>1. /\ call[c].at = "value"
          /\ ring'[Slot(q)] = [ring[Slot(q)] EXCEPT !.value = Mine(q)]
          /\ ring[Slot(q)] \in [published_sequence: 0..MaxCalls, header: Mark, argument: Mark,
                                value: Mark, return_published: BOOLEAN]
      BY <1>i, <1>y DEF StoreValue, Enters, Store, TypeOK
    <2>2. call'[c].at = "returned"
      BY <1>i DEF StoreValue, Enters, TypeOK
    <2>3. Live(q) => Stored("value", q, ring[Slot(q)])
      BY <2>1, <1>i, <1>y DEF Progress
    <2>4. Live(q) /\ ring[Slot(q)].published_sequence = q + 1 => Entire(q, ring[Slot(q)])
      BY <1>i, <1>y DEF Whole
    <2>5. Live(q) /\ reader.sequence = q /\ reader.at \notin {"none", "check"} => CopiedSoFar(q, ring[Slot(q)])
      BY <1>i, <1>y DEF Copied
    <2> QED BY <2>1, <2>2, <2>3, <2>4, <2>5 DEF RecordKept, Stored, Entire, CopiedSoFar, Recording
  <1> QED BY <1>1, <1>2, <1>3, <1>y, StepKeeps

LEMMA PublishReturnKeeps ==
  ASSUME RingInv, NEW c \in Calls, PublishReturn(c)
  PROVE  RingInv'
  <1> DEFINE q == call[c].sequence
  <1>i. TypeOK /\ Claimed /\ Shows /\ Alone /\ Progress /\ Whole /\ Copied
    BY DEF RingInv
  <1>y. q \in Sequences /\ Slot(q) \in 0..(Size - 1) /\ Mine(q) \in Mark
    BY <1>i, Typed
  <1>1. TypeOK'
    BY <1>i, <1>y DEF PublishReturn, Enters, Store, Rest, TypeOK, Recording, Returning, Sequences
  <1>2. StepOf(c)
    BY <1>i, <1>y DEF PublishReturn, Enters, Store, Rest, TypeOK, StepOf, Writing, Recording, Returning
  <1>3. RecordKept(c, q)
    <2>1. /\ call[c].at = "returned"
          /\ ring'[Slot(q)] = [ring[Slot(q)] EXCEPT !.return_published = TRUE]
          /\ ring[Slot(q)] \in [published_sequence: 0..MaxCalls, header: Mark, argument: Mark,
                                value: Mark, return_published: BOOLEAN]
      BY <1>i, <1>y DEF PublishReturn, Enters, Store, TypeOK
    <2>2. call'[c].at = "none"
      BY <1>i DEF PublishReturn, Enters, TypeOK
    <2>3. Live(q) => Stored("returned", q, ring[Slot(q)])
      BY <2>1, <1>i, <1>y DEF Progress
    <2>4. Live(q) /\ ring[Slot(q)].published_sequence = q + 1 => Entire(q, ring[Slot(q)])
      BY <1>i, <1>y DEF Whole
    <2>5. Live(q) /\ reader.sequence = q /\ reader.at \notin {"none", "check"} => CopiedSoFar(q, ring[Slot(q)])
      BY <1>i, <1>y DEF Copied
    <2> QED BY <2>1, <2>2, <2>3, <2>4, <2>5 DEF RecordKept, Stored, Entire, CopiedSoFar, Recording
  <1> QED BY <1>1, <1>2, <1>3, <1>y, StepKeeps

LEMMA FaultEntryKeeps ==
  ASSUME RingInv, NEW c \in Calls, FaultEntry(c)
  PROVE  RingInv'
  <1> DEFINE q == call[c].sequence
  <1>i. TypeOK /\ Claimed /\ Shows /\ Alone /\ Progress /\ Whole /\ Copied
    BY DEF RingInv
  <1>y. q \in Sequences /\ Slot(q) \in 0..(Size - 1) /\ Mine(q) \in Mark
    BY <1>i, Typed
  <1>1. TypeOK'
    BY <1>i, <1>y DEF FaultEntry, Enters, Store, Rest, TypeOK, Recording, Returning, Sequences
  <1>2. StepOf(c)
    BY <1>i, <1>y DEF FaultEntry, Enters, Store, Rest, TypeOK, StepOf, Writing, Recording, Returning
  <1>3. RecordKept(c, q)
    <2>1. /\ call'[c].at = "none" /\ ring' = ring
          /\ call[c].at \in Recording => q \in faulted'
          /\ "none" = "check" => call[c].at = "body"
      BY <1>i DEF FaultEntry, Enters, TypeOK, Rest, Recording, Returning
    <2>2. Live(q) => Stored(call[c].at, q, ring[Slot(q)])
      BY <1>i, <1>y DEF Progress
    <2>3. Live(q) /\ ring[Slot(q)].published_sequence = q + 1 => Entire(q, ring[Slot(q)])
      BY <1>i, <1>y DEF Whole
    <2>4. Live(q) /\ reader.sequence = q /\ reader.at \notin {"none", "check"} => CopiedSoFar(q, ring[Slot(q)])
      BY <1>i, <1>y DEF Copied
    <2> QED BY <2>1, <2>2, <2>3, <2>4 DEF RecordKept, Stored, Recording
  <1> QED BY <1>1, <1>2, <1>3, <1>y, StepKeeps

LEMMA FaultReturnKeeps ==
  ASSUME RingInv, NEW c \in Calls, FaultReturn(c)
  PROVE  RingInv'
  <1> DEFINE q == call[c].sequence
  <1>i. TypeOK /\ Claimed /\ Shows /\ Alone /\ Progress /\ Whole /\ Copied
    BY DEF RingInv
  <1>y. q \in Sequences /\ Slot(q) \in 0..(Size - 1) /\ Mine(q) \in Mark
    BY <1>i, Typed
  <1>1. TypeOK'
    BY <1>i, <1>y DEF FaultReturn, Enters, Store, Rest, TypeOK, Recording, Returning, Sequences
  <1>2. StepOf(c)
    BY <1>i, <1>y DEF FaultReturn, Enters, Store, Rest, TypeOK, StepOf, Writing, Recording, Returning
  <1>3. RecordKept(c, q)
    <2>1. /\ call'[c].at = "none" /\ ring' = ring
          /\ call[c].at \in Recording => q \in faulted'
          /\ "none" = "check" => call[c].at = "body"
      BY <1>i DEF FaultReturn, Enters, TypeOK, Rest, Recording, Returning
    <2>2. Live(q) => Stored(call[c].at, q, ring[Slot(q)])
      BY <1>i, <1>y DEF Progress
    <2>3. Live(q) /\ ring[Slot(q)].published_sequence = q + 1 => Entire(q, ring[Slot(q)])
      BY <1>i, <1>y DEF Whole
    <2>4. Live(q) /\ reader.sequence = q /\ reader.at \notin {"none", "check"} => CopiedSoFar(q, ring[Slot(q)])
      BY <1>i, <1>y DEF Copied
    <2> QED BY <2>1, <2>2, <2>3, <2>4 DEF RecordKept, Stored, Recording
  <1> QED BY <1>1, <1>2, <1>3, <1>y, StepKeeps

LEMMA ReturnBodyKeeps ==
  ASSUME RingInv, NEW c \in Calls, ReturnBody(c)
  PROVE  RingInv'
  <1> DEFINE q == call[c].sequence
  <1>i. TypeOK /\ Claimed /\ Shows /\ Alone /\ Progress /\ Whole /\ Copied
    BY DEF RingInv
  <1>y. q \in Sequences /\ Slot(q) \in 0..(Size - 1) /\ Mine(q) \in Mark
    BY <1>i, Typed
  <1>1. TypeOK'
    BY <1>i, <1>y DEF ReturnBody, Enters, Store, Rest, TypeOK, Recording, Returning, Sequences
  <1>2. StepOf(c)
    BY <1>i, <1>y DEF ReturnBody, Enters, Store, Rest, TypeOK, StepOf, Writing, Recording, Returning
  <1>3. RecordKept(c, q)
    <2>1. /\ call'[c].at = "check" /\ ring' = ring
          /\ call[c].at \in Recording => q \in faulted'
          /\ "check" = "check" => call[c].at = "body"
      BY <1>i DEF ReturnBody, Enters, TypeOK, Rest, Recording, Returning
    <2>2. Live(q) => Stored(call[c].at, q, ring[Slot(q)])
      BY <1>i, <1>y DEF Progress
    <2>3. Live(q) /\ ring[Slot(q)].published_sequence = q + 1 => Entire(q, ring[Slot(q)])
      BY <1>i, <1>y DEF Whole
    <2>4. Live(q) /\ reader.sequence = q /\ reader.at \notin {"none", "check"} => CopiedSoFar(q, ring[Slot(q)])
      BY <1>i, <1>y DEF Copied
    <2> QED BY <2>1, <2>2, <2>3, <2>4 DEF RecordKept, Stored, Recording
  <1> QED BY <1>1, <1>2, <1>3, <1>y, StepKeeps

\* The sequence that claimed the slot of q last is the only live one there.
LEMMA ClaimantIsLive ==
  ASSUME TypeOK, NEW q \in Sequences, NEW s \in Sequences, q < s, s < write_sequence, ~Lapped(s),
         Slot(q) = Slot(s)
  PROVE  Lapped(q) /\ Claimant(q) = s
  <1>y. write_sequence \in Nat /\ Sequences \subseteq Nat /\ Size \in Nat \ {0}
    BY Typed
  <1>1. Lapped(q)
    <2>1. q \in Nat /\ s \in Nat /\ q + Size <= s
      BY <1>y, SlotsApart
    <2> QED BY <1>y, <2>1 DEF Lapped
  <1> DEFINE Latest(t) == t < write_sequence /\ write_sequence <= t + Size /\ Slot(t) = Slot(q)
  <1>2. s \in 0..MaxCalls /\ Latest(s)
    BY <1>y DEF Lapped, Sequences
  <1>3. ASSUME NEW t \in 0..MaxCalls, Latest(t) PROVE t = s
    <2>1. t \in Nat /\ s \in Nat
      BY <1>y
    <2>2. ~(t + Size <= s) /\ ~(s + Size <= t)
      BY <2>1, <1>2, <1>3, <1>y
    <2>3. ~(t < s) /\ ~(s < t)
      BY <2>1, <2>2, <1>2, <1>3, SlotsApart
    <2> QED BY <2>1, <2>3
  <1>4. Claimant(q) = s
    BY <1>2, <1>3 DEF Claimant
  <1> QED BY <1>1, <1>4

LEMMA CheckReturnKeeps ==
  ASSUME RingInv, NEW c \in Calls, CheckReturn(c)
  PROVE  RingInv'
  <1> DEFINE q == call[c].sequence
  <1>i. TypeOK /\ Claimed /\ Shows /\ Alone /\ Progress /\ Whole /\ Copied /\ Dense
    BY DEF RingInv
  <1>y. /\ q \in Sequences /\ Slot(q) \in 0..(Size - 1) /\ Mine(q) \in Mark
        /\ write_sequence \in Nat /\ Sequences \subseteq Nat /\ Size \in Nat \ {0}
    BY <1>i, Typed
  <1>1. CASE ring[Slot(q)].published_sequence # q + 1
    <2>1. call[c].at = "check" /\ call'[c].at = "none" /\ ring' = ring
      BY <1>1, <1>i DEF CheckReturn, Enters, TypeOK
    <2>2. TypeOK'
      <3>1. /\ call' = [call EXCEPT ![c].at = "none"]
            /\ UNCHANGED <<write_sequence, ring, mixed, reader, resets, faulted>>
        BY <1>1 DEF CheckReturn, Enters, Rest
      <3> QED BY <1>i, <3>1 DEF TypeOK
    <2>3. StepOf(c)
      BY <1>1, <1>i DEF CheckReturn, Enters, Rest, TypeOK, StepOf, Writing, Recording, Returning
    <2>4. Live(q) /\ reader.sequence = q => reader.at \in {"none", "check"}
      BY <1>1, <1>i, <1>y DEF Copied, CopiedSoFar
    <2>5. RecordKept(c, q)
      BY <1>1, <2>1, <2>4 DEF RecordKept, Stored, Recording
    <2> QED BY <2>2, <2>3, <2>5, <1>y, StepKeeps
  <1>2. CASE ring[Slot(q)].published_sequence = q + 1
    <2>c. /\ call[c].at = "check" /\ call'[c].at = "value" /\ call'[c].sequence = q
          /\ \A d \in Calls : d # c => call'[d] = call[d]
          /\ ring' = ring /\ write_sequence' = write_sequence /\ reader' = reader
          /\ resets' = resets /\ faulted' = faulted
          /\ mixed \subseteq mixed'
          /\ Lapped(q) => Claimant(q) \in mixed'
      BY <1>2, <1>i DEF CheckReturn, Enters, Rest, TypeOK, Lapped
    <2>m. \A s : Mine(s)' = Mine(s)
      BY <2>c DEF Mine
    <2>l. \A s \in Sequences : Live(s)' => Live(s)
      BY <2>c DEF Live, Lapped
    <2>1. TypeOK'
      <3>1. call' \in [Calls -> [at: Recording \cup Returning \cup {"none", "body", "check"},
                                sequence: 0..MaxCalls]]
        BY <1>2, <1>i DEF CheckReturn, Enters, TypeOK, Returning
      <3>2. Lapped(q) => Claimant(q) \in 0..MaxCalls
        <4>1. SUFFICES ASSUME Lapped(q)
                       PROVE  \E t \in 0..MaxCalls : t < write_sequence /\ write_sequence <= t + Size
                                                      /\ Slot(t) = Slot(q)
          BY DEF Claimant
        <4>2. PICK t \in Nat : t < write_sequence /\ write_sequence <= t + Size /\ t % Size = q % Size
          <5>1. q \in Nat /\ q < write_sequence
            BY <1>y, <1>i, <2>c DEF Claimed
          <5> QED BY <5>1, <1>y, RemainderReached
        <4>3. t \in 0..MaxCalls
          BY <4>2, <1>i, BoundsAssumption DEF TypeOK
        <4> QED BY <4>2, <4>3 DEF Slot
      <3> QED BY <1>2, <1>i, <3>1, <3>2 DEF CheckReturn, Rest, TypeOK, Lapped
    <2>2. Claimed'
      BY <2>c, <1>i DEF Claimed
    <2>3. Shows'
      BY <2>c, <1>i DEF Shows, Recording
    <2>4. Alone'
      <3> SUFFICES ASSUME NEW d \in Calls, NEW s \in Sequences, call'[d].at \in Writing,
                          Live(s)', Slot(s) = Slot(call'[d].sequence)
                   PROVE  call'[d].sequence = s
        BY DEF Alone
      <3>1. CASE d # c
        BY <3>1, <2>c, <2>l, <1>i DEF Alone
      <3>2. CASE d = c
        <4>1. s \in Nat /\ q \in Nat /\ Slot(s) = Slot(q) /\ q < write_sequence
          BY <3>2, <2>c, <1>y, <1>i DEF Claimed
        <4>2. s < write_sequence /\ ~Lapped(s) /\ s \notin mixed'
          BY <2>c, <2>l DEF Live
        <4>3. ~(s < q)
          BY <4>1, <4>2, <1>y, SlotsApart DEF Lapped
        <4>4. ~(q < s)
          BY <4>1, <4>2, <1>y, <1>i, <2>c, ClaimantIsLive
        <4> QED BY <4>1, <4>3, <4>4, <3>2, <2>c
      <3> QED BY <3>1, <3>2
    <2>5. Progress'
      <3> SUFFICES ASSUME NEW d \in Calls, NEW s \in Sequences, call'[d].sequence = s, Live(s)
                   PROVE  Stored(call'[d].at, s, ring[Slot(s)])
        BY <2>c, <2>l, <2>m DEF Progress, Stored
      <3>1. CASE d # c
        BY <3>1, <2>c, <1>i DEF Progress
      <3>2. CASE d = c
        <4>1. s = q /\ Stored("check", q, ring[Slot(q)])
          BY <3>2, <2>c, <1>i, <1>y DEF Progress
        <4> QED BY <4>1, <3>2, <2>c, <1>2 DEF Stored
      <3> QED BY <3>1, <3>2
    <2>6. Whole'
      BY <2>c, <2>l, <2>m, <1>i DEF Whole, Entire
    <2>7. Copied'
      BY <2>c, <2>l, <2>m, <1>i DEF Copied, CopiedSoFar
    <2>8. Dense'
      BY <2>c, <2>l, <1>i DEF Dense, Recording
    <2> QED BY <2>1, <2>2, <2>3, <2>4, <2>5, <2>6, <2>7, <2>8 DEF RingInv
  <1> QED BY <1>1, <1>2

\* copy_snapshot changes nothing but what it has copied.
LEMMA ReaderKeeps ==
  ASSUME RingInv, Reader
  PROVE  RingInv'
  <1> DEFINE q == reader.sequence
             record == ring[Slot(q)]
  <1>i. TypeOK /\ Claimed /\ Shows /\ Alone /\ Progress /\ Whole /\ Copied /\ Dense
    BY DEF RingInv
  <1>y. /\ write_sequence \in Nat /\ Size \in Nat \ {0} /\ Sequences \subseteq Nat
        /\ \A s \in Sequences : Slot(s) \in 0..(Size - 1)
    BY <1>i, Typed
  <1>c. /\ write_sequence' = write_sequence /\ ring' = ring /\ call' = call
        /\ resets' = resets /\ mixed' = mixed /\ faulted' = faulted
    BY DEF Reader, BeginSnapshot, CheckPublished, CopyHeader, CopyFlag, CopyValue, CopyArgument,
           Recheck, CallsKeep
  <1>m. \A s : Mine(s)' = Mine(s)
    BY <1>c DEF Mine
  <1>l. \A s \in Sequences : Live(s)' = Live(s)
    BY <1>c DEF Live, Lapped
  <1>q. /\ q \in Sequences /\ Slot(q) \in 0..(Size - 1) /\ source = record
        /\ record \in [published_sequence: 0..MaxCalls, header: Mark, argument: Mark,
                        value: Mark, return_published: BOOLEAN]
    <2>1. q \in Sequences
      BY <1>i DEF TypeOK, Sequences
    <2>2. Slot(q) \in 0..(Size - 1)
      BY <2>1, <1>y
    <2> QED BY <2>1, <2>2, <1>i DEF TypeOK, source
  <1>b. Blank \in Mark
    BY BoundsAssumption DEF Blank, Mark
  \* To the next sequence or to the end.
  <1>a. ASSUME reader.at # "none", Advance
        PROVE  /\ reader'.at \in {"none", "check"}
               /\ reader'.at = "check" => reader'.sequence < reader'.total /\ reader'.total = reader.total
               /\ reader' \in [at: {"none", "check", "header", "flag", "value", "argument", "recheck"},
                               total: 0..MaxCalls, sequence: 0..MaxCalls, header: Mark, argument: Mark,
                               value: Mark, return_captured: BOOLEAN]
    <2>1. reader.total \in 0..MaxCalls /\ q \in 0..MaxCalls
      BY <1>i DEF TypeOK
    <2>2. CASE q + 1 < reader.total
      <3>1. q + 1 \in 0..MaxCalls
        BY <2>1, <2>2, BoundsAssumption
      <3> QED BY <1>a, <2>1, <2>2, <3>1, <1>b DEF Advance, NoSnapshot
    <2>3. CASE ~(q + 1 < reader.total)
      BY <1>a, <2>3, <1>b, BoundsAssumption DEF Advance, NoSnapshot
    <2> QED BY <2>2, <2>3
  <1>k. /\ reader.at # "none" => q < reader.total /\ reader.total <= write_sequence
        /\ Live(q) /\ reader.at \notin {"none", "check"} => CopiedSoFar(q, record)
        /\ Live(q) /\ record.published_sequence = q + 1 => Entire(q, record)
    BY <1>i, <1>q DEF Copied, Whole
  <1> DEFINE Snapshot(r) == r \in [at: {"none", "check", "header", "flag", "value", "argument", "recheck"},
                                total: 0..MaxCalls, sequence: 0..MaxCalls, header: Mark, argument: Mark,
                                value: Mark, return_captured: BOOLEAN]
  <1>r. Snapshot(reader)
    BY <1>i DEF TypeOK
  \* A copied field is the record's, and the reader stays at the sequence.
  <1>f. ASSUME Snapshot(reader'), reader'.sequence = q, reader'.total = reader.total,
               reader.at # "none", Live(q) => CopiedSoFar(q, record)'
        PROVE  Copied'
    <2>1. reader'.at # "none" => reader'.sequence < reader'.total /\ reader'.total <= write_sequence'
      BY <1>f, <1>k, <1>c
    <2>2. ASSUME NEW s \in Sequences, reader'.sequence = s, Live(s)
          PROVE  CopiedSoFar(s, ring[Slot(s)])'
      BY <2>2, <1>f, <1>c DEF CopiedSoFar
    <2> QED BY <2>1, <2>2, <1>l DEF Copied
  <1>1. Snapshot(reader') /\ Copied'
    <2>1. CASE BeginSnapshot
      <3>1. reader' = [NoSnapshot EXCEPT
                         !.at = "check", !.total = write_sequence,
                         !.sequence = IF write_sequence > Size THEN write_sequence - Size ELSE 0]
        BY <2>1 DEF BeginSnapshot
      <3>2. write_sequence > 0 /\ write_sequence \in 0..MaxCalls
        BY <2>1, <1>i DEF BeginSnapshot, TypeOK
      <3>3. /\ Snapshot(reader') /\ reader'.at = "check"
            /\ reader'.sequence < reader'.total /\ reader'.total = write_sequence
        <4> DEFINE first == IF write_sequence > Size THEN write_sequence - Size ELSE 0
        <4>1. first \in 0..MaxCalls /\ first < write_sequence
          BY <3>2, <1>y, BoundsAssumption
        <4>2. reader' = [at |-> "check", total |-> write_sequence, sequence |-> first, header |-> Blank,
                         argument |-> Blank, value |-> Blank, return_captured |-> FALSE]
          BY <3>1 DEF NoSnapshot
        <4> HIDE DEF first
        <4> QED BY <4>1, <4>2, <3>2, <1>b
      <3> QED BY <3>3, <1>c DEF Copied
    <2>2. CASE reader.at # "none" /\ Advance
      BY <2>2, <1>a, <1>k, <1>c DEF Copied
    <2>3. CASE CheckPublished /\ record.published_sequence = q + 1
      <3>1. reader.at = "check" /\ reader' = [reader EXCEPT !.at = "header"]
        BY <2>3, <1>q DEF CheckPublished
      <3> QED BY <3>1, <2>3, <1>r, <1>f, <1>c DEF CopiedSoFar
    <2>4. CASE CopyHeader
      <3>1. reader.at = "header" /\ reader' = [reader EXCEPT !.at = "flag", !.header = record.header]
        BY <2>4, <1>q DEF CopyHeader
      <3> QED BY <3>1, <1>q, <1>r, <1>f, <1>k, <1>c, <1>m DEF CopiedSoFar, Entire
    <2>5. CASE CopyFlag
      <3>1. /\ reader.at = "flag"
            /\ reader' = [reader EXCEPT !.at = IF record.return_published THEN "value" ELSE "argument",
                                        !.return_captured = record.return_published]
        BY <2>5, <1>q DEF CopyFlag
      <3>2. CASE record.return_published
        BY <3>1, <3>2, <1>q, <1>r, <1>f, <1>k, <1>c, <1>m DEF CopiedSoFar, Entire
      <3>3. CASE ~record.return_published
        BY <3>1, <3>3, <1>q, <1>r, <1>f, <1>k, <1>c, <1>m DEF CopiedSoFar, Entire
      <3> QED BY <3>2, <3>3
    <2>6. CASE CopyValue
      <3>1. reader.at = "value" /\ reader' = [reader EXCEPT !.at = "argument", !.value = record.value]
        BY <2>6, <1>q DEF CopyValue
      <3> QED BY <3>1, <1>q, <1>r, <1>f, <1>k, <1>c, <1>m DEF CopiedSoFar, Entire
    <2>7. CASE CopyArgument
      <3>1. reader.at = "argument" /\ reader' = [reader EXCEPT !.at = "recheck", !.argument = record.argument]
        BY <2>7, <1>q DEF CopyArgument
      <3> QED BY <3>1, <1>q, <1>r, <1>f, <1>k, <1>c, <1>m DEF CopiedSoFar, Entire
    <2> QED BY <2>1, <2>2, <2>3, <2>4, <2>5, <2>6, <2>7, <1>q DEF Reader, CheckPublished, Recheck
  <1>2. TypeOK'
    BY <1>1, <1>c, <1>i DEF TypeOK
  <1>3. Claimed' /\ Shows' /\ Alone' /\ Dense'
    BY <1>c, <1>l, <1>i DEF Claimed, Shows, Alone, Dense
  <1>4. Progress' /\ Whole'
    BY <1>c, <1>l, <1>m, <1>i DEF Progress, Whole, Stored, Entire
  <1> QED BY <1>1, <1>2, <1>3, <1>4 DEF RingInv

LEMMA ResetKeeps ==
  ASSUME RingInv, Reset
  PROVE  RingInv'
  <1>i. TypeOK
    BY DEF RingInv
  <1>c. /\ \A c \in Calls : call[c].at = "none"
        /\ reader.at = "none" /\ call' = call /\ reader' = reader /\ write_sequence' = 0
        /\ \A i \in 0..(Size - 1) : ring'[i].published_sequence = 0
    BY <1>i DEF Reset, TypeOK
  <1>1. TypeOK'
    <2> DEFINE Record == [published_sequence: 0..MaxCalls, header: Mark, argument: Mark, value: Mark,
                          return_published: BOOLEAN]
               Emptied(r) == [r EXCEPT !.published_sequence = 0, !.return_published = FALSE]
    <2>1. ASSUME NEW r \in Record PROVE Emptied(r) \in Record
      <3>1. 0 \in 0..MaxCalls
        BY BoundsAssumption
      <3>2. Emptied(r) = [[r EXCEPT !.published_sequence = 0] EXCEPT !.return_published = FALSE]
        OBVIOUS
      <3>3. [[r EXCEPT !.published_sequence = 0] EXCEPT !.return_published = FALSE] \in Record
        BY <3>1
      <3> QED BY <3>2, <3>3
    <2>2. ring \in [0..(Size - 1) -> Record] /\ DOMAIN ring = 0..(Size - 1)
      BY <1>i DEF TypeOK
    <2>3. ring' = [i \in 0..(Size - 1) |-> Emptied(ring[i])]
      BY <2>2 DEF Reset
    <2>4. /\ write_sequence' \in 0..MaxCalls /\ mixed' = {} /\ faulted' = {} /\ resets' \in 0..MaxResets
      <3>1. resets \in 0..MaxResets /\ resets < MaxResets /\ resets' = resets + 1
        BY <1>i DEF Reset, TypeOK
      <3>2. write_sequence' = 0 /\ mixed' = {} /\ faulted' = {}
        BY DEF Reset
      <3> QED BY <3>1, <3>2, BoundsAssumption
    <2>5. ring' \in [0..(Size - 1) -> Record]
      <3> HIDE DEF Record, Emptied
      <3> QED BY <2>1, <2>2, <2>3
    <2> QED BY <2>4, <2>5, <1>c, <1>i DEF TypeOK
  <1>2. \A s \in Sequences : ~Live(s)'
    BY <1>c, BoundsAssumption DEF Live, Sequences
  <1>3. Claimed' /\ Alone' /\ Progress' /\ Whole' /\ Copied' /\ Dense'
    BY <1>2, <1>c DEF Claimed, Alone, Progress, Whole, Copied, Dense
  <1>4. Shows'
    BY <1>c, BoundsAssumption DEF Shows, Sequences
  <1> QED BY <1>1, <1>3, <1>4 DEF RingInv

\* Nothing happens.
LEMMA StutterKeeps ==
  ASSUME RingInv, UNCHANGED vars
  PROVE  RingInv'
  BY DEF RingInv, vars, TypeOK, Claimed, Shows, Alone, Progress, Stored, Whole, Entire, Copied,
         CopiedSoFar, Dense, Live, Lapped, Mine

-----------------------------------------------------------------------------
(* The theorems *)

\* The inductive invariant holds: the record of a live sequence belongs to one call
\* from the moment that it is claimed (trace_record_entry) until it is lapped.
THEOREM LiveRecordsOwned == Spec => []RingInv
  <1>1. Init => RingInv
    BY Starts
  <1>2. RingInv /\ [Next]_vars => RingInv'
    <2> SUFFICES ASSUME RingInv, [Next]_vars PROVE RingInv'
      OBVIOUS
    <2>1. ASSUME NEW c \in Calls, Call(c) PROVE RingInv'
      BY <2>1, ClaimKeeps, StoreHeaderKeeps, StoreArgumentKeeps, ClearReturnKeeps, PublishKeeps,
         FaultEntryKeeps, ReturnBodyKeeps, CheckReturnKeeps, StoreValueKeeps, PublishReturnKeeps,
         FaultReturnKeeps DEF Call
    <2>2. CASE Reader
      BY <2>2, ReaderKeeps
    <2>3. CASE Reset
      BY <2>3, ResetKeeps
    <2>4. CASE UNCHANGED vars
      BY <2>4, StutterKeeps
    <2> QED BY <2>1, <2>2, <2>3, <2>4 DEF Next
  <1> QED BY <1>1, <1>2, PTL DEF Spec

\* trace_record_entry, copy_snapshot: the entry of every record that a snapshot keeps
\* was stored by the call with its sequence, for any number of threads and any ring,
\* unless the sequence was lapped or two calls wrote its slot at once.
THEOREM EntriesAreWhole == Spec => []EntryWhole
  <1>1. RingInv => EntryWhole
    <2> SUFFICES ASSUME RingInv, Keeps, ~Lapped(reader.sequence), reader.sequence \notin mixed
                 PROVE  reader.header = Mine(reader.sequence) /\ reader.argument = Mine(reader.sequence)
      BY DEF EntryWhole
    <2>1. /\ reader.at = "recheck" /\ reader.sequence \in Sequences /\ Copied
          /\ write_sequence \in Nat /\ reader.total \in Nat /\ reader.sequence \in Nat
      BY BoundsAssumption DEF Keeps, RingInv, TypeOK, Sequences
    <2>2. Live(reader.sequence)
      BY <2>1 DEF Live, Copied
    <2> QED BY <2>1, <2>2 DEF Copied, CopiedSoFar
  <1> QED BY <1>1, LiveRecordsOwned, PTL

\* trace_record_return_from_stub: under the same condition a captured return value is
\* the one that the record's own call returned.
THEOREM ReturnsAreOfOwnCalls == Spec => []ReturnOfOwnCall
  <1>1. RingInv => ReturnOfOwnCall
    <2> SUFFICES ASSUME RingInv, Keeps, ~Lapped(reader.sequence), reader.sequence \notin mixed,
                        reader.return_captured
                 PROVE  reader.value = Mine(reader.sequence)
      BY DEF ReturnOfOwnCall
    <2>1. /\ reader.at = "recheck" /\ reader.sequence \in Sequences /\ Copied
          /\ write_sequence \in Nat /\ reader.total \in Nat /\ reader.sequence \in Nat
      BY BoundsAssumption DEF Keeps, RingInv, TypeOK, Sequences
    <2>2. Live(reader.sequence)
      BY <2>1 DEF Live, Copied
    <2> QED BY <2>1, <2>2 DEF Copied, CopiedSoFar
  <1> QED BY <1>1, LiveRecordsOwned, PTL

\* trace_record_entry: no sequence is lost.  Once no call is recording its entry, every
\* one of the last Size sequences that was neither mixed nor faulted is published.
THEOREM RingIsDense == Spec => []RingDense
  <1>1. RingInv => RingDense
    BY DEF RingInv, RingDense, Dense, Live, Sequences
  <1> QED BY <1>1, LiveRecordsOwned, PTL
=============================================================================
