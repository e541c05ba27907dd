------------------------------ MODULE TraceRing ------------------------------
(***************************************************************************)
(* The record ring of one trace session (method_tracer.cpp): the hooked    *)
(* calls write it from any thread without a lock, copy_snapshot reads it   *)
(* while they do, and reset_records empties it between two sessions.       *)
(*                                                                         *)
(* The many fields of a RingRecord are two here for the entry and one for  *)
(* the return, which is enough to see a record mixed from two calls.  A    *)
(* field holds the mark of the call that stored it, so a torn record is    *)
(* one whose marks differ.  Accesses happen in program order, as on x64.   *)
(***************************************************************************)
EXTENDS Integers

CONSTANTS
  Calls,      \* threads that call the traced method
  Size,       \* max_records, 1024 in the code
  MaxCalls,   \* bound on the calls of one session
  MaxResets   \* bound on the resets

ASSUME SizeAssumption == Size \in Nat \ {0}
ASSUME BoundsAssumption == MaxCalls \in Nat /\ MaxResets \in Nat

VARIABLES
  write_sequence,
  ring,     \* the record of each slot
  call,     \* where each thread is in the detour, and the sequence it claimed
  reader,   \* where copy_snapshot is
  resets,   \* sessions before this one
  mixed,    \* sequences whose slot two calls wrote at the same time
  faulted   \* sequences whose call faulted while it was being recorded

vars == <<write_sequence, ring, call, reader, resets, mixed, faulted>>

Mark == [session: 0..MaxResets, sequence: Nat]
Blank == [session |-> 0, sequence |-> MaxCalls]   \* stored by no call
Mine(s) == [session |-> resets, sequence |-> s]

Slot(s) == s % Size

Recording == {"header", "argument", "clear", "publish"}
Returning == {"value", "returned"}

TypeOK ==
  /\ write_sequence \in 0..MaxCalls
  /\ ring \in [0..(Size - 1) -> [published_sequence: 0..MaxCalls, header: Mark,
                                 argument: Mark, value: Mark, return_published: BOOLEAN]]
  /\ call \in [Calls -> [at: Recording \cup Returning \cup {"none", "body", "check"},
                         sequence: 0..MaxCalls]]
  /\ reader \in [at: {"none", "check", "header", "flag", "value", "argument", "recheck"},
                 total: 0..MaxCalls, sequence: 0..MaxCalls, header: Mark, argument: Mark,
                 value: Mark, return_captured: BOOLEAN]
  /\ resets \in 0..MaxResets
  /\ mixed \subseteq 0..MaxCalls /\ faulted \subseteq 0..MaxCalls

NoSnapshot ==
  [at |-> "none", total |-> 0, sequence |-> 0, header |-> Blank, argument |-> Blank,
   value |-> Blank, return_captured |-> FALSE]

Init ==
  /\ write_sequence = 0
  /\ ring = [i \in 0..(Size - 1) |->
              [published_sequence |-> 0, header |-> Blank, argument |-> Blank,
               value |-> Blank, return_published |-> FALSE]]
  /\ call = [c \in Calls |-> [at |-> "none", sequence |-> 0]]
  /\ reader = NoSnapshot
  /\ resets = 0
  /\ mixed = {} /\ faulted = {}

-----------------------------------------------------------------------------
(***************************************************************************)
(* trace_record_entry.                                                     *)
(***************************************************************************)
Rest == <<reader, resets, faulted>>
Enters(c, from, to) ==
  call[c].at = from /\ call' = [call EXCEPT ![c].at = to]
Store(c, field, x) ==
  ring' = [ring EXCEPT ![Slot(call[c].sequence)][field] = x]

\* Whether another call is writing the slot of s.
Busy(s) ==
  \E d \in Calls : call[d].at \in Recording \cup Returning /\ Slot(call[d].sequence) = Slot(s)

\* Mutant: the sequence is claimed before the instance filter is asked.
ClaimUnfiltered(c) ==
  /\ call[c].at = "none" /\ write_sequence < MaxCalls
  /\ write_sequence' = write_sequence + 1
  /\ \E at \in {"none", "header"} :
       call' = [call EXCEPT ![c] = [at |-> at, sequence |-> write_sequence]]
  /\ mixed' = IF Busy(write_sequence) THEN mixed \cup {write_sequence} ELSE mixed
  /\ UNCHANGED <<ring, Rest>>

\* A call that the instance filter passes; another claims no sequence.
Claim(c) ==
  /\ call[c].at = "none" /\ write_sequence < MaxCalls
  /\ write_sequence' = write_sequence + 1
  /\ call' = [call EXCEPT ![c] = [at |-> "header", sequence |-> write_sequence]]
  /\ mixed' = IF Busy(write_sequence) THEN mixed \cup {write_sequence} ELSE mixed
  /\ UNCHANGED <<ring, Rest>>

StoreHeader(c) ==
  /\ Enters(c, "header", "argument")
  /\ Store(c, "header", Mine(call[c].sequence))
  /\ UNCHANGED <<write_sequence, mixed, Rest>>

StoreArgument(c) ==
  /\ Enters(c, "argument", "clear")
  /\ Store(c, "argument", Mine(call[c].sequence))
  /\ UNCHANGED <<write_sequence, mixed, Rest>>

ClearReturn(c) ==
  /\ Enters(c, "clear", "publish")
  /\ Store(c, "return_published", FALSE)
  /\ UNCHANGED <<write_sequence, mixed, Rest>>

\* The call goes on to the method's body, or is done where no return is hooked.
Publish(c) ==
  /\ \E at \in {"body", "none"} : Enters(c, "publish", at)
  /\ Store(c, "published_sequence", call[c].sequence + 1)
  /\ UNCHANGED <<write_sequence, mixed, Rest>>

\* An argument, or the value it points to, cannot be read: the record is never
\* published.
FaultEntry(c) ==
  /\ \E at \in {"argument", "clear"} : Enters(c, at, "none")
  /\ faulted' = faulted \cup {call[c].sequence}
  /\ UNCHANGED <<write_sequence, ring, reader, resets, mixed>>

-----------------------------------------------------------------------------
(***************************************************************************)
(* trace_record_return_from_stub.                                          *)
(***************************************************************************)
ReturnBody(c) ==
  /\ Enters(c, "body", "check")
  /\ UNCHANGED <<write_sequence, ring, mixed, Rest>>

\* Mutant: the return is stored whatever the slot holds by now.
CheckReturnNothing(c) ==
  /\ Enters(c, "check", "value")
  /\ mixed' = mixed
  /\ UNCHANGED <<write_sequence, ring, Rest>>

\* The call that owns the slot by now, if it is not c's.
Claimant(s) == CHOOSE t \in 0..MaxCalls :
  t < write_sequence /\ write_sequence <= t + Size /\ Slot(t) = Slot(s)

\* The slot still holds the record of this call.  A later call may have claimed
\* it without having published yet.
CheckReturn(c) ==
  LET s == call[c].sequence IN
  IF ring[Slot(s)].published_sequence = s + 1
  THEN /\ Enters(c, "check", "value")
       /\ mixed' = IF write_sequence > s + Size THEN mixed \cup {Claimant(s)} ELSE mixed
       /\ UNCHANGED <<write_sequence, ring, Rest>>
  ELSE /\ Enters(c, "check", "none")
       /\ UNCHANGED <<write_sequence, ring, mixed, Rest>>

StoreValue(c) ==
  /\ Enters(c, "value", "returned")
  /\ Store(c, "value", Mine(call[c].sequence))
  /\ UNCHANGED <<write_sequence, mixed, Rest>>

PublishReturn(c) ==
  /\ Enters(c, "returned", "none")
  /\ Store(c, "return_published", TRUE)
  /\ UNCHANGED <<write_sequence, mixed, Rest>>

\* A returned buffer cannot be read: the return is never published.
FaultReturn(c) ==
  /\ \E at \in {"value", "returned"} : Enters(c, at, "none")
  /\ UNCHANGED <<write_sequence, ring, mixed, Rest>>

Call(c) ==
  \/ Claim(c) \/ StoreHeader(c) \/ StoreArgument(c) \/ ClearReturn(c) \/ Publish(c)
  \/ FaultEntry(c) \/ ReturnBody(c) \/ CheckReturn(c) \/ StoreValue(c)
  \/ PublishReturn(c) \/ FaultReturn(c)

-----------------------------------------------------------------------------
(***************************************************************************)
(* copy_snapshot and reset_records, both under control_mutex.              *)
(***************************************************************************)
CallsKeep == <<write_sequence, ring, call, resets, mixed, faulted>>
source == ring[Slot(reader.sequence)]

BeginSnapshot ==
  /\ reader.at = "none" /\ write_sequence > 0
  /\ reader' = [NoSnapshot EXCEPT
                  !.at = "check", !.total = write_sequence,
                  !.sequence = IF write_sequence > Size THEN write_sequence - Size ELSE 0]
  /\ UNCHANGED CallsKeep

\* On to the next sequence, or the snapshot is complete.
Advance ==
  reader' = IF reader.sequence + 1 < reader.total
            THEN [NoSnapshot EXCEPT !.at = "check", !.total = reader.total,
                                    !.sequence = reader.sequence + 1]
            ELSE NoSnapshot

CheckPublished ==
  /\ reader.at = "check"
  /\ IF source.published_sequence = reader.sequence + 1
     THEN reader' = [reader EXCEPT !.at = "header"]
     ELSE Advance
  /\ UNCHANGED CallsKeep

CopyHeader ==
  /\ reader.at = "header"
  /\ reader' = [reader EXCEPT !.at = "flag", !.header = source.header]
  /\ UNCHANGED CallsKeep

CopyFlag ==
  /\ reader.at = "flag"
  /\ reader' = [reader EXCEPT !.at = IF source.return_published THEN "value" ELSE "argument",
                              !.return_captured = source.return_published]
  /\ UNCHANGED CallsKeep

CopyValue ==
  /\ reader.at = "value"
  /\ reader' = [reader EXCEPT !.at = "argument", !.value = source.value]
  /\ UNCHANGED CallsKeep

CopyArgument ==
  /\ reader.at = "argument"
  /\ reader' = [reader EXCEPT !.at = "recheck", !.argument = source.argument]
  /\ UNCHANGED CallsKeep

\* The record is kept if the slot still holds the same sequence.
Recheck ==
  /\ reader.at = "recheck"
  /\ Advance
  /\ UNCHANGED CallsKeep

Reader ==
  \/ BeginSnapshot \/ CheckPublished \/ CopyHeader \/ CopyFlag \/ CopyValue
  \/ CopyArgument \/ Recheck

\* Mutant: the slots keep the sequences of the last session.
ResetSequenceOnly ==
  /\ \A c \in Calls : call[c].at = "none"
  /\ reader.at = "none" /\ resets < MaxResets
  /\ write_sequence' = 0 /\ mixed' = {} /\ faulted' = {}
  /\ resets' = resets + 1
  /\ UNCHANGED <<ring, call, reader>>

\* No call is in the detour: deactivate() has waited for them.
Reset ==
  /\ \A c \in Calls : call[c].at = "none"
  /\ reader.at = "none" /\ resets < MaxResets
  /\ ring' = [i \in DOMAIN ring |->
               [ring[i] EXCEPT !.published_sequence = 0, !.return_published = FALSE]]
  /\ write_sequence' = 0 /\ mixed' = {} /\ faulted' = {}
  /\ resets' = resets + 1
  /\ UNCHANGED <<call, reader>>

-----------------------------------------------------------------------------
Next == (\E c \in Calls : Call(c)) \/ Reader \/ Reset

Spec == Init /\ [][Next]_vars

-----------------------------------------------------------------------------
\* copy_snapshot is about to keep the record it has copied.
Keeps == reader.at = "recheck" /\ source.published_sequence = reader.sequence + 1

\* A later call has claimed the slot since.
Lapped(s) == write_sequence > s + Size

\* trace_record_entry and copy_snapshot: the entry fields of a record that is kept
\* were all stored by the call with its sequence in this session, unless another
\* call claimed the slot or two calls wrote it at the same time.
EntryWhole ==
  Keeps /\ ~Lapped(reader.sequence) /\ reader.sequence \notin mixed =>
    reader.header = Mine(reader.sequence) /\ reader.argument = Mine(reader.sequence)

\* trace_record_return_from_stub: a captured return value is the one of its own
\* call, under the same condition.
ReturnOfOwnCall ==
  Keeps /\ ~Lapped(reader.sequence) /\ reader.sequence \notin mixed =>
    (reader.return_captured => reader.value = Mine(reader.sequence))

\* trace_record_entry: the ring stays dense.  Once no call is in the detour, each
\* of the last Size sequences is published, but for the calls that faulted.
RingDense ==
  (\A c \in Calls : call[c].at \notin Recording) =>
    \A s \in 0..MaxCalls :
      s < write_sequence /\ ~Lapped(s) /\ s \notin mixed \cup faulted =>
        ring[Slot(s)].published_sequence = s + 1
=============================================================================
