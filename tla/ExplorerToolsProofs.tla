------------------------- MODULE ExplorerToolsProofs --------------------------
(***************************************************************************)
(* What the tools, the watches and the panel keep of the tables they       *)
(* share, for any objects, methods, tokens and sizes of the stores.        *)
(*                                                                         *)
(* The invariant has four parts, each about one thing that has several     *)
(* owners.  Handles (OwnedInv): a watch's newest event is its current      *)
(* value, and otherwise no token occurs twice in one watch, in two watches *)
(* or in a watch and the store, so that releasing one owner's tokens takes *)
(* nobody else's.  Hooks (HooksInv): a hidden session is found through the *)
(* trace of the watch that pins its object; most steps only quieten        *)
(* sessions, and what is quieter keeps all of this part.  Writes           *)
(* (WritesInv): the journal and the values, of which a new one is greater  *)
(* than all before.  Answers (MutationsCurrent): a command that ran is of  *)
(* the present scene, an access of the scene of the published tree.        *)
(*                                                                         *)
(* Each action has a lemma, those of one actor are joined in WatchesKeep   *)
(* and ToolsKeep, and the theorems are at the end.                         *)
(***************************************************************************)
EXTENDS ExplorerTools, FiniteSetTheorems, SequenceTheorems, TLAPS

-----------------------------------------------------------------------------
(* Finite sets of numbers *)

\* Every place up to the size of a set of numbers is taken by one of them.
LEMMA Ranked ==
  ASSUME NEW K \in SUBSET Nat, IsFiniteSet(K), NEW k \in 1 .. Cardinality(K)
  PROVE  \E i \in K : Cardinality({j \in K : j <= i}) = k
  <1> DEFINE Rank(i) == Cardinality({j \in K : j <= i})
             n == Cardinality(K)
  <1>1. n \in Nat
    BY FS_CardinalityType
  <1>2. ASSUME NEW i \in K PROVE Rank(i) \in 1 .. n
    <2>1. {j \in K : j <= i} \in SUBSET K /\ i \in {j \in K : j <= i}
      OBVIOUS
    <2>2. IsFiniteSet({j \in K : j <= i}) /\ Rank(i) <= n /\ Rank(i) \in Nat
      BY <2>1, FS_Subset, FS_CardinalityType
    <2>3. Rank(i) # 0
      BY <2>1, <2>2, FS_EmptySet
    <2> QED BY <2>2, <2>3, <1>1
  <1>3. ASSUME NEW i \in K, NEW j \in K, i < j PROVE Rank(i) < Rank(j)
    <2> DEFINE A == {m \in K : m <= i}
               B == {m \in K : m <= j}
    <2>0. i \in Nat /\ j \in Nat /\ \A m \in K : m <= i => m <= j
      BY <1>3
    <2>1. A \in SUBSET B /\ j \in B /\ j \notin A /\ B \in SUBSET K
      <3>1. A \in SUBSET B /\ B \in SUBSET K
        BY <2>0
      <3>2. j \in B /\ j \notin A
        BY <2>0, <1>3
      <3> QED BY <3>1, <3>2
    <2>2. IsFiniteSet(B) /\ Cardinality(A) <= Cardinality(B) /\ Cardinality(A) # Cardinality(B)
      BY <2>1, FS_Subset
    <2>3. Cardinality(A) \in Nat /\ Cardinality(B) \in Nat
      BY <1>2
    <2> QED BY <2>2, <2>3
  <1> DEFINE f == [i \in K |-> Rank(i)]
             T == (1 .. n) \ {k}
  <1>4. SUFFICES ASSUME \A i \in K : Rank(i) # k PROVE FALSE
    OBVIOUS
  <1>5. f \in [K -> T]
    BY <1>4, <1>2
  <1>6. IsFiniteSet(1 .. n) /\ Cardinality(1 .. n) = n
    BY <1>1, FS_Interval
  <1>7. IsFiniteSet(T) /\ Cardinality(T) = n - 1
    BY <1>6, FS_RemoveElement
  <1>8. Cardinality(T) < Cardinality(K)
    BY <1>7, <1>1
  <1> HIDE DEF T
  <1>9. \E x, y \in K : x # y /\ f[x] = f[y]
    <2> HIDE DEF f
    <2> QED BY <1>5, <1>7, <1>8, FS_PigeonHole
  <1>10. PICK x \in K, y \in K : x # y /\ Rank(x) = Rank(y)
    BY <1>9
  <1>11. x < y \/ y < x
    BY <1>10
  <1>12. Rank(x) \in Nat /\ Rank(y) \in Nat
    BY <1>2
  <1> HIDE DEF Rank
  <1> QED BY <1>10, <1>11, <1>12, <1>3

LEMMA Extremes ==
  ASSUME NEW K \in SUBSET Nat, IsFiniteSet(K)
  PROVE  K # {} => /\ \E i \in K : \A j \in K : i <= j
                   /\ \E i \in K : \A j \in K : i >= j
  <1> SUFFICES ASSUME K # {}
               PROVE  /\ \E i \in K : \A j \in K : i <= j
                      /\ \E i \in K : \A j \in K : i >= j
    OBVIOUS
  <1>1. Cardinality(K) \in Nat /\ Cardinality(K) # 0
    BY FS_CardinalityType, FS_EmptySet
  <1>2. \E i \in K : \A j \in K : i >= j
    <2>1. Cardinality(K) \in 1 .. Cardinality(K)
      BY <1>1
    <2>2. PICK i \in K : Cardinality({j \in K : j <= i}) = Cardinality(K)
      BY <2>1, Ranked
    <2>3. {j \in K : j <= i} \in SUBSET K
      OBVIOUS
    <2>4. {j \in K : j <= i} = K
      BY <2>2, <2>3, FS_Subset
    <2>5. \A j \in K : j <= i
      BY <2>4
    <2> QED BY <2>5
  <1>3. \E i \in K : \A j \in K : i <= j
    <2>1. 1 \in 1 .. Cardinality(K)
      BY <1>1
    <2>2. PICK i \in K : Cardinality({j \in K : j <= i}) = 1
      BY <2>1, Ranked
    <2> DEFINE B == {j \in K : j <= i}
    <2>3. B \in SUBSET K /\ i \in B
      OBVIOUS
    <2>4. IsFiniteSet(B)
      BY <2>3, FS_Subset
    <2> HIDE DEF B
    <2>5. \E x : B = {x}
      BY <2>2, <2>4, FS_Singleton DEF B
    <2>6. B = {i}
      BY <2>3, <2>5
    <2>7. ASSUME NEW j \in K PROVE i <= j
      <3>1. SUFFICES ASSUME j < i PROVE FALSE
        OBVIOUS
      <3>2. j \in B
        BY <3>1 DEF B
      <3> QED BY <3>1, <3>2, <2>6
    <2> QED BY <2>7
  <1> QED BY <1>2, <1>3

LEMMA MaxIsMax ==
  ASSUME NEW K \in SUBSET Nat, IsFiniteSet(K)
  PROVE  K # {} => Max(K) \in K /\ \A j \in K : Max(K) >= j
  BY Extremes DEF Max

-----------------------------------------------------------------------------
(* Sessions *)

\* t has no session active that s had not, and none that is active has changed.
Quieter(s, t) == \A m \in Methods :
  t[m].active => /\ s[m].active
                 /\ t[m].id = s[m].id /\ t[m].visible = s[m].visible
                 /\ t[m].scope = s[m].scope /\ t[m].armedBy = s[m].armedBy

LEMMA StoppedFacts ==
  ASSUME NEW s \in [Methods -> Session], NEW M, NEW late
  PROVE  /\ Stopped(s, M, late) \in [Methods -> Session]
         /\ Quieter(s, Stopped(s, M, late))
         /\ \A m \in M \cap Methods : ~Stopped(s, M, late)[m].active
         /\ \A m \in Methods : Stopped(s, M, late)[m].id = s[m].id
  <1>1. ASSUME NEW m \in Methods
        PROVE  /\ Stopped(s, M, late)[m] \in Session
               /\ Stopped(s, M, late)[m].active => Stopped(s, M, late)[m] = s[m] /\ m \notin M
               /\ Stopped(s, M, late)[m].id = s[m].id
    <2>1. s[m] \in Session
      OBVIOUS
    <2>2. (m \in late) \in BOOLEAN
      OBVIOUS
    <2>3. CASE m \in M /\ s[m].active
      <3>1. Stopped(s, M, late)[m] = [s[m] EXCEPT !.active = FALSE, !.pending = m \in late]
        BY <2>3 DEF Stopped
      <3> QED BY <3>1, <2>1, <2>2 DEF Session
    <2>4. CASE ~(m \in M /\ s[m].active)
      <3>1. Stopped(s, M, late)[m] = s[m]
        BY <2>4 DEF Stopped
      <3> QED BY <3>1, <2>1, <2>4 DEF Session
    <2> QED BY <2>3, <2>4
  <1>2. Stopped(s, M, late) = [m \in Methods |-> Stopped(s, M, late)[m]]
    BY DEF Stopped
  <1> QED BY <1>1, <1>2 DEF Quieter

LEMMA ClosedFacts ==
  ASSUME NEW s \in [Methods -> Session], NEW M
  PROVE  /\ Closed(s, M) \in [Methods -> Session]
         /\ Quieter(s, Closed(s, M))
         /\ \A m \in Methods : Closed(s, M)[m].id \in {0, s[m].id}
         /\ \A m \in Methods : Closed(s, M)[m].id # 0 => Closed(s, M)[m] = s[m]
  <1>1. NoSession \in Session /\ ~NoSession.active /\ NoSession.id = 0
    BY TablesAssumption DEF NoSession, Session
  <1>2. ASSUME NEW m \in Methods
        PROVE  Closed(s, M)[m] = s[m] \/ Closed(s, M)[m] = NoSession
    BY DEF Closed
  <1>3. Closed(s, M) = [m \in Methods |-> Closed(s, M)[m]]
    BY DEF Closed
  <1>4. Closed(s, M) \in [Methods -> Session]
    BY <1>1, <1>2, <1>3
  <1> QED BY <1>1, <1>2, <1>4 DEF Quieter

LEMMA DrainedFacts ==
  ASSUME NEW s \in [Methods -> Session], NEW M
  PROVE  Drained(s, M) \in [Methods -> Session] /\ Quieter(s, Drained(s, M))
  <1>1. ASSUME NEW m \in Methods
        PROVE  /\ Drained(s, M)[m] \in Session
               /\ Drained(s, M)[m].active = s[m].active /\ Drained(s, M)[m].id = s[m].id
               /\ Drained(s, M)[m].visible = s[m].visible /\ Drained(s, M)[m].scope = s[m].scope
               /\ Drained(s, M)[m].armedBy = s[m].armedBy
    <2>1. s[m] \in Session
      OBVIOUS
    <2>2. CASE m \in M
      <3>1. Drained(s, M)[m] = [s[m] EXCEPT !.pending = FALSE]
        BY <2>2 DEF Drained
      <3> QED BY <3>1, <2>1 DEF Session
    <2>3. CASE m \notin M
      <3>1. Drained(s, M)[m] = s[m]
        BY <2>3 DEF Drained
      <3> QED BY <3>1, <2>1
    <2> QED BY <2>2, <2>3
  <1>2. Drained(s, M) = [m \in Methods |-> Drained(s, M)[m]]
    BY DEF Drained
  <1> QED BY <1>1, <1>2 DEF Quieter

\* A start changes the session of its method, which it may, and no other.
LEMMA StartedFacts ==
  ASSUME NEW s \in [Methods -> Session], NEW m \in Methods,
         NEW scope \in Objects \cup {NoObject}, NEW visible \in BOOLEAN,
         NEW who \in {"nobody", "user", "mcp", "watch"},
         Startable(s, m, scope), Numbered(s, m), lastTrace \in 0 .. MaxTraceIds
  PROVE  /\ Started(s, m, scope, visible, who) \in [Methods -> Session]
         /\ Started(s, m, scope, visible, who)[m].active
         /\ Started(s, m, scope, visible, who)[m].scope = scope
         /\ Started(s, m, scope, visible, who)[m].armedBy = who
         /\ visible => Started(s, m, scope, visible, who)[m].visible
         /\ Started(s, m, scope, visible, who)[m].id # 0
         /\ \A n \in Methods \ {m} : Started(s, m, scope, visible, who)[n] = s[n]
  <1> DEFINE t == Started(s, m, scope, visible, who)
  <1>0. s[m] \in Session /\ MaxTraceIds \in Nat
    BY TablesAssumption
  <1>1. CASE s[m].id = 0
    <2> DEFINE r == [id |-> lastTrace + 1, active |-> TRUE, visible |-> visible,
                     pending |-> FALSE, scope |-> scope, armedBy |-> who]
    <2>1. t = [s EXCEPT ![m] = r]
      BY <1>1 DEF Started
    <2>2. lastTrace + 1 \in 0 .. MaxTraceIds /\ lastTrace + 1 # 0
      BY <1>0, <1>1 DEF Numbered
    <2>3. r \in Session
      BY <2>2 DEF Session
    <2>4. r.active /\ r.scope = scope /\ r.armedBy = who /\ r.visible = visible /\ r.id # 0
      BY <2>2
    <2> HIDE DEF r, t
    <2> QED BY <2>1, <2>3, <2>4 DEF t
  <1>2. CASE s[m].id # 0
    <2> DEFINE r == [s[m] EXCEPT !.active = TRUE, !.visible = s[m].visible \/ visible, !.armedBy = who]
    <2>1. t = [s EXCEPT ![m] = r]
      BY <1>2, <1>0 DEF Started, Session
    <2>2. (s[m].visible \/ visible) \in BOOLEAN
      OBVIOUS
    <2>3. r \in Session
      BY <2>2, <1>0 DEF Session
    <2>4. /\ r.active /\ r.scope = s[m].scope /\ r.armedBy = who
          /\ r.visible = (s[m].visible \/ visible) /\ r.id = s[m].id
      BY <1>0, <2>2 DEF Session
    <2>5. s[m].scope = scope
      BY <1>2 DEF Startable
    <2> HIDE DEF r, t
    <2> QED BY <1>2, <2>1, <2>3, <2>4, <2>5 DEF t
  <1> QED BY <1>1, <1>2

-----------------------------------------------------------------------------
(* Handles *)

LEMMA FreeTokens ==
  ASSUME NEW h, FreeIn(h) # {}
  PROVE  LowToken(h) \in FreeIn(h) /\ HighToken(h) \in FreeIn(h)
  <1>1. FreeIn(h) \in SUBSET Tokens
    BY DEF FreeIn
  <1>2. FreeIn(h) \in SUBSET Nat /\ IsFiniteSet(FreeIn(h))
    BY <1>1, TablesAssumption, FS_Subset
  <1>3. /\ \E i \in FreeIn(h) : \A j \in FreeIn(h) : i <= j
        /\ \E i \in FreeIn(h) : \A j \in FreeIn(h) : i >= j
    BY <1>2, Extremes
  <1>4. /\ \E i \in FreeIn(h) : \A j \in FreeIn(h) : j >= i
        /\ \E i \in FreeIn(h) : \A j \in FreeIn(h) : j <= i
    BY <1>2, <1>3
  <1> QED BY <1>3, <1>4 DEF LowToken, HighToken

HeldIn(h) == {t \in Tokens : h[t] # Free}

LEMMA ReleasedFacts ==
  ASSUME NEW h \in [Tokens -> Handle], NEW T
  PROVE  /\ Released(h, T) \in [Tokens -> Handle]
         /\ HeldIn(Released(h, T)) = HeldIn(h) \ T
  BY DEF Released, HeldIn, Handle, Free

LEMMA RootedFacts ==
  ASSUME NEW h \in [Tokens -> Handle], NEW t \in FreeIn(h), NEW o \in Objects, NEW strong \in BOOLEAN
  PROVE  /\ Rooted(h, t, o, strong) \in [Tokens -> Handle]
         /\ HeldIn(Rooted(h, t, o, strong)) = HeldIn(h) \cup {t}
         /\ t \notin HeldIn(h) /\ t \in Tokens /\ t # 0
  <1>1. t \in Tokens /\ h[t] = Free /\ t # 0
    BY TablesAssumption DEF FreeIn
  <1>2. [obj |-> o, strong |-> strong] \in Handle /\ [obj |-> o, strong |-> strong] # Free
    BY TablesAssumption DEF Handle, Free
  <1> QED BY <1>1, <1>2 DEF Rooted, HeldIn

\* watch_reference_for() roots the object of a reading behind a new token.
LEMMA CapturedFacts ==
  ASSUME NEW h \in [Tokens -> Handle], NEW v \in Objects \cup {NoObject}, CanCapture(h, v)
  PROVE  /\ Captured(h, v) \in [Tokens -> Handle]
         /\ TokenFor(h, v) \in Tokens \cup {0}
         /\ HeldIn(Captured(h, v)) = HeldIn(h) \cup ({TokenFor(h, v)} \ {0})
         /\ TokenFor(h, v) \notin HeldIn(h)
  <1>1. CASE v = NoObject
    <2>1. 0 \notin Tokens
      BY TablesAssumption
    <2> QED BY <1>1, <2>1 DEF Captured, TokenFor, NoToken, HeldIn
  <1>2. CASE v # NoObject
    <2>1. LowToken(h) \in FreeIn(h)
      BY <1>2, FreeTokens DEF CanCapture
    <2>2. Captured(h, v) = Rooted(h, LowToken(h), v, FALSE) /\ TokenFor(h, v) = LowToken(h)
      BY <1>2 DEF Captured, TokenFor
    <2>3. FALSE \in BOOLEAN /\ v \in Objects
      BY <1>2
    <2> DEFINE t == LowToken(h)
    <2> HIDE DEF t
    <2>4. /\ Rooted(h, t, v, FALSE) \in [Tokens -> Handle]
          /\ HeldIn(Rooted(h, t, v, FALSE)) = HeldIn(h) \cup {t}
          /\ t \notin HeldIn(h) /\ t \in Tokens /\ t # 0
      BY <2>1, <2>3, RootedFacts DEF t
    <2>5. Captured(h, v) = Rooted(h, t, v, FALSE) /\ TokenFor(h, v) = t
      BY <2>2 DEF t
    <2> QED BY <2>4, <2>5
  <1> QED BY <1>1, <1>2

-----------------------------------------------------------------------------
(* The store of references *)

LEMMA StoredFacts ==
  ASSUME references \in Seq(Entry), Len(references) <= MaxReferences,
         NEW new \in Seq(Entry)
  PROVE  /\ Overflow(Len(new)) \in Nat /\ Overflow(Len(new)) <= Len(references) + Len(new)
         /\ Stored(new) \in Seq(Entry)
         /\ Len(Stored(new)) = (Len(references) + Len(new)) - Overflow(Len(new))
         /\ Len(Stored(new)) <= MaxReferences
         /\ \A k \in 1 .. (Len(references) + Len(new)) - Overflow(Len(new)) :
              Stored(new)[k] = IF k + Overflow(Len(new)) <= Len(references)
                                 THEN references[k + Overflow(Len(new))]
                                 ELSE new[(k + Overflow(Len(new))) - Len(references)]
  <1> DEFINE n == Len(new)
             d == Overflow(n)
             all == references \o new
  <1>1. n \in Nat /\ Len(references) \in Nat /\ MaxReferences \in Nat
    BY ToolsAssumption
  <1>2. d \in Nat /\ d <= Len(references) + n /\ (Len(references) + n) - d <= MaxReferences
    BY <1>1 DEF Overflow
  <1>3. all \in Seq(Entry) /\ Len(all) = Len(references) + n
    OBVIOUS
  <1>4. \A i \in 1 .. Len(references) + n :
          all[i] = IF i <= Len(references) THEN references[i] ELSE new[i - Len(references)]
    OBVIOUS
  <1>5. Stored(new) = SubSeq(all, d + 1, Len(all))
    BY DEF Stored
  <1> HIDE DEF d, all, n
  <1>6. /\ Stored(new) \in Seq(Entry)
        /\ Len(Stored(new)) = (Len(references) + n) - d
        /\ \A k \in 1 .. (Len(references) + n) - d : Stored(new)[k] = all[k + d]
    <2> DEFINE a == d + 1
               z == Len(all)
               sub == SubSeq(all, a, z)
    <2>1. a \in Int /\ z \in Int /\ z = Len(references) + n
      BY <1>1, <1>2, <1>3
    <2>2. \A i \in a .. z : all[i] \in Entry
      BY <1>1, <1>2, <1>3
    <2> HIDE DEF a, z
    <2>3. /\ SubSeq(all, a, z) \in Seq(Entry)
          /\ Len(SubSeq(all, a, z)) = IF a <= z THEN z - a + 1 ELSE 0
          /\ \A i \in 1 .. z - a + 1 : SubSeq(all, a, z)[i] = all[a + i - 1]
      BY <2>1, <2>2, SubSeqProperties
    <2> HIDE DEF sub
    <2>4. sub \in Seq(Entry) /\ Len(sub) = z - d /\ \A k \in 1 .. z - d : sub[k] = all[k + d]
      <3>1. sub \in Seq(Entry)
        BY <2>3 DEF sub
      <3>2. Len(sub) = IF a <= z THEN z - a + 1 ELSE 0
        BY <2>3 DEF sub
      <3>3. ASSUME NEW k \in 1 .. z - d PROVE sub[k] = all[k + d]
        <4>1. k \in 1 .. z - a + 1 /\ a + k - 1 = k + d
          BY <2>1, <1>2 DEF a
        <4>2. sub[k] = all[a + k - 1]
          BY <2>3, <4>1 DEF sub
        <4> QED BY <4>1, <4>2
      <3>4. Len(sub) = z - d
        BY <3>2, <2>1, <1>1, <1>2 DEF a
      <3> QED BY <3>1, <3>3, <3>4
    <2>5. Stored(new) = sub
      BY <1>5 DEF sub, a, z
    <2> QED BY <1>1, <1>2, <2>1, <2>4, <2>5
  <1>7. Len(Stored(new)) <= MaxReferences
    BY <1>2, <1>6
  <1>8. ASSUME NEW k \in 1 .. (Len(references) + n) - d
        PROVE  Stored(new)[k] = IF k + d <= Len(references) THEN references[k + d]
                                                            ELSE new[(k + d) - Len(references)]
    <2>1. k + d \in 1 .. Len(references) + n
      BY <1>1, <1>2
    <2>2. Stored(new)[k] = all[k + d]
      BY <1>6
    <2> QED BY <2>1, <2>2, <1>1, <1>2, <1>4
  <1> QED BY <1>1, <1>2, <1>6, <1>7, <1>8 DEF d, n

-----------------------------------------------------------------------------
(* The inductive invariant *)

\* What a watch retains: the newest event is the current value, a baseline comes
\* before the first event and each event has a handle of its own.
WatchOwns(w) ==
  /\ w.events # <<>> => w.events[Len(w.events)] = w.current
  /\ ~w.baseline => w.events = <<>>
  /\ \A i, j \in DOMAIN w.events : i # j /\ w.events[i] # NoToken => w.events[i] # w.events[j]

TokensApart ==
  /\ \A o \in Objects : WatchOwns(watch[o])
  /\ \A o, p \in Objects : o # p => TokensOf(watch[o]) \cap TokensOf(watch[p]) = {}

AboutObjects ==
  \A i \in DOMAIN references :
    references[i].kind \in {"component", "managed"} => references[i].about \in Objects

ActiveNumbered == \A m \in Methods : sessions[m].active => sessions[m].id # 0


OwnedInv == HandlesOwned /\ TokensApart
HooksInv == HookScoped /\ McpTracesTracked /\ ActiveNumbered
WritesInv == UndoGoesBack /\ AboutObjects

ToolsInv == TypeOK /\ OwnedInv /\ HooksInv /\ WritesInv /\ MutationsCurrent

\* A part holds on while what it speaks of is left alone.
LEMMA Frames ==
  /\ OwnedInv /\ UNCHANGED <<handles, references, watch, stranded>> => OwnedInv'
  /\ HooksInv /\ UNCHANGED <<sessions, heap, watch, mcpTraces>> => HooksInv'
  /\ WritesInv /\ UNCHANGED <<references, journal, values>> => WritesInv'
  /\ MutationsCurrent /\ UNCHANGED answer => MutationsCurrent'
  /\ ToolsTypeOK /\ UNCHANGED toolVars => ToolsTypeOK'
  <1>1. OwnedInv /\ UNCHANGED <<handles, references, watch, stranded>> => OwnedInv'
    <2> SUFFICES ASSUME OwnedInv, UNCHANGED <<handles, references, watch, stranded>> PROVE OwnedInv'
      OBVIOUS
    <2>1. /\ Held' = Held /\ ReferenceTokens' = ReferenceTokens
          /\ WatchTokens' = WatchTokens
      BY DEF Held, ReferenceTokens, WatchTokens
    <2>2. HandlesOwned'
      BY <2>1 DEF OwnedInv, HandlesOwned
    <2>3. TokensApart'
      BY DEF OwnedInv, TokensApart
    <2> QED BY <2>2, <2>3 DEF OwnedInv
  <1>2. HooksInv /\ UNCHANGED <<sessions, heap, watch, mcpTraces>> => HooksInv'
    BY DEF HooksInv, HookScoped, McpTracesTracked, ActiveNumbered
  <1>3. WritesInv /\ UNCHANGED <<references, journal, values>> => WritesInv'
    BY DEF WritesInv, UndoGoesBack, AboutObjects
  <1>4. MutationsCurrent /\ UNCHANGED answer => MutationsCurrent'
    BY DEF MutationsCurrent
  <1>5. ToolsTypeOK /\ UNCHANGED toolVars => ToolsTypeOK'
    BY DEF ToolsTypeOK, toolVars, sceneVars, writes
  <1> QED BY <1>1, <1>2, <1>3, <1>4, <1>5

LEMMA JournalAgedFacts ==
  ASSUME journal \in Seq(Write), NEW n \in Nat
  PROVE  /\ JournalAged(n) \in Seq(Write) /\ Len(JournalAged(n)) = Len(journal)
         /\ \A i \in 1 .. Len(journal) : /\ JournalAged(n)[i].about = journal[i].about
                                         /\ JournalAged(n)[i].previous = journal[i].previous
  <1>1. Len(journal) \in Nat /\ DOMAIN journal = 1 .. Len(journal)
    OBVIOUS
  <1>2. ASSUME NEW i \in 1 .. Len(journal)
        PROVE  /\ [journal[i] EXCEPT !.place = Aged(@, n)] \in Write
               /\ JournalAged(n)[i].about = journal[i].about
               /\ JournalAged(n)[i].previous = journal[i].previous
    <2>1. journal[i] \in Write
      OBVIOUS
    <2>2. Aged(journal[i].place, n) \in 0 .. MaxReferences
      BY <2>1, ToolsAssumption DEF Aged, Write
    <2> QED BY <2>1, <2>2, <1>1 DEF Write, JournalAged
  <1>3. JournalAged(n) = [i \in 1 .. Len(journal) |-> [journal[i] EXCEPT !.place = Aged(@, n)]]
    BY <1>1 DEF JournalAged
  <1>4. JournalAged(n) \in [1 .. Len(journal) -> Write]
    BY <1>2, <1>3
  <1>5. JournalAged(n) \in Seq(Write) /\ Len(JournalAged(n)) = Len(journal)
    <2> HIDE DEF JournalAged
    <2> QED BY <1>4, <1>1, SeqDef, LenProperties
  <1> QED BY <1>2, <1>5

\* What a step of issue_reference() leaves of the store.
LEMMA IssuedStore ==
  ASSUME references \in Seq(Entry), Len(references) <= MaxReferences,
         NEW new \in Seq(Entry), NEW h, Issue(new, h)
  PROVE  \E d \in Nat :
           /\ d <= Len(references) + Len(new)
           /\ Len(new) = 1 => d <= Len(references)
           /\ references' \in Seq(Entry) /\ Len(references') <= MaxReferences
           /\ Len(references') = (Len(references) + Len(new)) - d
           /\ \A k \in 1 .. (Len(references) + Len(new)) - d :
                references'[k] = IF k + d <= Len(references) THEN references[k + d]
                                                             ELSE new[(k + d) - Len(references)]
           /\ handles' = Released(h, {references[i].handle : i \in 1 .. Len(references) \cap 1 .. d})
           /\ journal' = JournalAged(d)
  <1> DEFINE n == Len(new)
             d == Overflow(n)
             size == Len(references) + n
  <1>1. /\ d \in Nat /\ d <= size /\ n \in Nat /\ Len(references) \in Nat
        /\ references' \in Seq(Entry) /\ Len(references') = size - d
        /\ Len(references') <= MaxReferences
        /\ \A k \in 1 .. size - d :
             references'[k] = IF k + d <= Len(references) THEN references[k + d]
                                                          ELSE new[(k + d) - Len(references)]
    <2>1. references' = Stored(new)
      BY DEF Issue
    <2>2. /\ d \in Nat /\ d <= size /\ Stored(new) \in Seq(Entry)
          /\ Len(Stored(new)) = size - d /\ Len(Stored(new)) <= MaxReferences
          /\ \A k \in 1 .. size - d :
               Stored(new)[k] = IF k + d <= Len(references) THEN references[k + d]
                                                            ELSE new[(k + d) - Len(references)]
      BY StoredFacts, Zenon
    <2>4. n \in Nat /\ Len(references) \in Nat
      OBVIOUS
    <2> HIDE DEF d, n, size
    <2> QED BY <2>1, <2>2, <2>4
  <1>2. n = 1 => d <= Len(references)
    BY <1>1, ToolsAssumption DEF Overflow
  <1>3. handles' = Released(h, {references[i].handle : i \in 1 .. Len(references) \cap 1 .. d})
    <2>1. DOMAIN references = 1 .. Len(references)
      OBVIOUS
    <2> QED BY <2>1, Zenon DEF Issue, Evicted
  <1>4. journal' = JournalAged(d)
    BY DEF Issue
  <1> HIDE DEF d
  <1> QED BY <1>1, <1>2, <1>3, <1>4, Zenon

LEMMA IssueTyped ==
  ASSUME references \in Seq(Entry), Len(references) <= MaxReferences, AboutObjects,
         journal \in Seq(Write), UndoGoesBack, Len(journal) <= MaxJournal, UNCHANGED values,
         NEW new \in Seq(Entry), NEW h \in [Tokens -> Handle], Issue(new, h),
         \A k \in 1 .. Len(new) :
           new[k].kind \in {"component", "managed"} => new[k].about \in Objects
  PROVE  /\ references' \in Seq(Entry) /\ Len(references') <= MaxReferences
         /\ handles' \in [Tokens -> Handle]
         /\ journal' \in Seq(Write) /\ Len(journal') <= MaxJournal
         /\ AboutObjects' /\ UndoGoesBack'
  <1> DEFINE n == Len(new)
             size == Len(references) + n
  <1>0. n \in Nat /\ Len(references) \in Nat
    OBVIOUS
  <1>1. PICK d \in Nat :
          /\ d <= size
          /\ references' \in Seq(Entry) /\ Len(references') <= MaxReferences
          /\ Len(references') = size - d
          /\ \A k \in 1 .. size - d :
               references'[k] = IF k + d <= Len(references) THEN references[k + d]
                                                            ELSE new[(k + d) - Len(references)]
          /\ journal' = JournalAged(d)
    BY IssuedStore, Zenon
  <1>2. size \in Nat
    BY <1>0
  <1>3. handles' \in [Tokens -> Handle]
    BY ReleasedFacts DEF Issue
  <1>4. /\ journal' \in Seq(Write) /\ Len(journal') = Len(journal)
        /\ \A i \in 1 .. Len(journal) : /\ journal'[i].about = journal[i].about
                                        /\ journal'[i].previous = journal[i].previous
    BY <1>1, JournalAgedFacts
  <1>5. DOMAIN journal = 1 .. Len(journal) /\ DOMAIN journal' = 1 .. Len(journal)
    BY <1>4
  <1>6. UndoGoesBack'
    BY <1>4, <1>5 DEF UndoGoesBack
  <1>7. AboutObjects'
    <2>1. DOMAIN references' = 1 .. size - d
      BY <1>1
    <2> SUFFICES ASSUME NEW k \in 1 .. size - d,
                        references'[k].kind \in {"component", "managed"}
                 PROVE  references'[k].about \in Objects
      BY <2>1 DEF AboutObjects
    <2>2. k + d \in 1 .. size
      BY <1>1, <1>2
    <2> HIDE DEF n
    <2>3. CASE k + d <= Len(references)
      <3>1. k + d \in DOMAIN references /\ references'[k] = references[k + d]
        BY <2>2, <2>3, <1>0, <1>1, <1>2
      <3> QED BY <3>1 DEF AboutObjects
    <2>4. CASE ~(k + d <= Len(references))
      <3>1. /\ (k + d) - Len(references) \in 1 .. n
            /\ references'[k] = new[(k + d) - Len(references)]
        BY <2>2, <2>4, <1>0, <1>1, <1>2
      <3> QED BY <3>1 DEF n
    <2> QED BY <2>3, <2>4
  <1> QED BY <1>1, <1>3, <1>4, <1>6, <1>7

\* The tokens the store owns, by their places.
LEMMA StoreTokens ==
  ASSUME references \in Seq(Entry)
  PROVE  ReferenceTokens = {references[i].handle : i \in 1 .. Len(references)} \ {0}
  <1>1. Range(references) = {references[i] : i \in 1 .. Len(references)}
    BY DEF Range
  <1> QED BY <1>1 DEF ReferenceTokens

\* The handles: those of the evicted entries go, and g, if the new entry has one, comes.
LEMMA IssueOwned ==
  ASSUME references \in Seq(Entry), Len(references) <= MaxReferences, handles \in [Tokens -> Handle],
         HandlesOwned, UNCHANGED watch,
         NEW new \in Seq(Entry), NEW h \in [Tokens -> Handle], Issue(new, h),
         NEW g \in Nat,
         \A k \in 1 .. Len(new) : new[k].handle = g,
         g # 0 => Len(new) = 1,
         g \notin Held, HeldIn(h) = Held \cup ({g} \ {0}),
         UNCHANGED stranded
  PROVE  HandlesOwned'
  <1>1. PICK d \in Nat :
          /\ d <= Len(references) + Len(new)
          /\ Len(new) = 1 => d <= Len(references)
          /\ references' \in Seq(Entry)
          /\ Len(references') = (Len(references) + Len(new)) - d
          /\ \A k \in 1 .. (Len(references) + Len(new)) - d :
               references'[k] = IF k + d <= Len(references) THEN references[k + d]
                                                            ELSE new[(k + d) - Len(references)]
          /\ handles' = Released(h, {references[i].handle : i \in 1 .. Len(references) \cap 1 .. d})
    BY IssuedStore
  <1> DEFINE r == Len(references)
             n == Len(new)
             hd == [i \in 1 .. r |-> references[i].handle]
             ev == {hd[i] : i \in 1 .. r \cap 1 .. d}
             size == (r + n) - d
  <1>2. r \in Nat /\ n \in Nat
    OBVIOUS
  <1>3. size \in Nat
    BY <1>1, <1>2
  <1>4. ReferenceTokens = {hd[i] : i \in 1 .. r} \ {0}
    BY StoreTokens
  <1>5. ReferenceTokens' = {references'[k].handle : k \in 1 .. size} \ {0}
    <2>1. Range(references') = {references'[k] : k \in 1 .. Len(references')}
      BY <1>1 DEF Range
    <2>2. Len(references') = size
      BY <1>1
    <2> HIDE DEF size
    <2> QED BY <2>1, <2>2 DEF ReferenceTokens
  <1>6. \A i, j \in 1 .. r : i # j /\ hd[i] # 0 => hd[i] # hd[j]
    BY DEF HandlesOwned
  <1>7. \A i \in 1 .. r : hd[i] # 0 => hd[i] \in Held
    BY <1>4 DEF HandlesOwned
  <1>8. ASSUME NEW k \in 1 .. size
        PROVE  /\ k + d <= r => k + d \in 1 .. r /\ references'[k].handle = hd[k + d]
               /\ k + d > r => references'[k].handle = g /\ n # 0
    <2>1. CASE k + d <= r
      <3>1. k + d \in 1 .. r /\ references'[k] = references[k + d]
        BY <2>1, <1>1, <1>2
      <3> QED BY <3>1, <2>1, <1>2
    <2>2. CASE ~(k + d <= r)
      <3>1. (k + d) - r \in 1 .. n /\ references'[k] = new[(k + d) - r]
        BY <2>2, <1>1, <1>2
      <3> QED BY <3>1, <2>2, <1>2
    <2> QED BY <2>1, <2>2
  <1>9. ReferenceTokens' = (ReferenceTokens \ ev) \cup ({g} \ {0})
    <2>1. ASSUME NEW k \in 1 .. size, references'[k].handle # 0
          PROVE  references'[k].handle \in (ReferenceTokens \ ev) \cup ({g} \ {0})
      <3> HIDE DEF hd, size, r, n
      <3>1. CASE k + d <= r
        <4>1. k + d \in 1 .. r /\ references'[k].handle = hd[k + d] /\ k + d \notin 1 .. d
          BY <3>1, <1>8, <1>2
        <4>2. hd[k + d] \notin ev
          BY <4>1, <2>1, <1>6
        <4> QED BY <4>1, <4>2, <2>1, <1>4
      <3>2. CASE k + d > r
        BY <3>2, <1>8, <2>1
      <3>3. k \in Nat
        BY <1>3
      <3> QED BY <3>1, <3>2, <3>3, <1>2
    <2>2. ASSUME NEW i \in 1 .. r, hd[i] # 0, hd[i] \notin ev
          PROVE  hd[i] \in ReferenceTokens'
      <3>0. i \in 1 .. r \cap 1 .. d => hd[i] \in ev
        OBVIOUS
      <3>1. i > d
        BY <2>2, <3>0, <1>2
      <3> HIDE DEF hd, r, n, ev
      <3>2. i - d \in 1 .. size /\ (i - d) + d = i
        BY <3>1, <1>2
      <3>3. references'[i - d].handle = hd[i]
        BY <3>2, <1>8, <1>2
      <3> QED BY <3>2, <3>3, <2>2, <1>5
    <2>3. g # 0 => g \in ReferenceTokens'
      <3>1. SUFFICES ASSUME g # 0 PROVE g \in ReferenceTokens'
        OBVIOUS
      <3>2. n = 1 /\ d <= r
        BY <3>1, <1>1
      <3> HIDE DEF hd, r, n, ev
      <3>3. (r + 1) - d \in 1 .. size /\ ((r + 1) - d) + d > r
        BY <3>2, <1>2
      <3>4. references'[(r + 1) - d].handle = g
        BY <3>3, <1>8
      <3> QED BY <3>3, <3>4, <3>1, <1>5
    <2> HIDE DEF hd, r, n, ev, size
    <2>4. ReferenceTokens' \subseteq (ReferenceTokens \ ev) \cup ({g} \ {0})
      BY <2>1, <1>5
    <2>5. ReferenceTokens \ ev \subseteq ReferenceTokens'
      BY <2>2, <1>4
    <2> QED BY <2>3, <2>4, <2>5
  <1>10. WatchTokens' = WatchTokens
    BY DEF WatchTokens
  <1>11. /\ 0 \notin WatchTokens /\ WatchTokens \cup ReferenceTokens \cup stranded = Held
         /\ WatchTokens \cap ReferenceTokens = {}
         /\ stranded \cap (WatchTokens \cup ReferenceTokens) = {} /\ 0 \notin stranded
    <2>1. 0 \notin Held
      BY TablesAssumption DEF Held
    <2> QED BY <2>1 DEF HandlesOwned, WatchTokens, TokensOf, NoToken
  <1>12. ev \subseteq ReferenceTokens \cup {0}
    BY <1>4
  <1>13. Held' = HeldIn(h) \ ev
    <2>1. handles' = Released(h, ev)
      BY <1>1
    <2>2. Held' = HeldIn(handles')
      BY DEF Held, HeldIn
    <2> QED BY <2>1, <2>2, ReleasedFacts
  <1>14. /\ Held' = WatchTokens' \cup ReferenceTokens' \cup stranded'
         /\ WatchTokens' \cap ReferenceTokens' = {}
         /\ stranded' \cap (WatchTokens' \cup ReferenceTokens') = {}
    <2> HIDE DEF ev
    <2>1. g # 0 => g \notin ev
      BY <1>11, <1>12
    <2> QED BY <2>1, <1>9, <1>10, <1>11, <1>12, <1>13
  <1>15. \A i, j \in 1 .. size :
           i # j /\ references'[i].handle # 0 => references'[i].handle # references'[j].handle
    <2> SUFFICES ASSUME NEW i \in 1 .. size, NEW j \in 1 .. size, i # j,
                        references'[i].handle # 0, references'[i].handle = references'[j].handle
                 PROVE  FALSE
      OBVIOUS
    <2>0. i \in Nat /\ j \in Nat
      BY <1>3
    <2> HIDE DEF hd, r, ev
    <2>1. CASE i + d <= r /\ j + d <= r
      <3>1. /\ i + d \in 1 .. r /\ references'[i].handle = hd[i + d]
            /\ j + d \in 1 .. r /\ references'[j].handle = hd[j + d]
        BY <2>1, <1>8
      <3>2. i + d # j + d
        BY <2>0
      <3> QED BY <3>1, <3>2, <1>6
    <2>2. CASE i + d > r /\ j + d > r
      <3>1. g # 0
        BY <2>2, <1>8
      <3>2. n = 1
        BY <3>1
      <3> QED BY <3>2, <2>0, <2>2, <1>2, <1>3
    <2>3. CASE i + d <= r /\ j + d > r
      <3>1. i + d \in 1 .. r /\ references'[i].handle = hd[i + d] /\ references'[j].handle = g
        BY <2>3, <1>8
      <3> QED BY <3>1, <1>7
    <2>4. CASE i + d > r /\ j + d <= r
      <3>1. j + d \in 1 .. r /\ references'[j].handle = hd[j + d] /\ references'[i].handle = g
        BY <2>4, <1>8
      <3> QED BY <3>1, <1>7
    <2> QED BY <2>0, <2>1, <2>2, <2>3, <2>4, <1>2
  <1>16. DOMAIN references' = 1 .. size
    BY <1>1
  <1> HIDE DEF size
  <1> QED BY <1>14, <1>15, <1>16 DEF HandlesOwned

-----------------------------------------------------------------------------
(* The watches *)

\* One watch gives back R and takes g; the other owners have neither.
LEMMA WatchOwned ==
  ASSUME watch \in [Objects -> Watch], HandlesOwned, TokensApart, UNCHANGED references,
         NEW o \in Objects, NEW w \in Watch, watch' = [watch EXCEPT ![o] = w], WatchOwns(w),
         NEW R, NEW g,
         R \subseteq TokensOf(watch[o]) \cup {0},
         HeldIn(handles') = (Held \ R) \cup ({g} \ {0}), g \notin Held \ R,
         TokensOf(w) = (TokensOf(watch[o]) \ R) \cup ({g} \ {0}),
         UNCHANGED stranded
  PROVE  HandlesOwned' /\ TokensApart'
  <1> DEFINE Others == UNION {TokensOf(watch[p]) : p \in Objects \ {o}}
             own == TokensOf(watch[o])
  <1>1. WatchTokens = own \cup Others
    BY DEF WatchTokens
  <1>2. WatchTokens' = TokensOf(w) \cup Others
    <2>1. watch'[o] = w /\ \A p \in Objects \ {o} : watch'[p] = watch[p]
      OBVIOUS
    <2>2. Objects = (Objects \ {o}) \cup {o}
      OBVIOUS
    <2>3. WatchTokens' = UNION {TokensOf(watch'[p]) : p \in Objects}
      BY DEF WatchTokens, TokensOf
    <2> QED BY <2>1, <2>2, <2>3
  <1>3. own \cap Others = {}
    BY DEF TokensApart
  <1>4. 0 \notin own /\ 0 \notin Others
    BY DEF TokensOf, NoToken
  <1>5. /\ Held = own \cup Others \cup ReferenceTokens \cup stranded
        /\ (own \cup Others) \cap ReferenceTokens = {}
        /\ stranded \cap (own \cup Others \cup ReferenceTokens) = {} /\ 0 \notin stranded
    <2>1. 0 \notin Held
      BY TablesAssumption DEF Held
    <2> QED BY <2>1, <1>1 DEF HandlesOwned
  <1>6. 0 \notin ReferenceTokens /\ ReferenceTokens' = ReferenceTokens
    BY DEF ReferenceTokens
  <1>7. Held' = HeldIn(handles')
    BY DEF Held, HeldIn
  <1> HIDE DEF own, Others
  <1>8. TokensOf(w) \cap Others = {} /\ TokensOf(w) \cap (ReferenceTokens \cup stranded) = {}
    BY <1>3, <1>4, <1>5 DEF own
  <1>9. Held' = TokensOf(w) \cup Others \cup ReferenceTokens \cup stranded
    BY <1>3, <1>4, <1>5, <1>6, <1>7 DEF own
  <1>10. HandlesOwned'
    <2>1. /\ Held' = WatchTokens' \cup ReferenceTokens' \cup stranded'
          /\ WatchTokens' \cap ReferenceTokens' = {}
          /\ stranded' \cap (WatchTokens' \cup ReferenceTokens') = {}
      BY <1>2, <1>5, <1>6, <1>8, <1>9
    <2>2. \A i, j \in DOMAIN references' :
            i # j /\ references'[i].handle # 0 => references'[i].handle # references'[j].handle
      BY DEF HandlesOwned
    <2> QED BY <2>1, <2>2 DEF HandlesOwned
  <1>11. TokensApart'
    <2>1. ASSUME NEW p \in Objects PROVE watch'[p] = IF p = o THEN w ELSE watch[p]
      OBVIOUS
    <2>2. ASSUME NEW p \in Objects PROVE WatchOwns(watch'[p])
      BY <2>1 DEF TokensApart
    <2>3. ASSUME NEW p \in Objects \ {o} PROVE TokensOf(watch[p]) \subseteq Others
      BY DEF Others
    <2>4. ASSUME NEW p \in Objects, NEW q \in Objects, p # q
          PROVE  TokensOf(watch'[p]) \cap TokensOf(watch'[q]) = {}
      <3>1. CASE p = o
        BY <3>1, <2>1, <2>3, <2>4, <1>8
      <3>2. CASE q = o
        BY <3>2, <2>1, <2>3, <2>4, <1>8
      <3>3. CASE p # o /\ q # o
        BY <3>3, <2>1, <2>4 DEF TokensApart
      <3> QED BY <3>1, <3>2, <3>3
    <2> QED BY <2>2, <2>4 DEF TokensApart, WatchOwns, TokensOf
  <1> QED BY <1>10, <1>11

\* refresh_field_watches() records a change: what the history and the current
\* value give back is theirs, and what is left is the history with the new value.
LEMMA ChangeTokens ==
  ASSUME NEW w \in Watch, WatchOwns(w), Len(w.events) <= MaxEvents,
         NEW g \in Tokens \cup {0}, g \notin TokensOf(w) \ (Outdated(w) \cup Dropped(w)),
         NEW u \in Watch, u.current = g, u.events = Append(Kept(w), g), u.baseline
  PROVE  /\ WatchOwns(u) /\ Len(u.events) <= MaxEvents
         /\ Outdated(w) \cup Dropped(w) \subseteq TokensOf(w) \cup {0}
         /\ TokensOf(u) = (TokensOf(w) \ (Outdated(w) \cup Dropped(w))) \cup ({g} \ {0})
  <1> DEFINE e == w.events
             l == Len(e)
             T == Tokens \cup {0}
             c == IF l = MaxEvents THEN 1 ELSE 0
             k == Kept(w)
             R == Outdated(w) \cup Dropped(w)
  <1>1. e \in Seq(T) /\ l \in Nat /\ MaxEvents \in Nat /\ MaxEvents > 1 /\ l <= MaxEvents
    BY WatchAssumption DEF Watch, NoToken
  <1>2. DOMAIN e = 1 .. l
    BY <1>1
  <1>3. c \in {0, 1} /\ (l = MaxEvents => c = 1) /\ (l # MaxEvents => c = 0)
    BY Zenon
  <1> HIDE DEF c
  <1>4. c \in Nat /\ c <= l /\ (l # 0 => c < l) /\ l - c < MaxEvents
    <2> HIDE DEF l
    <2> QED BY <1>1, <1>3
  <1>5. k \in Seq(T) /\ Len(k) = l - c /\ \A i \in 1 .. l - c : k[i] = e[i + c]
    <2>1. CASE l = MaxEvents
      <3>1. k = Tail(e) /\ e # <<>> /\ c = 1
        BY <2>1, <1>1, <1>3 DEF Kept
      <3> HIDE DEF e
      <3>2. /\ Tail(e) \in Seq(T) /\ Len(Tail(e)) = Len(e) - 1
            /\ \A i \in 1 .. Len(Tail(e)) : Tail(e)[i] = e[i + 1]
        BY <3>1, <1>1, HeadTailProperties
      <3> HIDE DEF k
      <3> QED BY <3>1, <3>2
    <2>2. CASE l # MaxEvents
      <3>1. k = e /\ c = 0
        BY <2>2, <1>3 DEF Kept
      <3> HIDE DEF e, k
      <3> QED BY <3>1, <1>1
    <2> QED BY <2>1, <2>2
  <1> HIDE DEF k
  <1>6. /\ u.events \in Seq(T) /\ Len(u.events) = (l - c) + 1
        /\ \A i \in 1 .. l - c : u.events[i] = e[i + c]
        /\ u.events[(l - c) + 1] = g
    <2>1. u.events = Append(k, g)
      BY DEF k
    <2>2. /\ Append(k, g) \in Seq(T) /\ Len(Append(k, g)) = Len(k) + 1
          /\ \A i \in 1 .. Len(k) : Append(k, g)[i] = k[i]
          /\ Append(k, g)[Len(k) + 1] = g
      BY <1>5, AppendProperties
    <2> HIDE DEF e, l
    <2> QED BY <2>1, <2>2, <1>5
  <1>7. DOMAIN u.events = 1 .. (l - c) + 1
    <2>1. DOMAIN u.events = 1 .. Len(u.events)
      BY <1>6, LenProperties
    <2> QED BY <2>1, <1>6
  <1>8. Range(w.events) = {e[i] : i \in 1 .. l} /\ Range(u.events) = {e[i] : i \in c + 1 .. l} \cup {g}
    <2>1. Range(w.events) = {e[i] : i \in 1 .. l}
      BY <1>2 DEF Range
    <2>2. Range(u.events) = {u.events[i] : i \in 1 .. (l - c) + 1}
      BY <1>7 DEF Range
    <2> HIDE DEF e, c, l
    <2>3. ASSUME NEW i \in 1 .. (l - c) + 1 PROVE u.events[i] \in {e[j] : j \in c + 1 .. l} \cup {g}
      <3>1. CASE i = (l - c) + 1
        BY <3>1, <1>6
      <3>2. CASE i # (l - c) + 1
        <4>1. i \in 1 .. l - c /\ i + c \in c + 1 .. l
          BY <3>2, <1>1, <1>4
        <4> QED BY <4>1, <1>6
      <3> QED BY <3>1, <3>2
    <2>4. ASSUME NEW j \in c + 1 .. l PROVE e[j] \in {u.events[i] : i \in 1 .. (l - c) + 1}
      <3>1. j - c \in 1 .. l - c /\ (j - c) + c = j /\ j - c \in 1 .. (l - c) + 1
        BY <1>1, <1>4
      <3> QED BY <3>1, <1>6
    <2>5. (l - c) + 1 \in 1 .. (l - c) + 1
      BY <1>1, <1>4
    <2>6. g \in {u.events[i] : i \in 1 .. (l - c) + 1}
      BY <2>5, <1>6
    <2> DEFINE A == {u.events[i] : i \in 1 .. (l - c) + 1}
               B == {e[j] : j \in c + 1 .. l}
    <2>7. A \subseteq B \cup {g} /\ B \subseteq A /\ g \in A
      BY <2>3, <2>4, <2>6
    <2> HIDE DEF A, B
    <2>8. A = B \cup {g}
      BY <2>7
    <2> QED BY <2>1, <2>2, <2>8 DEF A, B
  <1>9. \A i, j \in 1 .. l : i # j /\ e[i] # 0 => e[i] # e[j]
    BY <1>2 DEF WatchOwns, NoToken
  <1>10. l # 0 => e[l] = w.current /\ Outdated(w) = {}
    BY <1>1 DEF WatchOwns, Outdated
  <1>11. l = 0 => Outdated(w) = {w.current}
    BY <1>1 DEF Outdated
  <1>12. Dropped(w) = {e[i] : i \in 1 .. c}
    <2>1. CASE l = MaxEvents
      <3>1. Dropped(w) = {Head(e)} /\ c = 1
        BY <2>1, <1>3 DEF Dropped
      <3>2. Head(e) = e[1]
        BY <1>1
      <3> HIDE DEF e
      <3> QED BY <3>1, <3>2
    <2>2. CASE l # MaxEvents
      <3>1. Dropped(w) = {} /\ c = 0
        BY <2>2, <1>3 DEF Dropped
      <3> QED BY <3>1
    <2> QED BY <2>1, <2>2
  <1>13. TokensOf(w) = ({w.current} \cup {e[i] : i \in 1 .. l}) \ {0}
    BY <1>8 DEF TokensOf, NoToken
  <1>14. TokensOf(u) = ({e[i] : i \in c + 1 .. l} \cup {g}) \ {0}
    BY <1>8 DEF TokensOf, NoToken
  <1> HIDE DEF e, l, c
  <1>15. TokensOf(u) = (TokensOf(w) \ R) \cup ({g} \ {0}) /\ R \subseteq TokensOf(w) \cup {0}
    <2>1. CASE l = 0
      <3>1. c = 0 /\ 1 .. l = {} /\ c + 1 .. l = {} /\ 1 .. c = {}
        BY <2>1, <1>4
      <3> QED BY <3>1, <1>11, <1>12, <1>13, <1>14, <2>1
    <2>2. CASE l # 0
      <3>1. l \in c + 1 .. l /\ l \in 1 .. l
        BY <2>2, <1>1, <1>4
      <3>2. 1 .. l = (1 .. c) \cup (c + 1 .. l) /\ \A i \in 1 .. c, j \in c + 1 .. l : i # j
        BY <1>1, <1>4
      <3>3. TokensOf(w) = {e[i] : i \in 1 .. l} \ {0}
        BY <1>10, <1>13, <2>2, <3>1
      <3>4. R = {e[i] : i \in 1 .. c}
        BY <1>10, <1>12, <2>2
      <3>5. {e[i] : i \in c + 1 .. l} \ {0} = ({e[i] : i \in 1 .. l} \ {0}) \ {e[i] : i \in 1 .. c}
        BY <3>2, <1>9
      <3> HIDE DEF R
      <3> QED BY <3>2, <3>3, <3>4, <3>5, <1>14
    <2> QED BY <2>1, <2>2
  <1>16. WatchOwns(u)
    <2> DEFINE z == (l - c) + 1
    <2>0. z \in Nat /\ u.events # <<>>
      BY <1>1, <1>4, <1>6
    <2>1. u.events[Len(u.events)] = u.current
      BY <1>6
    <2>2. ASSUME NEW i \in 1 .. z, NEW j \in 1 .. z, i # j, u.events[i] # 0
          PROVE  u.events[i] # u.events[j]
      <3>1. \A m \in 1 .. l - c : m + c \in 1 .. l /\ m + c \in c + 1 .. l
        BY <1>1, <1>4
      <3>2. g # 0 => \A m \in 1 .. l - c : u.events[m] # g
        <4> SUFFICES ASSUME g # 0, NEW m \in 1 .. l - c, u.events[m] = g PROVE FALSE
          OBVIOUS
        <4>1. m + c \in 1 .. l /\ m + c \in c + 1 .. l /\ e[m + c] = g
          BY <3>1, <1>6
        <4>2. g \in TokensOf(w)
          BY <4>1, <1>13
        <4>3. l # 0
          BY <1>4, <4>1, <1>1
        <4>4. g \notin R
          <5>1. \A n \in 1 .. c : n \in 1 .. l /\ n # m + c
            BY <1>1, <1>4, <4>1
          <5> QED BY <5>1, <4>1, <4>3, <1>9, <1>10, <1>12
        <4> QED BY <4>2, <4>4
      <3>3. CASE i = z
        <4>1. j \in 1 .. l - c
          BY <3>3, <2>2, <1>1, <1>4
        <4> QED BY <3>2, <3>3, <4>1, <2>2, <1>6
      <3>4. CASE j = z
        <4>1. i \in 1 .. l - c
          BY <3>4, <2>2, <1>1, <1>4
        <4> QED BY <3>2, <3>4, <4>1, <2>2, <1>6
      <3>5. CASE i # z /\ j # z
        <4>1. i \in 1 .. l - c /\ j \in 1 .. l - c /\ i + c # j + c
          BY <3>5, <2>2, <1>1, <1>4
        <4> QED BY <3>1, <4>1, <2>2, <1>6, <1>9
      <3> QED BY <3>3, <3>4, <3>5
    <2> QED BY <2>0, <2>1, <2>2, <1>7 DEF WatchOwns, NoToken
  <1>17. Len(u.events) <= MaxEvents
    BY <1>1, <1>4, <1>6
  <1> QED BY <1>15, <1>16, <1>17

-----------------------------------------------------------------------------
(* The hooks *)

\* Sessions that stop, close or drain disturb neither table of who armed them.
LEMMA QuieterKeeps ==
  ASSUME HooksInv, Quieter(sessions, sessions')
  PROVE  /\ ActiveNumbered'
         /\ UNCHANGED mcpTraces => McpTracesTracked'
         /\ UNCHANGED <<heap, watch>> => HookScoped'
  <1>1. ActiveNumbered'
    BY DEF HooksInv, ActiveNumbered, Quieter
  <1>2. UNCHANGED mcpTraces => McpTracesTracked'
    BY DEF HooksInv, McpTracesTracked, Quieter
  <1>3. UNCHANGED <<heap, watch>> => HookScoped'
    BY DEF HooksInv, HookScoped, Quieter
  <1> QED BY <1>1, <1>2, <1>3

\* detach_setter_hook() leaves no hidden hook of the watches in W.
LEMMA DetachedFacts ==
  ASSUME sessions \in [Methods -> Session], HooksInv, NEW W, NEW late
  PROVE  /\ Detached(W, late) \in [Methods -> Session]
         /\ Quieter(sessions, Detached(W, late))
         /\ \A m \in Methods :
              Detached(W, late)[m].active /\ ~Detached(W, late)[m].visible =>
                Detached(W, late)[m].scope \notin W
  <1> DEFINE M == TracesOf(W)
             s == Stopped(sessions, M, late)
             t == Closed(s, M)
  <1>1. Detached(W, late) = t
    BY DEF Detached
  <1>2. /\ s \in [Methods -> Session] /\ Quieter(sessions, s)
        /\ \A m \in M \cap Methods : ~s[m].active
    BY StoppedFacts
  <1> HIDE DEF s, M
  <1>3. t \in [Methods -> Session] /\ Quieter(s, t)
    BY <1>2, ClosedFacts
  <1> HIDE DEF t
  <1>4. Quieter(sessions, t)
    BY <1>2, <1>3 DEF Quieter
  <1>5. ASSUME NEW m \in Methods, t[m].active, ~t[m].visible, t[m].scope \in W
        PROVE  FALSE
    <2>1. s[m].active
      BY <1>3, <1>5 DEF Quieter
    <2>2. sessions[m].active /\ ~sessions[m].visible /\ sessions[m].scope = t[m].scope
      BY <1>4, <1>5 DEF Quieter
    <2>3. watch[t[m].scope].trace = sessions[m].id /\ sessions[m].id # 0
      BY <2>2 DEF HooksInv, HookScoped, ActiveNumbered
    <2>4. m \in WithId(watch[t[m].scope].trace)
      BY <2>3 DEF WithId, Retained
    <2>5. m \in M
      BY <2>3, <2>4, <1>5 DEF M, TracesOf
    <2> QED BY <2>1, <2>5, <1>2
  <1> QED BY <1>1, <1>3, <1>4, <1>5

\* Once the hidden hooks of the watches in W are gone, those watches may change.
LEMMA ScopedElsewhere ==
  ASSUME HooksInv, Quieter(sessions, sessions'), UNCHANGED heap, heap \subseteq Objects, NEW W,
         \A m \in Methods :
           sessions'[m].active /\ ~sessions'[m].visible => sessions'[m].scope \notin W,
         \A p \in Objects \ W : watch'[p] = watch[p]
  PROVE  HookScoped'
  BY DEF HooksInv, HookScoped, Quieter

\* A sample forgets a trace only when its session is no longer active.
LEMMA SampledScoped ==
  ASSUME HooksInv, UNCHANGED <<sessions, heap>>, NEW o \in Objects, heap \subseteq Objects,
         watch'[o].active, watch'[o].pin = watch[o].pin, watch'[o].trace = Signalled(watch[o]),
         \A p \in Objects \ {o} : watch'[p] = watch[p]
  PROVE  HookScoped'
  <1> SUFFICES ASSUME NEW m \in Methods, sessions[m].active, ~sessions[m].visible
               PROVE  LET p == sessions[m].scope
                      IN  p \in heap /\ watch'[p].active /\ watch'[p].pin /\ watch'[p].trace = sessions[m].id
    BY DEF HookScoped
  <1> DEFINE p == sessions[m].scope
  <1>1. /\ p \in heap /\ watch[p].active /\ watch[p].pin /\ watch[p].trace = sessions[m].id
        /\ sessions[m].id # 0
    BY DEF HooksInv, HookScoped, ActiveNumbered
  <1>2. CASE p = o
    <2>1. m \in WithId(watch[o].trace)
      BY <1>1, <1>2 DEF WithId, Retained
    <2>2. Signalled(watch[o]) = watch[o].trace
      BY <2>1 DEF Signalled
    <2> QED BY <1>1, <1>2, <2>2
  <1>3. CASE p # o
    BY <1>1, <1>3
  <1> QED BY <1>2, <1>3

-----------------------------------------------------------------------------
(* The actions of the watches *)

\* Types that every action of the watches relies on.
LEMMA WatchTypes ==
  ASSUME ToolsInv
  PROVE  /\ sessions \in [Methods -> Session] /\ lastTrace \in 0 .. MaxTraceIds
         /\ handles \in [Tokens -> Handle] /\ heap \subseteq Objects
         /\ watch \in [Objects -> Watch] /\ stops \subseteq Methods
         /\ \A o \in Objects : Len(watch[o].events) <= MaxEvents
         /\ TablesTypeOK /\ WatchTypeOK /\ ToolsTypeOK
         /\ OwnedInv /\ HooksInv /\ WritesInv /\ MutationsCurrent
         /\ HandlesOwned /\ TokensApart /\ Held = HeldIn(handles)
  BY DEF ToolsInv, TypeOK, TablesTypeOK, WatchTypeOK, OwnedInv, Held, HeldIn

\* The tools' own state and the queued stops are no concern of a watch.
LEMMA WatchFrame ==
  ASSUME ToolsInv, UNCHANGED <<toolVars, stops, stranded, stopped>>,
         TablesTypeOK', WatchTypeOK', OwnedInv', HooksInv'
  PROVE  ToolsInv'
  <1>1. ToolsTypeOK' /\ WritesInv' /\ MutationsCurrent'
    BY Frames DEF ToolsInv, TypeOK, toolVars, sceneVars, writes
  <1>2. stops' \subseteq Methods
    BY DEF ToolsInv, TypeOK
  <1> QED BY <1>1, <1>2 DEF ToolsInv, TypeOK

LEMMA SetWatchKeeps ==
  ASSUME ToolsInv, NEW o \in Objects, SetWatch(o), UNCHANGED <<toolVars, stops, stranded, stopped>>
  PROVE  ToolsInv'
  <1>0. /\ sessions \in [Methods -> Session] /\ lastTrace \in 0 .. MaxTraceIds
        /\ handles \in [Tokens -> Handle] /\ heap \subseteq Objects
        /\ watch \in [Objects -> Watch]
        /\ \A p \in Objects : Len(watch[p].events) <= MaxEvents
        /\ OwnedInv /\ HooksInv /\ HandlesOwned /\ TokensApart /\ Held = HeldIn(handles)
    BY WatchTypes
  <1>1. PICK v \in Readings, readable \in BOOLEAN, granted \in BOOLEAN, late \in SUBSET TracesOf({o}) :
          LET s == Detached({o}, late)
              h == Released(handles, TokensOf(watch[o]))
              hooked == Hooks(s, o, granted)
          IN  /\ ~readable => v = NoObject
              /\ CanCapture(h, v)
              /\ hooked => Numbered(s, Setter[o])
              /\ handles' = Captured(h, v)
              /\ sessions' = IF hooked THEN Started(s, Setter[o], o, FALSE, "watch") ELSE s
              /\ lastTrace' = IF hooked /\ s[Setter[o]].id = 0 THEN lastTrace + 1 ELSE lastTrace
              /\ watch' = [watch EXCEPT ![o] =
                   [open |-> TRUE, active |-> TRUE, pin |-> hooked,
                    trace |-> IF hooked THEN sessions'[Setter[o]].id ELSE 0,
                    current |-> TokenFor(h, v), events |-> <<>>, baseline |-> readable]]
    BY Zenon DEF SetWatch
  <1> USE <1>0
  <1> DEFINE s == Detached({o}, late)
             h == Released(handles, TokensOf(watch[o]))
             hooked == Hooks(s, o, granted)
             g == TokenFor(h, v)
             w == [open |-> TRUE, active |-> TRUE, pin |-> hooked,
                   trace |-> IF hooked THEN sessions'[Setter[o]].id ELSE 0,
                   current |-> g, events |-> <<>>, baseline |-> readable]
  <1>2. heap' = heap /\ o \in heap
    BY DEF SetWatch
  <1>3. v \in Objects \cup {NoObject}
    BY DEF Readings
  <1>4. /\ s \in [Methods -> Session] /\ Quieter(sessions, s)
        /\ \A m \in Methods : s[m].active /\ ~s[m].visible => s[m].scope \notin {o}
    BY DetachedFacts
  <1>5. h \in [Tokens -> Handle] /\ HeldIn(h) = Held \ TokensOf(watch[o])
    BY ReleasedFacts
  <1>6. /\ CanCapture(h, v) /\ handles' = Captured(h, v)
        /\ hooked => Numbered(s, Setter[o])
        /\ sessions' = IF hooked THEN Started(s, Setter[o], o, FALSE, "watch") ELSE s
        /\ lastTrace' = IF hooked /\ s[Setter[o]].id = 0 THEN lastTrace + 1 ELSE lastTrace
        /\ watch' = [watch EXCEPT ![o] = w]
    BY <1>1
  <1>7. hooked \in BOOLEAN /\ Setter[o] \in Methods /\ (hooked => Startable(s, Setter[o], o))
    BY WatchAssumption DEF Hooks
  <1> HIDE DEF s, h, hooked
  <1>8. /\ handles' \in [Tokens -> Handle] /\ g \in Tokens \cup {0}
        /\ HeldIn(handles') = HeldIn(h) \cup ({g} \ {0}) /\ g \notin HeldIn(h)
    BY <1>3, <1>5, <1>6, CapturedFacts
  <1> HIDE DEF g
  <1>9. hooked => /\ sessions' \in [Methods -> Session]
                  /\ sessions'[Setter[o]].active /\ sessions'[Setter[o]].scope = o
                  /\ sessions'[Setter[o]].armedBy = "watch" /\ sessions'[Setter[o]].id # 0
                  /\ \A n \in Methods \ {Setter[o]} : sessions'[n] = s[n]
    <2> SUFFICES ASSUME hooked
                 PROVE  /\ sessions' \in [Methods -> Session]
                        /\ sessions'[Setter[o]].active /\ sessions'[Setter[o]].scope = o
                        /\ sessions'[Setter[o]].armedBy = "watch" /\ sessions'[Setter[o]].id # 0
                        /\ \A n \in Methods \ {Setter[o]} : sessions'[n] = s[n]
      OBVIOUS
    <2>1. sessions' = Started(s, Setter[o], o, FALSE, "watch")
      BY <1>6
    <2>2. Startable(s, Setter[o], o) /\ Numbered(s, Setter[o]) /\ Setter[o] \in Methods
      BY <1>6, <1>7
    <2>3. PICK visible \in BOOLEAN, who \in {"nobody", "user", "mcp", "watch"} :
            visible = FALSE /\ who = "watch"
      OBVIOUS
    <2>4. sessions' = Started(s, Setter[o], o, visible, who)
      BY <2>1, <2>3
    <2>5. ASSUME NEW m \in Methods, Startable(s, m, o), Numbered(s, m)
          PROVE  /\ Started(s, m, o, visible, who) \in [Methods -> Session]
                 /\ Started(s, m, o, visible, who)[m].active
                 /\ Started(s, m, o, visible, who)[m].scope = o
                 /\ Started(s, m, o, visible, who)[m].armedBy = who
                 /\ Started(s, m, o, visible, who)[m].id # 0
                 /\ \A n \in Methods \ {m} : Started(s, m, o, visible, who)[n] = s[n]
      BY <2>5, <1>4, StartedFacts
    <2> QED BY <2>2, <2>3, <2>4, <2>5
  <1>10. sessions' \in [Methods -> Session]
    BY <1>4, <1>6, <1>9
  <1>11. lastTrace' \in 0 .. MaxTraceIds
    <2>1. hooked /\ s[Setter[o]].id = 0 => lastTrace < MaxTraceIds
      BY <1>6 DEF Numbered
    <2> QED BY <2>1, <1>6, TablesAssumption
  <1>12. w \in Watch
    <2>1. (IF hooked THEN sessions'[Setter[o]].id ELSE 0) \in 0 .. MaxTraceIds
      BY <1>10, <1>7, TablesAssumption DEF Session
    <2>2. <<>> \in Seq(Tokens \cup {NoToken})
      OBVIOUS
    <2> QED BY <2>1, <2>2, <1>7, <1>8 DEF Watch, NoToken
  <1>13. WatchOwns(w) /\ TokensOf(w) = {g} \ {0} /\ Len(w.events) = 0
    BY DEF WatchOwns, TokensOf, Range, NoToken
  <1>14. w.active /\ w.pin = hooked /\ (hooked => w.trace = sessions'[Setter[o]].id)
    BY <1>7
  <1> HIDE DEF w
  <1>15. TablesTypeOK'
    BY <1>2, <1>8, <1>10, <1>11 DEF TablesTypeOK
  <1>16. WatchTypeOK'
    <2>1. \A p \in Objects : Len(watch'[p].events) <= MaxEvents
      BY <1>6, <1>12, <1>13, WatchAssumption
    <2> QED BY <2>1, <1>6, <1>12 DEF WatchTypeOK
  <1>17. OwnedInv'
    <2>1. UNCHANGED references
      BY DEF toolVars
    <2>2. /\ HeldIn(handles') = (Held \ TokensOf(watch[o])) \cup ({g} \ {0})
          /\ g \notin Held \ TokensOf(watch[o])
          /\ TokensOf(w) = (TokensOf(watch[o]) \ TokensOf(watch[o])) \cup ({g} \ {0})
          /\ TokensOf(watch[o]) \subseteq TokensOf(watch[o]) \cup {0}
      BY <1>5, <1>8, <1>13
    <2>3. watch' = [watch EXCEPT ![o] = w] /\ w \in Watch /\ WatchOwns(w)
      BY <1>6, <1>12, <1>13
    <2>4. HandlesOwned' /\ TokensApart'
      BY <2>1, <2>2, <2>3, WatchOwned
    <2> QED BY <2>4 DEF OwnedInv
  <1>18. HooksInv'
    <2>1. mcpTraces' = mcpTraces
      BY DEF toolVars
    <2>2. \A p \in Objects \ {o} : watch'[p] = watch[p]
      BY <1>6
    <2>3. CASE ~hooked
      <3>1. sessions' = s
        BY <2>3, <1>6
      <3> QED BY <3>1, <2>1, <2>2, <1>2, <1>4, QuieterKeeps, ScopedElsewhere DEF HooksInv
    <2>4. CASE hooked
      <3>1. ASSUME NEW m \in Methods, m # Setter[o], sessions'[m].active
            PROVE  /\ sessions[m].active /\ sessions'[m].id = sessions[m].id
                   /\ sessions'[m].visible = sessions[m].visible /\ sessions'[m].scope = sessions[m].scope
                   /\ sessions'[m].armedBy = sessions[m].armedBy
                   /\ (~sessions'[m].visible => sessions[m].scope # o)
        BY <2>4, <3>1, <1>4, <1>9 DEF Quieter
      <3>2. ActiveNumbered'
        BY <2>4, <3>1, <1>9 DEF HooksInv, ActiveNumbered
      <3>3. McpTracesTracked'
        BY <2>1, <2>4, <3>1, <1>9 DEF HooksInv, McpTracesTracked
      <3>4. HookScoped'
        <4> SUFFICES ASSUME NEW m \in Methods, sessions'[m].active, ~sessions'[m].visible
                     PROVE  LET p == sessions'[m].scope
                            IN  /\ p \in heap /\ watch'[p].active /\ watch'[p].pin
                                /\ watch'[p].trace = sessions'[m].id
          BY <1>2 DEF HookScoped
        <4>1. CASE m = Setter[o]
          <5>1. watch'[o] = w
            BY <1>6
          <5> QED BY <5>1, <4>1, <2>4, <1>2, <1>9, <1>14
        <4>2. CASE m # Setter[o]
          <5>1. LET p == sessions[m].scope
                IN p \in heap /\ watch[p].active /\ watch[p].pin /\ watch[p].trace = sessions[m].id
            BY <4>2, <3>1 DEF HooksInv, HookScoped
          <5> QED BY <5>1, <4>2, <3>1, <2>2
        <4> QED BY <4>1, <4>2
      <3> QED BY <3>2, <3>3, <3>4 DEF HooksInv
    <2> QED BY <2>3, <2>4
  <1> QED BY <1>15, <1>16, <1>17, <1>18, WatchFrame

\* A watch that keeps its history keeps its handles.
LEMMA WatchTouched ==
  ASSUME watch \in [Objects -> Watch], OwnedInv, UNCHANGED <<handles, references>>,
         NEW o \in Objects, NEW w \in Watch, watch' = [watch EXCEPT ![o] = w],
         w.current = watch[o].current, w.events = watch[o].events, w.baseline = watch[o].baseline,
         UNCHANGED stranded
  PROVE  OwnedInv'
  <1>1. WatchOwns(w)
    BY DEF OwnedInv, TokensApart, WatchOwns
  <1>2. TokensOf(w) = TokensOf(watch[o]) /\ 0 \notin Held
    BY TablesAssumption DEF TokensOf, Held
  <1>3. HeldIn(handles') = Held
    BY DEF HeldIn, Held
  <1>4. PICK R, g : R = {} /\ g = 0
    OBVIOUS
  <1>5. /\ R \subseteq TokensOf(watch[o]) \cup {0}
        /\ HeldIn(handles') = (Held \ R) \cup ({g} \ {0}) /\ g \notin Held \ R
        /\ TokensOf(w) = (TokensOf(watch[o]) \ R) \cup ({g} \ {0})
    BY <1>2, <1>3, <1>4
  <1>6. HandlesOwned' /\ TokensApart'
    BY <1>1, <1>5, WatchOwned DEF OwnedInv
  <1> QED BY <1>6 DEF OwnedInv

\* A watch that gives back all it has and starts over.
LEMMA WatchEmptied ==
  ASSUME watch \in [Objects -> Watch], handles \in [Tokens -> Handle], OwnedInv, UNCHANGED references,
         NEW o \in Objects, handles' = Released(handles, TokensOf(watch[o])),
         NEW w \in Watch, watch' = [watch EXCEPT ![o] = w],
         w.current = NoToken, w.events = <<>>,
         UNCHANGED stranded
  PROVE  OwnedInv'
  <1>1. WatchOwns(w)
    BY DEF WatchOwns
  <1>2. TokensOf(w) = {} /\ 0 \notin Held
    BY TablesAssumption DEF TokensOf, Held, Range
  <1>3. HeldIn(handles') = Held \ TokensOf(watch[o])
    BY ReleasedFacts DEF Held, HeldIn
  <1>4. PICK R, g : R = TokensOf(watch[o]) /\ g = 0
    OBVIOUS
  <1>5. /\ R \subseteq TokensOf(watch[o]) \cup {0}
        /\ HeldIn(handles') = (Held \ R) \cup ({g} \ {0})
        /\ g \notin Held \ R
        /\ TokensOf(w) = (TokensOf(watch[o]) \ R) \cup ({g} \ {0})
    BY <1>2, <1>3, <1>4
  <1>6. HandlesOwned' /\ TokensApart'
    BY <1>1, <1>5, WatchOwned DEF OwnedInv
  <1> QED BY <1>6 DEF OwnedInv

LEMMA StopWatchKeeps ==
  ASSUME ToolsInv, NEW o \in Objects, StopWatch(o), UNCHANGED <<toolVars, stops, stranded, stopped>>
  PROVE  ToolsInv'
  <1>0. /\ sessions \in [Methods -> Session] /\ heap \subseteq Objects /\ TablesTypeOK
        /\ watch \in [Objects -> Watch] /\ OwnedInv /\ HooksInv
        /\ \A p \in Objects : Len(watch[p].events) <= MaxEvents
    BY WatchTypes
  <1>1. PICK late \in SUBSET TracesOf({o}) : sessions' = Detached({o}, late)
    BY DEF StopWatch
  <1>2. /\ sessions' \in [Methods -> Session] /\ Quieter(sessions, sessions')
        /\ \A m \in Methods :
             sessions'[m].active /\ ~sessions'[m].visible => sessions'[m].scope \notin {o}
    BY <1>0, <1>1, DetachedFacts
  <1> DEFINE w == [watch[o] EXCEPT !.active = FALSE, !.pin = FALSE, !.trace = 0]
  <1>3. watch' = [watch EXCEPT ![o] = w] /\ UNCHANGED <<lastTrace, handles, heap>>
    BY DEF StopWatch
  <1>4. /\ w \in Watch /\ w.current = watch[o].current /\ w.events = watch[o].events
        /\ w.baseline = watch[o].baseline
    <2>1. watch[o] \in Watch /\ 0 \in 0 .. MaxTraceIds
      BY <1>0, TablesAssumption
    <2> QED BY <2>1 DEF Watch
  <1> HIDE DEF w
  <1>5. TablesTypeOK'
    BY <1>0, <1>2, <1>3 DEF TablesTypeOK
  <1>6. WatchTypeOK'
    BY <1>0, <1>3, <1>4 DEF WatchTypeOK
  <1>7. UNCHANGED <<references, mcpTraces>>
    BY DEF toolVars
  <1>8. OwnedInv'
    BY <1>0, <1>3, <1>4, <1>7, WatchTouched
  <1>9. HookScoped'
    BY <1>0, <1>2, <1>3, ScopedElsewhere
  <1>10. HooksInv'
    BY <1>0, <1>2, <1>7, <1>9, QuieterKeeps DEF HooksInv
  <1> QED BY <1>5, <1>6, <1>8, <1>10, WatchFrame

LEMMA CloseWatchKeeps ==
  ASSUME ToolsInv, NEW o \in Objects, CloseWatch(o), UNCHANGED <<toolVars, stops, stranded, stopped>>
  PROVE  ToolsInv'
  <1>0. /\ sessions \in [Methods -> Session] /\ heap \subseteq Objects /\ TablesTypeOK
        /\ watch \in [Objects -> Watch] /\ OwnedInv /\ HooksInv /\ handles \in [Tokens -> Handle]
        /\ \A p \in Objects : Len(watch[p].events) <= MaxEvents
    BY WatchTypes
  <1>1. PICK late \in SUBSET TracesOf({o}) : sessions' = Detached({o}, late)
    BY DEF CloseWatch
  <1>2. /\ sessions' \in [Methods -> Session] /\ Quieter(sessions, sessions')
        /\ \A m \in Methods :
             sessions'[m].active /\ ~sessions'[m].visible => sessions'[m].scope \notin {o}
    BY <1>0, <1>1, DetachedFacts
  <1>3. /\ watch' = [watch EXCEPT ![o] = NoWatch] /\ UNCHANGED <<lastTrace, heap>>
        /\ handles' = Released(handles, TokensOf(watch[o]))
    BY DEF CloseWatch
  <1>4. NoWatch \in Watch /\ NoWatch.current = NoToken /\ NoWatch.events = <<>>
    BY TablesAssumption DEF Watch, NoWatch
  <1>5. TablesTypeOK'
    BY <1>0, <1>2, <1>3, ReleasedFacts DEF TablesTypeOK
  <1>6. WatchTypeOK'
    BY <1>0, <1>3, <1>4, WatchAssumption DEF WatchTypeOK
  <1>7. UNCHANGED <<references, mcpTraces>>
    BY DEF toolVars
  <1>8. OwnedInv'
    BY <1>0, <1>3, <1>4, <1>7, WatchEmptied
  <1>9. HookScoped'
    BY <1>0, <1>2, <1>3, ScopedElsewhere
  <1>10. HooksInv'
    BY <1>0, <1>2, <1>7, <1>9, QuieterKeeps DEF HooksInv
  <1> QED BY <1>5, <1>6, <1>8, <1>10, WatchFrame

LEMMA ClearWatchKeeps ==
  ASSUME ToolsInv, NEW o \in Objects, ClearWatch(o), UNCHANGED <<toolVars, stops, stranded, stopped>>
  PROVE  ToolsInv'
  <1>0. /\ sessions \in [Methods -> Session] /\ heap \subseteq Objects /\ TablesTypeOK
        /\ watch \in [Objects -> Watch] /\ OwnedInv /\ HooksInv /\ handles \in [Tokens -> Handle]
        /\ \A p \in Objects : Len(watch[p].events) <= MaxEvents
    BY WatchTypes
  <1> DEFINE w == [watch[o] EXCEPT !.current = NoToken, !.events = <<>>, !.baseline = FALSE]
  <1>1. /\ watch' = [watch EXCEPT ![o] = w] /\ UNCHANGED <<sessions, lastTrace, heap>>
        /\ handles' = Released(handles, TokensOf(watch[o]))
    BY DEF ClearWatch
  <1>2. /\ w \in Watch /\ w.current = NoToken /\ w.events = <<>>
        /\ w.active = watch[o].active /\ w.pin = watch[o].pin /\ w.trace = watch[o].trace
    <2>1. watch[o] \in Watch /\ <<>> \in Seq(Tokens \cup {NoToken}) /\ NoToken \in Tokens \cup {NoToken}
      BY <1>0
    <2> QED BY <2>1 DEF Watch
  <1> HIDE DEF w
  <1>3. TablesTypeOK'
    BY <1>0, <1>1, ReleasedFacts DEF TablesTypeOK
  <1>4. WatchTypeOK'
    BY <1>0, <1>1, <1>2, WatchAssumption DEF WatchTypeOK
  <1>5. UNCHANGED <<references, mcpTraces>>
    BY DEF toolVars
  <1>6. OwnedInv'
    BY <1>0, <1>1, <1>2, <1>5, WatchEmptied
  <1>7. HooksInv'
    <2>1. \A p \in Objects : /\ watch'[p].active = watch[p].active /\ watch'[p].pin = watch[p].pin
                             /\ watch'[p].trace = watch[p].trace
      BY <1>0, <1>1, <1>2
    <2> QED BY <2>1, <1>0, <1>1, <1>5 DEF HooksInv, HookScoped, McpTracesTracked, ActiveNumbered
  <1> QED BY <1>3, <1>4, <1>6, <1>7, WatchFrame

\* release_field_watch_references() and detach_setter_hook() for every watch.
LEMMA ReleaseAllFacts ==
  ASSUME ToolsInv, ReleaseAllWatches, UNCHANGED <<references, mcpTraces>>,
         UNCHANGED stranded
  PROVE  TablesTypeOK' /\ WatchTypeOK' /\ OwnedInv' /\ HooksInv'
  <1>0. /\ sessions \in [Methods -> Session] /\ heap \subseteq Objects /\ TablesTypeOK
        /\ watch \in [Objects -> Watch] /\ OwnedInv /\ HooksInv /\ handles \in [Tokens -> Handle]
    BY WatchTypes
  <1>1. PICK late \in SUBSET TracesOf(Objects) : sessions' = Detached(Objects, late)
    BY DEF ReleaseAllWatches
  <1>2. /\ sessions' \in [Methods -> Session] /\ Quieter(sessions, sessions')
        /\ \A m \in Methods :
             sessions'[m].active /\ ~sessions'[m].visible => sessions'[m].scope \notin Objects
    BY <1>0, <1>1, DetachedFacts
  <1>3. /\ watch' = [o \in Objects |-> NoWatch] /\ UNCHANGED <<lastTrace, heap>>
        /\ handles' = Released(handles, WatchTokens)
    BY DEF ReleaseAllWatches, WatchTokens
  <1>4. NoWatch \in Watch /\ NoWatch.current = NoToken /\ NoWatch.events = <<>> /\ TokensOf(NoWatch) = {}
    BY TablesAssumption DEF Watch, NoWatch, TokensOf, Range
  <1>5. TablesTypeOK'
    BY <1>0, <1>2, <1>3, ReleasedFacts DEF TablesTypeOK
  <1>6. WatchTypeOK'
    BY <1>3, <1>4, WatchAssumption DEF WatchTypeOK
  <1>7. OwnedInv'
    <2>1. Held' = Held \ WatchTokens
      BY <1>0, <1>3, ReleasedFacts DEF Held, HeldIn
    <2>2. WatchTokens' = {}
      <3>1. \A o \in Objects : TokensOf(watch'[o]) = {}
        BY <1>3, <1>4
      <3>2. WatchTokens' = UNION {TokensOf(watch'[o]) : o \in Objects}
        BY DEF WatchTokens, TokensOf
      <3> QED BY <3>1, <3>2
    <2>3. ReferenceTokens' = ReferenceTokens
      BY DEF ReferenceTokens
    <2>4. HandlesOwned'
      BY <2>1, <2>2, <2>3, <1>0 DEF OwnedInv, HandlesOwned
    <2>5. ASSUME NEW o \in Objects PROVE WatchOwns(NoWatch) /\ watch'[o] = NoWatch
      BY <1>3, <1>4 DEF WatchOwns
    <2>6. TokensApart'
      BY <2>5, <1>4 DEF TokensApart, TokensOf, WatchOwns
    <2> QED BY <2>4, <2>6 DEF OwnedInv
  <1>8. HookScoped'
    BY <1>0, <1>2, <1>3, ScopedElsewhere
  <1>9. HooksInv'
    BY <1>0, <1>2, <1>8, QuieterKeeps DEF HooksInv
  <1> QED BY <1>5, <1>6, <1>7, <1>9

LEMMA WatchLostKeeps ==
  ASSUME ToolsInv, NEW o \in Objects, WatchLost(o), UNCHANGED <<toolVars, stops, stranded, stopped>>
  PROVE  ToolsInv'
  <1>0. /\ heap \subseteq Objects /\ TablesTypeOK /\ watch \in [Objects -> Watch]
        /\ OwnedInv /\ HooksInv
        /\ \A p \in Objects : Len(watch[p].events) <= MaxEvents
    BY WatchTypes
  <1> DEFINE w == [watch[o] EXCEPT !.active = FALSE]
  <1>1. /\ watch' = [watch EXCEPT ![o] = w] /\ o \notin heap
        /\ UNCHANGED <<sessions, lastTrace, handles, heap>>
    BY DEF WatchLost, tables
  <1>2. /\ w \in Watch /\ w.current = watch[o].current /\ w.events = watch[o].events
        /\ w.baseline = watch[o].baseline
    <2>1. watch[o] \in Watch
      BY <1>0
    <2> QED BY <2>1 DEF Watch
  <1> HIDE DEF w
  <1>3. TablesTypeOK'
    BY <1>0, <1>1 DEF TablesTypeOK
  <1>4. WatchTypeOK'
    BY <1>0, <1>1, <1>2 DEF WatchTypeOK
  <1>5. UNCHANGED <<references, mcpTraces>>
    BY DEF toolVars
  <1>6. OwnedInv'
    BY <1>0, <1>1, <1>2, <1>5, WatchTouched
  <1>7. HooksInv'
    <2>1. \A p \in heap : watch'[p] = watch[p]
      BY <1>0, <1>1
    <2> QED BY <2>1, <1>0, <1>1, <1>5 DEF HooksInv, HookScoped, McpTracesTracked, ActiveNumbered
  <1> QED BY <1>3, <1>4, <1>6, <1>7, WatchFrame

LEMMA SignalledType ==
  ASSUME NEW w \in Watch
  PROVE  Signalled(w) \in 0 .. MaxTraceIds
  BY TablesAssumption DEF Signalled, Watch

LEMMA WatchSameKeeps ==
  ASSUME ToolsInv, NEW o \in Objects, WatchSame(o), UNCHANGED <<toolVars, stops, stranded, stopped>>
  PROVE  ToolsInv'
  <1>0. /\ heap \subseteq Objects /\ TablesTypeOK /\ watch \in [Objects -> Watch]
        /\ OwnedInv /\ HooksInv
        /\ \A p \in Objects : Len(watch[p].events) <= MaxEvents
    BY WatchTypes
  <1> DEFINE w == [watch[o] EXCEPT !.trace = Signalled(watch[o])]
  <1>1. /\ watch' = [watch EXCEPT ![o] = w] /\ watch[o].active
        /\ UNCHANGED <<sessions, lastTrace, handles, heap>>
    BY DEF WatchSame, tables
  <1>2. /\ w \in Watch /\ w.current = watch[o].current /\ w.events = watch[o].events
        /\ w.baseline = watch[o].baseline
        /\ w.active = watch[o].active /\ w.pin = watch[o].pin /\ w.trace = Signalled(watch[o])
    <2>1. watch[o] \in Watch /\ Signalled(watch[o]) \in 0 .. MaxTraceIds
      BY <1>0, SignalledType
    <2> QED BY <2>1 DEF Watch
  <1> HIDE DEF w
  <1>3. TablesTypeOK'
    BY <1>0, <1>1 DEF TablesTypeOK
  <1>4. WatchTypeOK'
    BY <1>0, <1>1, <1>2 DEF WatchTypeOK
  <1>5. UNCHANGED <<references, mcpTraces>>
    BY DEF toolVars
  <1>6. OwnedInv'
    BY <1>0, <1>1, <1>2, <1>5, WatchTouched
  <1>7. HookScoped'
    <2>1. /\ watch'[o].active /\ watch'[o].pin = watch[o].pin /\ watch'[o].trace = Signalled(watch[o])
          /\ \A p \in Objects \ {o} : watch'[p] = watch[p]
      BY <1>0, <1>1, <1>2
    <2> QED BY <2>1, <1>0, <1>1, SampledScoped
  <1>8. HooksInv'
    BY <1>0, <1>1, <1>5, <1>7 DEF HooksInv, McpTracesTracked, ActiveNumbered
  <1> QED BY <1>3, <1>4, <1>6, <1>8, WatchFrame

LEMMA WatchBaselineKeeps ==
  ASSUME ToolsInv, NEW o \in Objects, WatchBaseline(o), UNCHANGED <<toolVars, stops, stranded, stopped>>
  PROVE  ToolsInv'
  <1>0. /\ heap \subseteq Objects /\ TablesTypeOK /\ watch \in [Objects -> Watch]
        /\ OwnedInv /\ HooksInv /\ handles \in [Tokens -> Handle] /\ Held = HeldIn(handles)
        /\ \A p \in Objects : Len(watch[p].events) <= MaxEvents
    BY WatchTypes
  <1>1. PICK v \in Readings :
          LET h == Released(handles, {watch[o].current})
          IN  /\ CanCapture(h, v)
              /\ handles' = Captured(h, v)
              /\ watch' = [watch EXCEPT ![o].trace = Signalled(watch[o]), ![o].baseline = TRUE,
                                        ![o].current = TokenFor(h, v)]
    BY DEF WatchBaseline
  <1> DEFINE h == Released(handles, {watch[o].current})
             g == TokenFor(h, v)
             w == [watch[o] EXCEPT !.trace = Signalled(watch[o]), !.baseline = TRUE, !.current = g]
  <1>2. /\ CanCapture(h, v) /\ handles' = Captured(h, v) /\ watch' = [watch EXCEPT ![o] = w]
        /\ watch[o].active /\ ~watch[o].baseline /\ UNCHANGED <<sessions, lastTrace, heap>>
    BY <1>1 DEF WatchBaseline
  <1>3. h \in [Tokens -> Handle] /\ HeldIn(h) = Held \ {watch[o].current}
    BY <1>0, ReleasedFacts
  <1> HIDE DEF h
  <1>4. /\ handles' \in [Tokens -> Handle] /\ g \in Tokens \cup {0}
        /\ HeldIn(handles') = HeldIn(h) \cup ({g} \ {0}) /\ g \notin HeldIn(h)
    <2>1. v \in Objects \cup {NoObject}
      BY <1>0 DEF Readings
    <2> QED BY <2>1, <1>2, <1>3, CapturedFacts
  <1> HIDE DEF g
  <1>5. watch[o].events = <<>>
    BY <1>0, <1>2 DEF OwnedInv, TokensApart, WatchOwns
  <1>6. /\ w \in Watch /\ w.current = g /\ w.events = <<>> /\ w.baseline
        /\ w.active = watch[o].active /\ w.pin = watch[o].pin /\ w.trace = Signalled(watch[o])
    <2>1. watch[o] \in Watch /\ Signalled(watch[o]) \in 0 .. MaxTraceIds
      BY <1>0, SignalledType
    <2> QED BY <2>1, <1>4, <1>5 DEF Watch, NoToken
  <1> HIDE DEF w
  <1>7. TablesTypeOK'
    BY <1>0, <1>2, <1>4 DEF TablesTypeOK
  <1>8. WatchTypeOK'
    BY <1>0, <1>2, <1>5, <1>6, WatchAssumption DEF WatchTypeOK
  <1>9. UNCHANGED <<references, mcpTraces>>
    BY DEF toolVars
  <1>10. OwnedInv'
    <2>1. PICK R : R = {watch[o].current}
      OBVIOUS
    <2>2. TokensOf(watch[o]) = {watch[o].current} \ {0} /\ TokensOf(w) = {g} \ {0} /\ WatchOwns(w)
      BY <1>5, <1>6 DEF TokensOf, Range, NoToken, WatchOwns
    <2>3. /\ R \subseteq TokensOf(watch[o]) \cup {0}
          /\ HeldIn(handles') = (Held \ R) \cup ({g} \ {0}) /\ g \notin Held \ R
          /\ TokensOf(w) = (TokensOf(watch[o]) \ R) \cup ({g} \ {0})
      BY <2>1, <2>2, <1>3, <1>4
    <2>4. /\ watch \in [Objects -> Watch] /\ HandlesOwned /\ TokensApart /\ UNCHANGED references
          /\ w \in Watch /\ watch' = [watch EXCEPT ![o] = w] /\ WatchOwns(w)
      BY <2>2, <1>0, <1>2, <1>6, <1>9 DEF OwnedInv
    <2>5. HandlesOwned' /\ TokensApart'
      BY <2>3, <2>4, WatchOwned
    <2> QED BY <2>5 DEF OwnedInv
  <1>11. HookScoped'
    <2>1. /\ watch'[o].active /\ watch'[o].pin = watch[o].pin /\ watch'[o].trace = Signalled(watch[o])
          /\ \A p \in Objects \ {o} : watch'[p] = watch[p]
      BY <1>0, <1>2, <1>6
    <2> QED BY <2>1, <1>0, <1>2, SampledScoped
  <1>12. HooksInv'
    BY <1>0, <1>2, <1>9, <1>11 DEF HooksInv, McpTracesTracked, ActiveNumbered
  <1> QED BY <1>7, <1>8, <1>10, <1>12, WatchFrame

LEMMA WatchChangeKeeps ==
  ASSUME ToolsInv, NEW o \in Objects, WatchChange(o), UNCHANGED <<toolVars, stops, stranded, stopped>>
  PROVE  ToolsInv'
  <1>0. /\ heap \subseteq Objects /\ TablesTypeOK /\ watch \in [Objects -> Watch]
        /\ OwnedInv /\ HooksInv /\ handles \in [Tokens -> Handle] /\ Held = HeldIn(handles)
        /\ \A p \in Objects : Len(watch[p].events) <= MaxEvents
    BY WatchTypes
  <1> DEFINE R == Outdated(watch[o]) \cup Dropped(watch[o])
             h == Released(handles, R)
  <1>1. PICK v \in Readings :
          /\ CanCapture(h, v)
          /\ handles' = Captured(h, v)
          /\ watch' = [watch EXCEPT ![o].trace = Signalled(watch[o]),
                                    ![o].current = TokenFor(h, v),
                                    ![o].events = Append(Kept(watch[o]), TokenFor(h, v))]
    BY DEF WatchChange
  <1> DEFINE g == TokenFor(h, v)
             w == [watch[o] EXCEPT !.trace = Signalled(watch[o]), !.current = g,
                                   !.events = Append(Kept(watch[o]), g)]
  <1>2. /\ CanCapture(h, v) /\ handles' = Captured(h, v) /\ watch' = [watch EXCEPT ![o] = w]
        /\ watch[o].active /\ watch[o].baseline /\ UNCHANGED <<sessions, lastTrace, heap>>
    BY <1>1 DEF WatchChange
  <1> HIDE DEF R
  <1>3. h \in [Tokens -> Handle] /\ HeldIn(h) = Held \ R
    BY <1>0, ReleasedFacts
  <1> HIDE DEF h
  <1>4. /\ handles' \in [Tokens -> Handle] /\ g \in Tokens \cup {0}
        /\ HeldIn(handles') = HeldIn(h) \cup ({g} \ {0}) /\ g \notin HeldIn(h)
    <2>1. v \in Objects \cup {NoObject}
      BY <1>0 DEF Readings
    <2> QED BY <2>1, <1>2, <1>3, CapturedFacts
  <1> HIDE DEF g
  <1>5. watch[o] \in Watch /\ WatchOwns(watch[o]) /\ Len(watch[o].events) <= MaxEvents
    BY <1>0 DEF OwnedInv, TokensApart
  <1>6. TokensOf(watch[o]) \subseteq Held
    BY <1>0 DEF OwnedInv, HandlesOwned, WatchTokens
  <1>7. Append(Kept(watch[o]), g) \in Seq(Tokens \cup {NoToken})
    <2>1. watch[o].events \in Seq(Tokens \cup {NoToken}) /\ MaxEvents > 1 /\ MaxEvents \in Nat
      BY <1>5, WatchAssumption DEF Watch
    <2>2. Kept(watch[o]) \in Seq(Tokens \cup {NoToken})
      BY <2>1 DEF Kept
    <2> QED BY <2>2, <1>4 DEF NoToken
  <1>8. /\ w \in Watch /\ w.current = g /\ w.events = Append(Kept(watch[o]), g) /\ w.baseline
        /\ w.active = watch[o].active /\ w.pin = watch[o].pin /\ w.trace = Signalled(watch[o])
    <2>1. watch[o] \in Watch /\ Signalled(watch[o]) \in 0 .. MaxTraceIds
      BY <1>0, SignalledType
    <2> QED BY <2>1, <1>2, <1>4, <1>7 DEF Watch, NoToken
  <1> HIDE DEF w
  <1>9. /\ WatchOwns(w) /\ Len(w.events) <= MaxEvents
        /\ R \subseteq TokensOf(watch[o]) \cup {0}
        /\ TokensOf(w) = (TokensOf(watch[o]) \ R) \cup ({g} \ {0})
    <2>1. g \notin TokensOf(watch[o]) \ (Outdated(watch[o]) \cup Dropped(watch[o]))
      BY <1>3, <1>4, <1>6 DEF R
    <2> QED BY <2>1, <1>4, <1>5, <1>8, ChangeTokens DEF R
  <1>10. TablesTypeOK'
    BY <1>0, <1>2, <1>4 DEF TablesTypeOK
  <1>11. WatchTypeOK'
    BY <1>0, <1>2, <1>8, <1>9 DEF WatchTypeOK
  <1>12. UNCHANGED <<references, mcpTraces>>
    BY DEF toolVars
  <1>13. OwnedInv'
    <2>1. HeldIn(handles') = (Held \ R) \cup ({g} \ {0}) /\ g \notin Held \ R
      BY <1>3, <1>4
    <2>2. /\ watch \in [Objects -> Watch] /\ HandlesOwned /\ TokensApart /\ UNCHANGED references
          /\ w \in Watch /\ watch' = [watch EXCEPT ![o] = w] /\ WatchOwns(w)
          /\ R \subseteq TokensOf(watch[o]) \cup {0}
          /\ TokensOf(w) = (TokensOf(watch[o]) \ R) \cup ({g} \ {0})
      BY <1>0, <1>2, <1>8, <1>9, <1>12 DEF OwnedInv
    <2>3. HandlesOwned' /\ TokensApart'
      BY <2>1, <2>2, WatchOwned
    <2> QED BY <2>3 DEF OwnedInv
  <1>14. HookScoped'
    <2>1. /\ watch'[o].active /\ watch'[o].pin = watch[o].pin /\ watch'[o].trace = Signalled(watch[o])
          /\ \A p \in Objects \ {o} : watch'[p] = watch[p]
      BY <1>0, <1>2, <1>8
    <2> QED BY <2>1, <1>0, <1>2, SampledScoped
  <1>15. HooksInv'
    BY <1>0, <1>2, <1>12, <1>14 DEF HooksInv, McpTracesTracked, ActiveNumbered
  <1> QED BY <1>10, <1>11, <1>13, <1>15, WatchFrame

LEMMA WatchesKeep ==
  ASSUME ToolsInv, WatchNext, UNCHANGED <<toolVars, stops, stranded, stopped>>
  PROVE  ToolsInv'
  <1>1. CASE ReleaseAllWatches
    <2>1. UNCHANGED <<references, mcpTraces>>
      BY DEF toolVars
    <2> QED BY <1>1, <2>1, ReleaseAllFacts, WatchFrame
  <1>2. ASSUME NEW o \in Objects,
               \/ SetWatch(o) \/ StopWatch(o) \/ CloseWatch(o) \/ ClearWatch(o)
               \/ WatchLost(o) \/ WatchBaseline(o) \/ WatchSame(o) \/ WatchChange(o)
        PROVE  ToolsInv'
    BY <1>2, SetWatchKeeps, StopWatchKeeps, CloseWatchKeeps, ClearWatchKeeps,
       WatchLostKeeps, WatchBaselineKeeps, WatchSameKeeps, WatchChangeKeeps
  <1> QED BY <1>1, <1>2 DEF WatchNext

-----------------------------------------------------------------------------
(* The calls that issue references *)

LEMMA ToolsFrame ==
  ASSUME ToolsInv, UNCHANGED <<watch, stops, stranded, stopped>>,
         TablesTypeOK', ToolsTypeOK', OwnedInv', HooksInv', WritesInv', MutationsCurrent'
  PROVE  ToolsInv'
  <1>1. WatchTypeOK' /\ stops' \subseteq Methods
    BY DEF ToolsInv, TypeOK, WatchTypeOK
  <1> QED BY <1>1 DEF ToolsInv, TypeOK

Verdicts == {"none", "applied", "reached", "retry", "expired", "unavailable"}

AnswerType == [verdict : Verdicts, issued : 0 .. MaxGenerations,
               shown : 0 .. MaxGenerations, at : 0 .. MaxGenerations]

\* An answer that the invariant admits.
AnswerCurrent(a) ==
  /\ a \in AnswerType
  /\ a.verdict = "applied" => a.issued = a.at
  /\ a.verdict = "reached" => a.issued = a.shown

LEMMA AnswerNext ==
  ASSUME AnswerCurrent(answer')
  PROVE  answer' \in AnswerType /\ MutationsCurrent'
  BY DEF AnswerCurrent, MutationsCurrent

LEMMA SilentFacts == AnswerCurrent(Silent)
  BY ToolsAssumption DEF Silent, AnswerCurrent, AnswerType, Verdicts

LEMMA AnsweredFacts ==
  ASSUME ToolsInv, NEW i \in DOMAIN references, NEW verdict \in Verdicts,
         verdict = "applied" => references[i].gen = generation,
         verdict = "reached" => references[i].gen = tree.gen
  PROVE  AnswerCurrent(Answered(i, verdict))
  <1>1. /\ references[i] \in Entry /\ generation \in 0 .. MaxGenerations
        /\ tree.gen \in 0 .. MaxGenerations
    BY ToolsAssumption DEF ToolsInv, TypeOK, ToolsTypeOK
  <1> QED BY <1>1 DEF Answered, AnswerCurrent, AnswerType, Entry

\* A component that find_reference() found is of the scene of the published tree.
LEMMA AccessedFacts ==
  ASSUME ToolsInv, NEW i \in Targets
  PROVE  AnswerCurrent(Accessed(i))
  <1>1. CASE references[i].kind = "component"
    <2>1. i \in DOMAIN references /\ references[i].gen = tree.gen
      BY <1>1 DEF Targets, Found
    <2>2. PICK verdict \in Verdicts : verdict = "reached"
      BY DEF Verdicts
    <2>3. AnswerCurrent(Answered(i, verdict))
      BY <2>1, <2>2, AnsweredFacts
    <2> QED BY <2>2, <2>3, <1>1 DEF Accessed
  <1>2. CASE references[i].kind # "component"
    BY <1>2, SilentFacts DEF Accessed
  <1> QED BY <1>1, <1>2

\* The store, the handles and the journal after a call that issues the entries new.
LEMMA IssueFacts ==
  ASSUME ToolsInv, NEW new \in Seq(Entry), NEW h \in [Tokens -> Handle], Issue(new, h),
         \A k \in 1 .. Len(new) :
           new[k].kind \in {"component", "managed"} => new[k].about \in Objects,
         NEW g \in Nat, \A k \in 1 .. Len(new) : new[k].handle = g,
         g # 0 => Len(new) = 1, g \notin Held, HeldIn(h) = Held \cup ({g} \ {0}),
         UNCHANGED <<values, watch>>,
         UNCHANGED stranded
  PROVE  /\ references' \in Seq(Entry) /\ Len(references') <= MaxReferences
         /\ handles' \in [Tokens -> Handle]
         /\ journal' \in Seq(Write) /\ Len(journal') <= MaxJournal
         /\ OwnedInv' /\ WritesInv'
  <1>0. /\ references \in Seq(Entry) /\ Len(references) <= MaxReferences /\ HandlesOwned
        /\ journal \in Seq(Write) /\ Len(journal) <= MaxJournal
        /\ UndoGoesBack /\ AboutObjects /\ handles \in [Tokens -> Handle]
    BY DEF ToolsInv, TypeOK, ToolsTypeOK, TablesTypeOK, WritesInv, OwnedInv
  <1>1. /\ references' \in Seq(Entry) /\ Len(references') <= MaxReferences
        /\ handles' \in [Tokens -> Handle]
        /\ journal' \in Seq(Write) /\ Len(journal') <= MaxJournal
        /\ AboutObjects' /\ UndoGoesBack'
    BY <1>0, IssueTyped
  <1>2. HandlesOwned'
    BY <1>0, IssueOwned
  <1>3. OwnedInv'
    BY <1>2 DEF ToolsInv, OwnedInv, TokensApart
  <1> QED BY <1>1, <1>3 DEF WritesInv

\* A call that issues the entries new and changes nothing else.
LEMMA IssueKeeps ==
  ASSUME ToolsInv, AnswerCurrent(answer'),
         references' \in Seq(Entry), Len(references') <= MaxReferences,
         handles' \in [Tokens -> Handle],
         journal' \in Seq(Write), Len(journal') <= MaxJournal,
         OwnedInv', WritesInv',
         UNCHANGED <<sessions, lastTrace, heap, sceneVars, values, replaying, mcpTraces>>,
         UNCHANGED <<watch, stops, stranded, stopped>>
  PROVE  ToolsInv'
  <1>1. TablesTypeOK'
    BY DEF ToolsInv, TypeOK, TablesTypeOK
  <1>2. ToolsTypeOK'
    BY AnswerNext DEF ToolsInv, TypeOK, ToolsTypeOK, sceneVars, AnswerType, Verdicts
  <1>3. HooksInv'
    BY Frames DEF ToolsInv
  <1>4. MutationsCurrent'
    BY AnswerNext
  <1> QED BY <1>1, <1>2, <1>3, <1>4, ToolsFrame

LEMMA PlainEntry ==
  ASSUME NEW kind \in {"game", "component", "managed", "trace"}
  PROVE  Plain(kind) \in Entry /\ Plain(kind).kind = kind /\ Plain(kind).handle = 0
  BY TablesAssumption, ToolsAssumption DEF Plain, Entry

\* One entry that has no handle.
LEMMA IssueOneFacts ==
  ASSUME ToolsInv, NEW e \in Entry, Issue(<<e>>, handles), e.handle = 0,
         e.kind \in {"component", "managed"} => e.about \in Objects,
         UNCHANGED <<values, watch>>,
         UNCHANGED stranded
  PROVE  /\ references' \in Seq(Entry) /\ Len(references') <= MaxReferences
         /\ handles' \in [Tokens -> Handle]
         /\ journal' \in Seq(Write) /\ Len(journal') <= MaxJournal
         /\ OwnedInv' /\ WritesInv'
  <1>1. PICK new, g : new = <<e>> /\ g = 0
    OBVIOUS
  <1>2. new \in Seq(Entry) /\ Len(new) = 1 /\ \A k \in 1 .. Len(new) : new[k] = e
    BY <1>1
  <1>3. handles \in [Tokens -> Handle] /\ Held = HeldIn(handles)
    BY WatchTypes
  <1>4. 0 \notin Held
    BY TablesAssumption DEF Held
  <1>5. /\ new \in Seq(Entry) /\ Issue(new, handles) /\ g \in Nat
        /\ \A k \in 1 .. Len(new) :
             new[k].kind \in {"component", "managed"} => new[k].about \in Objects
        /\ \A k \in 1 .. Len(new) : new[k].handle = g
        /\ g # 0 => Len(new) = 1
        /\ g \notin Held /\ HeldIn(handles) = Held \cup ({g} \ {0})
    BY <1>1, <1>2, <1>3, <1>4
  <1> QED BY <1>3, <1>5, IssueFacts

LEMMA FindGameObjectKeeps ==
  ASSUME ToolsInv, FindGameObject, UNCHANGED <<watch, stops, stranded, stopped>>
  PROVE  ToolsInv'
  <1> DEFINE e == [Plain("game") EXCEPT !.gen = tree.gen, !.rev = tree.rev]
  <1>1. Issue(<<e>>, handles) /\ answer' = Silent
        /\ UNCHANGED <<sessions, lastTrace, heap, sceneVars, values, replaying, mcpTraces>>
    BY DEF FindGameObject
  <1>2. tree.gen \in 0 .. MaxGenerations /\ tree.rev \in 0 .. MaxRevisions
    BY ToolsAssumption DEF ToolsInv, TypeOK, ToolsTypeOK
  <1>3. e \in Entry /\ e.handle = 0 /\ e.kind = "game"
    BY <1>2, PlainEntry DEF Entry
  <1> HIDE DEF e
  <1>4. UNCHANGED <<values, watch>>
    BY <1>1
  <1> QED BY <1>1, <1>3, <1>4, SilentFacts, IssueOneFacts, IssueKeeps

LEMMA InspectGameObjectKeeps ==
  ASSUME ToolsInv, NEW o \in Objects, InspectGameObject(o), UNCHANGED <<watch, stops, stranded, stopped>>
  PROVE  ToolsInv'
  <1> DEFINE e == [Plain("component") EXCEPT !.gen = tree.gen, !.about = o]
  <1>1. Issue(<<e>>, handles) /\ answer' = Silent
        /\ UNCHANGED <<sessions, lastTrace, heap, sceneVars, values, replaying, mcpTraces>>
    BY DEF InspectGameObject
  <1>2. tree.gen \in 0 .. MaxGenerations
    BY ToolsAssumption DEF ToolsInv, TypeOK, ToolsTypeOK
  <1>3. e \in Entry /\ e.handle = 0 /\ e.about = o
    BY <1>2, PlainEntry DEF Entry
  <1> HIDE DEF e
  <1>4. UNCHANGED <<values, watch>>
    BY <1>1
  <1> QED BY <1>1, <1>3, <1>4, SilentFacts, IssueOneFacts, IssueKeeps

LEMMA ReadObjectKeeps ==
  ASSUME ToolsInv, NEW o \in Objects, NEW strong \in BOOLEAN, ReadObject(o, strong),
         UNCHANGED <<watch, stops, stranded, stopped>>
  PROVE  ToolsInv'
  <1> DEFINE t == HighToken(handles)
             e == [Plain("managed") EXCEPT !.about = o, !.handle = t]
             h == Rooted(handles, t, o, strong)
  <1>1. /\ FreeIn(handles) # {} /\ Issue(<<e>>, h)
        /\ UNCHANGED <<sessions, lastTrace, heap, sceneVars, values, replaying, mcpTraces>>
    BY DEF ReadObject, IssueManaged
  <1>10. AnswerCurrent(answer')
    BY AccessedFacts DEF ReadObject
  <1>2. handles \in [Tokens -> Handle] /\ Held = HeldIn(handles)
    BY WatchTypes
  <1>3. t \in FreeIn(handles)
    BY <1>1, FreeTokens
  <1> HIDE DEF t
  <1>4. /\ h \in [Tokens -> Handle] /\ HeldIn(h) = Held \cup {t}
        /\ t \notin Held /\ t \in Tokens /\ t # 0
    BY <1>2, <1>3, RootedFacts
  <1>5. e \in Entry /\ e.handle = t /\ e.about = o
    BY <1>4, PlainEntry DEF Entry
  <1> HIDE DEF e, h
  <1>6. PICK new : new = <<e>>
    OBVIOUS
  <1>7. new \in Seq(Entry) /\ Len(new) = 1 /\ \A k \in 1 .. Len(new) : new[k] = e
    BY <1>5, <1>6
  <1>8. /\ new \in Seq(Entry) /\ Issue(new, h) /\ t \in Nat
        /\ \A k \in 1 .. Len(new) :
             new[k].kind \in {"component", "managed"} => new[k].about \in Objects
        /\ \A k \in 1 .. Len(new) : new[k].handle = t
        /\ t # 0 => Len(new) = 1
        /\ t \notin Held /\ HeldIn(h) = Held \cup ({t} \ {0})
    BY <1>1, <1>4, <1>5, <1>6, <1>7, TablesAssumption
  <1>9. /\ references' \in Seq(Entry) /\ Len(references') <= MaxReferences
        /\ handles' \in [Tokens -> Handle]
        /\ journal' \in Seq(Write) /\ Len(journal') <= MaxJournal
        /\ OwnedInv' /\ WritesInv'
    BY <1>1, <1>4, <1>8, IssueFacts
  <1> QED BY <1>1, <1>9, <1>10, IssueKeeps

LEMMA ListTracesKeeps ==
  ASSUME ToolsInv, ListTraces, UNCHANGED <<watch, stops, stranded, stopped>>
  PROVE  ToolsInv'
  <1> DEFINE n == Cardinality(Listed)
             nth(k) == CHOOSE id \in Listed : Cardinality({i \in Listed : i <= id}) = k
  <1>1. /\ Issue([k \in 1 .. n |-> TraceEntry(nth(k))], handles) /\ answer' = Silent
        /\ UNCHANGED <<sessions, lastTrace, heap, sceneVars, values, replaying, mcpTraces>>
    BY DEF ListTraces
  <1>2. sessions \in [Methods -> Session] /\ handles \in [Tokens -> Handle] /\ Held = HeldIn(handles)
    BY WatchTypes
  <1>3. Listed \subseteq 0 .. MaxTraceIds
    BY <1>2 DEF Listed, Retained, Session
  <1>4. Listed \in SUBSET Nat /\ IsFiniteSet(Listed) /\ n \in Nat
    <2>1. IsFiniteSet(0 .. MaxTraceIds)
      BY TablesAssumption, FS_Interval
    <2>2. IsFiniteSet(Listed)
      BY <2>1, <1>3, FS_Subset
    <2>3. Listed \in SUBSET Nat
      BY <1>3, TablesAssumption
    <2> QED BY <2>2, <2>3, FS_CardinalityType
  <1>5. ASSUME NEW k \in 1 .. n
        PROVE  /\ TraceEntry(nth(k)) \in Entry /\ TraceEntry(nth(k)).handle = 0
               /\ TraceEntry(nth(k)).kind = "trace"
    <2>1. \E id \in Listed : Cardinality({i \in Listed : i <= id}) = k
      BY <1>4, Ranked
    <2>2. nth(k) \in Listed
      BY <2>1
    <2>3. nth(k) \in 0 .. MaxTraceIds
      BY <2>2, <1>3
    <2> HIDE DEF nth
    <2> QED BY <2>3, PlainEntry DEF TraceEntry, Entry
  <1> HIDE DEF n, nth
  <1>6. PICK new, g : new = [k \in 1 .. n |-> TraceEntry(nth(k))] /\ g = 0
    OBVIOUS
  <1>7. new \in [1 .. n -> Entry]
    BY <1>5, <1>6
  <1>8. new \in Seq(Entry) /\ Len(new) = n
    BY <1>4, <1>7
  <1>9. 0 \notin Held
    BY TablesAssumption DEF Held
  <1>10. \A k \in 1 .. Len(new) : new[k] = TraceEntry(nth(k))
    BY <1>6, <1>8
  <1>11. /\ new \in Seq(Entry) /\ Issue(new, handles) /\ g \in Nat
         /\ \A k \in 1 .. Len(new) :
              new[k].kind \in {"component", "managed"} => new[k].about \in Objects
         /\ \A k \in 1 .. Len(new) : new[k].handle = g
         /\ g # 0 => Len(new) = 1
         /\ g \notin Held /\ HeldIn(handles) = Held \cup ({g} \ {0})
    <2>1. \A k \in 1 .. Len(new) :
            /\ new[k].kind \in {"component", "managed"} => new[k].about \in Objects
            /\ new[k].handle = g
      BY <1>5, <1>6, <1>8, <1>10
    <2>2. Issue(new, handles)
      BY <1>1, <1>6
    <2>3. g \in Nat /\ g = 0 /\ (g # 0 => Len(new) = 1)
      BY <1>6
    <2>4. g \notin Held /\ HeldIn(handles) = Held \cup ({g} \ {0})
      BY <2>3, <1>2, <1>9
    <2> QED BY <1>8, <2>1, <2>2, <2>3, <2>4
  <1>12. /\ references' \in Seq(Entry) /\ Len(references') <= MaxReferences
         /\ handles' \in [Tokens -> Handle]
         /\ journal' \in Seq(Write) /\ Len(journal') <= MaxJournal
         /\ OwnedInv' /\ WritesInv'
    BY <1>1, <1>2, <1>11, IssueFacts
  <1> QED BY <1>1, <1>12, SilentFacts, IssueKeeps

-----------------------------------------------------------------------------
(* The calls that become a command of the explorer *)

LEMMA VerdictFacts ==
  ASSUME NEW gen, NEW rev
  PROVE  /\ Verdict(gen, rev) \in Verdicts /\ Verdict(gen, rev) # "reached"
         /\ Verdict(gen, rev) = "applied" => gen = 0 \/ gen = generation
  BY DEF Verdict, Verdicts

\* A call that answers and at most selects.
LEMMA AnswerKeeps ==
  ASSUME ToolsInv, NEW i \in DOMAIN references, NEW verdict \in Verdicts,
         answer' = Answered(i, verdict),
         verdict = "applied" => references[i].gen = generation,
         verdict = "reached" => references[i].gen = tree.gen,
         selected' \in BOOLEAN,
         UNCHANGED <<tables, generation, tree, references, writes, mcpTraces>>,
         UNCHANGED <<watch, stops, stranded, stopped>>
  PROVE  ToolsInv'
  <1>1. UNCHANGED <<sessions, lastTrace, handles, heap, journal, replaying, values>>
    BY DEF tables, writes
  <1>2. TablesTypeOK'
    BY <1>1 DEF ToolsInv, TypeOK, TablesTypeOK
  <1>3. AnswerCurrent(answer')
    BY AnsweredFacts
  <1>4. ToolsTypeOK'
    BY <1>1, <1>3, AnswerNext DEF ToolsInv, TypeOK, ToolsTypeOK, AnswerType, Verdicts
  <1>5. OwnedInv' /\ HooksInv' /\ WritesInv'
    BY <1>1, Frames DEF ToolsInv
  <1> QED BY <1>2, <1>3, <1>4, <1>5, AnswerNext, ToolsFrame

LEMMA FoundFacts ==
  ASSUME ToolsInv, NEW kind \in {"game", "component"}, NEW i \in Found(kind)
  PROVE  i \in DOMAIN references /\ references[i].gen = tree.gen /\ references[i].gen # 0
  BY DEF Found, ToolsInv, TypeOK, ToolsTypeOK

LEMMA SelectGameObjectKeeps ==
  ASSUME ToolsInv, SelectGameObject, UNCHANGED <<watch, stops, stranded, stopped>>
  PROVE  ToolsInv'
  <1>1. PICK i \in Found("game") :
          /\ answer' = Answered(i, Verdict(references[i].gen, references[i].rev))
          /\ selected' = (selected \/ answer'.verdict = "applied")
          /\ UNCHANGED <<tables, generation, tree, references, writes, mcpTraces>>
    BY DEF SelectGameObject
  <1>2. i \in DOMAIN references /\ references[i].gen = tree.gen /\ references[i].gen # 0
    BY FoundFacts
  <1> DEFINE verdict == Verdict(references[i].gen, references[i].rev)
  <1>3. /\ verdict \in Verdicts /\ verdict # "reached"
        /\ verdict = "applied" => references[i].gen = generation
    BY <1>2, VerdictFacts
  <1> HIDE DEF verdict
  <1>4. answer' = Answered(i, verdict)
    BY <1>1 DEF verdict
  <1>5. (selected \/ answer'.verdict = "applied") \in BOOLEAN
    OBVIOUS
  <1>6. selected' \in BOOLEAN
    BY <1>1, <1>5
  <1> QED BY <1>1, <1>2, <1>3, <1>4, <1>6, AnswerKeeps

LEMMA MutateGameObjectKeeps ==
  ASSUME ToolsInv, MutateGameObject, UNCHANGED <<watch, stops, stranded, stopped>>
  PROVE  ToolsInv'
  <1>1. PICK i \in Found("game") :
          /\ answer' = Answered(i, Verdict(references[i].gen, references[i].rev))
          /\ UNCHANGED <<tables, sceneVars, references, writes, mcpTraces>>
    BY DEF MutateGameObject
  <1>2. i \in DOMAIN references /\ references[i].gen # 0
    BY FoundFacts
  <1> DEFINE verdict == Verdict(references[i].gen, references[i].rev)
  <1>3. /\ verdict \in Verdicts /\ verdict # "reached"
        /\ verdict = "applied" => references[i].gen = generation
    BY <1>2, VerdictFacts
  <1> HIDE DEF verdict
  <1>4. answer' = Answered(i, verdict)
    BY <1>1 DEF verdict
  <1>5. selected' \in BOOLEAN /\ UNCHANGED <<generation, tree>>
    BY <1>1 DEF ToolsInv, TypeOK, ToolsTypeOK, sceneVars
  <1> QED BY <1>1, <1>2, <1>3, <1>4, <1>5, AnswerKeeps

LEMMA ManageComponentKeeps ==
  ASSUME ToolsInv, ManageComponent, UNCHANGED <<watch, stops, stranded, stopped>>
  PROVE  ToolsInv'
  <1>1. PICK i \in Found("component") :
          /\ answer' = Answered(i, IF selected THEN "reached" ELSE "unavailable")
          /\ UNCHANGED <<tables, sceneVars, references, writes, mcpTraces>>
    BY DEF ManageComponent
  <1>2. i \in DOMAIN references /\ references[i].gen = tree.gen
    BY FoundFacts
  <1>3. selected' \in BOOLEAN /\ UNCHANGED <<generation, tree>>
    BY <1>1 DEF ToolsInv, TypeOK, ToolsTypeOK, sceneVars
  <1>4. PICK verdict \in {"reached", "unavailable"} : answer' = Answered(i, verdict)
    BY <1>1
  <1>5. verdict \in Verdicts /\ verdict # "applied"
    BY DEF Verdicts
  <1> QED BY <1>1, <1>2, <1>3, <1>4, <1>5, AnswerKeeps

-----------------------------------------------------------------------------
(* write_member and undo_write *)

\* A journal j of values vals only ever goes back.
GoesBack(j, vals) == \A i \in 1 .. Len(j) :
  /\ j[i].previous < vals[j[i].about]
  /\ \A k \in 1 .. Len(j) : i < k /\ j[i].about = j[k].about => j[i].previous < j[k].previous

LEMMA JournalGoesBack ==
  ASSUME journal \in Seq(Write)
  PROVE  UndoGoesBack <=> GoesBack(journal, values)
  BY DEF UndoGoesBack, GoesBack

LEMMA JournalGoesBackNext ==
  ASSUME journal' \in Seq(Write)
  PROVE  UndoGoesBack' <=> GoesBack(journal', values')
  BY DEF UndoGoesBack, GoesBack

LEMMA FrontFacts ==
  ASSUME NEW j \in Seq(Write), j # <<>>
  PROVE  /\ Front(j) \in Seq(Write) /\ Len(Front(j)) = Len(j) - 1
         /\ \A i \in 1 .. Len(j) - 1 : Front(j)[i] = j[i]
  <1> DEFINE n == Len(j) - 1
  <1>1. Len(j) \in Nat /\ Len(j) # 0 /\ n \in Nat
    OBVIOUS
  <1>2. \A i \in 1 .. n : j[i] \in Write
    BY <1>1
  <1> HIDE DEF n
  <1>3. /\ SubSeq(j, 1, n) \in Seq(Write)
        /\ Len(SubSeq(j, 1, n)) = IF 1 <= n THEN (n - 1) + 1 ELSE 0
        /\ \A i \in 1 .. n : SubSeq(j, 1, n)[i] = j[i]
    BY <1>1, <1>2
  <1>4. Len(SubSeq(j, 1, n)) = n
    BY <1>1, <1>3
  <1> QED BY <1>3, <1>4 DEF Front, n

\* The journal after remember_write(): the new record, and one old one less when it is full.
LEMMA TrimmedFacts ==
  ASSUME NEW j \in Seq(Write), Len(j) <= MaxJournal, NEW r \in Write, NEW vals,
         GoesBack(Append(j, r), vals)
  PROVE  /\ Trimmed(Append(j, r)) \in Seq(Write) /\ Len(Trimmed(Append(j, r))) <= MaxJournal
         /\ GoesBack(Trimmed(Append(j, r)), vals)
  <1>1. PICK a : a = Append(j, r)
    OBVIOUS
  <1>2. a \in Seq(Write) /\ Len(a) = Len(j) + 1 /\ Len(j) \in Nat /\ MaxJournal \in Nat
    BY <1>1, ToolsAssumption
  <1>3. CASE Len(a) > MaxJournal
    <2>1. /\ Tail(a) \in Seq(Write) /\ Len(Tail(a)) = Len(a) - 1
          /\ \A i \in 1 .. Len(Tail(a)) : Tail(a)[i] = a[i + 1]
      <3>1. a # <<>>
        BY <1>2
      <3> QED BY <3>1, <1>2, HeadTailProperties
    <2>2. PICK t : t = Tail(a)
      OBVIOUS
    <2>3. Len(t) = Len(j) /\ \A i \in 1 .. Len(j) : t[i] = a[i + 1] /\ i + 1 \in 1 .. Len(a)
      BY <2>1, <2>2, <1>2
    <2>4. GoesBack(t, vals)
      <3>1. GoesBack(a, vals)
        BY <1>1
      <3>2. ASSUME NEW i \in 1 .. Len(j)
            PROVE  t[i] = a[i + 1] /\ i + 1 \in 1 .. Len(a) /\ t[i].previous < vals[t[i].about]
        BY <2>3, <3>1 DEF GoesBack
      <3>3. ASSUME NEW i \in 1 .. Len(j), NEW k \in 1 .. Len(j), i < k, t[i].about = t[k].about
            PROVE  t[i].previous < t[k].previous
        <4>1. i + 1 < k + 1 /\ i + 1 \in 1 .. Len(a) /\ k + 1 \in 1 .. Len(a)
          BY <3>2, <3>3
        <4> QED BY <4>1, <3>1, <3>2, <3>3 DEF GoesBack
      <3> QED BY <3>2, <3>3, <2>3 DEF GoesBack
    <2>5. Trimmed(a) = t
      BY <2>2, <1>3 DEF Trimmed
    <2> QED BY <2>1, <2>2, <2>3, <2>4, <2>5, <1>1
  <1>4. CASE ~(Len(a) > MaxJournal)
    <2>1. Trimmed(a) = a /\ Len(a) <= MaxJournal
      BY <1>2, <1>4 DEF Trimmed
    <2> QED BY <2>1, <1>1, <1>2
  <1> QED BY <1>3, <1>4

LEMMA FreshFacts ==
  ASSUME ToolsInv, NEW o \in Objects
  PROVE  /\ Fresh(o) \in Nat /\ Fresh(o) > values[o] /\ values[o] \in 1 .. MaxStamp
         /\ \A i \in 1 .. Len(journal) : Fresh(o) > journal[i].previous
  <1> DEFINE K == {values[o]} \cup {journal[i].previous : i \in DOMAIN journal}
  <1>1. /\ values[o] \in 1 .. MaxStamp /\ MaxStamp \in Nat
        /\ \A i \in 1 .. Len(journal) : journal[i].previous \in 1 .. MaxStamp
        /\ DOMAIN journal = 1 .. Len(journal)
    <2>1. /\ journal \in Seq(Write) /\ values \in [Objects -> 1 .. MaxStamp] /\ MaxStamp \in Nat
      BY ToolsAssumption DEF ToolsInv, TypeOK, ToolsTypeOK
    <2>2. \A i \in 1 .. Len(journal) : journal[i] \in Write
      BY <2>1
    <2>3. \A i \in 1 .. Len(journal) : journal[i].previous \in 1 .. MaxStamp
      BY <2>2 DEF Write
    <2> QED BY <2>1, <2>3
  <1>2. K \subseteq 1 .. MaxStamp /\ values[o] \in K
        /\ \A i \in 1 .. Len(journal) : journal[i].previous \in K
    BY <1>1
  <1>3. Fresh(o) = Max(K) + 1
    BY DEF Fresh
  <1> HIDE DEF K
  <1>4. K \in SUBSET Nat /\ K # {} /\ IsFiniteSet(K)
    <2>1. IsFiniteSet(1 .. MaxStamp)
      BY <1>1, FS_Interval
    <2>2. IsFiniteSet(K)
      BY <2>1, <1>2, FS_Subset
    <2>3. K \in SUBSET Nat /\ K # {}
      BY <1>1, <1>2
    <2> QED BY <2>2, <2>3
  <1>5. Max(K) \in K /\ \A x \in K : Max(K) >= x
    BY <1>4, MaxIsMax
  <1>6. Max(K) \in Nat
    BY <1>4, <1>5
  <1>7. ASSUME NEW x \in K PROVE Fresh(o) > x
    BY <1>3, <1>4, <1>5, <1>6, <1>7
  <1> QED BY <1>1, <1>2, <1>3, <1>6, <1>7

LEMMA TargetFacts ==
  ASSUME ToolsInv, NEW i \in Targets
  PROVE  i \in 1 .. Len(references) /\ references[i].about \in Objects
  <1>1. i \in DOMAIN references /\ references[i].kind \in {"component", "managed"}
    BY DEF Targets, Found
  <1>2. DOMAIN references = 1 .. Len(references)
    BY DEF ToolsInv, TypeOK, ToolsTypeOK
  <1> QED BY <1>1, <1>2 DEF ToolsInv, WritesInv, AboutObjects

\* A step that writes values and the journal and nothing else.
LEMMA WriteKeeps ==
  ASSUME ToolsInv, values' \in [Objects -> 1 .. MaxStamp], replaying' \in BOOLEAN,
         journal' \in Seq(Write), Len(journal') <= MaxJournal, GoesBack(journal', values'),
         AnswerCurrent(answer') \/ UNCHANGED answer,
         UNCHANGED <<tables, sceneVars, references, mcpTraces, watch, stops, stranded, stopped>>
  PROVE  ToolsInv'
  <1>1. UNCHANGED <<sessions, lastTrace, handles, heap>>
    BY DEF tables
  <1>2. TablesTypeOK'
    BY <1>1 DEF ToolsInv, TypeOK, TablesTypeOK
  <1>3. answer' \in AnswerType /\ MutationsCurrent'
    BY AnswerNext, Frames DEF ToolsInv, TypeOK, ToolsTypeOK, AnswerType, Verdicts
  <1>4. ToolsTypeOK'
    BY <1>1, <1>3 DEF ToolsInv, TypeOK, ToolsTypeOK, sceneVars, AnswerType, Verdicts
  <1>5. OwnedInv' /\ HooksInv'
    BY <1>1, Frames DEF ToolsInv
  <1>6. WritesInv'
    BY JournalGoesBackNext DEF ToolsInv, WritesInv, AboutObjects
  <1> QED BY <1>2, <1>3, <1>4, <1>5, <1>6, ToolsFrame

LEMMA WriteMemberKeeps ==
  ASSUME ToolsInv, WriteMember, UNCHANGED <<watch, stops, stranded, stopped>>
  PROVE  ToolsInv'
  <1>1. PICK i \in Targets :
          LET o == references[i].about
          IN  /\ Fresh(o) <= MaxStamp
              /\ values' = [values EXCEPT ![o] = Fresh(o)]
              /\ journal' = Journaled(journal, i, replaying)
              /\ answer' = Accessed(i)
              /\ UNCHANGED <<tables, sceneVars, references, replaying, mcpTraces>>
    BY DEF WriteMember
  <1> DEFINE o == references[i].about
             f == Fresh(o)
             r == [place |-> i, about |-> o, previous |-> values[o]]
             l == Len(journal)
  <1>2. o \in Objects /\ i \in 1 .. Len(references)
    BY TargetFacts
  <1>3. /\ journal \in Seq(Write) /\ l <= MaxJournal /\ l \in Nat
        /\ values \in [Objects -> 1 .. MaxStamp] /\ Len(references) <= MaxReferences
        /\ replaying \in BOOLEAN /\ GoesBack(journal, values)
        /\ Len(references) \in Nat /\ MaxStamp \in Nat /\ MaxReferences \in Nat
    BY ToolsAssumption, JournalGoesBack DEF ToolsInv, TypeOK, ToolsTypeOK, WritesInv
  <1>4. /\ f <= MaxStamp /\ values' = [values EXCEPT ![o] = f]
        /\ journal' = Journaled(journal, i, replaying)
        /\ AnswerCurrent(answer')
        /\ UNCHANGED <<tables, sceneVars, references, replaying, mcpTraces>>
    BY <1>1, AccessedFacts
  <1> HIDE DEF o
  <1>5. /\ f \in Nat /\ f > values[o] /\ values[o] \in 1 .. MaxStamp
        /\ \A k \in 1 .. l : f > journal[k].previous
    BY <1>2, FreshFacts
  <1> HIDE DEF f
  <1>6. values' \in [Objects -> 1 .. MaxStamp]
    <2>1. f \in 1 .. MaxStamp
      BY <1>3, <1>4, <1>5
    <2> QED BY <2>1, <1>3, <1>4
  <1>7. r \in Write /\ r.about = o /\ r.previous = values[o]
    BY <1>2, <1>3, <1>5 DEF Write
  <1>8. ASSUME NEW k \in 1 .. l
        PROVE  journal[k] \in Write /\ journal[k].previous \in Nat /\ journal[k].about \in Objects
               /\ journal[k].previous < values'[journal[k].about]
    <2>0. journal[k] \in Write
      BY <1>3
    <2>1. journal[k] \in Write /\ journal[k].previous \in Nat /\ journal[k].about \in Objects
      BY <2>0 DEF Write
    <2>2. journal[k].previous < values[journal[k].about]
      BY <1>3 DEF GoesBack
    <2> QED BY <2>1, <2>2, <1>3, <1>4, <1>5
  <1>9. CASE replaying
    <2>1. journal' = journal
      BY <1>4, <1>9 DEF Journaled
    <2>2. GoesBack(journal', values')
      BY <2>1, <1>3, <1>8 DEF GoesBack
    <2> QED BY <2>1, <2>2, <1>3, <1>4, <1>6, WriteKeeps
  <1>10. CASE ~replaying
    <2>1. journal' = Trimmed(Append(journal, r))
      BY <1>4, <1>10 DEF Journaled, o
    <2> HIDE DEF r
    <2>2. PICK a : a = Append(journal, r)
      OBVIOUS
    <2>3. /\ a \in Seq(Write) /\ Len(a) = l + 1 /\ a[l + 1] = r
          /\ \A k \in 1 .. l : a[k] = journal[k]
      BY <2>2, <1>3, <1>7
    <2>4. GoesBack(a, values')
      <3>1. ASSUME NEW k \in 1 .. l + 1 PROVE a[k].previous < values'[a[k].about]
        <4>1. CASE k = l + 1
          BY <4>1, <2>3, <1>2, <1>3, <1>4, <1>5, <1>7
        <4>2. CASE k # l + 1
          <5>1. k \in 1 .. l
            BY <4>2, <1>3
          <5> QED BY <5>1, <2>3, <1>8
        <4> QED BY <4>1, <4>2
      <3>2. ASSUME NEW k \in 1 .. l + 1, NEW m \in 1 .. l + 1, k < m, a[k].about = a[m].about
            PROVE  a[k].previous < a[m].previous
        <4>1. k \in 1 .. l
          BY <3>2, <1>3
        <4>2. CASE m = l + 1
          <5>1. journal[k].about = o /\ a[k] = journal[k] /\ a[m] = r
            BY <4>1, <4>2, <3>2, <2>3, <1>7
          <5>2. journal[k].previous < values[o]
            BY <4>1, <5>1, <1>3 DEF GoesBack
          <5> QED BY <5>1, <5>2, <1>7
        <4>3. CASE m # l + 1
          <5>1. m \in 1 .. l /\ a[k] = journal[k] /\ a[m] = journal[m]
            BY <4>1, <4>3, <2>3, <1>3
          <5> QED BY <4>1, <5>1, <3>2, <1>3 DEF GoesBack
        <4> QED BY <4>2, <4>3
      <3> QED BY <3>1, <3>2, <2>3 DEF GoesBack
    <2>5. GoesBack(Append(journal, r), values')
      BY <2>2, <2>4
    <2>6. /\ journal' \in Seq(Write) /\ Len(journal') <= MaxJournal /\ GoesBack(journal', values')
      BY <2>1, <2>5, <1>3, <1>7, TrimmedFacts
    <2> QED BY <2>6, <1>3, <1>4, <1>6, WriteKeeps
  <1> QED BY <1>9, <1>10

\* The record is gone: what is left goes back under the same values, and under
\* the values that the replay of the record restores.
LEMMA UndoneGoesBack ==
  ASSUME ToolsInv, journal # <<>>
  PROVE  LET back == [values EXCEPT ![Newest.about] = Newest.previous]
         IN  /\ Front(journal) \in Seq(Write) /\ Len(Front(journal)) <= MaxJournal
             /\ GoesBack(Front(journal), values) /\ GoesBack(Front(journal), back)
             /\ values \in [Objects -> 1 .. MaxStamp] /\ back \in [Objects -> 1 .. MaxStamp]
  <1> DEFINE l == Len(journal)
             f == Front(journal)
             back == [values EXCEPT ![Newest.about] = Newest.previous]
  <1>1. /\ journal \in Seq(Write) /\ l \in Nat /\ l # 0 /\ l <= MaxJournal /\ MaxJournal \in Nat
        /\ values \in [Objects -> 1 .. MaxStamp] /\ GoesBack(journal, values)
    BY ToolsAssumption, JournalGoesBack DEF ToolsInv, TypeOK, ToolsTypeOK, WritesInv
  <1>2. f \in Seq(Write) /\ Len(f) = l - 1 /\ \A i \in 1 .. l - 1 : f[i] = journal[i]
    BY <1>1, FrontFacts
  <1> HIDE DEF f
  <1>3. Newest = journal[l] /\ l \in 1 .. l /\ Newest \in Write
    BY <1>1 DEF Newest
  <1>4. Newest.about \in Objects /\ Newest.previous \in 1 .. MaxStamp
    BY <1>3 DEF Write
  <1>5. back \in [Objects -> 1 .. MaxStamp]
    BY <1>1, <1>4
  <1>6. ASSUME NEW i \in 1 .. l - 1
        PROVE  /\ i \in 1 .. l /\ i < l /\ f[i] = journal[i] /\ journal[i].about \in Objects
               /\ journal[i].previous < values[journal[i].about]
               /\ journal[i].previous < back[journal[i].about]
    <2>1. i \in 1 .. l /\ i < l /\ f[i] = journal[i]
      BY <1>1, <1>2
    <2>2. journal[i] \in Write
      BY <2>1, <1>1
    <2>3. journal[i].about \in Objects
      BY <2>2 DEF Write
    <2>4. journal[i].previous < values[journal[i].about]
      BY <2>1, <1>1 DEF GoesBack
    <2>5. journal[i].about = Newest.about => journal[i].previous < Newest.previous
      BY <2>1, <1>1, <1>3 DEF GoesBack
    <2>6. back[journal[i].about] = IF journal[i].about = Newest.about THEN Newest.previous
                                                                   ELSE values[journal[i].about]
      BY <2>3, <1>1
    <2> QED BY <2>1, <2>3, <2>4, <2>5, <2>6
  <1> HIDE DEF back
  <1>7. \A i, k \in 1 .. l - 1 :
          i < k /\ f[i].about = f[k].about => f[i].previous < f[k].previous
    BY <1>1, <1>6 DEF GoesBack
  <1>8. GoesBack(f, values) /\ GoesBack(f, back)
    BY <1>2, <1>6, <1>7 DEF GoesBack
  <1>9. Len(f) <= MaxJournal
    BY <1>1, <1>2
  <1> QED BY <1>1, <1>2, <1>5, <1>8, <1>9 DEF f, back

LEMMA UndoWriteKeeps ==
  ASSUME ToolsInv, UndoWrite, UNCHANGED <<watch, stops, stranded, stopped>>
  PROVE  ToolsInv'
  <1>0. AnswerCurrent(answer')
    BY AccessedFacts, SilentFacts DEF UndoWrite
  <1>1. /\ journal # <<>> /\ replaying' = FALSE
        /\ UNCHANGED <<tables, sceneVars, references, mcpTraces>>
    BY DEF UndoWrite
  <1>2. /\ journal' = Front(journal)
        /\ values' = [values EXCEPT ![Newest.about] = Newest.previous] \/ values' = values
    BY DEF UndoWrite, Journaled
  <1>3. /\ journal' \in Seq(Write) /\ Len(journal') <= MaxJournal
        /\ GoesBack(journal', values') /\ values' \in [Objects -> 1 .. MaxStamp]
    BY <1>1, <1>2, UndoneGoesBack
  <1> QED BY <1>0, <1>1, <1>3, WriteKeeps

LEMMA UndoFaultsKeeps ==
  ASSUME ToolsInv, UndoFaults, UNCHANGED <<watch, stops, stranded, stopped>>
  PROVE  ToolsInv'
  <1>0. AnswerCurrent(answer')
    BY AccessedFacts DEF UndoFaults
  <1>1. /\ journal # <<>> /\ replaying' = TRUE
        /\ journal' = Front(journal) /\ UNCHANGED values
        /\ UNCHANGED <<tables, sceneVars, references, mcpTraces>>
    BY DEF UndoFaults
  <1>2. /\ journal' \in Seq(Write) /\ Len(journal') <= MaxJournal
        /\ GoesBack(journal', values') /\ values' \in [Objects -> 1 .. MaxStamp]
    BY <1>1, UndoneGoesBack
  <1> QED BY <1>0, <1>1, <1>2, WriteKeeps

-----------------------------------------------------------------------------
(* The traces that MCP and the user start and stop *)

\* A session that is started for the user or for MCP is shown.
LEMMA ShownStarted ==
  ASSUME ToolsInv, NEW m \in Methods, NEW who \in {"nobody", "user", "mcp", "watch"},
         Startable(sessions, m, NoObject), Numbered(sessions, m),
         NEW visible \in BOOLEAN, sessions' = Started(sessions, m, NoObject, visible, who),
         lastTrace' = IF sessions[m].id = 0 THEN lastTrace + 1 ELSE lastTrace,
         UNCHANGED <<heap, watch>>
  PROVE  /\ sessions' \in [Methods -> Session] /\ lastTrace' \in 0 .. MaxTraceIds
         /\ sessions'[m].active /\ sessions'[m].armedBy = who
         /\ \A n \in Methods \ {m} : sessions'[n] = sessions[n]
         /\ ActiveNumbered'
         /\ visible => sessions'[m].visible /\ HookScoped'
  <1>0. sessions \in [Methods -> Session] /\ lastTrace \in 0 .. MaxTraceIds /\ HooksInv
    BY WatchTypes
  <1>1. /\ sessions' \in [Methods -> Session]
        /\ sessions'[m].active /\ sessions'[m].armedBy = who
        /\ visible => sessions'[m].visible
        /\ sessions'[m].id # 0
        /\ \A n \in Methods \ {m} : sessions'[n] = sessions[n]
    <2>1. NoObject \in Objects \cup {NoObject}
      OBVIOUS
    <2> QED BY <1>0, <2>1, StartedFacts
  <1>2. lastTrace' \in 0 .. MaxTraceIds
    BY <1>0, TablesAssumption DEF Numbered
  <1>3. ActiveNumbered'
    BY <1>0, <1>1 DEF HooksInv, ActiveNumbered
  <1>4. sessions'[m].visible => HookScoped'
    BY <1>0, <1>1 DEF HooksInv, HookScoped
  <1> QED BY <1>1, <1>2, <1>3, <1>4

\* What set_method_trace() leaves of the sessions, whatever becomes of the ids.
LEMMA StartTraceSessions ==
  ASSUME ToolsInv, NEW m \in Methods, StartTrace(m), UNCHANGED watch
  PROVE  /\ sessions' \in [Methods -> Session] /\ lastTrace' \in 0 .. MaxTraceIds
         /\ \A n \in Methods \ {m} : sessions'[n] = sessions[n]
         /\ sessions' = sessions \/ (sessions'[m].active /\ sessions'[m].visible)
         /\ ActiveNumbered' /\ HookScoped'
  <1>0. /\ sessions \in [Methods -> Session] /\ lastTrace \in 0 .. MaxTraceIds
        /\ HooksInv /\ ActiveNumbered /\ HookScoped
    BY WatchTypes DEF HooksInv
  <1>1. heap' = heap
    BY DEF StartTrace
  <1>2. PICK granted \in BOOLEAN :
          LET starts == granted /\ Startable(sessions, m, NoObject)
          IN  /\ starts => Numbered(sessions, m)
              /\ sessions' = IF starts THEN Started(sessions, m, NoObject, TRUE, "mcp") ELSE sessions
              /\ lastTrace' = IF starts /\ sessions[m].id = 0 THEN lastTrace + 1 ELSE lastTrace
    BY Zenon DEF StartTrace
  <1>3. CASE granted /\ Startable(sessions, m, NoObject)
    <2>1. PICK visible \in BOOLEAN, who \in {"nobody", "user", "mcp", "watch"} :
            visible = TRUE /\ who = "mcp"
      OBVIOUS
    <2>2. /\ Startable(sessions, m, NoObject) /\ Numbered(sessions, m)
          /\ sessions' = Started(sessions, m, NoObject, visible, who) /\ visible
          /\ lastTrace' = IF sessions[m].id = 0 THEN lastTrace + 1 ELSE lastTrace
      BY <1>2, <1>3, <2>1
    <2> QED BY <1>1, <2>2, ShownStarted
  <1>4. CASE ~(granted /\ Startable(sessions, m, NoObject))
    <2>1. sessions' = sessions /\ lastTrace' = lastTrace
      BY <1>2, <1>4
    <2> QED BY <1>0, <1>1, <2>1 DEF ActiveNumbered, HookScoped
  <1> QED BY <1>3, <1>4

LEMMA StartTraceKeeps ==
  ASSUME ToolsInv, NEW m \in Methods, StartTrace(m), UNCHANGED <<watch, stops, stranded, stopped>>
  PROVE  ToolsInv'
  <1>0. McpTracesTracked /\ handles \in [Tokens -> Handle] /\ OwnedInv /\ WritesInv /\ MutationsCurrent
    BY WatchTypes DEF HooksInv
  <1>1. /\ sessions' \in [Methods -> Session] /\ lastTrace' \in 0 .. MaxTraceIds
        /\ \A n \in Methods \ {m} : sessions'[n] = sessions[n]
        /\ sessions' = sessions \/ (sessions'[m].active /\ sessions'[m].visible)
        /\ ActiveNumbered' /\ HookScoped'
    BY StartTraceSessions
  <1>2. answer' = Silent /\ UNCHANGED <<heap, sceneVars, values, replaying>>
    BY DEF StartTrace
  <1>3. answer' \in AnswerType /\ MutationsCurrent'
    BY <1>2, SilentFacts, AnswerNext
  <1>4. CASE sessions'[m].active /\ sessions'[m].visible
    <2> DEFINE id == sessions'[m].id
               e == TraceEntry(id)
    <2>1. mcpTraces' = mcpTraces \cup {id} /\ Issue(<<e>>, handles)
      BY <1>4 DEF StartTrace, Adopted
    <2>2. id \in 1 .. MaxTraceIds /\ id \in 0 .. MaxTraceIds
      BY <1>1, <1>4, TablesAssumption DEF ActiveNumbered, Session
    <2>3. e \in Entry /\ e.handle = 0 /\ e.kind = "trace"
      BY <2>2, PlainEntry DEF TraceEntry, Entry
    <2> HIDE DEF e, id
    <2>4. /\ references' \in Seq(Entry) /\ Len(references') <= MaxReferences
          /\ handles' \in [Tokens -> Handle]
          /\ journal' \in Seq(Write) /\ Len(journal') <= MaxJournal
          /\ OwnedInv' /\ WritesInv'
      BY <1>2, <2>1, <2>3, IssueOneFacts
    <2>5. McpTracesTracked'
      <3> SUFFICES ASSUME NEW n \in Methods, sessions'[n].active, sessions'[n].armedBy = "mcp"
                   PROVE  sessions'[n].id \in mcpTraces'
        BY DEF McpTracesTracked
      <3>1. CASE n = m
        BY <3>1, <2>1 DEF id
      <3>2. CASE n # m
        BY <3>2, <1>0, <1>1, <2>1 DEF McpTracesTracked
      <3> QED BY <3>1, <3>2
    <2>6. HooksInv'
      BY <1>1, <2>5 DEF HooksInv
    <2>7. TablesTypeOK'
      BY <1>1, <1>2, <2>4 DEF ToolsInv, TypeOK, TablesTypeOK
    <2>8. ToolsTypeOK'
      BY <1>2, <1>3, <2>1, <2>2, <2>4
         DEF ToolsInv, TypeOK, ToolsTypeOK, sceneVars, AnswerType, Verdicts
    <2> QED BY <1>3, <2>4, <2>6, <2>7, <2>8, ToolsFrame
  <1>5. CASE ~(sessions'[m].active /\ sessions'[m].visible)
    <2>1. UNCHANGED <<mcpTraces, references, handles, journal>> /\ sessions' = sessions
      BY <1>1, <1>5 DEF StartTrace
    <2>2. OwnedInv' /\ WritesInv'
      BY <1>0, <1>2, <2>1, Frames
    <2>3. HooksInv'
      BY <1>0, <1>1, <2>1 DEF HooksInv, McpTracesTracked
    <2>4. TablesTypeOK'
      BY <1>1, <1>2, <2>1 DEF ToolsInv, TypeOK, TablesTypeOK
    <2>5. ToolsTypeOK'
      BY <1>2, <1>3, <2>1 DEF ToolsInv, TypeOK, ToolsTypeOK, sceneVars, AnswerType, Verdicts
    <2> QED BY <1>3, <2>2, <2>3, <2>4, <2>5, ToolsFrame
  <1> QED BY <1>4, <1>5

\* Steps that only quieten sessions, and perhaps forget ids of stopped ones.
LEMMA QuietKeeps ==
  ASSUME ToolsInv, sessions' \in [Methods -> Session], Quieter(sessions, sessions'),
         mcpTraces' \subseteq mcpTraces, McpTracesTracked', stops' \subseteq stops,
         answer' = answer \/ answer' = Silent,
         UNCHANGED <<lastTrace, handles, heap, sceneVars, references, writes, watch>>,
         UNCHANGED <<stranded, stopped>>
  PROVE  ToolsInv'
  <1>0. TablesTypeOK /\ HooksInv /\ OwnedInv /\ WritesInv /\ MutationsCurrent /\ ToolsTypeOK
    BY WatchTypes
  <1>1. TablesTypeOK'
    BY <1>0 DEF TablesTypeOK
  <1>7. answer' \in AnswerType /\ MutationsCurrent'
    BY <1>0, SilentFacts, AnswerNext, Frames DEF ToolsTypeOK, AnswerType, Verdicts
  <1>2. ToolsTypeOK'
    BY <1>0, <1>7 DEF ToolsTypeOK, sceneVars, writes, AnswerType, Verdicts
  <1>3. WatchTypeOK' /\ stops' \subseteq Methods /\ stopped' \in BOOLEAN
    BY DEF ToolsInv, TypeOK, WatchTypeOK
  <1>4. OwnedInv'
    BY <1>0, Frames
  <1>5. WritesInv'
    BY <1>0, Frames DEF writes
  <1>6. HooksInv'
    BY <1>0, QuieterKeeps DEF HooksInv
  <1> QED BY <1>1, <1>2, <1>3, <1>4, <1>5, <1>6, <1>7 DEF ToolsInv, TypeOK

LEMMA StopTraceKeeps ==
  ASSUME ToolsInv, StopTrace, UNCHANGED <<watch, stops, stranded, stopped>>
  PROVE  ToolsInv'
  <1>0. sessions \in [Methods -> Session] /\ HooksInv
    BY WatchTypes
  <1>1. PICK i \in Found("trace") :
          /\ \E late \in SUBSET WithId(references[i].trace) :
               sessions' = Stopped(sessions, WithId(references[i].trace), late)
          /\ mcpTraces' = mcpTraces \ {references[i].trace}
          /\ answer' = Silent
          /\ UNCHANGED <<lastTrace, handles, heap, sceneVars, references, writes>>
    BY DEF StopTrace
  <1> DEFINE id == references[i].trace
             M == WithId(id)
  <1>2. PICK late : sessions' = Stopped(sessions, M, late)
    BY <1>1
  <1> HIDE DEF id
  <1>3. mcpTraces' = mcpTraces \ {id}
    BY <1>1 DEF id
  <1> HIDE DEF M
  <1>4. /\ sessions' \in [Methods -> Session] /\ Quieter(sessions, sessions')
        /\ \A m \in M \cap Methods : ~sessions'[m].active
    BY <1>0, <1>2, StoppedFacts
  <1>5. McpTracesTracked'
    <2> SUFFICES ASSUME NEW m \in Methods, sessions'[m].active, sessions'[m].armedBy = "mcp"
                 PROVE  sessions'[m].id \in mcpTraces'
      BY DEF McpTracesTracked
    <2>1. /\ sessions[m].active /\ sessions[m].armedBy = "mcp" /\ sessions'[m].id = sessions[m].id
          /\ m \notin M
      BY <1>4 DEF Quieter
    <2>2. sessions[m].id \in mcpTraces /\ sessions[m].id # 0
      BY <2>1, <1>0 DEF HooksInv, McpTracesTracked, ActiveNumbered
    <2>3. sessions[m].id # id
      BY <2>1, <2>2 DEF M, WithId, Retained
    <2> QED BY <2>1, <2>2, <2>3, <1>3
  <1> QED BY <1>1, <1>3, <1>4, <1>5, QuietKeeps

LEMMA RevokeKeeps ==
  ASSUME ToolsInv, Revoke, UNCHANGED <<watch, stops, stranded, stopped>>
  PROVE  ToolsInv'
  <1>0. sessions \in [Methods -> Session] /\ HooksInv
    BY WatchTypes
  <1> DEFINE M == UNION {WithId(id) : id \in mcpTraces}
  <1>1. PICK late : sessions' = Stopped(sessions, M, late)
    BY DEF Revoke
  <1>2. mcpTraces' = {} /\ UNCHANGED <<lastTrace, handles, heap, sceneVars, references, writes, answer>>
    BY DEF Revoke
  <1> HIDE DEF M
  <1>3. /\ sessions' \in [Methods -> Session] /\ Quieter(sessions, sessions')
        /\ \A m \in M \cap Methods : ~sessions'[m].active
    BY <1>0, <1>1, StoppedFacts
  <1>4. McpTracesTracked'
    <2> SUFFICES ASSUME NEW m \in Methods, sessions'[m].active, sessions'[m].armedBy = "mcp"
                 PROVE  FALSE
      BY DEF McpTracesTracked
    <2>1. sessions[m].active /\ sessions[m].armedBy = "mcp" /\ m \notin M
      BY <1>3 DEF Quieter
    <2>2. sessions[m].id \in mcpTraces /\ sessions[m].id # 0
      BY <2>1, <1>0 DEF HooksInv, McpTracesTracked, ActiveNumbered
    <2>3. m \in WithId(sessions[m].id)
      BY <2>2 DEF WithId, Retained
    <2> QED BY <2>1, <2>2, <2>3 DEF M
  <1> QED BY <1>2, <1>3, <1>4, QuietKeeps

LEMMA ToolsKeep ==
  ASSUME ToolsInv, ToolsNext, UNCHANGED <<watch, stops, stranded, stopped>>
  PROVE  ToolsInv'
  <1>1. ASSUME NEW o \in Objects, NEW strong \in BOOLEAN, ReadObject(o, strong) PROVE ToolsInv'
    BY <1>1, ReadObjectKeeps
  <1>2. ASSUME NEW o \in Objects, InspectGameObject(o) PROVE ToolsInv'
    BY <1>2, InspectGameObjectKeeps
  <1>3. ASSUME NEW m \in Methods, StartTrace(m) PROVE ToolsInv'
    BY <1>3, StartTraceKeeps
  <1> QED BY <1>1, <1>2, <1>3, FindGameObjectKeeps, SelectGameObjectKeeps, MutateGameObjectKeeps,
             ManageComponentKeeps, WriteMemberKeeps, UndoWriteKeeps, UndoFaultsKeeps,
             ListTracesKeeps, StopTraceKeeps, RevokeKeeps DEF ToolsNext

-----------------------------------------------------------------------------
(* The Traces panel and the Class Browser *)

LEMMA PanelStartKeeps ==
  ASSUME ToolsInv, NEW m \in Methods, PanelStart(m), UNCHANGED <<stranded, stopped>>
  PROVE  ToolsInv'
  <1>0. TablesTypeOK /\ HooksInv /\ OwnedInv /\ WritesInv /\ MutationsCurrent /\ ToolsTypeOK
    BY WatchTypes
  <1>1. PICK visible \in BOOLEAN, who \in {"nobody", "user", "mcp", "watch"} :
          visible = TRUE /\ who = "user"
    OBVIOUS
  <1>2. /\ Startable(sessions, m, NoObject) /\ Numbered(sessions, m)
        /\ sessions' = Started(sessions, m, NoObject, visible, who)
        /\ lastTrace' = IF sessions[m].id = 0 THEN lastTrace + 1 ELSE lastTrace
        /\ UNCHANGED <<handles, heap, toolVars, watch, stops>>
    BY <1>1 DEF PanelStart
  <1>3. UNCHANGED <<references, journal, values, mcpTraces, answer, sceneVars>>
    BY <1>2 DEF toolVars, writes
  <1>4. /\ sessions' \in [Methods -> Session] /\ lastTrace' \in 0 .. MaxTraceIds
        /\ sessions'[m].armedBy = who
        /\ \A n \in Methods \ {m} : sessions'[n] = sessions[n]
        /\ ActiveNumbered' /\ HookScoped'
    BY <1>1, <1>2, ShownStarted
  <1>5. McpTracesTracked'
    BY <1>0, <1>1, <1>3, <1>4 DEF HooksInv, McpTracesTracked
  <1>6. HooksInv'
    BY <1>4, <1>5 DEF HooksInv
  <1>7. TablesTypeOK'
    BY <1>0, <1>2, <1>4 DEF TablesTypeOK
  <1>8. OwnedInv' /\ WritesInv' /\ MutationsCurrent' /\ ToolsTypeOK'
    BY <1>0, <1>2, <1>3, Frames
  <1> QED BY <1>2, <1>6, <1>7, <1>8, ToolsFrame

\* A step of the panel or of publish() that only quietens sessions.
LEMMA PanelQuiet ==
  ASSUME ToolsInv, sessions' \in [Methods -> Session], Quieter(sessions, sessions'),
         stops' \subseteq stops, UNCHANGED <<lastTrace, handles, heap, toolVars, watch>>,
         UNCHANGED <<stranded, stopped>>
  PROVE  ToolsInv'
  <1>0. HooksInv
    BY WatchTypes
  <1>1. UNCHANGED <<sceneVars, references, writes, mcpTraces, answer>>
    BY DEF toolVars
  <1>2. McpTracesTracked'
    BY <1>0, <1>1, QuieterKeeps
  <1>3. mcpTraces' \subseteq mcpTraces
    BY <1>1
  <1> QED BY <1>1, <1>2, <1>3, QuietKeeps

LEMMA PanelStopKeeps ==
  ASSUME ToolsInv, NEW m \in Methods, PanelStop(m) \/ StopMethod(m), UNCHANGED <<stranded, stopped>>
  PROVE  ToolsInv'
  <1>0. sessions \in [Methods -> Session]
    BY WatchTypes
  <1>1. PICK late : sessions' = Stopped(sessions, {m}, late)
    BY DEF PanelStop, StopMethod
  <1>2. stops' \subseteq stops /\ UNCHANGED <<lastTrace, handles, heap, toolVars, watch>>
    BY DEF PanelStop, StopMethod
  <1>3. sessions' \in [Methods -> Session] /\ Quieter(sessions, sessions')
    BY <1>0, <1>1, StoppedFacts
  <1> QED BY <1>2, <1>3, PanelQuiet

LEMMA PanelCloseKeeps ==
  ASSUME ToolsInv, NEW m \in Methods, PanelClose(m), UNCHANGED <<stranded, stopped>>
  PROVE  ToolsInv'
  <1>0. sessions \in [Methods -> Session]
    BY WatchTypes
  <1>1. /\ sessions' = Closed(sessions, {m})
        /\ stops' \subseteq stops /\ UNCHANGED <<lastTrace, handles, heap, toolVars, watch>>
    BY DEF PanelClose
  <1>2. sessions' \in [Methods -> Session] /\ Quieter(sessions, sessions')
    BY <1>0, <1>1, ClosedFacts
  <1> QED BY <1>1, <1>2, PanelQuiet

LEMMA PublishKeeps ==
  ASSUME ToolsInv, Publish, UNCHANGED <<stranded, stopped>>
  PROVE  ToolsInv'
  <1>0. sessions \in [Methods -> Session]
    BY WatchTypes
  <1>1. PICK M : sessions' = Drained(sessions, M)
    BY DEF Publish
  <1>2. stops' \subseteq stops /\ UNCHANGED <<lastTrace, handles, heap, toolVars, watch>>
    BY DEF Publish
  <1>3. sessions' \in [Methods -> Session] /\ Quieter(sessions, sessions')
    BY <1>0, <1>1, DrainedFacts
  <1> QED BY <1>2, <1>3, PanelQuiet

LEMMA QueueStopKeeps ==
  ASSUME ToolsInv, NEW m \in Methods, QueueStop(m), UNCHANGED <<stranded, stopped>>
  PROVE  ToolsInv'
  <1>0. TablesTypeOK /\ HooksInv /\ OwnedInv /\ WritesInv /\ MutationsCurrent /\ ToolsTypeOK /\ WatchTypeOK
    BY WatchTypes
  <1>1. stops' = stops \cup {m} /\ UNCHANGED <<tables, toolVars, watch>>
    BY DEF QueueStop
  <1>2. /\ UNCHANGED <<sessions, lastTrace, handles, heap>>
        /\ UNCHANGED <<references, journal, values, mcpTraces, answer, sceneVars>>
    BY <1>1 DEF tables, toolVars, writes
  <1>3. HooksInv' /\ OwnedInv' /\ WritesInv' /\ MutationsCurrent' /\ ToolsTypeOK'
    BY <1>0, <1>1, <1>2, Frames
  <1>4. TablesTypeOK' /\ WatchTypeOK' /\ stops' \subseteq Methods
    BY <1>0, <1>1, <1>2 DEF TablesTypeOK, WatchTypeOK, ToolsInv, TypeOK
  <1> QED BY <1>3, <1>4 DEF ToolsInv, TypeOK

-----------------------------------------------------------------------------
(* The explorer and the game *)

\* A step of the explorer that leaves the tables and the watches alone.
LEMMA SceneKeeps ==
  ASSUME ToolsInv, generation' \in 1 .. MaxGenerations,
         tree' \in [gen : 1 .. MaxGenerations, rev : 1 .. MaxRevisions],
         selected' \in BOOLEAN, UNCHANGED <<tables, references, writes, mcpTraces, answer>>,
         UNCHANGED <<watch, stops, stranded, stopped>>
  PROVE  ToolsInv'
  <1>0. TablesTypeOK /\ HooksInv /\ OwnedInv /\ WritesInv /\ MutationsCurrent /\ ToolsTypeOK
    BY WatchTypes
  <1>1. UNCHANGED <<sessions, lastTrace, handles, heap, journal, replaying, values>>
    BY DEF tables, writes
  <1>2. HooksInv' /\ OwnedInv' /\ WritesInv'
    BY <1>0, <1>1, Frames
  <1>3. TablesTypeOK'
    BY <1>0, <1>1 DEF TablesTypeOK
  <1>4. ToolsTypeOK'
    BY <1>0, <1>1 DEF ToolsTypeOK
  <1> QED BY <1>0, <1>2, <1>3, <1>4, Frames, ToolsFrame

LEMMA SceneTypes ==
  ASSUME ToolsInv
  PROVE  /\ generation \in 1 .. MaxGenerations
         /\ tree \in [gen : 1 .. MaxGenerations, rev : 1 .. MaxRevisions]
         /\ selected \in BOOLEAN /\ MaxGenerations \in Nat /\ MaxRevisions \in Nat
  BY ToolsAssumption DEF ToolsInv, TypeOK, ToolsTypeOK

LEMMA SceneHintKeeps ==
  ASSUME ToolsInv, SceneHint, UNCHANGED <<stranded, stopped>>
  PROVE  ToolsInv'
  <1>1. /\ generation < MaxGenerations /\ generation' = generation + 1 /\ selected' = FALSE
        /\ UNCHANGED <<tables, tree, references, writes, mcpTraces, answer, watch, stops>>
    BY DEF SceneHint
  <1>2. generation' \in 1 .. MaxGenerations
    BY <1>1, SceneTypes
  <1> QED BY <1>1, <1>2, SceneTypes, SceneKeeps

LEMMA PublishTreeKeeps ==
  ASSUME ToolsInv, PublishTree, UNCHANGED <<stranded, stopped>>
  PROVE  ToolsInv'
  <1>1. /\ tree.rev < MaxRevisions /\ tree' = [gen |-> generation, rev |-> tree.rev + 1]
        /\ UNCHANGED <<tables, generation, selected, references, writes, mcpTraces, answer, watch, stops>>
    BY DEF PublishTree
  <1>2. tree' \in [gen : 1 .. MaxGenerations, rev : 1 .. MaxRevisions]
    BY <1>1, SceneTypes
  <1> QED BY <1>1, <1>2, SceneTypes, SceneKeeps

LEMMA UserSelectsKeeps ==
  ASSUME ToolsInv, UserSelects, UNCHANGED <<stranded, stopped>>
  PROVE  ToolsInv'
  <1>1. /\ selected' = TRUE
        /\ UNCHANGED <<tables, generation, tree, references, writes, mcpTraces, answer, watch, stops>>
    BY DEF UserSelects
  <1> QED BY <1>1, SceneTypes, SceneKeeps

\* Both ways on which the explorer drops every watch and the selection.
LEMMA DropAllKeeps ==
  ASSUME ToolsInv, SelectionDestroyed \/ Recover, UNCHANGED <<stranded, stopped>>
  PROVE  ToolsInv'
  <1>0. WritesInv /\ MutationsCurrent /\ ToolsTypeOK /\ stops \subseteq Methods
    BY WatchTypes
  <1>1. /\ ReleaseAllWatches /\ selected' = FALSE /\ stops' \subseteq stops
        /\ UNCHANGED <<generation, tree, references, writes, mcpTraces, answer>>
    BY DEF SelectionDestroyed, Recover
  <1>2. TablesTypeOK' /\ WatchTypeOK' /\ OwnedInv' /\ HooksInv'
    BY <1>1, ReleaseAllFacts
  <1>3. UNCHANGED <<journal, replaying, values>>
    BY <1>1 DEF writes
  <1>4. WritesInv'
    BY <1>0, <1>1, <1>3, Frames
  <1>5. MutationsCurrent'
    BY <1>0, <1>1, Frames
  <1>6. ToolsTypeOK'
    BY <1>0, <1>1, <1>3 DEF ToolsTypeOK
  <1>7. stops' \subseteq Methods /\ stopped' \in BOOLEAN
    BY <1>0, <1>1 DEF ToolsInv, TypeOK
  <1> QED BY <1>2, <1>4, <1>5, <1>6, <1>7 DEF ToolsInv, TypeOK

LEMMA GameWritesKeeps ==
  ASSUME ToolsInv, NEW o \in Objects, GameWrites(o), UNCHANGED <<stranded, stopped>>
  PROVE  ToolsInv'
  <1>1. /\ Fresh(o) <= MaxStamp /\ values' = [values EXCEPT ![o] = Fresh(o)]
        /\ UNCHANGED <<tables, sceneVars, references, journal, replaying, mcpTraces, answer, watch, stops>>
    BY DEF GameWrites
  <1>2. /\ journal \in Seq(Write) /\ Len(journal) <= MaxJournal /\ replaying \in BOOLEAN
        /\ values \in [Objects -> 1 .. MaxStamp] /\ UndoGoesBack /\ MaxStamp \in Nat
    BY ToolsAssumption DEF ToolsInv, TypeOK, ToolsTypeOK, WritesInv
  <1>3. /\ Fresh(o) \in Nat /\ Fresh(o) > values[o] /\ values[o] \in 1 .. MaxStamp
        /\ \A i \in 1 .. Len(journal) : Fresh(o) > journal[i].previous
    BY FreshFacts
  <1>4. values' \in [Objects -> 1 .. MaxStamp]
    BY <1>1, <1>2, <1>3
  <1>5. GoesBack(journal, values)
    BY <1>2, JournalGoesBack
  <1>6. GoesBack(journal', values')
    <2>1. ASSUME NEW i \in 1 .. Len(journal)
          PROVE  journal[i].previous < values'[journal[i].about]
      <3>0. journal[i] \in Write
        BY <1>2
      <3>1. journal[i].about \in Objects
        BY <3>0 DEF Write
      <3>2. CASE journal[i].about = o
        BY <3>2, <1>1, <1>2, <1>3
      <3>3. CASE journal[i].about # o
        BY <3>1, <3>3, <1>1, <1>2, <1>5 DEF GoesBack
      <3> QED BY <3>2, <3>3
    <2> QED BY <2>1, <1>1, <1>5 DEF GoesBack
  <1> QED BY <1>1, <1>2, <1>4, <1>6, WriteKeeps

\* The collector takes no object a hook is scoped to: the pin of its watch keeps it.
LEMMA CollectKeeps ==
  ASSUME ToolsInv, NEW o \in Objects, Collect(o), UNCHANGED <<stranded, stopped>>
  PROVE  ToolsInv'
  <1>0. TablesTypeOK /\ HooksInv /\ OwnedInv /\ WritesInv /\ MutationsCurrent /\ ToolsTypeOK
    BY WatchTypes
  <1>1. /\ ~watch[o].pin /\ heap' = heap \ {o}
        /\ UNCHANGED <<sessions, lastTrace, handles, toolVars, watch, stops>>
    BY DEF Collect
  <1>2. UNCHANGED <<references, journal, values, mcpTraces, answer, sceneVars>>
    BY <1>1 DEF toolVars, writes
  <1>3. HookScoped'
    BY <1>0, <1>1 DEF HooksInv, HookScoped
  <1>4. HooksInv'
    BY <1>0, <1>1, <1>2, <1>3 DEF HooksInv, McpTracesTracked, ActiveNumbered
  <1>5. OwnedInv' /\ WritesInv' /\ MutationsCurrent' /\ ToolsTypeOK'
    BY <1>0, <1>1, <1>2, Frames
  <1>6. TablesTypeOK'
    BY <1>0, <1>1 DEF TablesTypeOK
  <1> QED BY <1>1, <1>4, <1>5, <1>6, ToolsFrame

\* inspect_raw_reference(): the token that nobody keeps was nobody's before.
LEMMA InspectRawKeeps ==
  ASSUME ToolsInv, NEW o \in Objects, InspectRaw(o)
  PROVE  ToolsInv'
  <1> DEFINE t == LowToken(handles)
  <1>0. /\ TablesTypeOK /\ HooksInv /\ OwnedInv /\ WritesInv /\ MutationsCurrent /\ ToolsTypeOK
        /\ handles \in [Tokens -> Handle] /\ Held = HeldIn(handles)
    BY WatchTypes
  <1>1. /\ FreeIn(handles) # {} /\ handles' = Captured(handles, o)
        /\ stranded' = stranded \cup {t} /\ selected' \in {selected, TRUE}
        /\ UNCHANGED <<sessions, lastTrace, heap, generation, tree, references, writes,
                       mcpTraces, answer, watch, stops, stopped>>
    BY DEF InspectRaw
  <1>2. UNCHANGED <<journal, replaying, values>>
    BY <1>1 DEF writes
  <1>3. /\ handles' \in [Tokens -> Handle] /\ HeldIn(handles') = Held \cup {t} /\ t \notin Held
    <2>1. o # NoObject
      BY TablesAssumption
    <2>2. CanCapture(handles, o) /\ TokenFor(handles, o) = t
      BY <1>1, <2>1 DEF CanCapture, TokenFor
    <2>3. t \in Tokens /\ t # 0
      BY <1>1, FreeTokens, TablesAssumption DEF FreeIn
    <2> HIDE DEF t
    <2> QED BY <1>0, <1>1, <2>2, <2>3, CapturedFacts
  <1> HIDE DEF t
  <1>4. OwnedInv'
    <2>1. /\ WatchTokens' = WatchTokens /\ ReferenceTokens' = ReferenceTokens
          /\ Held' = Held \cup {t}
      BY <1>1, <1>3 DEF WatchTokens, ReferenceTokens, Held, HeldIn
    <2>2. HandlesOwned'
      BY <2>1, <1>0, <1>1, <1>3 DEF OwnedInv, HandlesOwned
    <2>3. TokensApart'
      BY <1>0, <1>1 DEF OwnedInv, TokensApart
    <2> QED BY <2>2, <2>3 DEF OwnedInv
  <1>5. HooksInv' /\ WritesInv' /\ MutationsCurrent'
    BY <1>0, <1>1, <1>2, Frames
  <1>6. TablesTypeOK'
    BY <1>0, <1>1, <1>3 DEF TablesTypeOK
  <1>7. ToolsTypeOK'
    <2>1. selected' \in BOOLEAN
      BY <1>0, <1>1 DEF ToolsTypeOK
    <2> QED BY <2>1, <1>0, <1>1, <1>2 DEF ToolsTypeOK
  <1>8. WatchTypeOK' /\ stops' \subseteq Methods /\ stopped' \in BOOLEAN
    BY <1>1 DEF ToolsInv, TypeOK, WatchTypeOK
  <1> QED BY <1>4, <1>5, <1>6, <1>7, <1>8 DEF ToolsInv, TypeOK

\* ModRuntime::stop(): no session is left active, the watches give their handles
\* back and the store strands its own.
LEMMA StopKeeps ==
  ASSUME ToolsInv, Stop
  PROVE  ToolsInv'
  <1>0. /\ TablesTypeOK /\ OwnedInv /\ MutationsCurrent /\ ToolsTypeOK
        /\ handles \in [Tokens -> Handle] /\ sessions \in [Methods -> Session]
        /\ Held = HeldIn(handles)
    BY WatchTypes
  <1>1. PICK late : sessions' = Closed(Stopped(sessions, Methods, late), TracesOf(Objects))
    BY DEF Stop
  <1>2. /\ references' = <<>> /\ journal' = <<>> /\ mcpTraces' = {}
        /\ stranded' = stranded \cup ReferenceTokens
        /\ handles' = Released(handles, WatchTokens)
        /\ watch' = [o \in Objects |-> NoWatch]
        /\ selected' = FALSE /\ stopped' = TRUE
        /\ UNCHANGED <<lastTrace, heap, generation, tree, replaying, values, answer, stops>>
    BY DEF Stop
  <1>3. sessions' \in [Methods -> Session] /\ \A m \in Methods : ~sessions'[m].active
    <2> DEFINE s == Stopped(sessions, Methods, late)
               M == TracesOf(Objects)
    <2>1. s \in [Methods -> Session] /\ \A m \in Methods : ~s[m].active
      BY <1>0, StoppedFacts
    <2> HIDE DEF s, M
    <2>2. Closed(s, M) \in [Methods -> Session] /\ Quieter(s, Closed(s, M))
      BY <2>1, ClosedFacts
    <2>3. sessions' = Closed(s, M)
      BY <1>1 DEF s, M
    <2> QED BY <2>1, <2>2, <2>3 DEF Quieter
  <1>4. /\ NoWatch \in Watch /\ NoWatch.current = NoToken /\ NoWatch.events = <<>>
        /\ TokensOf(NoWatch) = {} /\ \A o \in Objects : watch'[o] = NoWatch
    BY <1>2, TablesAssumption DEF Watch, NoWatch, TokensOf, Range
  <1>5. handles' \in [Tokens -> Handle] /\ Held' = Held \ WatchTokens
    BY <1>0, <1>2, ReleasedFacts DEF Held, HeldIn
  <1>6. WatchTokens' = {} /\ ReferenceTokens' = {}
    <2>1. WatchTokens' = UNION {TokensOf(watch'[o]) : o \in Objects}
      BY DEF WatchTokens, TokensOf
    <2>2. Range(references') = {}
      BY <1>2 DEF Range
    <2> QED BY <2>1, <2>2, <1>4 DEF ReferenceTokens
  <1>7. OwnedInv'
    <2>1. HandlesOwned'
      BY <1>0, <1>2, <1>5, <1>6 DEF OwnedInv, HandlesOwned
    <2>2. TokensApart'
      BY <1>4 DEF TokensApart, TokensOf, WatchOwns
    <2> QED BY <2>1, <2>2 DEF OwnedInv
  <1>8. HooksInv'
    BY <1>3 DEF HooksInv, HookScoped, McpTracesTracked, ActiveNumbered
  <1>9. WritesInv' /\ MutationsCurrent'
    BY <1>0, <1>2, Frames DEF WritesInv, UndoGoesBack, AboutObjects
  <1>10. TablesTypeOK'
    BY <1>0, <1>2, <1>3, <1>5 DEF TablesTypeOK
  <1>11. WatchTypeOK'
    BY <1>2, <1>4, WatchAssumption DEF WatchTypeOK
  <1>12. ToolsTypeOK'
    <2>1. /\ references' \in Seq(Entry) /\ Len(references') <= MaxReferences
          /\ journal' \in Seq(Write) /\ Len(journal') <= MaxJournal
      BY <1>2, ToolsAssumption
    <2> QED BY <2>1, <1>0, <1>2 DEF ToolsTypeOK
  <1>13. stops' \subseteq Methods /\ stopped' \in BOOLEAN
    BY <1>2 DEF ToolsInv, TypeOK
  <1> QED BY <1>7, <1>8, <1>9, <1>10, <1>11, <1>12, <1>13 DEF ToolsInv, TypeOK

-----------------------------------------------------------------------------
(* The specification *)

LEMMA ToolsStart ==
  ASSUME Init
  PROVE  ToolsInv
  <1>1. /\ sessions = [m \in Methods |-> NoSession] /\ lastTrace = 0
        /\ handles = [t \in Tokens |-> Free] /\ heap = Objects
        /\ watch = [o \in Objects |-> NoWatch] /\ stops = {}
    BY DEF Init, TablesInit, WatchInit
  <1>11. stranded = {} /\ stopped = FALSE
    BY DEF Init
  <1>2. /\ generation = 1 /\ tree = [gen |-> 1, rev |-> 1] /\ selected = FALSE
        /\ references = <<>> /\ journal = <<>> /\ replaying = FALSE /\ mcpTraces = {}
        /\ values = [o \in Objects |-> 1] /\ answer = Silent
    BY DEF Init, ToolsInit
  <1>3. TablesTypeOK
    BY <1>1, TablesAssumption DEF TablesTypeOK, NoSession, Session, Free, Handle
  <1>4. /\ NoWatch \in Watch /\ NoWatch.current = NoToken /\ NoWatch.events = <<>>
        /\ TokensOf(NoWatch) = {}
    BY TablesAssumption DEF Watch, NoWatch, TokensOf, Range
  <1>5. WatchTypeOK
    BY <1>1, <1>4, WatchAssumption DEF WatchTypeOK
  <1>6. ToolsTypeOK
    <2>1. {MaxReferences, MaxJournal, MaxGenerations, MaxRevisions, MaxStamp} \subseteq Nat \ {0}
      BY ToolsAssumption
    <2>2. references \in Seq(Entry) /\ Len(references) <= MaxReferences
      BY <1>2, <2>1
    <2>3. journal \in Seq(Write) /\ Len(journal) <= MaxJournal
      BY <1>2, <2>1
    <2>4. 1 \in 1 .. MaxGenerations /\ 1 \in 1 .. MaxRevisions /\ 1 \in 1 .. MaxStamp
      BY <2>1
    <2>5. generation \in 1 .. MaxGenerations /\ tree \in [gen : 1 .. MaxGenerations, rev : 1 .. MaxRevisions]
      BY <1>2, <2>4
    <2>6. values \in [Objects -> 1 .. MaxStamp]
      BY <1>2, <2>4
    <2>7. selected \in BOOLEAN /\ replaying \in BOOLEAN /\ mcpTraces \subseteq 1 .. MaxTraceIds
      BY <1>2
    <2>8. answer \in AnswerType
      BY <1>2, SilentFacts DEF AnswerCurrent
    <2> QED BY <2>2, <2>3, <2>5, <2>6, <2>7, <2>8 DEF ToolsTypeOK, AnswerType, Verdicts
  <1>7. OwnedInv
    <2>1. Held = {} /\ WatchTokens = {}
      BY <1>1, <1>4 DEF Held, WatchTokens
    <2>2. ReferenceTokens = {}
      BY <1>2 DEF ReferenceTokens, Range
    <2>3. HandlesOwned
      BY <2>1, <2>2, <1>2, <1>11 DEF HandlesOwned
    <2>4. TokensApart
      BY <1>1, <1>4 DEF TokensApart, WatchOwns
    <2> QED BY <2>3, <2>4 DEF OwnedInv
  <1>8. HooksInv
    BY <1>1 DEF HooksInv, HookScoped, McpTracesTracked, ActiveNumbered, NoSession
  <1>9. WritesInv
    BY <1>2 DEF WritesInv, UndoGoesBack, AboutObjects
  <1>10. MutationsCurrent
    BY <1>2, SilentFacts DEF AnswerCurrent, MutationsCurrent
  <1> QED BY <1>1, <1>3, <1>5, <1>6, <1>7, <1>8, <1>9, <1>10, <1>11 DEF ToolsInv, TypeOK

LEMMA ToolsStep ==
  ASSUME ToolsInv, [Next]_vars
  PROVE  ToolsInv'
  <1>1. CASE UNCHANGED vars
    <2>0. TablesTypeOK /\ HooksInv /\ OwnedInv /\ WritesInv /\ MutationsCurrent /\ ToolsTypeOK
      BY WatchTypes
    <2>1. /\ UNCHANGED <<sessions, lastTrace, handles, heap, watch, stops, stranded, stopped>>
          /\ UNCHANGED <<toolVars, references, journal, values, mcpTraces, answer, sceneVars>>
      BY <1>1 DEF vars, tables, toolVars, writes
    <2>2. HooksInv' /\ OwnedInv' /\ WritesInv' /\ MutationsCurrent' /\ ToolsTypeOK'
      BY <2>0, <2>1, Frames
    <2>3. TablesTypeOK'
      BY <2>0, <2>1 DEF TablesTypeOK
    <2> QED BY <2>1, <2>2, <2>3, ToolsFrame
  <1>2. CASE Running /\ UNCHANGED <<stranded, stopped>>
    <2>1. CASE WatchNext /\ UNCHANGED <<toolVars, stops>>
      BY <1>2, <2>1, WatchesKeep
    <2>2. CASE ToolsNext /\ UNCHANGED <<watch, stops>>
      BY <1>2, <2>2, ToolsKeep
    <2>3. ASSUME NEW m \in Methods,
                 PanelStart(m) \/ PanelStop(m) \/ PanelClose(m) \/ QueueStop(m) \/ StopMethod(m)
          PROVE  ToolsInv'
      BY <1>2, <2>3, PanelStartKeeps, PanelStopKeeps, PanelCloseKeeps, QueueStopKeeps
    <2>4. CASE \/ SceneHint \/ PublishTree \/ UserSelects
               \/ SelectionDestroyed \/ Recover \/ Publish
      BY <1>2, <2>4, SceneHintKeeps, PublishTreeKeeps, UserSelectsKeeps, DropAllKeeps, PublishKeeps
    <2>5. ASSUME NEW o \in Objects, GameWrites(o) \/ Collect(o)
          PROVE  ToolsInv'
      BY <1>2, <2>5, GameWritesKeeps, CollectKeeps
    <2> QED BY <1>2, <2>1, <2>2, <2>3, <2>4, <2>5 DEF Running
  <1>3. CASE \E o \in Objects : InspectRaw(o)
    BY <1>3, InspectRawKeeps
  <1>4. CASE Stop
    BY <1>4, StopKeeps
  <1> QED BY <1>1, <1>2, <1>3, <1>4 DEF Next

\* The inductive invariant: on every path of the tools, the watches, the panel,
\* the explorer and the collector, and through the end of the mod, the shared
\* tables stay typed, each retained handle has one owner or is stranded, each hook
\* that is not shown has its watch, the journal goes back and no answer is of
\* another scene than it may be.
THEOREM ToolsKeepInv == Spec => []ToolsInv
  <1>1. Init => ToolsInv
    BY ToolsStart
  <1>2. ToolsInv /\ [Next]_vars => ToolsInv'
    BY ToolsStep
  <1> QED BY <1>1, <1>2, PTL DEF Spec

\* Whatever drops a token, an eviction from the store, a full history, a watch
\* that is cleared, closed or lost to a fault, releases its handle and no other
\* (clear_component_cache, release_reference_handle): handles are held exactly for
\* the watches and the stored references, each by one of them, and for the two
\* ways that strand one, an address the user inspects and the end of the mod.
THEOREM HandlesHaveOwners == Spec => []HandlesOwned
  <1>1. ToolsInv => HandlesOwned
    BY DEF ToolsInv, OwnedInv
  <1> QED BY <1>1, ToolsKeepInv, PTL

\* A hook that attach_setter_hook() installed and that is still active filters
\* on an object the collector cannot move: its watch is active and pins it.
THEOREM HooksStayScoped == Spec => []HookScoped
  <1>1. ToolsInv => HookScoped
    BY DEF ToolsInv, HooksInv
  <1> QED BY <1>1, ToolsKeepInv, PTL

\* revoke_instrumentation() reaches every active session MCP started last: its
\* id stays in mcp_method_trace_ids_ through stops, closes, restarts by the
\* user and adoptions.
THEOREM RevocationReaches == Spec => []McpTracesTracked
  <1>1. ToolsInv => McpTracesTracked
    BY DEF ToolsInv, HooksInv
  <1> QED BY <1>1, ToolsKeepInv, PTL

\* undo_write restores older values only, whatever was trimmed from the
\* journal, lost in a fault or written by the game meanwhile.
THEOREM UndoNeverAdvances == Spec => []UndoGoesBack
  <1>1. ToolsInv => UndoGoesBack
    BY DEF ToolsInv, WritesInv
  <1> QED BY <1>1, ToolsKeepInv, PTL

\* No call that becomes a command of the explorer acts on a reference of an earlier
\* scene, since process_command() compares the generation again; a call that reads,
\* writes, invokes, removes or enables goes through a component of the scene of the
\* published tree, which find_reference() compares and which may be the one before.
THEOREM NoStaleMutation == Spec => []MutationsCurrent
  <1>1. ToolsInv => MutationsCurrent
    BY DEF ToolsInv
  <1> QED BY <1>1, ToolsKeepInv, PTL

\* The shared tables, the watches and the tools' state keep their types.
THEOREM ToolsTyped == Spec => []TypeOK
  <1>1. ToolsInv => TypeOK
    BY DEF ToolsInv
  <1> QED BY <1>1, ToolsKeepInv, PTL

===============================================================================
