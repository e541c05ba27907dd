------------------------- MODULE HelperProcessProofs -------------------------
(***************************************************************************)
(* The helper keeps the promise of RequestService, for any number of       *)
(* requests, any size of its queue and its store, and any schedule of its  *)
(* two threads.                                                            *)
(*                                                                         *)
(* The argument is a bookkeeping of answers.  A request that is not yet    *)
(* answered has one place that its answer will come from: the reader that  *)
(* handles it, the output of one thread, the waiters of one task, or, for  *)
(* a plain call, the queue and then the worker (Places).  Every step moves *)
(* an answer from one place to the next; what is never in two places is    *)
(* never answered twice.                                                   *)
(***************************************************************************)
EXTENDS HelperProcess, TLAPS

-----------------------------------------------------------------------------
(* Sequences without repetition *)

Distinct(s) == \A k, l \in 1..Len(s) : s[k] = s[l] => k = l

LEMMA ContainsNone == \A x : ~Contains(<<>>, x)
  BY DEF Contains

LEMMA DistinctNone == Distinct(<<>>)
  BY DEF Distinct

LEMMA ContainsOne ==
  ASSUME NEW a
  PROVE  Distinct(<<a>>) /\ \A x : Contains(<<a>>, x) <=> x = a
  BY DEF Contains, Distinct

LEMMA ContainsAppend ==
  ASSUME NEW S, NEW s \in Seq(S), NEW a \in S
  PROVE  /\ \A x : Contains(Append(s, a), x) <=> Contains(s, x) \/ x = a
         /\ Distinct(s) /\ ~Contains(s, a) => Distinct(Append(s, a))
         /\ Append(s, a) \in Seq(S) /\ Append(s, a) # <<>>
  BY DEF Contains, Distinct

LEMMA ContainsCons ==
  ASSUME NEW S, NEW s \in Seq(S), NEW a \in S
  PROVE  /\ \A x : Contains(<<a>> \o s, x) <=> x = a \/ Contains(s, x)
         /\ Distinct(s) /\ ~Contains(s, a) => Distinct(<<a>> \o s)
         /\ <<a>> \o s \in Seq(S)
  <1> DEFINE t == <<a>> \o s
  <1>1. /\ t \in Seq(S) /\ Len(t) = Len(s) + 1 /\ Len(s) \in Nat /\ t[1] = a
        /\ \A k \in 2..Len(t) : k - 1 \in 1..Len(s) /\ t[k] = s[k - 1]
    OBVIOUS
  <1>2. \A k \in 1..Len(s) : k + 1 \in 2..Len(t) /\ t[k + 1] = s[k]
    BY <1>1
  <1> HIDE DEF t
  <1>3. ASSUME NEW x PROVE Contains(t, x) <=> x = a \/ Contains(s, x)
    <2>1. x = a => Contains(t, x)
      BY <1>1 DEF Contains
    <2>2. Contains(s, x) => Contains(t, x)
      BY <1>1, <1>2 DEF Contains
    <2>3. ASSUME Contains(t, x), x # a PROVE Contains(s, x)
      BY <2>3, <1>1 DEF Contains
    <2> QED BY <2>1, <2>2, <2>3
  <1>4. ASSUME Distinct(s), ~Contains(s, a) PROVE Distinct(t)
    <2> SUFFICES ASSUME NEW k \in 1..Len(t), NEW l \in 1..Len(t), t[k] = t[l] PROVE k = l
      BY DEF Distinct
    <2>1. CASE k = 1 /\ l # 1
      BY <2>1, <1>1, <1>4 DEF Contains
    <2>2. CASE k # 1 /\ l = 1
      BY <2>2, <1>1, <1>4 DEF Contains
    <2>3. CASE k # 1 /\ l # 1
      <3>1. k - 1 \in 1..Len(s) /\ l - 1 \in 1..Len(s) /\ s[k - 1] = s[l - 1]
        BY <2>3, <1>1
      <3>2. k - 1 = l - 1
        BY <3>1, <1>4 DEF Distinct
      <3> QED BY <3>2, <1>1
    <2> QED BY <2>1, <2>2, <2>3
  <1> QED BY <1>1, <1>3, <1>4 DEF t

LEMMA ContainsTail ==
  ASSUME NEW S, NEW s \in Seq(S), s # <<>>
  PROVE  /\ \A x : Contains(s, x) <=> x = Head(s) \/ Contains(Tail(s), x)
         /\ Distinct(s) => Distinct(Tail(s)) /\ ~Contains(Tail(s), Head(s))
         /\ Tail(s) \in Seq(S) /\ Head(s) \in S
  BY DEF Contains, Distinct

-----------------------------------------------------------------------------
(* The inductive invariant *)

Handling == {"handle", "check", "close", "open", "publish", "listed"}

\* The reader or the worker has request i.
ReaderHas(i) == message.id = i /\ at["reader"] \in Handling
WorkerHas(i) == work.id = i /\ at["worker"] # "emit"
Leaves(i) == \E t \in Threads : Contains(out[t], i)
Over(i) == task[i] \in {"completed", "cancelled", "purged"}

\* What the reader's message is when it handles one.
MessageShape ==
  /\ at["reader"] \in Handling =>
       /\ message.kind # "cancelled" => message.id \in Ids
       /\ message.id \in Ids => asked[message.id] = message.kind
       /\ message.kind \in {"result", "cancel", "cancelled"} => message.of \in Ids
       /\ message.calls \in 1..MaxBatch
  /\ at["reader"] \in Handling \ {"handle"} => message.kind = "list"

\* What a request is decides where it may be.
Kinded ==
  \A i \in Ids :
    /\ asked[i] = "none" => answers[i] = 0 /\ i \notin flagged
    /\ task[i] # "none" => asked[i] = "task"
    /\ i \in active => asked[i] = "call"
    /\ i \in flagged => task[i] # "working"
    /\ awaits[i] # NoId => asked[i] = "result"
    /\ Queued(i) \/ work.id = i => asked[i] \in {"call", "task"}
    /\ Leaves(i) => asked[i] # "none"

\* The answer to a request has one place to come from, and none once it was
\* given: the reader that handles it, ...
Fresh ==
  /\ \A i \in Ids : answers[i] <= 1
  /\ \A i \in Ids : ReaderHas(i) =>
       /\ answers[i] = 0 /\ awaits[i] = NoId /\ i \notin flagged
       /\ ~Leaves(i) /\ ~Queued(i) /\ work.id # i /\ task[i] = "none"

\* ... the output of one thread, ...
Outgoing ==
  /\ \A t \in Threads : Distinct(out[t])
  /\ \A i \in Ids : ~(Contains(out["reader"], i) /\ Contains(out["worker"], i))
  /\ \A i \in Ids : Leaves(i) =>
       /\ answers[i] = 0
       /\ \A t \in Ids : awaits[i] = t => Over(t)
       /\ asked[i] = "call" => ~Queued(i) /\ ~WorkerHas(i)

\* ... the waiters of one task, ...
Awaiting ==
  /\ \A t \in Ids : Distinct(waiters[t])
  /\ \A t, i \in Ids : Contains(waiters[t], i) => awaits[i] = t /\ answers[i] = 0

\* ... or, for a plain call, the queue and then the worker.
InLine ==
  /\ \A k, l \in 1..Len(queue) : queue[k][1] = queue[l][1] => k = l
  /\ \A i \in Ids : Queued(i) => work.id # i
  /\ \A i \in Ids : asked[i] = "call" /\ (Queued(i) \/ WorkerHas(i)) => answers[i] = 0

Places == Fresh /\ Outgoing /\ Awaiting /\ InLine

\* A thread has answers to give only while it gives them.
Emptied == \A t \in Threads : at[t] # "emit" => out[t] = <<>>

\* A task at work is queued or in the worker's hands, and only such a task has waiters.
AtWork ==
  /\ \A t \in Ids : task[t] = "working" => Queued(t) \/ WorkerHas(t)
  /\ \A t \in Ids : waiters[t] # <<>> => task[t] = "working"
  /\ at["worker"] \in {"idle", "gone"} => work.id = NoId
  /\ at["worker"] \notin {"idle", "gone"} => work.id \in Ids
  /\ at["worker"] \notin {"idle", "gone", "complete", "emit"} => work.calls \in 1..MaxBatch

\* The game has run the request at hand once, if the worker is done with it.
RunSoFar == runs \in {0, 1} /\ (at["worker"] # "next" => runs = 0)

HelperInv == TypeOK /\ MessageShape /\ Kinded /\ Places /\ Emptied /\ AtWork /\ RunSoFar

-----------------------------------------------------------------------------
(* Types *)

LEMMA Bounds ==
  /\ NoId \notin Ids /\ MaxQueue \in Nat \ {0} /\ MaxTasks \in Nat \ {0}
  /\ MaxBatch \in Nat \ {0} /\ MaxRetries \in Nat
  BY HelperAssumption

LEMMA TypesStart == Init => TypeOK
  <1> SUFFICES ASSUME Init PROVE TypeOK
    OBVIOUS
  <1>1. /\ queue \in Seq(Ids \X (1..MaxBatch)) /\ Len(queue) <= MaxQueue /\ order \in Seq(Ids)
    BY Bounds DEF Init
  <1>2. waiters \in [Ids -> Seq(Ids)] /\ out \in [Threads -> Seq(Ids)]
    BY DEF Init
  <1>3. at \in [Threads -> ReaderAt \cup WorkerAt] /\ at["reader"] \in ReaderAt /\ at["worker"] \in WorkerAt
    BY DEF Init, Threads, ReaderAt, WorkerAt
  <1>4. /\ message \in [kind: Kinds \cup {"none"}, id: Ids \cup {NoId}, of: Ids \cup {NoId},
                        calls: 0..MaxBatch]
        /\ work \in [id: Ids \cup {NoId}, calls: 0..MaxBatch, tries: 0..MaxRetries]
    BY Bounds DEF Init, Nothing, NoWork
  <1>5. /\ asked \in [Ids -> Kinds \cup {"none"}]
        /\ task \in [Ids -> {"none", "working", "completed", "cancelled", "purged"}]
        /\ answers \in [Ids -> Nat] /\ awaits \in [Ids -> Ids \cup {NoId}]
    BY DEF Init
  <1>6. /\ session \in {"AwaitingInitialize", "AwaitingInitialized", "Operational", "Closed"}
        /\ flagged \subseteq Ids /\ active \subseteq Ids /\ stopping \in BOOLEAN
        /\ pipe \in Pipes \cup {NoPipe} /\ pid \in BOOLEAN
        /\ {line, heard} \subseteq Pipes \cup {NoPipe} /\ runs \in Nat
    BY DEF Init
  <1> QED BY <1>1, <1>2, <1>3, <1>4, <1>5, <1>6 DEF TypeOK

\* A thread moves to one of its own places.
LEMMA MoveTypes ==
  ASSUME TypeOK, NEW from, NEW to
  PROVE  /\ ReaderMoves(from, to) /\ to \in ReaderAt =>
              /\ at' \in [Threads -> ReaderAt \cup WorkerAt]
              /\ at'["reader"] = to /\ at'["worker"] = at["worker"] /\ at["reader"] = from
         /\ WorkerMoves(from, to) /\ to \in WorkerAt =>
              /\ at' \in [Threads -> ReaderAt \cup WorkerAt]
              /\ at'["worker"] = to /\ at'["reader"] = at["reader"] /\ at["worker"] = from
  BY DEF TypeOK, ReaderMoves, WorkerMoves, Move, Threads

\* The sets that the parts of the state are taken from are left as they are.
LEMMA StepTypes ==
  ASSUME TypeOK,
         session' \in {"AwaitingInitialize", "AwaitingInitialized", "Operational", "Closed"},
         at' \in [Threads -> ReaderAt \cup WorkerAt],
         at'["reader"] \in ReaderAt, at'["worker"] \in WorkerAt,
         UNCHANGED <<message, asked, store, out, answers, awaits>>,
         work' \in [id: Ids \cup {NoId}, calls: 0..MaxBatch, tries: 0..MaxRetries],
         pipe' \in Pipes \cup {NoPipe}, pid' \in BOOLEAN,
         {line', heard'} \subseteq Pipes \cup {NoPipe}, runs' \in Nat
  PROVE  TypeOK'
  BY DEF TypeOK, store

-----------------------------------------------------------------------------
(* What a step shows as a step of RequestService *)

ServiceStep == [Service!Next]_(Service!vars)

LEMMA ServiceIdle == ASSUME UNCHANGED <<Progress, awaits, Finished, Dropped>> PROVE ServiceStep
  BY DEF ServiceStep, Service!vars

LEMMA ProgressIs ==
  ASSUME NEW i \in Ids
  PROVE  /\ asked[i] = "none" => Progress[i] = "new"
         /\ asked[i] # "none" /\ answers[i] = 1 => Progress[i] = "answered"
         /\ asked[i] # "none" /\ answers[i] = 0 /\ (asked[i] = "call" => InHand(i))
              => Progress[i] = "open"
         /\ asked[i] = "call" /\ answers[i] = 0 /\ ~InHand(i) => Progress[i] = "withdrawn"
         /\ asked'[i] = "none" => Progress'[i] = "new"
         /\ asked'[i] # "none" /\ answers'[i] = 1 => Progress'[i] = "answered"
         /\ asked'[i] # "none" /\ answers'[i] = 0 /\ (asked'[i] = "call" => InHand(i)')
              => Progress'[i] = "open"
         /\ asked'[i] = "call" /\ answers'[i] = 0 /\ ~InHand(i)' => Progress'[i] = "withdrawn"
  BY DEF Progress

LEMMA ProgressKeeps ==
  ASSUME HelperInv, NEW i \in Ids, asked'[i] = asked[i], answers'[i] = answers[i],
         asked[i] = "call" /\ answers[i] = 0 => (InHand(i)' <=> InHand(i))
  PROVE  Progress'[i] = Progress[i]
  <1>1. answers[i] \in {0, 1}
    BY DEF HelperInv, TypeOK, Places, Fresh
  <1> QED BY <1>1, ProgressIs

LEMMA ProgressStays ==
  ASSUME \A i \in Ids : Progress'[i] = Progress[i] PROVE Progress' = Progress
  BY DEF Progress

\* One request has gone on and the others have not.
LEMMA ProgressMoves ==
  ASSUME NEW i \in Ids, NEW to, Progress'[i] = to, \A j \in Ids : j # i => Progress'[j] = Progress[j]
  PROVE  Progress' = [Progress EXCEPT ![i] = to]
  <1> DEFINE Some == {"new", "open", "answered", "answered twice", "withdrawn"}
  <1>1. Progress \in [Ids -> Some] /\ Progress' \in [Ids -> Some]
    BY DEF Progress
  <1> HIDE DEF Progress
  <1> QED BY <1>1

LEMMA InHandIs ==
  ASSUME NEW i
  PROVE  /\ InHand(i) <=> ReaderHas(i) \/ Queued(i) \/ WorkerHas(i) \/ Leaves(i)
         /\ InHand(i)' <=> ReaderHas(i)' \/ Queued(i)' \/ WorkerHas(i)' \/ Leaves(i)'
  BY DEF InHand, ReaderHas, Handling, WorkerHas, Leaves

LEMMA ServiceReceives ==
  ASSUME NEW i \in Ids, Progress[i] = "new", Progress' = [Progress EXCEPT ![i] = "open"],
         UNCHANGED <<awaits, Finished, Dropped>>
  PROVE  ServiceStep
  BY DEF ServiceStep, Service!Next, Service!Receive

LEMMA ServiceAwaits ==
  ASSUME NEW i \in Ids, NEW t \in Ids, Progress[i] = "open", awaits[i] = NoId, t \notin Finished,
         awaits' = [awaits EXCEPT ![i] = t], UNCHANGED <<Progress, Finished, Dropped>>
  PROVE  ServiceStep
  BY DEF ServiceStep, Service!Next, Service!Await

LEMMA ServiceFinishes ==
  ASSUME NEW t \in Ids, Progress[t] # "new", t \notin Finished, Finished' = Finished \cup {t},
         UNCHANGED <<Progress, awaits, Dropped>>
  PROVE  ServiceStep
  BY DEF ServiceStep, Service!Next, Service!Finish

LEMMA ServiceCancels ==
  ASSUME NEW calls \in SUBSET Ids, Dropped' = Dropped \cup calls,
         UNCHANGED <<Progress, awaits, Finished>>
  PROVE  ServiceStep
  BY DEF ServiceStep, Service!Next, Service!Cancel

LEMMA ServiceAnswers ==
  ASSUME NEW i \in Ids, Progress[i] = "open", awaits[i] \in Finished \cup {NoId},
         Progress' = [Progress EXCEPT ![i] = "answered"], UNCHANGED <<awaits, Finished, Dropped>>
  PROVE  ServiceStep
  BY DEF ServiceStep, Service!Next, Service!Answer

LEMMA ServiceWithdraws ==
  ASSUME NEW i \in Ids, Progress[i] = "open", i \in Dropped,
         Progress' = [Progress EXCEPT ![i] = "withdrawn"], UNCHANGED <<awaits, Finished, Dropped>>
  PROVE  ServiceStep
  BY DEF ServiceStep, Service!Next, Service!Withdraw

LEMMA FinishedStays == ASSUME \A j \in Ids : Over(j)' <=> Over(j) PROVE Finished' = Finished
  BY DEF Finished, Over

LEMMA DroppedStays == ASSUME UNCHANGED <<flagged, asked>> PROVE Dropped' = Dropped
  BY DEF Dropped

-----------------------------------------------------------------------------
(* Steps that leave the answers where they are *)

Quiet ==
  /\ UNCHANGED <<message, asked, store, out, answers, awaits>>
  /\ work'.id = work.id
  /\ at'["reader"] \in Handling <=> at["reader"] \in Handling
  /\ at'["reader"] = "handle" <=> at["reader"] = "handle"
  /\ at'["reader"] = "emit" <=> at["reader"] = "emit"
  /\ at'["worker"] = "emit" <=> at["worker"] = "emit"
  /\ at'["worker"] \in {"idle", "gone"} <=> at["worker"] \in {"idle", "gone"}
  /\ at'["worker"] \notin {"idle", "gone", "complete", "emit"} => work'.calls \in 1..MaxBatch
  /\ RunSoFar'

LEMMA QuietKeeps ==
  ASSUME HelperInv, TypeOK', Quiet
  PROVE  HelperInv' /\ ServiceStep
  <1>1. MessageShape'
    BY DEF HelperInv, Quiet, MessageShape
  <1>2. /\ \A i : ReaderHas(i)' = ReaderHas(i) /\ Queued(i)' = Queued(i) /\ WorkerHas(i)' = WorkerHas(i)
        /\ \A i : Leaves(i)' = Leaves(i)
        /\ \A i : Over(i)' = Over(i)
    BY DEF Quiet, store, ReaderHas, Queued, WorkerHas, Leaves, Over
  <1>3. Kinded'
    BY <1>2 DEF HelperInv, Quiet, store, Kinded
  <1>4. Places'
    BY <1>2 DEF HelperInv, Quiet, store, Places, Fresh, Outgoing, Awaiting, InLine
  <1>5. AtWork'
    BY <1>2 DEF HelperInv, Quiet, store, AtWork
  <1>9. Emptied'
    BY DEF HelperInv, Quiet, Emptied, Threads
  <1>10. ServiceStep
    <2>1. \A j \in Ids : InHand(j)' = InHand(j)
      BY DEF InHand, Quiet, store, Queued, Handling
    <2>2. \A j \in Ids : Progress'[j] = Progress[j]
      BY <2>1, ProgressKeeps DEF Quiet
    <2> QED BY <1>2, <2>2, ProgressStays, FinishedStays, DroppedStays, ServiceIdle DEF Quiet, store
  <1> QED BY <1>1, <1>3, <1>4, <1>5, <1>9, <1>10 DEF HelperInv, Quiet

LEMMA InitializeQuiet == ASSUME HelperInv, Initialize PROVE TypeOK' /\ Quiet
  <1>i. TypeOK /\ AtWork /\ RunSoFar
    BY DEF HelperInv
  <1>1. Quiet
    BY <1>i DEF Initialize, Quiet, RunSoFar, AtWork, history
  <1>2. TypeOK'
    BY <1>i, StepTypes DEF Initialize, TypeOK, history, client
  <1> QED BY <1>1, <1>2

LEMMA EndOfInputQuiet == ASSUME HelperInv, EndOfInput PROVE TypeOK' /\ Quiet
  <1>i. TypeOK /\ AtWork /\ RunSoFar
    BY DEF HelperInv
  <1>m. /\ at' \in [Threads -> ReaderAt \cup WorkerAt]
        /\ at'["reader"] \in ReaderAt /\ at'["worker"] \in WorkerAt
    BY <1>i, MoveTypes DEF EndOfInput, TypeOK, ReaderAt, WorkerAt
  <1>1. Quiet
    BY <1>i, MoveTypes DEF EndOfInput, Quiet, RunSoFar, AtWork, history, ReaderAt, WorkerAt, Handling
  <1>2. TypeOK'
    BY <1>i, <1>m, StepTypes, Bounds DEF EndOfInput, TypeOK, history, client, Pipes, NoPipe
  <1> QED BY <1>1, <1>2

LEMMA JoinedQuiet == ASSUME HelperInv, Joined PROVE TypeOK' /\ Quiet
  <1>i. TypeOK /\ AtWork /\ RunSoFar
    BY DEF HelperInv
  <1>m. /\ at' \in [Threads -> ReaderAt \cup WorkerAt]
        /\ at'["reader"] \in ReaderAt /\ at'["worker"] \in WorkerAt
    BY <1>i, MoveTypes DEF Joined, TypeOK, ReaderAt, WorkerAt
  <1>1. Quiet
    BY <1>i, MoveTypes DEF Joined, Quiet, RunSoFar, AtWork, history, ReaderAt, WorkerAt, Handling
  <1>2. TypeOK'
    BY <1>i, <1>m, StepTypes, Bounds DEF Joined, TypeOK, history, client, Pipes, NoPipe
  <1> QED BY <1>1, <1>2

LEMMA QuitQuiet == ASSUME HelperInv, Quit PROVE TypeOK' /\ Quiet
  <1>i. TypeOK /\ AtWork /\ RunSoFar
    BY DEF HelperInv
  <1>m. /\ at' \in [Threads -> ReaderAt \cup WorkerAt]
        /\ at'["reader"] \in ReaderAt /\ at'["worker"] \in WorkerAt
    BY <1>i, MoveTypes DEF Quit, WorkerKeeps, TypeOK, ReaderAt, WorkerAt
  <1>1. Quiet
    BY <1>i, MoveTypes DEF Quit, WorkerKeeps, Quiet, RunSoFar, AtWork, history, ReaderAt, WorkerAt, Handling
  <1>2. TypeOK'
    BY <1>i, <1>m, StepTypes, Bounds DEF Quit, WorkerKeeps, TypeOK, history, client, Pipes, NoPipe
  <1> QED BY <1>1, <1>2

LEMMA ExecuteQuiet == ASSUME HelperInv, Execute PROVE TypeOK' /\ Quiet
  <1>i. TypeOK /\ AtWork /\ RunSoFar
    BY DEF HelperInv
  <1>m. /\ at' \in [Threads -> ReaderAt \cup WorkerAt]
        /\ at'["reader"] \in ReaderAt /\ at'["worker"] \in WorkerAt
    BY <1>i, MoveTypes DEF Execute, WorkerKeeps, TypeOK, ReaderAt, WorkerAt
  <1>1. Quiet
    BY <1>i, MoveTypes DEF Execute, WorkerKeeps, Quiet, RunSoFar, AtWork, history, ReaderAt, WorkerAt, Handling
  <1>2. TypeOK'
    BY <1>i, <1>m, StepTypes, Bounds DEF Execute, WorkerKeeps, TypeOK, history, client, Pipes, NoPipe
  <1> QED BY <1>1, <1>2

LEMMA CheckPermissionQuiet == ASSUME HelperInv, CheckPermission PROVE TypeOK' /\ Quiet
  <1>i. TypeOK /\ AtWork /\ RunSoFar
    BY DEF HelperInv
  <1>m. /\ at' \in [Threads -> ReaderAt \cup WorkerAt]
        /\ at'["reader"] \in ReaderAt /\ at'["worker"] \in WorkerAt
    BY <1>i, MoveTypes DEF CheckPermission, WorkerKeeps, TypeOK, ReaderAt, WorkerAt
  <1>1. Quiet
    BY <1>i, MoveTypes DEF CheckPermission, WorkerKeeps, Quiet, RunSoFar, AtWork, history, ReaderAt, WorkerAt, Handling
  <1>2. TypeOK'
    BY <1>i, <1>m, StepTypes, Bounds DEF CheckPermission, WorkerKeeps, TypeOK, history, client, Pipes, NoPipe
  <1> QED BY <1>1, <1>2

LEMMA WriteUnconnectedQuiet == ASSUME HelperInv, WriteUnconnected PROVE TypeOK' /\ Quiet
  <1>i. TypeOK /\ AtWork /\ RunSoFar
    BY DEF HelperInv
  <1>m. /\ at' \in [Threads -> ReaderAt \cup WorkerAt]
        /\ at'["reader"] \in ReaderAt /\ at'["worker"] \in WorkerAt
    BY <1>i, MoveTypes DEF WriteUnconnected, WorkerKeeps, TypeOK, ReaderAt, WorkerAt
  <1>1. Quiet
    BY <1>i, MoveTypes DEF WriteUnconnected, WorkerKeeps, Quiet, RunSoFar, AtWork, history, ReaderAt, WorkerAt, Handling
  <1>2. TypeOK'
    BY <1>i, <1>m, StepTypes, Bounds DEF WriteUnconnected, WorkerKeeps, TypeOK, history, client, Pipes, NoPipe
  <1> QED BY <1>1, <1>2

LEMMA WriteFailsQuiet == ASSUME HelperInv, WriteFails PROVE TypeOK' /\ Quiet
  <1>i. TypeOK /\ AtWork /\ RunSoFar
    BY DEF HelperInv
  <1>m. /\ at' \in [Threads -> ReaderAt \cup WorkerAt]
        /\ at'["reader"] \in ReaderAt /\ at'["worker"] \in WorkerAt
    BY <1>i, MoveTypes DEF WriteFails, ClosePipe, WorkerKeeps, TypeOK, ReaderAt, WorkerAt
  <1>1. Quiet
    BY <1>i, MoveTypes DEF WriteFails, ClosePipe, WorkerKeeps, Quiet, RunSoFar, AtWork, history, ReaderAt, WorkerAt, Handling
  <1>2. TypeOK'
    BY <1>i, <1>m, StepTypes, Bounds DEF WriteFails, ClosePipe, WorkerKeeps, TypeOK, history, client, Pipes, NoPipe
  <1> QED BY <1>1, <1>2

LEMMA WriteQuiet == ASSUME HelperInv, Write PROVE TypeOK' /\ Quiet
  <1>i. TypeOK /\ AtWork /\ RunSoFar
    BY DEF HelperInv
  <1>m. /\ at' \in [Threads -> ReaderAt \cup WorkerAt]
        /\ at'["reader"] \in ReaderAt /\ at'["worker"] \in WorkerAt
    BY <1>i, MoveTypes DEF Write, WorkerKeeps, TypeOK, ReaderAt, WorkerAt
  <1>1. Quiet
    BY <1>i, MoveTypes DEF Write, WorkerKeeps, Quiet, RunSoFar, AtWork, history, ReaderAt, WorkerAt, Handling
  <1>2. TypeOK'
    BY <1>i, <1>m, StepTypes, Bounds DEF Write, WorkerKeeps, TypeOK, history, client, Pipes, NoPipe
  <1> QED BY <1>1, <1>2

LEMMA StartReadQuiet == ASSUME HelperInv, StartRead PROVE TypeOK' /\ Quiet
  <1>i. TypeOK /\ AtWork /\ RunSoFar
    BY DEF HelperInv
  <1>m. /\ at' \in [Threads -> ReaderAt \cup WorkerAt]
        /\ at'["reader"] \in ReaderAt /\ at'["worker"] \in WorkerAt
    BY <1>i, MoveTypes DEF StartRead, WorkerKeeps, TypeOK, ReaderAt, WorkerAt
  <1>1. Quiet
    BY <1>i, MoveTypes DEF StartRead, WorkerKeeps, Quiet, RunSoFar, AtWork, history, ReaderAt, WorkerAt, Handling
  <1>2. TypeOK'
    BY <1>i, <1>m, StepTypes, Bounds DEF StartRead, WorkerKeeps, TypeOK, history, client, Pipes, NoPipe
  <1> QED BY <1>1, <1>2

LEMMA ReadResultQuiet == ASSUME HelperInv, ReadResult PROVE TypeOK' /\ Quiet
  <1>i. TypeOK /\ AtWork /\ RunSoFar
    BY DEF HelperInv
  <1>m. /\ at' \in [Threads -> ReaderAt \cup WorkerAt]
        /\ at'["reader"] \in ReaderAt /\ at'["worker"] \in WorkerAt
    BY <1>i, MoveTypes DEF ReadResult, MayHaveRun, WorkerKeeps, TypeOK, ReaderAt, WorkerAt
  <1>1. Quiet
    BY <1>i, MoveTypes DEF ReadResult, MayHaveRun, WorkerKeeps, Quiet, RunSoFar, AtWork, history, ReaderAt, WorkerAt, Handling
  <1>2. TypeOK'
    <2>1. work' \in [id: Ids \cup {NoId}, calls: 0..MaxBatch, tries: 0..MaxRetries] /\ runs' \in Nat
      <3>1. work' = work
        BY DEF ReadResult
      <3>2. runs' \in Nat
        BY <1>i DEF ReadResult, MayHaveRun, RunSoFar
      <3> QED BY <1>i, <3>1, <3>2 DEF TypeOK
    <2> QED BY <1>i, <1>m, <2>1, StepTypes DEF ReadResult, WorkerKeeps, TypeOK, history, client, Pipes, NoPipe
  <1> QED BY <1>1, <1>2

LEMMA ReadRetryQuiet == ASSUME HelperInv, ReadRetry PROVE TypeOK' /\ Quiet
  <1>i. TypeOK /\ AtWork /\ RunSoFar
    BY DEF HelperInv
  <1>m. /\ at' \in [Threads -> ReaderAt \cup WorkerAt]
        /\ at'["reader"] \in ReaderAt /\ at'["worker"] \in WorkerAt
    BY <1>i, MoveTypes DEF ReadRetry, WorkerKeeps, TypeOK, ReaderAt, WorkerAt
  <1>1. Quiet
    BY <1>i, MoveTypes DEF ReadRetry, WorkerKeeps, Quiet, RunSoFar, AtWork, history, ReaderAt, WorkerAt, Handling
  <1>2. TypeOK'
    <2>1. work' \in [id: Ids \cup {NoId}, calls: 0..MaxBatch, tries: 0..MaxRetries] /\ runs' \in Nat
      <3>1. work.tries \in 0..MaxRetries /\ work.tries < MaxRetries
        BY <1>i DEF ReadRetry, TypeOK
      <3>2. work.tries + 1 \in 0..MaxRetries
        BY <3>1, Bounds
      <3> QED BY <1>i, <3>2 DEF ReadRetry, TypeOK, history
    <2> QED BY <1>i, <1>m, <2>1, StepTypes DEF ReadRetry, WorkerKeeps, TypeOK, history, client, Pipes, NoPipe
  <1> QED BY <1>1, <1>2

LEMMA ReadFailsQuiet == ASSUME HelperInv, ReadFails PROVE TypeOK' /\ Quiet
  <1>i. TypeOK /\ AtWork /\ RunSoFar
    BY DEF HelperInv
  <1>m. /\ at' \in [Threads -> ReaderAt \cup WorkerAt]
        /\ at'["reader"] \in ReaderAt /\ at'["worker"] \in WorkerAt
    BY <1>i, MoveTypes DEF ReadFails, MayHaveRun, ClosePipe, WorkerKeeps, TypeOK, ReaderAt, WorkerAt
  <1>1. Quiet
    BY <1>i, MoveTypes DEF ReadFails, MayHaveRun, ClosePipe, WorkerKeeps, Quiet, RunSoFar, AtWork, history, ReaderAt, WorkerAt, Handling
  <1>2. TypeOK'
    <2>1. work' \in [id: Ids \cup {NoId}, calls: 0..MaxBatch, tries: 0..MaxRetries] /\ runs' \in Nat
      <3>1. work' = work
        BY DEF ReadFails
      <3>2. runs' \in Nat
        BY <1>i DEF ReadFails, MayHaveRun, RunSoFar
      <3> QED BY <1>i, <3>1, <3>2 DEF TypeOK
    <2> QED BY <1>i, <1>m, <2>1, StepTypes DEF ReadFails, ClosePipe, WorkerKeeps, TypeOK, history, client, Pipes, NoPipe
  <1> QED BY <1>1, <1>2

LEMMA NextCallQuiet == ASSUME HelperInv, NextCall PROVE TypeOK' /\ Quiet
  <1>i. TypeOK /\ AtWork /\ RunSoFar
    BY DEF HelperInv
  <1>m. /\ at' \in [Threads -> ReaderAt \cup WorkerAt] /\ at'["reader"] = at["reader"]
        /\ at["worker"] = "next" /\ at'["worker"] \in {"check", "complete"}
        /\ at'["worker"] = "check" => work.calls > 1
    BY <1>i, MoveTypes DEF NextCall, WorkerAt
  <1>w. /\ work.calls \in 1..MaxBatch /\ work.calls - 1 \in 0..MaxBatch
        /\ work.calls > 1 => work.calls - 1 \in 1..MaxBatch
    BY <1>i, <1>m, Bounds DEF AtWork
  <1>c. /\ work' = [[work EXCEPT !.calls = @ - 1] EXCEPT !.tries = 0] /\ runs' = 0
        /\ work' \in [id: Ids \cup {NoId}, calls: 0..MaxBatch, tries: 0..MaxRetries]
        /\ work'.id = work.id /\ work'.calls = work.calls - 1
    <2>1. work \in [id: Ids \cup {NoId}, calls: 0..MaxBatch, tries: 0..MaxRetries] /\ 0 \in 0..MaxRetries
      BY <1>i, Bounds DEF TypeOK
    <2>2. work' = [[work EXCEPT !.calls = @ - 1] EXCEPT !.tries = 0] /\ runs' = 0
      BY <2>1 DEF NextCall
    <2> QED BY <2>1, <2>2, <1>w
  <1>1. Quiet
    BY <1>m, <1>w, <1>c DEF NextCall, WorkerKeeps, Quiet, RunSoFar, Handling
  <1>k. UNCHANGED <<message, asked, store, out, answers, awaits, session, pipe, pid, line, heard>>
    BY DEF NextCall, WorkerKeeps, client
  <1>2. TypeOK'
    <2>1. at'["worker"] \in WorkerAt /\ at'["reader"] \in ReaderAt /\ runs' \in Nat
      BY <1>i, <1>m, <1>c DEF TypeOK, WorkerAt
    <2>2. /\ session' \in {"AwaitingInitialize", "AwaitingInitialized", "Operational", "Closed"}
          /\ pipe' \in Pipes \cup {NoPipe} /\ pid' \in BOOLEAN /\ {line', heard'} \subseteq Pipes \cup {NoPipe}
      BY <1>i, <1>k DEF TypeOK
    <2> QED BY <1>i, <1>m, <1>c, <1>k, <2>1, <2>2, StepTypes
  <1> QED BY <1>1, <1>2

\* PipeClient::connect, by either thread.
LEMMA ConnectQuiet == ASSUME HelperInv, NEW t \in Threads, Connect(t) PROVE TypeOK' /\ Quiet
  <1>i. TypeOK /\ AtWork /\ RunSoFar
    BY DEF HelperInv
  <1>c. UNCHANGED <<session, message, asked, store, work, out, line, heard, answers, awaits, runs>>
    BY DEF Connect, EnsureConnected, CloseOld, OpenFails, OpenPipe, Publish, ConnectKeeps, history
  <1>p. pipe' \in Pipes \cup {NoPipe} /\ pid' \in BOOLEAN
    <2>1. CASE EnsureConnected(t)
      BY <2>1, <1>i DEF EnsureConnected, TypeOK
    <2>2. CASE CloseOld(t)
      BY <2>2, <1>i DEF CloseOld, TypeOK
    <2>3. CASE OpenFails(t)
      BY <2>3, <1>i DEF OpenFails, TypeOK
    <2>4. CASE OpenPipe(t)
      <3>1. \E p \in Pipes : p \notin {pipe, line}
        BY DEF Pipes
      <3> QED BY <2>4, <3>1, <1>i DEF OpenPipe, TypeOK
    <2>5. CASE Publish(t)
      BY <2>5, <1>i DEF Publish, TypeOK
    <2> QED BY <2>1, <2>2, <2>3, <2>4, <2>5 DEF Connect
  <1>m. \E from \in {"check", "close", "open", "publish"},
           to \in {"check", "close", "open", "publish", "listed", "ready", "next"} :
          /\ Move(t, from, to)
          /\ t = "reader" => to \notin {"ready", "next"}
          /\ t = "worker" => to # "listed"
    BY DEF Connect, EnsureConnected, CloseOld, OpenFails, OpenPipe, Publish, Connected, NotConnected, Threads
  <1>1. /\ at' \in [Threads -> ReaderAt \cup WorkerAt]
        /\ at'["reader"] \in ReaderAt /\ at'["worker"] \in WorkerAt
        /\ at'["reader"] \in Handling <=> at["reader"] \in Handling
        /\ at'["reader"] = "handle" <=> at["reader"] = "handle"
        /\ at'["reader"] = "emit" <=> at["reader"] = "emit"
        /\ at'["worker"] = at["worker"] \/ (t = "worker" /\ at["worker"] \in {"check", "close", "open", "publish"}
                /\ at'["worker"] \in {"check", "close", "open", "publish", "ready", "next"})
    <2>1. at \in [Threads -> ReaderAt \cup WorkerAt] /\ at["reader"] \in ReaderAt /\ at["worker"] \in WorkerAt
      BY <1>i DEF TypeOK
    <2>2. CASE t = "reader"
      <3>1. /\ at["reader"] \in {"check", "close", "open", "publish"}
            /\ at'["reader"] \in {"check", "close", "open", "publish", "listed"}
            /\ at'["worker"] = at["worker"] /\ at' \in [Threads -> ReaderAt \cup WorkerAt]
        BY <1>m, <2>1, <2>2 DEF Move, Threads, ReaderAt
      <3> QED BY <2>1, <3>1 DEF ReaderAt, Handling
    <2>3. CASE t = "worker"
      <3>1. /\ at["worker"] \in {"check", "close", "open", "publish"}
            /\ at'["worker"] \in {"check", "close", "open", "publish", "ready", "next"}
            /\ at'["reader"] = at["reader"] /\ at' \in [Threads -> ReaderAt \cup WorkerAt]
        BY <1>m, <2>1, <2>3 DEF Move, Threads, WorkerAt
      <3> QED BY <2>1, <2>3, <3>1 DEF WorkerAt
    <2> QED BY <2>2, <2>3 DEF Threads
  <1>2. Quiet
    BY <1>1, <1>c, <1>i DEF Quiet, AtWork, RunSoFar
  <1>3. TypeOK'
    BY <1>1, <1>c, <1>p, <1>i, StepTypes DEF TypeOK
  <1> QED BY <1>2, <1>3

-----------------------------------------------------------------------------
(* The first state *)

LEMMA InvStart == Init => HelperInv
  <1> SUFFICES ASSUME Init PROVE HelperInv
    OBVIOUS
  <1>1. TypeOK
    BY TypesStart
  <1>2. /\ \A i : ~Queued(i) /\ ~Leaves(i) /\ ~ReaderHas(i)
        /\ work.id = NoId /\ at["reader"] = "read" /\ at["worker"] = "idle"
    BY ContainsNone DEF Init, Queued, Leaves, ReaderHas, Threads, Handling, NoWork
  <1>3. MessageShape
    BY <1>2 DEF Init, MessageShape, Nothing, Handling
  <1>4. Kinded
    BY <1>2, Bounds DEF Init, Kinded
  <1>5. Places
    <2>1. \A t \in Threads : out[t] = <<>>
      BY DEF Init
    <2>2. \A t \in Ids : waiters[t] = <<>>
      BY DEF Init
    <2>3. \A i \in Ids : answers[i] = 0 /\ ~WorkerHas(i)
      BY <1>2, Bounds DEF Init, WorkerHas
    <2>4. queue = <<>> /\ {"reader", "worker"} \subseteq Threads
      BY DEF Init, Threads
    <2> QED BY <1>2, <2>1, <2>2, <2>3, <2>4, Bounds, ContainsNone, DistinctNone
      DEF Places, Fresh, Outgoing, Awaiting, InLine
  <1>6. AtWork
    BY <1>2 DEF Init, AtWork
  <1>7. RunSoFar
    BY DEF Init, RunSoFar
  <1>9. Emptied
    BY DEF Init, Emptied
  <1> QED BY <1>1, <1>3, <1>4, <1>5, <1>6, <1>7, <1>9 DEF HelperInv

-----------------------------------------------------------------------------
(* Steps of the reader *)

LEMMA ReceiveKeeps == ASSUME HelperInv, Receive PROVE HelperInv' /\ ServiceStep
  <1>i. TypeOK /\ MessageShape /\ Kinded /\ Places /\ Emptied /\ AtWork /\ RunSoFar
    BY DEF HelperInv
  <1>m. PICK m \in [kind: Kinds, id: Ids \cup {NoId}, of: Ids \cup {NoId}, calls: 1..MaxBatch] :
          /\ m.kind = "cancelled" <=> m.id = NoId
          /\ m.kind \in {"result", "cancel", "cancelled"} <=> m.of # NoId
          /\ m.id # NoId => asked[m.id] = "none"
          /\ m.of # NoId => asked[m.of] \in {"call", "task"}
          /\ ReaderMoves("read", IF m.kind = "list" THEN "check" ELSE "handle")
          /\ message' = m
          /\ asked' = [i \in Ids |-> IF i = m.id THEN m.kind ELSE asked[i]]
    BY DEF Receive
  <1>u. UNCHANGED <<session, store, work, out, client, history>>
    BY DEF Receive
  <1>a. /\ at["reader"] = "read" /\ at'["reader"] \in {"check", "handle"}
        /\ at'["reader"] = "check" => m.kind = "list"
        /\ at'["worker"] = at["worker"] /\ at' \in [Threads -> ReaderAt \cup WorkerAt]
    BY <1>i, <1>m, MoveTypes DEF ReaderAt
  <1>h. \A i \in Ids :
          /\ ReaderHas(i)' <=> i = m.id
          /\ Queued(i)' = Queued(i) /\ WorkerHas(i)' = WorkerHas(i)
          /\ Leaves(i)' = Leaves(i) /\ Over(i)' = Over(i)
    BY <1>a, <1>m, <1>u DEF ReaderHas, Handling, Queued, WorkerHas, Leaves, Over, store
  <1>k. /\ \A i \in Ids : asked[i] # "none" => asked'[i] = asked[i]
        /\ \A i \in Ids : i # m.id => asked'[i] = asked[i]
        /\ m.id \in Ids => asked[m.id] = "none" /\ asked'[m.id] = m.kind /\ m.kind # "none"
    BY <1>m, Bounds DEF Kinds
  <1>t. TypeOK'
    <2>1. /\ message' \in [kind: Kinds \cup {"none"}, id: Ids \cup {NoId}, of: Ids \cup {NoId},
                           calls: 0..MaxBatch]
          /\ asked' \in [Ids -> Kinds \cup {"none"}]
      <3>1. asked \in [Ids -> Kinds \cup {"none"}]
        BY <1>i DEF TypeOK
      <3>2. m.calls \in 0..MaxBatch
        BY <1>m, Bounds
      <3> QED BY <1>m, <3>1, <3>2
    <2>2. at'["reader"] \in ReaderAt /\ at'["worker"] \in WorkerAt
      BY <1>a, <1>i DEF TypeOK, ReaderAt
    <2> QED BY <1>i, <1>a, <1>u, <2>1, <2>2 DEF TypeOK, store, client, history
  <1>1. MessageShape'
    BY <1>m, <1>a, <1>k, Bounds DEF MessageShape, Handling
  <1>2. Kinded'
    BY <1>i, <1>k, <1>h, <1>u DEF Kinded, store, history
  <1>3. Places'
    <2>1. m.id \in Ids => /\ answers[m.id] = 0 /\ awaits[m.id] = NoId /\ m.id \notin flagged
                          /\ ~Leaves(m.id) /\ ~Queued(m.id) /\ work.id # m.id /\ task[m.id] = "none"
      <3>1. ASSUME NEW i \in Ids, asked[i] = "none"
            PROVE  /\ answers[i] = 0 /\ awaits[i] = NoId /\ i \notin flagged
                   /\ ~Leaves(i) /\ ~Queued(i) /\ work.id # i /\ task[i] = "none"
        BY <3>1, <1>i DEF Kinded
      <3> QED BY <3>1, <1>k
    <2>i. Fresh /\ Outgoing /\ Awaiting /\ InLine
      BY <1>i DEF Places
    <2>2. Fresh'
      BY <2>i, <1>k, <1>h, <1>u, <2>1 DEF Fresh, store, history
    <2>3. Outgoing'
      BY <2>i, <1>i, <1>k, <1>h, <1>u DEF Outgoing, Kinded, store, history
    <2>4. Awaiting'
      BY <2>i, <1>u DEF Awaiting, store, history
    <2>5. InLine'
      BY <2>i, <1>i, <1>k, <1>h, <1>u DEF InLine, Kinded, store, history
    <2> QED BY <2>2, <2>3, <2>4, <2>5 DEF Places
  <1>4. AtWork'
    BY <1>i, <1>a, <1>h, <1>u DEF AtWork, store
  <1>5. RunSoFar'
    BY <1>i, <1>a, <1>u DEF RunSoFar, history
  <1>9. Emptied'
    BY <1>i, <1>a, <1>u DEF Emptied, Threads
  <1>10. ServiceStep
    <2>1. \A j \in Ids : j # m.id => Progress'[j] = Progress[j]
      <3>1. \A j \in Ids : ~ReaderHas(j)
        BY <1>a DEF ReaderHas, Handling
      <3> QED BY <3>1, <1>h, <1>k, <1>u, InHandIs, ProgressKeeps DEF history
    <2>2. Finished' = Finished
      BY <1>h, FinishedStays
    <2>3. Dropped' = Dropped
      BY <1>i, <1>k, <1>u DEF Dropped, Kinded, TypeOK, store
    <2>4. CASE m.id = NoId
      BY <2>1, <2>2, <2>3, <2>4, <1>u, Bounds, ProgressStays, ServiceIdle DEF history
    <2>5. CASE m.id \in Ids
      <3>1. Progress[m.id] = "new"
        BY <2>5, <1>k, ProgressIs
      <3>2. answers'[m.id] = 0 /\ InHand(m.id)' /\ asked'[m.id] # "none"
        <4>1. PICK i \in Ids : i = m.id
          BY <2>5
        <4>2. answers'[i] = 0 /\ InHand(i)' /\ asked'[i] # "none"
          BY <4>1, <1>h, <1>i, <1>k, <1>u, InHandIs DEF Kinded, history
        <4> QED BY <4>1, <4>2
      <3>3. Progress'[m.id] = "open"
        BY <2>5, <3>2, ProgressIs
      <3> QED BY <2>1, <2>2, <2>3, <2>5, <3>1, <3>3, <1>u, ProgressMoves, ServiceReceives DEF history
    <2> QED BY <2>4, <2>5
  <1> QED BY <1>t, <1>1, <1>2, <1>3, <1>4, <1>5, <1>9, <1>10 DEF HelperInv

\* Only tasks that are over are purged, so a purge changes no answer.
LEMMA PurgedOver ==
  ASSUME NEW expired \in Expired, NEW i \in Purged(expired)
  PROVE  i \in Ids /\ Terminal(i)
  BY DEF Expired, Purged, Stored

LEMMA PurgeKeeps ==
  ASSUME NEW expired \in Expired,
         NEW statuses \in [Ids -> {"none", "working", "completed", "cancelled", "purged"}],
         \A i \in Ids : Terminal(i) => statuses[i] = task[i],
         PurgeThen(statuses, Purged(expired))
  PROVE  /\ task' \in [Ids -> {"none", "working", "completed", "cancelled", "purged"}]
         /\ \A i \in Ids : task'[i] = "working" <=> statuses[i] = "working"
         /\ \A i \in Ids : task'[i] = "none" <=> statuses[i] = "none"
         /\ \A i \in Ids : Over(i)' <=> statuses[i] \in {"completed", "cancelled", "purged"}
  <1>1. \A i \in Purged(expired) : i \in Ids /\ statuses[i] \in {"completed", "cancelled"}
    BY PurgedOver DEF Terminal
  <1> QED BY <1>1 DEF PurgeThen, Over

\* What the reader handles has no other place.
LEMMA HandledIsFresh ==
  ASSUME HelperInv, at["reader"] \in Handling, message.id \in Ids
  PROVE  /\ answers[message.id] = 0 /\ awaits[message.id] = NoId /\ message.id \notin flagged
         /\ ~Leaves(message.id) /\ ~Queued(message.id) /\ work.id # message.id
         /\ task[message.id] = "none"
  BY DEF HelperInv, Places, Fresh, ReaderHas

LEMMA OneIn == ASSUME NEW i \in Ids
               PROVE  Distinct(<<i>>) /\ (\A j : Contains(<<i>>, j) <=> j = i) /\ <<i>> \in Seq(Ids)
  <1>1. <<i>> \in Seq(Ids)
    OBVIOUS
  <1> QED BY <1>1, ContainsOne

\* The reader has an answer of its own to give, and no other.
LEMMA ReaderAnswers ==
  ASSUME HelperInv, NEW i \in Ids, at["reader"] # "emit", ~Leaves(i),
         out' = [out EXCEPT !["reader"] = <<i>>]
  PROVE  /\ out' \in [Threads -> Seq(Ids)]
         /\ \A t \in Threads : Distinct(out'[t])
         /\ \A j \in Ids : ~(Contains(out'["reader"], j) /\ Contains(out'["worker"], j))
         /\ \A j : Leaves(j)' <=> Leaves(j) \/ j = i
         /\ out'["worker"] = out["worker"]
  <1>1. /\ out \in [Threads -> Seq(Ids)] /\ {"reader", "worker"} = Threads
        /\ \A t \in Threads : Distinct(out[t])
        /\ \A t \in Threads : ~Contains(out[t], i)
        /\ out["reader"] = <<>>
    BY DEF HelperInv, TypeOK, Places, Outgoing, Emptied, Threads, Leaves
  <1>2. out'["reader"] = <<i>> /\ out'["worker"] = out["worker"] /\ out' \in [Threads -> Seq(Ids)]
    BY <1>1
  <1>3. \A j : Leaves(j)' <=> Contains(<<i>>, j) \/ Contains(out["worker"], j)
    BY <1>1, <1>2 DEF Leaves
  <1>4. \A j : Leaves(j) <=> Contains(out["worker"], j)
    BY <1>1, ContainsNone DEF Leaves
  <1>5. \A t \in Threads : Distinct(out'[t])
    BY <1>1, <1>2, OneIn
  <1>6. \A j \in Ids : ~(Contains(out'["reader"], j) /\ Contains(out'["worker"], j))
    BY <1>1, <1>2, OneIn
  <1> QED BY <1>2, <1>3, <1>4, <1>5, <1>6, OneIn

\* A call joins the queue.
LEMMA QueueGrows ==
  ASSUME HelperInv, NEW i \in Ids, ~Queued(i), NEW c \in 1..MaxBatch,
         Len(queue) < MaxQueue, queue' = Append(queue, <<i, c>>)
  PROVE  /\ queue' \in Seq(Ids \X (1..MaxBatch)) /\ Len(queue') <= MaxQueue
         /\ \A j : Queued(j)' <=> Queued(j) \/ j = i
         /\ \A k, l \in 1..Len(queue') : queue'[k][1] = queue'[l][1] => k = l
  <1>1. queue \in Seq(Ids \X (1..MaxBatch)) /\ Len(queue) \in Nat
    BY DEF HelperInv, TypeOK
  <1>2. \A k, l \in 1..Len(queue) : queue[k][1] = queue[l][1] => k = l
    BY DEF HelperInv, Places, InLine
  <1>3. /\ queue' \in Seq(Ids \X (1..MaxBatch)) /\ Len(queue') = Len(queue) + 1
        /\ \A k \in 1..Len(queue) : queue'[k] = queue[k]
        /\ queue'[Len(queue) + 1] = <<i, c>>
    BY <1>1
  <1>4. Len(queue') <= MaxQueue
    BY <1>1, <1>3, Bounds
  <1>5. 1..Len(queue') = 1..Len(queue) \cup {Len(queue) + 1}
    BY <1>1, <1>3
  <1>6. \A j : Queued(j)' <=> Queued(j) \/ j = i
    BY <1>3, <1>5 DEF Queued
  <1>7. \A k \in 1..Len(queue) : queue[k][1] # i
    BY DEF Queued
  <1> QED BY <1>2, <1>3, <1>4, <1>5, <1>6, <1>7

LEMMA SubmitKeeps == ASSUME HelperInv, Submit PROVE HelperInv' /\ ServiceStep
  <1>i. TypeOK /\ MessageShape /\ Kinded /\ Places /\ Emptied /\ AtWork /\ RunSoFar
    BY DEF HelperInv
  <1>a. /\ at["reader"] = "handle" /\ at'["reader"] = "emit" /\ at'["worker"] = at["worker"]
        /\ at' \in [Threads -> ReaderAt \cup WorkerAt]
    BY <1>i, MoveTypes DEF Submit, ReaderAt
  <1>u. UNCHANGED <<session, message, asked, flagged, waiters, stopping, work, client, history>>
    BY DEF Submit
  <1>m. /\ message.id \in Ids /\ asked[message.id] = message.kind
        /\ message.kind \in {"call", "task"} /\ message.calls \in 1..MaxBatch
    <2>1. at["reader"] \in Handling /\ message.kind \in {"call", "task"}
      BY <1>a DEF Submit, Handling
    <2> QED BY <2>1, <1>i DEF MessageShape
  <1>p. PICK i \in Ids : i = message.id
    BY <1>m
  <1>f. /\ i = message.id /\ asked[i] = message.kind /\ message.kind \in {"call", "task"}
        /\ message.calls \in 1..MaxBatch
        /\ answers[i] = 0 /\ awaits[i] = NoId /\ i \notin flagged /\ ~Leaves(i) /\ ~Queued(i)
        /\ work.id # i /\ task[i] = "none"
    <2>1. at["reader"] \in Handling
      BY <1>a DEF Handling
    <2> QED BY <2>1, <1>m, <1>p, HandledIsFresh
  <1>e. PICK expired \in Expired :
           \/ /\ PurgeThen(task, Purged(expired))
              /\ out' = [out EXCEPT !["reader"] = <<i>>]
              /\ UNCHANGED <<queue, active, order>>
           \/ /\ ~Full(Purged(expired)) /\ message.kind = "task"
              /\ PurgeThen([task EXCEPT ![i] = "working"], Purged(expired))
              /\ order' = Append(order, i)
              /\ queue' = Append(queue, <<i, message.calls>>)
              /\ out' = [out EXCEPT !["reader"] = <<i>>]
              /\ UNCHANGED active
           \/ /\ ~Full(Purged(expired)) /\ message.kind = "call"
              /\ PurgeThen(task, Purged(expired))
              /\ queue' = Append(queue, <<i, message.calls>>)
              /\ active' = active \cup {i}
              /\ UNCHANGED <<out, order>>
    BY <1>p DEF Submit, Refusal
  <1>l. ~Full(Purged(expired)) => Len(queue) < MaxQueue
    BY <1>i, Bounds DEF Full, TypeOK
  <1>q. /\ queue' \in Seq(Ids \X (1..MaxBatch)) /\ Len(queue') <= MaxQueue
        /\ \A j : Queued(j)' => Queued(j) \/ j = i
        /\ \A j : Queued(j) => Queued(j)'
        /\ \A k, l \in 1..Len(queue') : queue'[k][1] = queue'[l][1] => k = l
        /\ queue' = queue \/ Queued(i)'
        /\ queue' = Append(queue, <<i, message.calls>>) /\ ~Full(Purged(expired)) => Queued(i)'
    <2>1. CASE UNCHANGED queue
      <3>1. \A j : Queued(j)' = Queued(j)
        BY <2>1 DEF Queued
      <3>2. queue \in Seq(Ids \X (1..MaxBatch)) /\ Len(queue) \in Nat
        BY <1>i DEF TypeOK
      <3>3. queue' # Append(queue, <<i, message.calls>>)
        BY <2>1, <3>2
      <3> QED BY <2>1, <3>1, <3>3, <1>i DEF TypeOK, Places, InLine
    <2>2. CASE queue' = Append(queue, <<i, message.calls>>) /\ ~Full(Purged(expired))
      BY <2>2, <1>f, <1>l, QueueGrows
    <2> QED BY <2>1, <2>2, <1>e
  <1>o. /\ out' \in [Threads -> Seq(Ids)]
        /\ \A t \in Threads : Distinct(out'[t])
        /\ \A j \in Ids : ~(Contains(out'["reader"], j) /\ Contains(out'["worker"], j))
        /\ \A j : j # i => (Leaves(j)' <=> Leaves(j))
        /\ Leaves(i)' \/ Queued(i)'
        /\ Leaves(i)' => asked[i] = "task" \/ ~Queued(i)'
    <2>1. CASE UNCHANGED out
      <3>1. \A j : Leaves(j)' = Leaves(j)
        BY <2>1 DEF Leaves
      <3>2. out # [out EXCEPT !["reader"] = <<i>>]
        <4>1. out \in [Threads -> Seq(Ids)] /\ out["reader"] = <<>> /\ "reader" \in Threads
          <5>1. out \in [Threads -> Seq(Ids)]
            BY <1>i DEF TypeOK
          <5>2. out["reader"] = <<>> /\ "reader" \in Threads
            BY <1>a, <1>i DEF Emptied, Threads
          <5> QED BY <5>1, <5>2
        <4>2. [out EXCEPT !["reader"] = <<i>>]["reader"] = <<i>> /\ <<i>> # <<>>
          BY <4>1
        <4> QED BY <4>1, <4>2
      <3>3. Queued(i)'
        BY <2>1, <3>2, <1>e, <1>q
      <3> QED BY <2>1, <3>1, <3>3, <1>i, <1>f DEF TypeOK, Places, Outgoing
    <2>2. CASE out' = [out EXCEPT !["reader"] = <<i>>]
      <3>1. asked[i] = "task" \/ ~Queued(i)'
        <4>1. CASE UNCHANGED queue
          BY <4>1, <1>f DEF Queued
        <4>2. CASE message.kind = "task"
          BY <4>2, <1>f
        <4>3. CASE out' = out
          BY <4>3, <2>2, <1>a, <1>f, ReaderAnswers DEF Leaves
        <4> QED BY <1>e, <4>1, <4>2, <4>3
      <3> QED BY <2>2, <3>1, <1>a, <1>f, ReaderAnswers
    <2> QED BY <2>1, <2>2, <1>e
  <1>w. /\ task' \in [Ids -> {"none", "working", "completed", "cancelled", "purged"}]
        /\ \A j \in Ids : task'[j] = "working" <=>
             task[j] = "working" \/ (j = i /\ asked[i] = "task" /\ queue' # queue)
        /\ \A j \in Ids : task'[j] # "none" => task[j] # "none" \/ (j = i /\ asked[i] = "task")
        /\ \A j \in Ids : Over(j)' = Over(j)
    <2> DEFINE started == [task EXCEPT ![i] = "working"]
    <2>1. /\ task \in [Ids -> {"none", "working", "completed", "cancelled", "purged"}]
          /\ started \in [Ids -> {"none", "working", "completed", "cancelled", "purged"}]
          /\ \A j \in Ids : Terminal(j) => started[j] = task[j] /\ task[j] = task[j]
      BY <1>i, <1>f DEF TypeOK, Terminal
    <2>2. queue' = Append(queue, <<i, message.calls>>) => queue' # queue
      <3>1. Queued(i)' => queue' # queue
        BY <1>f DEF Queued
      <3>2. queue \in Seq(Ids \X (1..MaxBatch)) /\ Len(queue) \in Nat
        BY <1>i DEF TypeOK
      <3>3. queue' = Append(queue, <<i, message.calls>>) => Len(queue') = Len(queue) + 1
        BY <3>2
      <3> QED BY <3>2, <3>3
    <2>3. CASE PurgeThen(task, Purged(expired)) /\ (queue' = queue \/ message.kind = "call")
      <3>1. \A j \in Ids : Over(j)' = Over(j)
        BY <2>1, <2>3, PurgeKeeps DEF Over
      <3> QED BY <2>1, <2>3, <3>1, <1>f, PurgeKeeps
    <2>4. CASE PurgeThen(started, Purged(expired)) /\ message.kind = "task" /\ queue' # queue
      <3>1. started[i] = "working" /\ \A j \in Ids : j # i => started[j] = task[j]
        BY <2>1, <1>f
      <3> HIDE DEF started
      <3>2. /\ task' \in [Ids -> {"none", "working", "completed", "cancelled", "purged"}]
            /\ \A j \in Ids : task'[j] = "working" <=> started[j] = "working"
            /\ \A j \in Ids : task'[j] = "none" <=> started[j] = "none"
            /\ \A j \in Ids : Over(j)' <=> started[j] \in {"completed", "cancelled", "purged"}
        BY <2>1, <2>4, PurgeKeeps
      <3>3. \A j \in Ids : Over(j)' = Over(j)
        BY <3>1, <3>2, <1>f DEF Over
      <3> QED BY <3>1, <3>2, <3>3, <1>f, <2>4
    <2> QED BY <2>2, <2>3, <2>4, <1>e
  <1>h. \A j : ~ReaderHas(j)' /\ WorkerHas(j)' = WorkerHas(j)
    BY <1>a, <1>u DEF ReaderHas, Handling, WorkerHas
  <1>c. active' \subseteq Ids /\ \A j \in active' : j \in active \/ (j = i /\ asked[i] = "call")
    BY <1>e, <1>i, <1>f DEF TypeOK
  <1>t. TypeOK'
    <2>1. order' \in Seq(Ids)
      <3>1. order \in Seq(Ids) /\ Append(order, i) \in Seq(Ids)
        BY <1>i DEF TypeOK
      <3>2. order' = order \/ order' = Append(order, i)
        BY <1>e
      <3> QED BY <3>1, <3>2
    <2>2. at'["reader"] \in ReaderAt /\ at'["worker"] \in WorkerAt
      BY <1>a, <1>i DEF TypeOK, ReaderAt
    <2> QED BY <1>i, <1>a, <1>u, <1>q, <1>o, <1>w, <1>c, <2>1, <2>2 DEF TypeOK, client, history
  <1>1. MessageShape'
    BY <1>i, <1>a, <1>u DEF MessageShape, Handling
  <1>2. Kinded'
    BY <1>i, <1>f, <1>u, <1>q, <1>o, <1>w, <1>c DEF Kinded, history
  <1>3. Places'
    <2>i. Fresh /\ Outgoing /\ Awaiting /\ InLine
      BY <1>i DEF Places
    <2>2. Fresh'
      BY <2>i, <1>h, <1>u DEF Fresh, history
    <2>3. Outgoing'
      <3>1. \A t \in Ids : awaits[i] # t
        BY <1>f, Bounds
      <3>2. ASSUME NEW j \in Ids, Leaves(j)'
            PROVE  /\ answers'[j] = 0
                   /\ \A t \in Ids : awaits'[j] = t => Over(t)'
                   /\ asked'[j] = "call" => ~Queued(j)' /\ ~WorkerHas(j)'
        <4>1. CASE j = i
          BY <4>1, <3>1, <3>2, <1>f, <1>o, <1>u, <1>h DEF WorkerHas, history
        <4>2. CASE j # i /\ Leaves(j)
          BY <4>2, <2>i, <1>q, <1>u, <1>w, <1>h DEF Outgoing, history
        <4> QED BY <3>2, <4>1, <4>2, <1>o
      <3> QED BY <3>2, <1>o DEF Outgoing
    <2>4. Awaiting'
      BY <2>i, <1>u DEF Awaiting, history
    <2>5. InLine'
      BY <2>i, <1>f, <1>q, <1>u, <1>h DEF InLine, history
    <2> QED BY <2>2, <2>3, <2>4, <2>5 DEF Places
  <1>4. AtWork'
    BY <1>i, <1>a, <1>f, <1>h, <1>q, <1>u, <1>w DEF AtWork
  <1>5. RunSoFar'
    BY <1>i, <1>a, <1>u DEF RunSoFar, history
  <1>9. Emptied'
    BY <1>i, <1>a, <1>e DEF Emptied, Threads, TypeOK
  <1>10. ServiceStep
    <2>1. ASSUME NEW j \in Ids PROVE InHand(j)' <=> InHand(j)
      <3>1. CASE j = i
        <4>1. ReaderHas(i)
          BY <1>a, <1>f DEF ReaderHas, Handling
        <4> QED BY <3>1, <4>1, <1>o, InHandIs
      <3>2. CASE j # i
        <4>1. ~ReaderHas(j) /\ (Queued(j)' <=> Queued(j))
          BY <3>2, <1>f, <1>q DEF ReaderHas
        <4> QED BY <3>2, <4>1, <1>h, <1>o, InHandIs
      <3> QED BY <3>1, <3>2
    <2>2. \A j \in Ids : Progress'[j] = Progress[j]
      BY <2>1, <1>u, ProgressKeeps DEF history
    <2> QED BY <2>2, <1>u, <1>w, ProgressStays, FinishedStays, DroppedStays, ServiceIdle DEF history
  <1> QED BY <1>t, <1>1, <1>2, <1>3, <1>4, <1>5, <1>9, <1>10 DEF HelperInv

\* The answer to a cancellation, then those of whoever waited.
LEMMA WaitersLeave ==
  ASSUME HelperInv, NEW i \in Ids, NEW t \in Ids, at["reader"] # "emit",
         ~Leaves(i), awaits[i] = NoId, ~Over(t),
         out' = [out EXCEPT !["reader"] = <<i>> \o waiters[t]]
  PROVE  /\ out' \in [Threads -> Seq(Ids)]
         /\ \A s \in Threads : Distinct(out'[s])
         /\ \A j \in Ids : ~(Contains(out'["reader"], j) /\ Contains(out'["worker"], j))
         /\ \A j : Leaves(j)' <=> Leaves(j) \/ j = i \/ Contains(waiters[t], j)
         /\ out'["worker"] = out["worker"]
  <1>1. /\ out \in [Threads -> Seq(Ids)] /\ {"reader", "worker"} = Threads
        /\ \A s \in Threads : Distinct(out[s])
        /\ \A s \in Threads : ~Contains(out[s], i)
        /\ waiters[t] \in Seq(Ids) /\ Distinct(waiters[t]) /\ out["reader"] = <<>>
    BY DEF HelperInv, Emptied, TypeOK, Places, Outgoing, Awaiting, Threads, Leaves
  <1>2. ~Contains(waiters[t], i)
    BY Bounds DEF HelperInv, Places, Awaiting
  <1>3. \A j \in Ids : Contains(waiters[t], j) => ~Leaves(j)
    BY DEF HelperInv, Places, Awaiting, Outgoing
  <1>4. /\ \A j : Contains(<<i>> \o waiters[t], j) <=> j = i \/ Contains(waiters[t], j)
        /\ Distinct(<<i>> \o waiters[t]) /\ <<i>> \o waiters[t] \in Seq(Ids)
    BY <1>1, <1>2, ContainsCons
  <1>5. /\ out'["reader"] = <<i>> \o waiters[t] /\ out'["worker"] = out["worker"]
        /\ out' \in [Threads -> Seq(Ids)]
    BY <1>1, <1>4
  <1> QED BY <1>1, <1>3, <1>4, <1>5, ContainsNone DEF Leaves

LEMMA TaskRequestKeeps == ASSUME HelperInv, TaskRequest PROVE HelperInv' /\ ServiceStep
  <1>i. /\ TypeOK /\ MessageShape /\ Kinded /\ Emptied /\ AtWork /\ RunSoFar
        /\ Fresh /\ Outgoing /\ Awaiting /\ InLine
    BY DEF HelperInv, Places
  <1>a. /\ at["reader"] = "handle" /\ at'["reader"] = "emit" /\ at'["worker"] = at["worker"]
        /\ at' \in [Threads -> ReaderAt \cup WorkerAt]
    BY <1>i, MoveTypes DEF TaskRequest, ReaderAt
  <1>u. UNCHANGED <<session, message, asked, queue, active, order, stopping, work, client,
                    answers, runs>>
    BY DEF TaskRequest
  <1>m. /\ message.id \in Ids /\ asked[message.id] = message.kind
        /\ message.kind \in {"result", "cancel", "query"}
        /\ message.kind \in {"result", "cancel"} => message.of \in Ids
    <2>1. at["reader"] \in Handling /\ message.kind \in {"result", "cancel", "query"}
      BY <1>a DEF TaskRequest, Handling
    <2> QED BY <2>1, <1>i DEF MessageShape
  <1>p1. PICK i \in Ids : i = message.id
    BY <1>m
  <1>p2. PICK t : t = message.of
    OBVIOUS
  <1>p. i = message.id /\ t = message.of
    BY <1>p1, <1>p2
  <1>f. /\ asked[i] \in {"result", "cancel", "query"} /\ asked[i] = message.kind
        /\ answers[i] = 0 /\ awaits[i] = NoId /\ i \notin flagged /\ ~Leaves(i) /\ ~Queued(i)
        /\ work.id # i /\ task[i] = "none"
    <2>1. at["reader"] \in Handling
      BY <1>a DEF Handling
    <2> QED BY <2>1, <1>m, <1>p, HandledIsFresh
  <1>e. PICK expired \in Expired :
          \/ /\ task[t] = "working" /\ message.kind = "result"
             /\ waiters' = [waiters EXCEPT ![t] = Append(@, i)]
             /\ awaits' = [awaits EXCEPT ![i] = t]
             /\ PurgeThen(task, Purged(expired))
             /\ UNCHANGED <<flagged, out>>
          \/ /\ task[t] = "working" /\ message.kind = "cancel"
             /\ flagged' = flagged \cup {t}
             /\ PurgeThen([task EXCEPT ![t] = "cancelled"], Purged(expired))
             /\ waiters' = [waiters EXCEPT ![t] = <<>>]
             /\ out' = [out EXCEPT !["reader"] = <<i>> \o waiters[t]]
             /\ UNCHANGED awaits
          \/ /\ PurgeThen(task, Purged(expired))
             /\ out' = [out EXCEPT !["reader"] = <<i>>]
             /\ UNCHANGED <<flagged, waiters, awaits>>
    BY <1>p DEF TaskRequest, CancelledAnswers
  <1>h. \A j : ~ReaderHas(j)' /\ WorkerHas(j)' = WorkerHas(j) /\ Queued(j)' = Queued(j)
    BY <1>a, <1>u DEF ReaderHas, Handling, WorkerHas, Queued
  <1>r0. \A j \in Ids : asked[j] = "call" => ~ReaderHas(j)
    BY <1>m DEF ReaderHas
  <1>s. /\ task \in [Ids -> {"none", "working", "completed", "cancelled", "purged"}]
        /\ awaits \in [Ids -> Ids \cup {NoId}] /\ waiters \in [Ids -> Seq(Ids)]
        /\ out \in [Threads -> Seq(Ids)] /\ flagged \subseteq Ids
    BY <1>i DEF TypeOK
  \* What is left to show, of the parts that the three cases change.
  <1> DEFINE Rest == /\ task' \in [Ids -> {"none", "working", "completed", "cancelled", "purged"}]
                     /\ awaits' \in [Ids -> Ids \cup {NoId}] /\ waiters' \in [Ids -> Seq(Ids)]
                     /\ out' \in [Threads -> Seq(Ids)] /\ flagged' \subseteq Ids
                     /\ Kinded' /\ Outgoing' /\ Awaiting' /\ Emptied' /\ AtWork'
                     /\ ServiceStep
  <1>1. ASSUME /\ task[t] = "working" /\ message.kind = "result"
               /\ waiters' = [waiters EXCEPT ![t] = Append(@, i)]
               /\ awaits' = [awaits EXCEPT ![i] = t]
               /\ PurgeThen(task, Purged(expired))
               /\ UNCHANGED <<flagged, out>>
         PROVE  Rest
    <2>1. t \in Ids
      BY <1>1, <1>m, <1>p
    <2>2. /\ task' \in [Ids -> {"none", "working", "completed", "cancelled", "purged"}]
          /\ \A j \in Ids : task'[j] = "working" <=> task[j] = "working"
          /\ \A j \in Ids : task'[j] = "none" <=> task[j] = "none"
      BY <1>1, <1>s, PurgeKeeps
    <2>3. \A j \in Ids : Over(j)' = Over(j)
      <3>1. \A j \in Ids : Over(j)' <=> task[j] \in {"completed", "cancelled", "purged"}
        BY <1>1, <1>s, PurgeKeeps
      <3> QED BY <3>1 DEF Over
    <2>4. \A j : Leaves(j)' = Leaves(j)
      BY <1>1 DEF Leaves
    <2>5. waiters[t] \in Seq(Ids) /\ ~Contains(waiters[t], i)
      BY <1>i, <1>f, <1>s, <2>1, Bounds DEF Awaiting
    <2>6. /\ \A j : Contains(waiters'[t], j) <=> Contains(waiters[t], j) \/ j = i
          /\ Distinct(waiters'[t]) /\ waiters'[t] \in Seq(Ids)
          /\ \A s \in Ids : s # t => waiters'[s] = waiters[s]
          /\ waiters' \in [Ids -> Seq(Ids)]
      <3>1. waiters'[t] = Append(waiters[t], i) /\ \A s \in Ids : s # t => waiters'[s] = waiters[s]
        BY <1>1, <1>s, <2>1
      <3>2. Append(waiters[t], i) \in Seq(Ids)
        BY <2>5
      <3>3. waiters' \in [Ids -> Seq(Ids)]
        BY <1>1, <1>s, <2>1, <3>2
      <3> QED BY <1>i, <2>1, <2>5, <3>1, <3>3, ContainsAppend DEF Awaiting
    <2>7. awaits'[i] = t /\ (\A j \in Ids : j # i => awaits'[j] = awaits[j])
          /\ awaits' \in [Ids -> Ids \cup {NoId}]
      BY <1>1, <1>s, <2>1
    <2>8. asked[i] = "result"
      BY <1>1, <1>f
    <2>9. Kinded'
      BY <1>i, <1>u, <1>1, <1>h, <2>2, <2>4, <2>7, <2>8 DEF Kinded
    <2>10. Outgoing'
      BY <1>i, <1>u, <1>1, <1>h, <1>f, <2>3, <2>4, <2>7 DEF Outgoing
    <2>11. Awaiting'
      <3>1. ASSUME NEW s \in Ids PROVE Distinct(waiters'[s])
        BY <1>i, <2>6 DEF Awaiting
      <3>2. ASSUME NEW s \in Ids, NEW j \in Ids, Contains(waiters'[s], j)
            PROVE  awaits'[j] = s /\ answers'[j] = 0
        <4>1. CASE j = i
          <5>1. s = t
            BY <4>1, <3>2, <1>i, <1>f, <2>6, Bounds DEF Awaiting
          <5> QED BY <4>1, <5>1, <2>7, <1>f, <1>u
        <4>2. CASE j # i
          <5>1. Contains(waiters[s], j)
            BY <4>2, <3>2, <2>6
          <5> QED BY <4>2, <5>1, <2>7, <1>i, <1>u DEF Awaiting
        <4> QED BY <4>1, <4>2
      <3> QED BY <3>1, <3>2 DEF Awaiting
    <2>12. AtWork'
      BY <1>i, <1>u, <1>a, <1>h, <1>1, <2>2, <2>6 DEF AtWork
    <2>20. Emptied'
      BY <1>1, <1>i, <1>a DEF Emptied, Threads
    <2>21. ServiceStep
      <3>1. \A j \in Ids : asked[j] = "call" => (InHand(j)' <=> InHand(j))
        BY <1>h, <1>r0, <2>4, InHandIs
      <3>2. \A j \in Ids : Progress'[j] = Progress[j]
        BY <3>1, <1>u, ProgressKeeps
      <3>3. Progress[i] = "open"
        BY <1>f, <2>8, ProgressIs
      <3>4. t \notin Finished
        BY <1>1 DEF Finished
      <3> QED BY <1>1, <1>f, <1>u, <2>1, <2>3, <3>2, <3>3, <3>4, ProgressStays, FinishedStays, DroppedStays,
                 ServiceAwaits
    <2> QED BY <1>1, <1>s, <2>2, <2>6, <2>7, <2>9, <2>10, <2>11, <2>12, <2>20, <2>21
  <1>2. ASSUME /\ task[t] = "working" /\ message.kind = "cancel"
               /\ flagged' = flagged \cup {t}
               /\ PurgeThen([task EXCEPT ![t] = "cancelled"], Purged(expired))
               /\ waiters' = [waiters EXCEPT ![t] = <<>>]
               /\ out' = [out EXCEPT !["reader"] = <<i>> \o waiters[t]]
               /\ UNCHANGED awaits
         PROVE  Rest
    <2>1. t \in Ids /\ ~Over(t) /\ asked[t] = "task"
      BY <1>2, <1>m, <1>p, <1>i DEF Over, Kinded
    <2>2. /\ task' \in [Ids -> {"none", "working", "completed", "cancelled", "purged"}]
          /\ \A j \in Ids : task'[j] = "working" <=> task[j] = "working" /\ j # t
          /\ \A j \in Ids : task'[j] = "none" <=> task[j] = "none"
          /\ \A j \in Ids : Over(j)' <=> Over(j) \/ j = t
      <3> DEFINE statuses == [task EXCEPT ![t] = "cancelled"]
      <3>1. /\ statuses \in [Ids -> {"none", "working", "completed", "cancelled", "purged"}]
            /\ statuses[t] = "cancelled" /\ \A j \in Ids : j # t => statuses[j] = task[j]
        BY <1>s, <2>1
      <3>2. \A j \in Ids : Terminal(j) => statuses[j] = task[j]
        BY <3>1, <1>2 DEF Terminal
      <3>3. PurgeThen(statuses, Purged(expired))
        BY <1>2
      <3> HIDE DEF statuses
      <3>4. /\ task' \in [Ids -> {"none", "working", "completed", "cancelled", "purged"}]
            /\ \A j \in Ids : task'[j] = "working" <=> statuses[j] = "working"
            /\ \A j \in Ids : task'[j] = "none" <=> statuses[j] = "none"
            /\ \A j \in Ids : Over(j)' <=> statuses[j] \in {"completed", "cancelled", "purged"}
        BY <3>1, <3>2, <3>3, PurgeKeeps
      <3>5. \A j \in Ids : Over(j)' <=> Over(j) \/ j = t
        BY <3>1, <3>4 DEF Over
      <3> QED BY <3>1, <3>4, <3>5, <1>2, <2>1
    <2>3. /\ out' \in [Threads -> Seq(Ids)]
          /\ \A s \in Threads : Distinct(out'[s])
          /\ \A j \in Ids : ~(Contains(out'["reader"], j) /\ Contains(out'["worker"], j))
          /\ \A j : Leaves(j)' <=> Leaves(j) \/ j = i \/ Contains(waiters[t], j)
          /\ out'["worker"] = out["worker"]
      BY <1>a, <1>2, <1>f, <2>1, WaitersLeave
    <2>4. /\ waiters'[t] = <<>> /\ (\A s \in Ids : s # t => waiters'[s] = waiters[s])
          /\ waiters' \in [Ids -> Seq(Ids)]
      BY <1>2, <1>s, <2>1
    <2>5. \A j \in Ids : Contains(waiters[t], j) =>
            awaits[j] = t /\ answers[j] = 0 /\ asked[j] = "result"
      BY <1>i, <2>1, Bounds DEF Awaiting, Kinded
    <2>6. Kinded'
      BY <1>i, <1>u, <1>f, <1>2, <1>h, <2>1, <2>2, <2>3, <2>5 DEF Kinded
    <2>7. Outgoing'
      <3>1. ASSUME NEW j \in Ids, Leaves(j)'
            PROVE  /\ answers'[j] = 0
                   /\ \A s \in Ids : awaits'[j] = s => Over(s)'
                   /\ asked'[j] = "call" => ~Queued(j)' /\ ~WorkerHas(j)'
        <4>1. CASE j = i
          BY <4>1, <1>f, <1>u, <1>2, Bounds
        <4>2. CASE Contains(waiters[t], j)
          BY <4>2, <2>2, <2>5, <1>u, <1>2
        <4>3. CASE Leaves(j)
          BY <4>3, <1>i, <1>h, <1>u, <1>2, <2>2 DEF Outgoing
        <4> QED BY <3>1, <2>3, <4>1, <4>2, <4>3
      <3> QED BY <3>1, <2>3 DEF Outgoing
    <2>8. Awaiting'
      <3>1. ASSUME NEW s \in Ids PROVE Distinct(waiters'[s])
        BY <1>i, <2>4, DistinctNone DEF Awaiting
      <3>2. \A s, j \in Ids : Contains(waiters'[s], j) => Contains(waiters[s], j)
        BY <2>4, ContainsNone
      <3> QED BY <3>1, <3>2, <1>i, <1>u, <1>2 DEF Awaiting
    <2>9. AtWork'
      BY <1>i, <1>u, <1>a, <1>h, <2>2, <2>4 DEF AtWork
    <2>20. Emptied'
      BY <1>i, <1>a, <2>3 DEF Emptied, Threads
    <2>21. ServiceStep
      <3>1. \A j \in Ids : asked[j] = "call" => (InHand(j)' <=> InHand(j))
        <4>1. \A j \in Ids : asked[j] = "call" => j # i /\ ~Contains(waiters[t], j)
          BY <1>f, <2>5
        <4> QED BY <4>1, <1>h, <1>r0, <2>3, InHandIs
      <3>2. \A j \in Ids : Progress'[j] = Progress[j]
        BY <3>1, <1>u, ProgressKeeps
      <3>3. Progress[t] # "new"
        <4>1. answers[t] \in {0, 1}
          BY <1>i, <2>1 DEF TypeOK, Fresh
        <4> QED BY <4>1, <2>1, ProgressIs
      <3>4. t \notin Finished /\ Finished' = Finished \cup {t}
        BY <2>1, <2>2 DEF Finished, Over
      <3>5. Dropped' = Dropped
        BY <1>2, <1>u, <2>1 DEF Dropped
      <3> QED BY <1>2, <2>1, <3>2, <3>3, <3>4, <3>5, ProgressStays, ServiceFinishes
    <2> QED BY <1>2, <1>s, <2>1, <2>2, <2>3, <2>4, <2>6, <2>7, <2>8, <2>9, <2>20, <2>21
  <1>3. ASSUME /\ PurgeThen(task, Purged(expired))
               /\ out' = [out EXCEPT !["reader"] = <<i>>]
               /\ UNCHANGED <<flagged, waiters, awaits>>
         PROVE  Rest
    <2>1. /\ task' \in [Ids -> {"none", "working", "completed", "cancelled", "purged"}]
          /\ \A j \in Ids : task'[j] = "working" <=> task[j] = "working"
          /\ \A j \in Ids : task'[j] = "none" <=> task[j] = "none"
      BY <1>3, <1>s, PurgeKeeps
    <2>2. \A j \in Ids : Over(j)' = Over(j)
      <3>1. \A j \in Ids : Over(j)' <=> task[j] \in {"completed", "cancelled", "purged"}
        BY <1>3, <1>s, PurgeKeeps
      <3> QED BY <3>1 DEF Over
    <2>3. /\ out' \in [Threads -> Seq(Ids)]
          /\ \A s \in Threads : Distinct(out'[s])
          /\ \A j \in Ids : ~(Contains(out'["reader"], j) /\ Contains(out'["worker"], j))
          /\ \A j : Leaves(j)' <=> Leaves(j) \/ j = i
          /\ out'["worker"] = out["worker"]
      BY <1>a, <1>3, <1>f, ReaderAnswers
    <2>4. Kinded'
      BY <1>i, <1>u, <1>f, <1>3, <1>h, <2>1, <2>3 DEF Kinded
    <2>5. Outgoing'
      BY <1>i, <1>u, <1>f, <1>3, <1>h, <2>2, <2>3, Bounds DEF Outgoing
    <2>6. Awaiting'
      BY <1>i, <1>u, <1>3 DEF Awaiting
    <2>7. AtWork'
      BY <1>i, <1>u, <1>a, <1>h, <1>3, <2>1 DEF AtWork
    <2>20. Emptied'
      BY <1>i, <1>a, <2>3 DEF Emptied, Threads
    <2>21. ServiceStep
      <3>1. \A j \in Ids : asked[j] = "call" => (InHand(j)' <=> InHand(j))
        <4>1. \A j \in Ids : asked[j] = "call" => j # i
          BY <1>f
        <4> QED BY <4>1, <1>h, <1>r0, <2>3, InHandIs
      <3>2. \A j \in Ids : Progress'[j] = Progress[j]
        BY <3>1, <1>u, ProgressKeeps
      <3> QED BY <1>3, <1>u, <2>2, <3>2, ProgressStays, FinishedStays, DroppedStays, ServiceIdle
    <2> QED BY <1>3, <1>s, <2>1, <2>3, <2>4, <2>5, <2>6, <2>7, <2>20, <2>21
  <1>r. Rest
    BY <1>e, <1>1, <1>2, <1>3
  <1>t. TypeOK'
    <2>1. at'["reader"] \in ReaderAt /\ at'["worker"] \in WorkerAt
      BY <1>a, <1>i DEF TypeOK, ReaderAt
    <2> QED BY <1>i, <1>a, <1>u, <1>r, <2>1 DEF TypeOK, client
  <1>4. MessageShape'
    BY <1>i, <1>a, <1>u DEF MessageShape, Handling
  <1>5. Fresh'
    BY <1>i, <1>h, <1>u DEF Fresh
  <1>6. InLine'
    BY <1>i, <1>h, <1>u DEF InLine
  <1>7. RunSoFar'
    BY <1>i, <1>a, <1>u DEF RunSoFar
  <1>9. Emptied'
    BY <1>r
  <1> QED BY <1>r, <1>t, <1>4, <1>5, <1>6, <1>7, <1>9 DEF HelperInv, Places

\* The reader is done with its message, or flags calls that are active.
LEMMA ReaderRests ==
  ASSUME HelperInv, TypeOK', at'["reader"] \notin Handling, at'["worker"] = at["worker"],
         message' \in {message, Nothing}, out["reader"] = <<>>,
         \A j \in Ids : ReaderHas(j) => asked[j] # "call",
         flagged \subseteq flagged', flagged' \subseteq flagged \cup active,
         UNCHANGED <<asked, queue, task, waiters, active, work, out, answers, awaits, runs>>
  PROVE  HelperInv' /\ ServiceStep
  <1>i. /\ TypeOK /\ MessageShape /\ Kinded /\ Emptied /\ AtWork /\ RunSoFar
        /\ Fresh /\ Outgoing /\ Awaiting /\ InLine
    BY DEF HelperInv, Places
  <1>h. /\ \A j : ~ReaderHas(j)' /\ WorkerHas(j)' = WorkerHas(j) /\ Queued(j)' = Queued(j)
        /\ \A j : Leaves(j)' = Leaves(j)
        /\ \A j : Over(j)' = Over(j)
    BY DEF ReaderHas, WorkerHas, Queued, Leaves, Over
  <1>1. MessageShape'
    BY <1>i DEF MessageShape, Nothing, Handling
  <1>2. Kinded'
    <2>1. \A j \in Ids : j \in active => task[j] # "working" /\ asked[j] # "none"
      BY <1>i DEF Kinded
    <2> QED BY <1>i, <1>h, <2>1 DEF Kinded
  <1>3. Fresh'
    BY <1>i, <1>h DEF Fresh
  <1>4. Outgoing' /\ Awaiting' /\ InLine'
    BY <1>i, <1>h DEF Outgoing, Awaiting, InLine
  <1>5. AtWork'
    BY <1>i, <1>h DEF AtWork
  <1>6. RunSoFar'
    BY <1>i DEF RunSoFar
  <1>9. Emptied'
    BY <1>i DEF Emptied, Threads
  <1>10. ServiceStep
    <2>1. \A j \in Ids : asked[j] = "call" => (InHand(j)' <=> InHand(j))
      BY <1>h, InHandIs
    <2>2. \A j \in Ids : Progress'[j] = Progress[j]
      BY <2>1, ProgressKeeps
    <2>3. Dropped' = Dropped \cup (flagged' \ flagged) /\ flagged' \ flagged \in SUBSET Ids
      <3>1. \A j \in active : j \in Ids /\ asked[j] = "call"
        BY <1>i DEF Kinded, TypeOK
      <3> QED BY <3>1 DEF Dropped
    <2> QED BY <1>h, <2>2, <2>3, ProgressStays, FinishedStays, ServiceCancels
  <1> QED BY <1>1, <1>2, <1>3, <1>4, <1>5, <1>6, <1>9, <1>10 DEF HelperInv, Places

LEMMA NothingTyped == Nothing \in [kind: Kinds \cup {"none"}, id: Ids \cup {NoId}, of: Ids \cup {NoId},
                                   calls: 0..MaxBatch]
  BY Bounds DEF Nothing

LEMMA CancelRequestKeeps == ASSUME HelperInv, CancelRequest PROVE HelperInv' /\ ServiceStep
  <1>i. TypeOK /\ MessageShape /\ Emptied
    BY DEF HelperInv
  <1>a. /\ at'["reader"] = "read" /\ at'["worker"] = at["worker"]
        /\ at' \in [Threads -> ReaderAt \cup WorkerAt] /\ at'["reader"] \in ReaderAt
    BY <1>i, MoveTypes DEF CancelRequest, ReaderAt
  <1>t. TypeOK'
    BY <1>i, <1>a, NothingTyped DEF CancelRequest, TypeOK, client, history
  <1>o. out["reader"] = <<>>
    BY <1>i, MoveTypes DEF CancelRequest, ReaderAt, Emptied, Threads
  <1>r. \A j \in Ids : ReaderHas(j) => asked[j] # "call"
    BY <1>i DEF ReaderHas, MessageShape, CancelRequest
  <1> QED BY <1>r, <1>a, <1>o, <1>t, ReaderRests DEF CancelRequest, Handling, history

LEMMA ReaderDoneKeeps == ASSUME HelperInv, ReaderDone PROVE HelperInv' /\ ServiceStep
  <1>i. TypeOK
    BY DEF HelperInv
  <1>a. /\ at'["reader"] = "read" /\ at'["worker"] = at["worker"]
        /\ at' \in [Threads -> ReaderAt \cup WorkerAt] /\ at'["reader"] \in ReaderAt
    BY <1>i, MoveTypes DEF ReaderDone, ReaderAt
  <1>t. TypeOK'
    BY <1>i, <1>a, NothingTyped DEF ReaderDone, TypeOK, store, client, history
  <1>r. \A j \in Ids : ~ReaderHas(j)
    BY <1>i, MoveTypes DEF ReaderHas, ReaderDone, Handling, ReaderAt
  <1> QED BY <1>r, <1>a, <1>t, ReaderRests DEF ReaderDone, Handling, store, history

LEMMA StopKeeps == ASSUME HelperInv, Stop PROVE HelperInv' /\ ServiceStep
  <1>i. TypeOK /\ Emptied
    BY DEF HelperInv
  <1>a. /\ at'["reader"] = "join" /\ at'["worker"] = at["worker"]
        /\ at' \in [Threads -> ReaderAt \cup WorkerAt] /\ at'["reader"] \in ReaderAt
    BY <1>i, MoveTypes DEF Stop, ReaderAt
  <1>t. TypeOK'
    BY <1>i, <1>a DEF Stop, TypeOK, client, history
  <1>o. out["reader"] = <<>>
    BY <1>i, MoveTypes DEF Stop, ReaderAt, Emptied, Threads
  <1>r. \A j \in Ids : ~ReaderHas(j)
    BY <1>i, MoveTypes DEF ReaderHas, Stop, Handling, ReaderAt
  <1> QED BY <1>r, <1>a, <1>o, <1>t, ReaderRests DEF Stop, Handling, history

LEMMA ListToolsKeeps == ASSUME HelperInv, ListTools PROVE HelperInv' /\ ServiceStep
  <1>i. /\ TypeOK /\ MessageShape /\ Kinded /\ Emptied /\ AtWork /\ RunSoFar
        /\ Fresh /\ Outgoing /\ Awaiting /\ InLine
    BY DEF HelperInv, Places
  <1>a. /\ at["reader"] = "listed" /\ at'["reader"] = "emit" /\ at'["worker"] = at["worker"]
        /\ at' \in [Threads -> ReaderAt \cup WorkerAt] /\ at'["reader"] \in ReaderAt
    BY <1>i, MoveTypes DEF ListTools, ReaderAt
  <1>u. UNCHANGED <<session, message, asked, store, work, client, history>>
    BY DEF ListTools
  <1>m. at["reader"] \in Handling /\ message.id \in Ids /\ asked[message.id] = "list"
    BY <1>a, <1>i DEF MessageShape, Handling
  <1>p. PICK i \in Ids : i = message.id
    BY <1>m
  <1>f. answers[i] = 0 /\ awaits[i] = NoId /\ ~Leaves(i) /\ ~Queued(i) /\ work.id # i
    BY <1>m, <1>p, HandledIsFresh
  <1>h. \A j : /\ ~ReaderHas(j)' /\ WorkerHas(j)' = WorkerHas(j) /\ Queued(j)' = Queued(j)
               /\ Over(j)' = Over(j)
    BY <1>a, <1>u DEF ReaderHas, Handling, WorkerHas, Queued, Over, store
  <1>o. /\ out' \in [Threads -> Seq(Ids)]
        /\ \A t \in Threads : Distinct(out'[t])
        /\ \A j \in Ids : ~(Contains(out'["reader"], j) /\ Contains(out'["worker"], j))
        /\ \A j : Leaves(j)' <=> Leaves(j) \/ j = i
        /\ out'["worker"] = out["worker"]
    <2>1. out' = [out EXCEPT !["reader"] = <<i>>]
      BY <1>p DEF ListTools
    <2> QED BY <2>1, <1>a, <1>f, ReaderAnswers
  <1>t. TypeOK'
    BY <1>i, <1>a, <1>u, <1>o DEF TypeOK, store, client, history
  <1>1. MessageShape'
    BY <1>i, <1>a, <1>u DEF MessageShape, Handling
  <1>2. Kinded'
    BY <1>i, <1>h, <1>u, <1>o, <1>m, <1>p DEF Kinded, store, history
  <1>3. Fresh'
    BY <1>i, <1>h, <1>u DEF Fresh, history
  <1>4. Outgoing'
    BY <1>i, <1>m, <1>p, <1>f, <1>h, <1>o, <1>u, Bounds DEF Outgoing, history
  <1>5. Awaiting'
    BY <1>i, <1>u DEF Awaiting, store, history
  <1>6. InLine'
    BY <1>i, <1>h, <1>u DEF InLine, store, history
  <1>7. AtWork'
    BY <1>i, <1>a, <1>h, <1>u DEF AtWork, store
  <1>8. RunSoFar'
    BY <1>i, <1>a, <1>u DEF RunSoFar, history
  <1>9. Emptied'
    BY <1>i, <1>a, <1>o DEF Emptied, Threads
  <1>10. ServiceStep
    <2>1. \A j \in Ids : asked[j] = "call" => (InHand(j)' <=> InHand(j))
      <3>1. \A j \in Ids : asked[j] = "call" => j # i /\ ~ReaderHas(j)
        BY <1>m, <1>p DEF ReaderHas
      <3> QED BY <3>1, <1>h, <1>o, InHandIs
    <2>2. \A j \in Ids : Progress'[j] = Progress[j]
      BY <2>1, <1>u, ProgressKeeps DEF history
    <2> QED BY <1>h, <2>2, <1>u, ProgressStays, FinishedStays, DroppedStays, ServiceIdle
            DEF history, store
  <1> QED BY <1>t, <1>1, <1>2, <1>3, <1>4, <1>5, <1>6, <1>7, <1>8, <1>9, <1>10 DEF HelperInv, Places

-----------------------------------------------------------------------------
(* An answer is given *)

LEMMA EmitKeeps == ASSUME HelperInv, NEW t \in Threads, Emit(t) PROVE HelperInv' /\ ServiceStep
  <1>i. /\ TypeOK /\ MessageShape /\ Kinded /\ Emptied /\ AtWork /\ RunSoFar
        /\ Fresh /\ Outgoing /\ Awaiting /\ InLine
    BY DEF HelperInv, Places
  <1>u. UNCHANGED <<session, at, message, asked, store, work, client, awaits, runs>>
    BY DEF Emit
  <1>s. /\ out \in [Threads -> Seq(Ids)] /\ answers \in [Ids -> Nat]
        /\ {"reader", "worker"} = Threads /\ out[t] # <<>> /\ out[t] \in Seq(Ids)
    BY <1>i DEF TypeOK, Threads, Emit
  <1>p. PICK i \in Ids : i = Head(out[t])
    BY <1>s, ContainsTail
  <1>e. answers' = [answers EXCEPT ![i] = @ + 1] /\ out' = [out EXCEPT ![t] = Tail(@)]
    BY <1>p DEF Emit
  <1>c. /\ \A x : Contains(out[t], x) <=> x = i \/ Contains(out'[t], x)
        /\ Distinct(out'[t]) /\ ~Contains(out'[t], i) /\ out'[t] \in Seq(Ids)
        /\ \A r \in Threads : r # t => out'[r] = out[r]
        /\ out' \in [Threads -> Seq(Ids)]
    <2>1. /\ out'[t] = Tail(out[t]) /\ \A r \in Threads : r # t => out'[r] = out[r]
          /\ Distinct(out[t])
      BY <1>s, <1>e, <1>i DEF Outgoing
    <2>2. Tail(out[t]) \in Seq(Ids)
      BY <1>s, ContainsTail
    <2>3. out' \in [Threads -> Seq(Ids)]
      BY <1>s, <1>e, <2>2
    <2> QED BY <1>s, <1>p, <2>1, <2>2, <2>3, ContainsTail
  <1>o. /\ \A r \in Threads : Distinct(out'[r])
        /\ \A j \in Ids : ~(Contains(out'["reader"], j) /\ Contains(out'["worker"], j))
        /\ \A j : j # i => (Leaves(j)' <=> Leaves(j))
        /\ Leaves(i) /\ ~Leaves(i)'
    <2>1. \A r \in Threads : r # t => ~Contains(out[r], i)
      BY <1>c, <1>s, <1>i DEF Outgoing
    <2> QED BY <1>c, <1>s, <2>1, <1>i DEF Outgoing, Leaves
  <1>f. /\ answers[i] = 0 /\ answers'[i] = 1 /\ asked[i] # "none" /\ ~ReaderHas(i)
        /\ \A j \in Ids : j # i => answers'[j] = answers[j]
        /\ answers' \in [Ids -> Nat]
        /\ asked[i] = "call" => ~Queued(i) /\ ~WorkerHas(i)
        /\ \A r \in Ids : ~Contains(waiters[r], i)
    <2>1. answers[i] = 0 /\ asked[i] # "none" /\ ~ReaderHas(i)
      BY <1>o, <1>i DEF Outgoing, Kinded, Fresh
    <2>2. \A r \in Ids : ~Contains(waiters[r], i)
      <3> SUFFICES ASSUME NEW r \in Ids, Contains(waiters[r], i) PROVE FALSE
        OBVIOUS
      <3>1. awaits[i] = r /\ waiters[r] # <<>>
        BY <1>i, ContainsNone DEF Awaiting
      <3>2. task[r] = "working"
        BY <3>1, <1>i DEF AtWork
      <3> QED BY <3>1, <3>2, <1>o, <1>i DEF Outgoing, Over
    <2>3. answers'[i] = 1 /\ answers' \in [Ids -> Nat] /\ \A j \in Ids : j # i => answers'[j] = answers[j]
      BY <2>1, <1>e, <1>s
    <2> QED BY <2>1, <2>2, <2>3, <1>o, <1>i DEF Outgoing
  <1>h. \A j : /\ ReaderHas(j)' = ReaderHas(j) /\ WorkerHas(j)' = WorkerHas(j)
               /\ Queued(j)' = Queued(j) /\ Over(j)' = Over(j)
    BY <1>u DEF ReaderHas, Handling, WorkerHas, Queued, Over, store
  <1>t. TypeOK'
    BY <1>i, <1>u, <1>c, <1>f DEF TypeOK, store, client
  <1>1. MessageShape'
    BY <1>i, <1>u DEF MessageShape
  <1>2. Kinded'
    BY <1>i, <1>f, <1>h, <1>o, <1>u DEF Kinded, store
  <1>3. Fresh'
    BY <1>i, <1>f, <1>h, <1>o, <1>u DEF Fresh, store
  <1>4. Outgoing'
    BY <1>i, <1>f, <1>h, <1>o, <1>u DEF Outgoing
  <1>5. Awaiting'
    BY <1>i, <1>f, <1>u DEF Awaiting, store
  <1>6. InLine'
    BY <1>i, <1>f, <1>h, <1>u DEF InLine, store
  <1>7. AtWork'
    BY <1>i, <1>h, <1>u DEF AtWork, store
  <1>8. RunSoFar'
    BY <1>i, <1>u DEF RunSoFar
  <1>9. Emptied'
    BY <1>i, <1>c, <1>u DEF Emptied, Emit
  <1>10. ServiceStep
    <2>1. \A j \in Ids : j # i => Progress'[j] = Progress[j]
      BY <1>f, <1>h, <1>o, <1>u, InHandIs, ProgressKeeps
    <2>2. Progress[i] = "open" /\ Progress'[i] = "answered"
      BY <1>f, <1>o, <1>u, InHandIs, ProgressIs
    <2>3. awaits[i] \in Finished \cup {NoId}
      <3>1. awaits[i] \in Ids \cup {NoId}
        BY <1>i DEF TypeOK
      <3>2. \A r \in Ids : awaits[i] = r => Over(r)
        BY <1>o, <1>i DEF Outgoing
      <3> QED BY <3>1, <3>2 DEF Finished, Over
    <2> QED BY <2>1, <2>2, <2>3, <1>h, <1>u, ProgressMoves, FinishedStays, DroppedStays, ServiceAnswers
            DEF store
  <1> QED BY <1>t, <1>1, <1>2, <1>3, <1>4, <1>5, <1>6, <1>7, <1>8, <1>9, <1>10 DEF HelperInv, Places

-----------------------------------------------------------------------------
(* Steps of the worker *)

\* The next call leaves the queue for the worker.
LEMMA TakeKeeps == ASSUME HelperInv, Take PROVE HelperInv' /\ ServiceStep
  <1>i. /\ TypeOK /\ MessageShape /\ Kinded /\ Emptied /\ AtWork /\ RunSoFar
        /\ Fresh /\ Outgoing /\ Awaiting /\ InLine
    BY DEF HelperInv, Places
  <1>a. /\ at["worker"] = "idle" /\ at'["worker"] = "taken" /\ at'["reader"] = at["reader"]
        /\ at' \in [Threads -> ReaderAt \cup WorkerAt] /\ at'["worker"] \in WorkerAt
    BY <1>i, MoveTypes DEF Take, WorkerAt
  <1>u. UNCHANGED <<session, message, asked, flagged, active, task, order, waiters, stopping,
                    out, client, history>>
    BY DEF Take, WorkerKeeps
  <1>q. /\ queue \in Seq(Ids \X (1..MaxBatch)) /\ Len(queue) \in Nat /\ Len(queue) # 0
        /\ queue' = Tail(queue) /\ queue' \in Seq(Ids \X (1..MaxBatch))
        /\ Len(queue') = Len(queue) - 1 /\ \A k \in 1..Len(queue') : queue'[k] = queue[k + 1]
        /\ queue[1] \in Ids \X (1..MaxBatch) /\ Len(queue') <= MaxQueue
    <2>1. queue \in Seq(Ids \X (1..MaxBatch)) /\ queue # <<>> /\ queue' = Tail(queue)
      BY <1>i DEF Take, TypeOK
    <2>2. Len(queue) \in Nat /\ Len(queue) <= MaxQueue /\ MaxQueue \in Nat
      BY <1>i, Bounds DEF TypeOK
    <2>3. /\ Len(queue) # 0 /\ queue' \in Seq(Ids \X (1..MaxBatch))
          /\ Len(queue') = Len(queue) - 1 /\ \A k \in 1..Len(queue') : queue'[k] = queue[k + 1]
          /\ queue[1] \in Ids \X (1..MaxBatch)
      BY <2>1
    <2> QED BY <2>1, <2>2, <2>3
  <1>p. PICK i \in Ids : i = queue[1][1]
    BY <1>q
  <1>w. /\ work'.id = i /\ work'.calls \in 1..MaxBatch
        /\ work' \in [id: Ids \cup {NoId}, calls: 0..MaxBatch, tries: 0..MaxRetries]
    <2>1. queue[1][2] \in 1..MaxBatch /\ queue[1][2] \in 0..MaxBatch /\ 0 \in 0..MaxRetries
      BY <1>q, Bounds
    <2>2. work' = [id |-> queue[1][1], calls |-> queue[1][2], tries |-> 0]
      BY <1>q DEF Take
    <2> QED BY <1>p, <2>1, <2>2
  <1>h. /\ \A j : Queued(j) <=> Queued(j)' \/ j = i
        /\ ~Queued(i)'
        /\ \A k, l \in 1..Len(queue') : queue'[k][1] = queue'[l][1] => k = l
    <2>1. /\ \A k \in 1..Len(queue') : k + 1 \in 1..Len(queue) /\ queue'[k] = queue[k + 1]
          /\ \A k \in 1..Len(queue) : k = 1 \/ (k - 1 \in 1..Len(queue') /\ queue'[k - 1] = queue[k])
          /\ 1 \in 1..Len(queue)
      BY <1>q
    <2>2. \A k, l \in 1..Len(queue) : queue[k][1] = queue[l][1] => k = l
      BY <1>i DEF InLine
    <2>3. ~Queued(i)'
      <3> SUFFICES ASSUME NEW k \in 1..Len(queue'), queue'[k][1] = i PROVE FALSE
        BY DEF Queued
      <3>1. k + 1 = 1
        BY <2>1, <2>2, <1>p
      <3> QED BY <3>1
    <2>4. \A k, l \in 1..Len(queue') : queue'[k][1] = queue'[l][1] => k = l
      <3> SUFFICES ASSUME NEW k \in 1..Len(queue'), NEW l \in 1..Len(queue'),
                          queue'[k][1] = queue'[l][1]
                   PROVE  k = l
        OBVIOUS
      <3>1. /\ k + 1 \in 1..Len(queue) /\ l + 1 \in 1..Len(queue)
            /\ queue[k + 1][1] = queue[l + 1][1]
        BY <2>1
      <3>2. k + 1 = l + 1
        BY <3>1, <2>2
      <3> QED BY <3>2
    <2>5. ASSUME NEW j PROVE Queued(j) <=> Queued(j)' \/ j = i
      <3>1. ASSUME Queued(j) PROVE Queued(j)' \/ j = i
        <4>1. PICK k \in 1..Len(queue) : queue[k][1] = j
          BY <3>1 DEF Queued
        <4>2. CASE k = 1
          BY <4>1, <4>2, <1>p
        <4>3. CASE k - 1 \in 1..Len(queue') /\ queue'[k - 1] = queue[k]
          BY <4>1, <4>3 DEF Queued
        <4> QED BY <2>1, <4>2, <4>3
      <3>2. ASSUME Queued(j)' PROVE Queued(j)
        <4>1. PICK k \in 1..Len(queue') : queue'[k][1] = j
          BY <3>2 DEF Queued
        <4> QED BY <4>1, <2>1 DEF Queued
      <3>3. Queued(i)
        BY <2>1, <1>p DEF Queued
      <3> QED BY <3>1, <3>2, <3>3
    <2> QED BY <2>3, <2>4, <2>5
  <1>n. work.id = NoId /\ ~Queued(NoId)
    BY <1>a, <1>i, <1>q, Bounds DEF AtWork, Queued
  <1>k. /\ \A j : ReaderHas(j)' = ReaderHas(j)
        /\ \A j : Leaves(j)' = Leaves(j)
        /\ \A j : Over(j)' = Over(j)
        /\ \A j : WorkerHas(j)' <=> j = i
    BY <1>a, <1>u, <1>w DEF ReaderHas, Leaves, Over, WorkerHas
  <1>t. TypeOK'
    BY <1>i, <1>a, <1>q, <1>u, <1>w DEF TypeOK, client, history
  <1>1. MessageShape'
    BY <1>i, <1>a, <1>u DEF MessageShape
  <1>2. Kinded'
    BY <1>i, <1>h, <1>k, <1>u, <1>w DEF Kinded, history
  <1>3. Fresh'
    BY <1>i, <1>h, <1>k, <1>u, <1>w DEF Fresh, history
  <1>4. Outgoing'
    BY <1>i, <1>h, <1>k, <1>u DEF Outgoing, history
  <1>5. Awaiting'
    BY <1>i, <1>u DEF Awaiting, history
  <1>6. InLine'
    <2>1. \A j \in Ids : asked[j] = "call" /\ Queued(j) => answers[j] = 0
      BY <1>i DEF InLine
    <2> QED BY <2>1, <1>h, <1>k, <1>u, <1>w DEF InLine, history
  <1>7. AtWork'
    <2>1. \A j \in Ids : task[j] = "working" => Queued(j)
      BY <1>i, <1>n, Bounds DEF AtWork, WorkerHas
    <2>2. \A j \in Ids : task'[j] = "working" => Queued(j)' \/ WorkerHas(j)'
      BY <2>1, <1>h, <1>k, <1>u
    <2> QED BY <2>2, <1>i, <1>a, <1>u, <1>w DEF AtWork
  <1>8. RunSoFar'
    BY <1>i, <1>a, <1>u DEF RunSoFar, history
  <1>9. Emptied'
    BY <1>i, <1>a, <1>u DEF Emptied, Threads
  <1>10. ServiceStep
    <2>1. \A j \in Ids : InHand(j)' <=> InHand(j)
      <3>1. \A j \in Ids : ~WorkerHas(j)
        BY <1>n, Bounds DEF WorkerHas
      <3> QED BY <3>1, <1>h, <1>k, InHandIs
    <2>2. \A j \in Ids : Progress'[j] = Progress[j]
      BY <2>1, <1>u, ProgressKeeps DEF history
    <2> QED BY <1>k, <2>2, <1>u, ProgressStays, FinishedStays, DroppedStays, ServiceIdle DEF history
  <1> QED BY <1>t, <1>1, <1>2, <1>3, <1>4, <1>5, <1>6, <1>7, <1>8, <1>9, <1>10 DEF HelperInv, Places

LEMMA NoWorkTyped ==
  NoWork \in [id: Ids \cup {NoId}, calls: 0..MaxBatch, tries: 0..MaxRetries] /\ NoWork.id = NoId
  BY Bounds DEF NoWork

\* The worker lets go of a call that it need not answer any more.
LEMMA LetGo ==
  ASSUME HelperInv, TypeOK', at'["reader"] = at["reader"], at'["worker"] = "idle", work' = NoWork,
         at["worker"] # "next", work.id \in Ids, out["worker"] = <<>>,
         at["worker"] = "emit" \/ work.id \in flagged,
         \A j \in Ids : /\ task'[j] = "working" <=> task[j] = "working"
                        /\ task'[j] = "none" <=> task[j] = "none"
                        /\ Over(j)' <=> Over(j),
         UNCHANGED <<message, asked, queue, flagged, active, waiters, out, answers, awaits, runs>>
  PROVE  HelperInv' /\ ServiceStep
  <1>i. /\ TypeOK /\ MessageShape /\ Kinded /\ Emptied /\ AtWork /\ RunSoFar
        /\ Fresh /\ Outgoing /\ Awaiting /\ InLine
    BY DEF HelperInv, Places
  <1>k. /\ \A j : ReaderHas(j)' = ReaderHas(j) /\ Queued(j)' = Queued(j)
        /\ \A j : Leaves(j)' = Leaves(j)
        /\ \A j \in Ids : ~WorkerHas(j)'
        /\ work'.id = NoId
    BY NoWorkTyped, Bounds DEF ReaderHas, Queued, Leaves, WorkerHas
  <1>1. MessageShape'
    BY <1>i DEF MessageShape
  <1>2. Kinded'
    BY <1>i, <1>k, Bounds DEF Kinded
  <1>3. Fresh'
    BY <1>i, <1>k, Bounds DEF Fresh
  <1>4. Outgoing'
    BY <1>i, <1>k DEF Outgoing
  <1>5. Awaiting'
    BY <1>i DEF Awaiting
  <1>6. InLine'
    BY <1>i, <1>k, Bounds DEF InLine
  <1>7. AtWork'
    <2>1. \A j \in Ids : task[j] = "working" => Queued(j)
      BY <1>i DEF AtWork, Kinded, WorkerHas
    <2> QED BY <2>1, <1>i, <1>k DEF AtWork
  <1>8. RunSoFar'
    BY <1>i DEF RunSoFar
  <1>9. Emptied'
    BY <1>i DEF Emptied, Threads
  <1>10. ServiceStep
    <2>p. PICK i \in Ids : i = work.id
      OBVIOUS
    <2>1. \A j \in Ids : j # i => Progress'[j] = Progress[j]
      <3>1. \A j \in Ids : j # i => ~WorkerHas(j)
        BY <2>p DEF WorkerHas
      <3> QED BY <3>1, <1>k, InHandIs, ProgressKeeps
    <2>2. UNCHANGED <<Finished, Dropped>>
      BY FinishedStays, DroppedStays
    <2>3. CASE at["worker"] = "emit" \/ asked[i] # "call"
      <3>1. asked[i] = "call" => (InHand(i)' <=> InHand(i))
        BY <2>3, <1>k, InHandIs DEF WorkerHas
      <3>2. Progress'[i] = Progress[i]
        BY <3>1, ProgressKeeps
      <3> QED BY <2>1, <2>2, <3>2, ProgressStays, ServiceIdle
    <2>4. CASE at["worker"] # "emit" /\ asked[i] = "call"
      <3>1. WorkerHas(i) /\ i \in flagged
        BY <2>4, <2>p DEF WorkerHas
      <3>2. answers[i] = 0 /\ ~Leaves(i) /\ ~Queued(i) /\ ~ReaderHas(i)
        BY <3>1, <2>4, <2>p, <1>i DEF InLine, Outgoing, Fresh
      <3>3. Progress[i] = "open" /\ Progress'[i] = "withdrawn"
        BY <2>4, <3>1, <3>2, <1>k, InHandIs, ProgressIs
      <3>4. i \in Dropped
        BY <2>4, <3>1 DEF Dropped
      <3> QED BY <2>1, <2>2, <3>3, <3>4, ProgressMoves, ServiceWithdraws
    <2> QED BY <2>3, <2>4
  <1> QED BY <1>1, <1>2, <1>3, <1>4, <1>5, <1>6, <1>7, <1>8, <1>9, <1>10 DEF HelperInv, Places

LEMMA SkipKeeps == ASSUME HelperInv, Skip PROVE HelperInv' /\ ServiceStep
  <1>i. TypeOK /\ Kinded /\ Emptied
    BY DEF HelperInv
  <1>a. /\ at["worker"] = "taken" /\ at'["worker"] = "idle" /\ at'["reader"] = at["reader"]
        /\ at' \in [Threads -> ReaderAt \cup WorkerAt] /\ at'["worker"] \in WorkerAt
    BY <1>i, MoveTypes DEF Skip, WorkerAt
  <1>u. UNCHANGED <<session, message, asked, queue, flagged, active, order, waiters, stopping,
                    out, client, history>>
    BY DEF Skip, WorkerKeeps
  <1>w. work.id \in flagged /\ work.id \in Ids /\ work' = NoWork
    BY <1>i DEF Skip, TypeOK
  <1>p. PICK i \in Ids : i = work.id
    BY <1>w
  <1>s. /\ task' \in [Ids -> {"none", "working", "completed", "cancelled", "purged"}]
        /\ \A j \in Ids : j # i => task'[j] = task[j]
        /\ task'[i] = IF task[i] \in {"none", "purged"} THEN task[i] ELSE "cancelled"
        /\ task[i] # "working"
    <2>1. task' = [task EXCEPT ![i] = IF @ \in {"none", "purged"} THEN @ ELSE "cancelled"]
      BY <1>p DEF Skip
    <2>2. task \in [Ids -> {"none", "working", "completed", "cancelled", "purged"}]
      BY <1>i DEF TypeOK
    <2>3. task[i] # "working"
      BY <1>i, <1>p, <1>w DEF Kinded
    <2> QED BY <2>1, <2>2, <2>3
  <1>k. \A j \in Ids : /\ task'[j] = "working" <=> task[j] = "working"
                       /\ task'[j] = "none" <=> task[j] = "none"
                       /\ Over(j)' <=> Over(j)
    BY <1>s, <1>i DEF Over, TypeOK
  <1>t. TypeOK'
    BY <1>i, <1>a, <1>u, <1>w, <1>s, NoWorkTyped DEF TypeOK, client, history
  <1>o. out["worker"] = <<>>
    BY <1>i, <1>a DEF Emptied, Threads
  <1> QED BY <1>o, <1>a, <1>u, <1>w, <1>k, <1>t, LetGo DEF history

LEMMA WorkerDoneKeeps == ASSUME HelperInv, WorkerDone PROVE HelperInv' /\ ServiceStep
  <1>i. TypeOK /\ AtWork
    BY DEF HelperInv
  <1>a. /\ at["worker"] = "emit" /\ at'["worker"] = "idle" /\ at'["reader"] = at["reader"]
        /\ at' \in [Threads -> ReaderAt \cup WorkerAt] /\ at'["worker"] \in WorkerAt
    BY <1>i, MoveTypes DEF WorkerDone, WorkerAt
  <1>u. /\ UNCHANGED <<session, message, asked, store, out, client, history>> /\ work' = NoWork
        /\ out["worker"] = <<>>
    BY DEF WorkerDone, WorkerKeeps
  <1>w. work.id \in Ids
    BY <1>a, <1>i DEF AtWork
  <1>k. \A j \in Ids : task'[j] = task[j] /\ Over(j)' = Over(j)
    BY <1>u DEF Over, store
  <1>t. TypeOK'
    BY <1>i, <1>a, <1>u, NoWorkTyped DEF TypeOK, store, client, history
  <1> QED BY <1>a, <1>u, <1>w, <1>k, <1>t, LetGo DEF history, store

\* The worker's answers take the place of its output, which was its own to fill.
LEMMA WorkerAnswers ==
  ASSUME HelperInv, NEW s \in Seq(Ids), Distinct(s), at["worker"] # "emit",
         out' = [out EXCEPT !["worker"] = s],
         \A j \in Ids : Contains(s, j) => ~Leaves(j)
  PROVE  /\ out' \in [Threads -> Seq(Ids)]
         /\ \A t \in Threads : Distinct(out'[t])
         /\ \A j \in Ids : ~(Contains(out'["reader"], j) /\ Contains(out'["worker"], j))
         /\ \A j : Leaves(j)' <=> Leaves(j) \/ Contains(s, j)
         /\ out'["reader"] = out["reader"]
  <1>1. /\ out \in [Threads -> Seq(Ids)] /\ {"reader", "worker"} = Threads
        /\ \A t \in Threads : Distinct(out[t])
        /\ out["worker"] = <<>>
    BY DEF HelperInv, TypeOK, Places, Outgoing, Emptied, Threads
  <1>2. out'["worker"] = s /\ out'["reader"] = out["reader"] /\ out' \in [Threads -> Seq(Ids)]
    BY <1>1
  <1> QED BY <1>1, <1>2, ContainsNone DEF Leaves

LEMMA CompleteTaskKeeps == ASSUME HelperInv, CompleteTask PROVE HelperInv' /\ ServiceStep
  <1>i. /\ TypeOK /\ MessageShape /\ Kinded /\ Emptied /\ AtWork /\ RunSoFar
        /\ Fresh /\ Outgoing /\ Awaiting /\ InLine
    BY DEF HelperInv, Places
  <1>a. /\ at["worker"] = "complete" /\ at'["worker"] = "emit" /\ at'["reader"] = at["reader"]
        /\ at' \in [Threads -> ReaderAt \cup WorkerAt] /\ at'["worker"] \in WorkerAt
    BY <1>i, MoveTypes DEF CompleteTask, WorkerAt
  <1>u. UNCHANGED <<session, message, asked, queue, flagged, active, order, stopping, work,
                    client, history>>
    BY DEF CompleteTask, WorkerKeeps
  <1>w. work.id \in Ids /\ asked[work.id] = "task"
    BY <1>a, <1>i DEF AtWork, CompleteTask
  <1>p. PICK i \in Ids : i = work.id
    BY <1>w
  <1>s. /\ task \in [Ids -> {"none", "working", "completed", "cancelled", "purged"}]
        /\ waiters \in [Ids -> Seq(Ids)] /\ out \in [Threads -> Seq(Ids)]
    BY <1>i DEF TypeOK
  \* The task is over, and whoever waited for it leaves.
  <1>c. /\ task' \in [Ids -> {"none", "working", "completed", "cancelled", "purged"}]
        /\ waiters' \in [Ids -> Seq(Ids)] /\ out' \in [Threads -> Seq(Ids)]
        /\ \A j \in Ids : task'[j] = "working" <=> task[j] = "working" /\ j # i
        /\ \A j \in Ids : task'[j] = "none" <=> task[j] = "none"
        /\ \A j \in Ids : Over(j)' <=> Over(j) \/ (j = i /\ task[i] = "working")
        /\ \A j \in Ids : j # i => waiters'[j] = waiters[j]
        /\ waiters'[i] = <<>>
        /\ \A t \in Threads : Distinct(out'[t])
        /\ \A j \in Ids : ~(Contains(out'["reader"], j) /\ Contains(out'["worker"], j))
        /\ \A j : Leaves(j)' <=> Leaves(j) \/ Contains(waiters[i], j)
        /\ \A j : Contains(waiters[i], j) => Over(i)'
        /\ out'["reader"] = out["reader"]
    <2>1. CASE task[i] = "working"
      <3>1. /\ task' = [task EXCEPT ![i] = "completed"]
            /\ out' = [out EXCEPT !["worker"] = waiters[i]]
            /\ waiters' = [waiters EXCEPT ![i] = <<>>]
        BY <2>1, <1>p DEF CompleteTask, TaskAnswers
      <3>2. /\ task' \in [Ids -> {"none", "working", "completed", "cancelled", "purged"}]
            /\ task'[i] = "completed" /\ \A j \in Ids : j # i => task'[j] = task[j]
        BY <3>1, <1>s
      <3>3. Over(i)' /\ \A j \in Ids : Over(j)' <=> Over(j) \/ j = i
        BY <3>2 DEF Over
      <3>4. /\ waiters' \in [Ids -> Seq(Ids)] /\ waiters'[i] = <<>>
            /\ \A j \in Ids : j # i => waiters'[j] = waiters[j]
        BY <3>1, <1>s
      <3>5. \A j \in Ids : Contains(waiters[i], j) => ~Leaves(j)
        BY <2>1, <1>i DEF Awaiting, Outgoing, Over
      <3>6. waiters[i] \in Seq(Ids) /\ Distinct(waiters[i])
        BY <1>s, <1>i DEF Awaiting
      <3>7. /\ out' \in [Threads -> Seq(Ids)]
            /\ \A t \in Threads : Distinct(out'[t])
            /\ \A j \in Ids : ~(Contains(out'["reader"], j) /\ Contains(out'["worker"], j))
            /\ \A j : Leaves(j)' <=> Leaves(j) \/ Contains(waiters[i], j)
            /\ out'["reader"] = out["reader"]
        BY <1>a, <3>1, <3>5, <3>6, WorkerAnswers
      <3> QED BY <2>1, <3>2, <3>3, <3>4, <3>7
    <2>2. CASE task[i] # "working"
      <3>1. UNCHANGED <<task, out, waiters>>
        BY <2>2, <1>p DEF CompleteTask
      <3>2. waiters[i] = <<>>
        BY <2>2, <1>i DEF AtWork
      <3>3. \A j : Leaves(j)' = Leaves(j)
        BY <3>1 DEF Leaves
      <3>4. \A j : Over(j)' = Over(j)
        BY <3>1 DEF Over
      <3> QED BY <2>2, <3>1, <3>2, <3>3, <3>4, <1>s, <1>i, ContainsNone DEF Outgoing
    <2> QED BY <2>1, <2>2
  <1>k. /\ \A j : ReaderHas(j)' = ReaderHas(j) /\ Queued(j)' = Queued(j)
        /\ \A j : ~WorkerHas(j)'
        /\ \A j : WorkerHas(j) <=> j = i
    BY <1>a, <1>u, <1>p DEF ReaderHas, Queued, WorkerHas
  <1>n. \A j \in Ids : Contains(waiters[i], j) =>
          awaits[j] = i /\ answers[j] = 0 /\ asked[j] = "result" /\ ~ReaderHas(j)
    BY <1>i, Bounds DEF Awaiting, Kinded, Fresh
  <1>t. TypeOK'
    BY <1>i, <1>a, <1>u, <1>c DEF TypeOK, client, history
  <1>1. MessageShape'
    BY <1>i, <1>a, <1>u DEF MessageShape
  <1>2. Kinded'
    BY <1>i, <1>c, <1>k, <1>n, <1>u DEF Kinded, history
  <1>3. Fresh'
    BY <1>i, <1>c, <1>k, <1>n, <1>u DEF Fresh, history
  <1>4. Outgoing'
    <2>1. ASSUME NEW j \in Ids, Leaves(j)'
          PROVE  /\ answers'[j] = 0
                 /\ \A t \in Ids : awaits'[j] = t => Over(t)'
                 /\ asked'[j] = "call" => ~Queued(j)' /\ ~WorkerHas(j)'
      <3>1. CASE Leaves(j)
        BY <3>1, <1>i, <1>c, <1>k, <1>u DEF Outgoing, history
      <3>2. CASE Contains(waiters[i], j)
        BY <3>2, <1>c, <1>n, <1>u DEF history
      <3> QED BY <2>1, <3>1, <3>2, <1>c
    <2> QED BY <2>1, <1>c DEF Outgoing
  <1>5. Awaiting'
    <2>1. ASSUME NEW s \in Ids PROVE Distinct(waiters'[s])
      BY <1>i, <1>c, DistinctNone DEF Awaiting
    <2>2. \A s, j \in Ids : Contains(waiters'[s], j) => Contains(waiters[s], j)
      BY <1>c, ContainsNone
    <2> QED BY <2>1, <2>2, <1>i, <1>u DEF Awaiting, history
  <1>6. InLine'
    BY <1>i, <1>k, <1>u DEF InLine, history
  <1>7. AtWork'
    <2>1. \A j \in Ids : task'[j] = "working" => Queued(j)' \/ WorkerHas(j)'
      BY <1>i, <1>c, <1>k DEF AtWork
    <2>2. \A j \in Ids : waiters'[j] # <<>> => task'[j] = "working"
      BY <1>i, <1>c DEF AtWork
    <2> QED BY <2>1, <2>2, <1>i, <1>a, <1>u, <1>w DEF AtWork
  <1>8. RunSoFar'
    BY <1>i, <1>a, <1>u DEF RunSoFar, history
  <1>9. Emptied'
    BY <1>i, <1>a, <1>c DEF Emptied, Threads
  <1>10. ServiceStep
    <2>1. \A j \in Ids : asked[j] = "call" => (InHand(j)' <=> InHand(j))
      <3>1. \A j \in Ids : asked[j] = "call" => j # i /\ ~Contains(waiters[i], j)
        BY <1>n, <1>p, <1>w
      <3> QED BY <3>1, <1>c, <1>k, InHandIs
    <2>2. \A j \in Ids : Progress'[j] = Progress[j]
      BY <2>1, <1>u, ProgressKeeps DEF history
    <2>3. UNCHANGED <<Progress, awaits, Dropped>>
      BY <2>2, <1>u, ProgressStays, DroppedStays DEF history
    <2>4. CASE task[i] = "working"
      <3>1. Progress[i] # "new"
        <4>1. answers[i] \in {0, 1}
          BY <1>i DEF TypeOK, Fresh
        <4> QED BY <4>1, <1>p, <1>w, ProgressIs
      <3>2. i \notin Finished /\ Finished' = Finished \cup {i}
        BY <2>4, <1>c DEF Finished, Over
      <3> QED BY <2>3, <3>1, <3>2, ServiceFinishes
    <2>5. CASE task[i] # "working"
      <3>1. Finished' = Finished
        BY <2>5, <1>c, FinishedStays
      <3> QED BY <2>3, <3>1, ServiceIdle
    <2> QED BY <2>4, <2>5
  <1> QED BY <1>t, <1>1, <1>2, <1>3, <1>4, <1>5, <1>6, <1>7, <1>8, <1>9, <1>10 DEF HelperInv, Places

LEMMA CompleteCallKeeps == ASSUME HelperInv, CompleteCall PROVE HelperInv' /\ ServiceStep
  <1>i. /\ TypeOK /\ MessageShape /\ Kinded /\ Emptied /\ AtWork /\ RunSoFar
        /\ Fresh /\ Outgoing /\ Awaiting /\ InLine
    BY DEF HelperInv, Places
  <1>a. /\ at["worker"] = "complete" /\ at'["worker"] = "emit" /\ at'["reader"] = at["reader"]
        /\ at' \in [Threads -> ReaderAt \cup WorkerAt] /\ at'["worker"] \in WorkerAt
    BY <1>i, MoveTypes DEF CompleteCall, WorkerAt
  <1>u. UNCHANGED <<session, message, asked, queue, flagged, task, order, waiters, stopping, work,
                    client, history>>
    BY DEF CompleteCall, WorkerKeeps
  <1>w. work.id \in Ids /\ asked[work.id] = "call"
    BY <1>a, <1>i DEF AtWork, CompleteCall
  <1>p. PICK i \in Ids : i = work.id
    BY <1>w
  <1>k. /\ \A j : ReaderHas(j)' = ReaderHas(j) /\ Queued(j)' = Queued(j)
        /\ \A j : ~WorkerHas(j)'
        /\ \A j : WorkerHas(j) <=> j = i
        /\ \A j : Over(j)' = Over(j)
    BY <1>a, <1>u, <1>p DEF ReaderHas, Queued, WorkerHas, Over
  <1>f. /\ answers[i] = 0 /\ awaits[i] = NoId /\ ~Leaves(i) /\ ~Queued(i) /\ ~ReaderHas(i)
        /\ task[i] = "none"
    <2>1. asked[i] = "call" /\ WorkerHas(i) /\ work.id = i
      BY <1>w, <1>p, <1>k
    <2>2. ~Leaves(i)
      BY <2>1, <1>i DEF Outgoing
    <2>3. task[i] = "none" /\ awaits[i] = NoId
      BY <2>1, <1>i DEF Kinded
    <2> QED BY <2>1, <2>2, <2>3, <1>i DEF InLine, Fresh
  <1>o. /\ out' \in [Threads -> Seq(Ids)]
        /\ \A t \in Threads : Distinct(out'[t])
        /\ \A j \in Ids : ~(Contains(out'["reader"], j) /\ Contains(out'["worker"], j))
        /\ \A j : j # i => (Leaves(j)' <=> Leaves(j))
        /\ Leaves(i)' <=> i \notin flagged
        /\ out'["reader"] = out["reader"]
    <2>1. PICK s \in {<<>>, <<i>>} :
            out' = [out EXCEPT !["worker"] = s] /\ s = IF i \in flagged THEN <<>> ELSE <<i>>
      BY <1>p DEF CompleteCall
    <2>2. s \in Seq(Ids) /\ Distinct(s) /\ \A j : Contains(s, j) <=> j = i /\ s = <<i>>
      <3>0. <<i>> # <<>>
        OBVIOUS
      <3>1. <<>> \in Seq(Ids)
        OBVIOUS
      <3>2. CASE s = <<>>
        BY <3>1, <3>2, <3>0, DistinctNone, ContainsNone
      <3>3. CASE s = <<i>>
        BY <3>3, OneIn
      <3> QED BY <2>1, <3>2, <3>3
    <2>3. /\ out' \in [Threads -> Seq(Ids)]
          /\ \A t \in Threads : Distinct(out'[t])
          /\ \A j \in Ids : ~(Contains(out'["reader"], j) /\ Contains(out'["worker"], j))
          /\ \A j : Leaves(j)' <=> Leaves(j) \/ Contains(s, j)
          /\ out'["reader"] = out["reader"]
      <3>1. \A j \in Ids : Contains(s, j) => ~Leaves(j)
        BY <2>2, <1>f
      <3>2. at["worker"] # "emit"
        BY <1>a
      <3> QED BY <2>1, <2>2, <3>1, <3>2, WorkerAnswers
    <2>4. Contains(s, i) <=> i \notin flagged
      BY <2>1, OneIn, ContainsNone
    <2> QED BY <2>2, <2>3, <2>4, <1>f
  <1>c. active' \subseteq active
    BY DEF CompleteCall
  <1>t. TypeOK'
    BY <1>i, <1>a, <1>u, <1>o, <1>c DEF TypeOK, client, history
  <1>1. MessageShape'
    BY <1>i, <1>a, <1>u DEF MessageShape
  <1>2. Kinded'
    BY <1>i, <1>c, <1>k, <1>o, <1>p, <1>w, <1>u DEF Kinded, history
  <1>3. Fresh'
    BY <1>i, <1>k, <1>o, <1>f, <1>u DEF Fresh, history
  <1>4. Outgoing'
    BY <1>i, <1>k, <1>o, <1>f, <1>u, Bounds DEF Outgoing, history
  <1>5. Awaiting'
    BY <1>i, <1>u DEF Awaiting, history
  <1>6. InLine'
    BY <1>i, <1>k, <1>u DEF InLine, history
  <1>7. AtWork'
    BY <1>i, <1>a, <1>f, <1>k, <1>u, <1>w DEF AtWork
  <1>8. RunSoFar'
    BY <1>i, <1>a, <1>u DEF RunSoFar, history
  <1>9. Emptied'
    BY <1>i, <1>a, <1>o DEF Emptied, Threads
  <1>10. ServiceStep
    <2>1. \A j \in Ids : j # i => Progress'[j] = Progress[j]
      BY <1>k, <1>o, <1>u, InHandIs, ProgressKeeps DEF history
    <2>2. UNCHANGED <<awaits, Finished, Dropped>>
      BY <1>k, <1>u, FinishedStays, DroppedStays DEF history
    <2>3. Progress[i] = "open" /\ InHand(i) /\ asked[i] = "call"
      BY <1>f, <1>k, <1>p, <1>w, InHandIs, ProgressIs
    <2>4. CASE i \in flagged
      <3>1. Progress'[i] = "withdrawn"
        BY <2>3, <2>4, <1>f, <1>k, <1>o, <1>u, InHandIs, ProgressIs DEF history
      <3>2. i \in Dropped
        BY <2>3, <2>4 DEF Dropped
      <3> QED BY <2>1, <2>2, <2>3, <3>1, <3>2, ProgressMoves, ServiceWithdraws
    <2>5. CASE i \notin flagged
      <3>1. Progress'[i] = Progress[i]
        BY <2>3, <2>5, <1>o, <1>u, InHandIs, ProgressKeeps DEF history
      <3> QED BY <2>1, <2>2, <3>1, ProgressStays, ServiceIdle
    <2> QED BY <2>4, <2>5
  <1> QED BY <1>t, <1>1, <1>2, <1>3, <1>4, <1>5, <1>6, <1>7, <1>8, <1>9, <1>10 DEF HelperInv, Places

-----------------------------------------------------------------------------
(* The theorems *)

LEMMA QuietStep ==
  ASSUME HelperInv,
         \/ Initialize \/ EndOfInput \/ Joined \/ Quit \/ Execute \/ CheckPermission
         \/ WriteUnconnected \/ WriteFails \/ Write \/ StartRead \/ ReadResult \/ ReadRetry
         \/ ReadFails \/ NextCall \/ (\E t \in Threads : Connect(t))
  PROVE  HelperInv' /\ ServiceStep
  <1>1. TypeOK' /\ Quiet
    BY InitializeQuiet, EndOfInputQuiet, JoinedQuiet, QuitQuiet, ExecuteQuiet, CheckPermissionQuiet,
       WriteUnconnectedQuiet, WriteFailsQuiet, WriteQuiet, StartReadQuiet, ReadResultQuiet,
       ReadRetryQuiet, ReadFailsQuiet, NextCallQuiet, ConnectQuiet
  <1> QED BY <1>1, QuietKeeps

LEMMA IdleStep == ASSUME HelperInv, UNCHANGED vars PROVE HelperInv' /\ ServiceStep
  <1>i. TypeOK /\ AtWork /\ RunSoFar
    BY DEF HelperInv
  <1>u. UNCHANGED <<session, at, message, asked, store, work, out, pipe, pid, line, heard, answers,
                    awaits, runs>>
    BY DEF vars, client, history
  <1>1. Quiet
    BY <1>i, <1>u DEF AtWork, RunSoFar, Quiet
  <1>2. TypeOK'
    BY <1>i, <1>u, StepTypes DEF TypeOK
  <1> QED BY <1>1, <1>2, QuietKeeps

LEMMA HelperStep == ASSUME HelperInv, [Next]_vars PROVE HelperInv' /\ ServiceStep
  <1>1. CASE Receive
    BY <1>1, ReceiveKeeps
  <1>2. CASE Reader
    <2>1. CASE Submit \/ TaskRequest
      BY <2>1, SubmitKeeps, TaskRequestKeeps
    <2>2. CASE CancelRequest \/ ListTools \/ ReaderDone \/ Stop
      BY <2>2, CancelRequestKeeps, ListToolsKeeps, ReaderDoneKeeps, StopKeeps
    <2>3. CASE Emit("reader") \/ Joined \/ Connect("reader")
      BY <2>3, EmitKeeps, QuietStep DEF Threads
    <2> QED BY <1>2, <2>1, <2>2, <2>3 DEF Reader
  <1>3. CASE Worker
    <2>1. CASE Take \/ Skip
      BY <2>1, TakeKeeps, SkipKeeps
    <2>2. CASE CompleteTask \/ CompleteCall \/ WorkerDone
      BY <2>2, CompleteTaskKeeps, CompleteCallKeeps, WorkerDoneKeeps
    <2>3. CASE Emit("worker") \/ Connect("worker")
      BY <2>3, EmitKeeps, QuietStep DEF Threads
    <2>4. CASE Quit \/ Execute \/ CheckPermission \/ Transact \/ NextCall
      BY <2>4, QuietStep DEF Transact, ReadInvalid
    <2> QED BY <1>3, <2>1, <2>2, <2>3, <2>4 DEF Worker
  <1>4. CASE Initialize \/ EndOfInput \/ ReadFails
    BY <1>4, QuietStep
  <1>5. CASE UNCHANGED vars
    BY <1>5, IdleStep
  <1> QED BY <1>1, <1>2, <1>3, <1>4, <1>5 DEF Next

\* Every answer has one place to come from, a thread has answers only while it
\* gives them, and a task at work is queued or with the worker (request_dispatcher,
\* its queue and its store of tasks).
THEOREM AnswersHavePlaces == Spec => []HelperInv
  <1>1. HelperInv /\ [Next]_vars => HelperInv'
    BY HelperStep
  <1> QED BY InvStart, <1>1, PTL DEF Spec

\* Whoever waits in tasks/result waits for a task that the worker has or will have.
THEOREM WaitersAreServed == Spec => []WaitersServed
  <1>1. HelperInv => WaitersServed
    <2> SUFFICES ASSUME HelperInv, NEW t \in Ids, waiters[t] # <<>>
                 PROVE  task[t] = "working" /\ (Queued(t) \/ (work.id = t /\ at["worker"] \notin {"idle", "emit"}))
      BY DEF WaitersServed
    <2>1. task[t] = "working" /\ (Queued(t) \/ WorkerHas(t))
      BY DEF HelperInv, AtWork
    <2>2. WorkerHas(t) => at["worker"] # "idle"
      BY Bounds DEF HelperInv, AtWork, WorkerHas
    <2> QED BY <2>1, <2>2 DEF WorkerHas
  <1> QED BY <1>1, AnswersHavePlaces, PTL

\* The game runs a bridge request once, whatever the worker retries (PipeClient::transact).
THEOREM RunAtMostOnce == Spec => []RunsOnce
  <1>1. HelperInv => RunsOnce
    BY DEF HelperInv, RunSoFar, RunsOnce
  <1> QED BY <1>1, AnswersHavePlaces, PTL

\* The helper implements RequestService: a request is answered at most once,
\* tasks/result only when its task is over, and only cancelled calls stay
\* without an answer.
THEOREM ServiceImplemented == Spec => ImplementsService
  <1>1. Init => Service!Init
    <2> SUFFICES ASSUME Init PROVE Service!Init
      OBVIOUS
    <2>1. Progress = [i \in Ids |-> "new"]
      BY DEF Init, Progress
    <2>2. Finished = {} /\ Dropped = {} /\ awaits = [i \in Ids |-> NoId]
      BY DEF Init, Finished, Dropped
    <2> QED BY <2>1, <2>2 DEF Service!Init
  <1>2. HelperInv /\ [Next]_vars => [Service!Next]_(Service!vars)
    BY HelperStep DEF ServiceStep
  <1> QED BY <1>1, <1>2, AnswersHavePlaces, PTL DEF Spec, ImplementsService, Service!Spec
=============================================================================
