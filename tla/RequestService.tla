--------------------------- MODULE RequestService ---------------------------
(***************************************************************************)
(* What the helper promises the client at the other end of stdio: each     *)
(* request is answered at most once; only a cancelled tool call may stay   *)
(* without an answer; and whoever waits in tasks/result is answered only   *)
(* when the task is over.                                                  *)
(***************************************************************************)
CONSTANTS
  Ids,   \* JSON-RPC ids of the requests
  NoId

VARIABLES
  status,  \* what became of each request
  awaited, \* the unfinished task a tasks/result request waits for
  over,    \* tasks that completed or were cancelled
  dropped  \* plain calls that were cancelled, by the client or by its leaving

vars == <<status, awaited, over, dropped>>

Init ==
  /\ status = [i \in Ids |-> "new"]
  /\ awaited = [i \in Ids |-> NoId]
  /\ over = {} /\ dropped = {}

Receive(i) ==
  /\ status[i] = "new"
  /\ status' = [status EXCEPT ![i] = "open"]
  /\ UNCHANGED <<awaited, over, dropped>>

Await(i, task) ==
  /\ status[i] = "open" /\ awaited[i] = NoId /\ task \notin over
  /\ awaited' = [awaited EXCEPT ![i] = task]
  /\ UNCHANGED <<status, over, dropped>>

Finish(task) ==
  /\ status[task] # "new" /\ task \notin over
  /\ over' = over \cup {task}
  /\ UNCHANGED <<status, awaited, dropped>>

Cancel(calls) ==
  /\ dropped' = dropped \cup calls
  /\ UNCHANGED <<status, awaited, over>>

Answer(i) ==
  /\ status[i] = "open" /\ awaited[i] \in over \cup {NoId}
  /\ status' = [status EXCEPT ![i] = "answered"]
  /\ UNCHANGED <<awaited, over, dropped>>

Withdraw(i) ==
  /\ status[i] = "open" /\ i \in dropped
  /\ status' = [status EXCEPT ![i] = "withdrawn"]
  /\ UNCHANGED <<awaited, over, dropped>>

Next ==
  \/ \E i \in Ids : Receive(i) \/ Finish(i) \/ Answer(i) \/ Withdraw(i)
  \/ \E i, task \in Ids : Await(i, task)
  \/ \E calls \in SUBSET Ids : Cancel(calls)

Spec == Init /\ [][Next]_vars
=============================================================================
