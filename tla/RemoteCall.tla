----------------------------- MODULE RemoteCall -----------------------------
(***************************************************************************)
(* What the stub driver promises the threads that call the file system: a  *)
(* call is performed by the daemon at most once, one call at a time, a     *)
(* result comes only from a call that was performed, and an error without  *)
(* the daemon's word only while no daemon is attached or for arguments     *)
(* that cannot be accepted.                                                *)
(***************************************************************************)
CONSTANTS
  Callers,    \* the threads
  MayReject   \* whether callers may pass arguments that cannot be accepted

VARIABLES
  up,      \* a daemon is attached
  state,   \* per thread: "idle", "called", or "done": performed, not returned
  result   \* per thread: what the last call returned

vars == <<up, state, result>>

Init ==
  /\ up = FALSE
  /\ state = [c \in Callers |-> "idle"]
  /\ result = [c \in Callers |-> "none"]

Attach == ~up /\ up' = TRUE /\ UNCHANGED <<state, result>>

Detach == up /\ up' = FALSE /\ UNCHANGED <<state, result>>

Call(c) ==
  /\ up /\ state[c] = "idle"
  /\ state' = [state EXCEPT ![c] = "called"]
  /\ result' = [result EXCEPT ![c] = "none"]
  /\ UNCHANGED up

\* The daemon performs the call, when the result of every other one has been
\* collected.
Perform(c) ==
  /\ up /\ state[c] = "called"
  /\ \A e \in Callers : state[e] # "done"
  /\ state' = [state EXCEPT ![c] = "done"]
  /\ UNCHANGED <<up, result>>

Finish(c, r) ==
  /\ state' = [state EXCEPT ![c] = "idle"]
  /\ result' = [result EXCEPT ![c] = r]
  /\ UNCHANGED up

Answer(c) == state[c] = "done" /\ Finish(c, "answer")

NoDaemon(c) == ~up /\ \E r \in {"error", "skipped"} : Finish(c, r)

Reject(c) == MayReject /\ Finish(c, "error")

Next ==
  \/ Attach \/ Detach
  \/ \E c \in Callers : Call(c) \/ Perform(c) \/ Answer(c) \/ NoDaemon(c) \/ Reject(c)

Spec == Init /\ [][Next]_vars

=============================================================================
