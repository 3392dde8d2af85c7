------------------------------- MODULE Mounts -------------------------------
(***************************************************************************)
(* What the daemon promises the kernel about drives: a drive is unmounted  *)
(* only when nothing is open on it, and refused only when something is.    *)
(***************************************************************************)
CONSTANTS Drives, Handles, Null

VARIABLES
  running,   \* the daemon is there
  mounted,   \* the drives that have a volume
  open,      \* per handle: the drive it is open on, or Null
  reply      \* the result of the last call

vars == <<running, mounted, open, reply>>

Init ==
  /\ running = TRUE /\ mounted = {}
  /\ open = [h \in Handles |-> Null]
  /\ reply = "ok"

InUse(d) == \E h \in Handles : open[h] = d

Mount(d) ==
  /\ running /\ d \notin mounted
  /\ mounted' = mounted \cup {d} /\ reply' = "ok"
  /\ UNCHANGED <<running, open>>

\* Without a daemon there is nothing to protect.
Unmount(d) ==
  /\ d \in mounted /\ (running => ~InUse(d))
  /\ mounted' = mounted \ {d} /\ reply' = "ok"
  /\ UNCHANGED <<running, open>>

Refuse(d) ==
  /\ d \in mounted /\ InUse(d)
  /\ reply' = "locked"
  /\ UNCHANGED <<running, mounted, open>>

Open(h, d) ==
  /\ running /\ d \in mounted /\ open[h] = Null
  /\ open' = [open EXCEPT ![h] = d] /\ reply' = "ok"
  /\ UNCHANGED <<running, mounted>>

Close(h) ==
  /\ open[h] # Null
  /\ open' = [open EXCEPT ![h] = Null]
  /\ reply' = IF running THEN "ok" ELSE "error"
  /\ UNCHANGED <<running, mounted>>

\* A call that changes nothing.
Other == reply' \in {"ok", "error"} /\ UNCHANGED <<running, mounted, open>>

Stop == running /\ running' = FALSE /\ UNCHANGED <<mounted, open, reply>>

Restart ==
  /\ ~running /\ mounted = {} /\ \A h \in Handles : open[h] = Null
  /\ running' = TRUE /\ UNCHANGED <<mounted, open, reply>>

Next ==
  \/ \E d \in Drives : Mount(d) \/ Unmount(d) \/ Refuse(d)
  \/ \E h \in Handles, d \in Drives : Open(h, d)
  \/ \E h \in Handles : Close(h)
  \/ Other \/ Stop \/ Restart

Spec == Init /\ [][Next]_vars

=============================================================================
