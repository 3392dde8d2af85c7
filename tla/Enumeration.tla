----------------------------- MODULE Enumeration -----------------------------
(***************************************************************************)
(* What a search promises its caller: every entry that matches comes once, *)
(* in the order of the directory, in as many portions as the caller likes. *)
(* A call that fails takes nothing from what is left, unless its results   *)
(* could not be handed over.                                               *)
(***************************************************************************)
EXTENDS Integers, Sequences

CONSTANT Matching   \* per attributes of a search: the places of the entries that match

VARIABLES
  left,      \* what has still to be returned; Closed without a search
  rc, items  \* the result of the last call, and the entries it has returned

vars == <<left, rc, items>>

Closed == {0}   \* no entry is numbered 0

Init == left = Closed /\ rc = "NO_ERROR" /\ items = <<>>

\* A sequence of all the entries of a set in the order of the directory.
InOrder(s, entries) ==
  /\ s \in Seq(entries) /\ \A i \in entries : \E k \in DOMAIN s : s[k] = i
  /\ \A j, k \in DOMAIN s : j < k => s[j] < s[k]

\* A portion: all entries up to one of them, or the first, whose extended attributes did
\* not fit.
Portion(all) ==
  \E last \in all :
    /\ \/ rc' = "NO_ERROR"
       \/ rc' = "ERROR_EAS_DIDNT_FIT" /\ \A i \in all : i >= last
    /\ InOrder(items', {i \in all : i =< last})
    /\ left' = {i \in all : i > last}

Begin == left = Closed /\ \E attr \in DOMAIN Matching : Portion(Matching[attr])

Continue == left # Closed /\ Portion(left)

Exhausted ==
  /\ left = {} /\ rc' = "ERROR_NO_MORE_FILES"
  /\ items' = <<>> /\ UNCHANGED left

\* The caller's request does not make sense, or its buffer is too small, or there is
\* nothing to begin a search with.
Fail ==
  /\ rc' \notin {"NO_ERROR", "ERROR_EAS_DIDNT_FIT"}
  /\ rc' = "ERROR_NO_MORE_FILES" => left = Closed
  /\ items' = <<>> /\ UNCHANGED left

\* A portion that cannot be handed over is lost.
Lose ==
  /\ left # Closed /\ rc' = "ERROR_INVALID_PARAMETER" /\ items' = <<>>
  /\ \E last \in left : left' = {i \in left : i > last}

Close == left # Closed /\ left' = Closed /\ rc' = "NO_ERROR" /\ items' = <<>>

Next == Begin \/ Continue \/ Exhausted \/ Fail \/ Lose \/ Close

Spec == Init /\ [][Next]_vars

=============================================================================
