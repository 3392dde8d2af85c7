---------------------------- MODULE ReadOnlyFile ----------------------------
(***************************************************************************)
(* What a program that has opened a file is promised.  A read returns the  *)
(* bytes of the file from its position on, as many as were asked for or as *)
(* there are up to its end, and the position advances by their number.  A  *)
(* seek goes where it was told to, or is refused if that is before the     *)
(* beginning of the file.  Nothing else moves the position.                *)
(*                                                                         *)
(* Where the medium does not hold the file, the bytes are not promised,    *)
(* but their number is.  Beyond its end, where a program has to seek to    *)
(* first, it does not find an end: it gets as many bytes as it asks for,   *)
(* up to the size of the file, and none of them is promised.               *)
(***************************************************************************)
EXTENDS Integers, Sequences

CONSTANT Word  \* positions are modulo Word; from half of it on, they are negative

VARIABLES
  contents,    \* the bytes of the file; Unknown where the medium does not hold it
  position,
  call,        \* the last call: "read", the type of a seek, or another,
  asked,       \* the length or the offset it was given,
  rc, pData    \* its result, and what it has returned

vars == <<contents, position, call, asked, rc, pData>>

Unknown == -1

Least(a, b) == IF a < b THEN a ELSE b

Init == position = 0 /\ call = "open" /\ asked = 0 /\ rc = "NO_ERROR" /\ pData = <<>>

\* How much a read of n bytes takes.
Taken(n) ==
  Least(n, IF position =< Len(contents) THEN Len(contents) - position ELSE Len(contents))

\* A sequence of bytes agrees with the contents of the file at the position.
Agrees(data) == \A i \in DOMAIN data : contents[position + i] \in {Unknown, data[i]}

Read ==
  /\ call' = "read" /\ rc' = "NO_ERROR" /\ Len(pData') = Taken(asked')
  /\ position =< Len(contents) => Agrees(pData')
  /\ position' = (position + Len(pData')) % Word

\* What was read could not be handed over, and the program has lost its place.
ReadLost ==
  /\ call' = "read" /\ rc' = "ERROR_INVALID_PARAMETER" /\ pData' = <<>>
  /\ Taken(asked') > 0 /\ position' = (position + Taken(asked')) % Word

\* What the offset of a seek is counted from.
Origins == [FILE_BEGIN |-> 0, FILE_CURRENT |-> position, FILE_END |-> Len(contents)]

Place == (Origins[call'] + asked') % Word

Seek ==
  /\ call' \in DOMAIN Origins /\ rc' = "NO_ERROR" /\ pData' = <<>>
  /\ Place < Word \div 2 /\ position' = Place

SeekRefused ==
  /\ call' \in DOMAIN Origins /\ rc' = "ERROR_NEGATIVE_SEEK" /\ pData' = <<>>
  /\ Place >= Word \div 2 /\ position' = position

\* Whatever would write is refused; the rest has no effect.
Other ==
  /\ call' \in {"unknown", "write", "newsize", "ioctl", "commit"} /\ pData' = <<>>
  /\ call' \in {"write", "newsize"} => rc' = "ERROR_WRITE_PROTECT"
  /\ position' = position

Next == (Read \/ ReadLost \/ Seek \/ SeekRefused \/ Other) /\ UNCHANGED contents

Spec == Init /\ [][Next]_vars

=============================================================================
