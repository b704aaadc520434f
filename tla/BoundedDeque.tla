---------------------------- MODULE BoundedDeque ----------------------------
(***************************************************************************)
(* collections.deque(iterable, maxlen) of MicroPython as the app uses it   *)
(* (app.py lines 46-48 and 262-264): append on a full deque discards the   *)
(* oldest item, popleft takes the oldest.  The class itself is not part of *)
(* the repository.                                                         *)
(***************************************************************************)
EXTENDS Naturals, Sequences

\* append called once for every item of es, in order, on a deque of maxlen cap.
PushAll(q, es, cap) ==
    LET s == q \o es
    IN  IF Len(s) <= cap THEN s ELSE SubSeq(s, Len(s) - cap + 1, Len(s))

=============================================================================
