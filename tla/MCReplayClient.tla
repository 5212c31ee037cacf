--------------------------- MODULE MCReplayClient ---------------------------
(* Two matches and a file for ReplayClient. *)
EXTENDS ReplayClient

LOCAL a == "a"
LOCAL b == "b"
MCItem == {a, b}

\* Items are eaten, and grow again.
MCCourse ==
  <<[t \in 0..5 |-> <<{a, b}, {b}, {}, {a}, {a}, {b}>>[t + 1]],
    [t \in 0..5 |-> <<{a, b}, {a, b}, {a}, {a}, {b}, {}>>[t + 1]]>>

\* One recorded by somebody who came into the first match late, one damaged.
MCFiles ==
  {[match |-> 1, world |-> 1, last |-> 3,
    frames |-> <<[match |-> 1, tick |-> 1, items |-> {b}],
                 [match |-> 1, tick |-> 2, items |-> {}],
                 [match |-> 1, tick |-> 3, items |-> {a}]>>],
   [match |-> 2, world |-> 2, last |-> 2,
    frames |-> <<[match |-> 2, tick |-> 2, items |-> {a}], None>>]}
=============================================================================
