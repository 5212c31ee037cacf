---------------------------- MODULE MatchRoster -----------------------------
(***************************************************************************)
(* What the lobby promises to its members, without connections, requests   *)
(* or queues: who is present, who is the host, and who has a seat in the   *)
(* match.  At most one member arrives at a time, any number may drop out   *)
(* at the same moment.                                                     *)
(***************************************************************************)
EXTENDS Naturals

CONSTANTS
  Member,
  Nobody     \* the host of an empty lobby

VARIABLES
  present,   \* members with a connection
  host,
  running,   \* a match is being played
  seats      \* the human players of the match

vars == <<present, host, running, seats>>

Init ==
  /\ present = {}
  /\ host = Nobody
  /\ running = FALSE
  /\ seats = {}

\* The role stays where it is while its holder is present, and passes to
\* somebody present otherwise.
HostPasses ==
  IF host \in present' THEN host' = host
  ELSE IF present' = {} THEN host' = Nobody
  ELSE host' \in present'

\* Coming and going does not touch the match.
ComeAndGo ==
  /\ \E p \in Member : present' \subseteq present \cup {p}
  /\ HostPasses
  /\ UNCHANGED <<running, seats>>

\* A match begins with a host, and seats only members that were present.
Begin ==
  /\ ~running
  /\ running'
  /\ host \in present
  /\ seats' \subseteq present
  /\ present' \subseteq present
  /\ HostPasses

End ==
  /\ running
  /\ ~running'
  /\ seats' = {}
  /\ present' \subseteq present
  /\ HostPasses

Next == ComeAndGo \/ Begin \/ End

Spec == Init /\ [][Next]_vars

=============================================================================
