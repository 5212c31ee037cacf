--------------------------- MODULE MCTabSessions ----------------------------
(* Model values for checking TabSessions with TLC: two tabs of one browser. *)
EXTENDS TabSessions
=============================================================================
