--------------------------- MODULE MCLobbyServer ----------------------------
(* Model values and symmetry for checking LobbyServer with TLC.            *)
EXTENDS LobbyServer, TLC

ConnectionSymmetry == Permutations(Client)
=============================================================================
