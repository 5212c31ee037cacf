---------------------------- MODULE SessionTable ----------------------------
(***************************************************************************)
(* The session table of the Rust server: what `ServerState` of             *)
(* rust/server/src/bin/server.rs holds behind its mutex, as one record,    *)
(* and the helper functions that rewrite it, as operators from a table to  *)
(* a table.  Handlers chain the helpers under one lock; LobbyServer does   *)
(* the same by composing the operators.                                    *)
(*                                                                         *)
(* A member is named by the number in its id (`player_12` is 12), so the   *)
(* numeric order of members is `player_order_key`; its reconnect token is  *)
(* the same number, since tokens are unique.  Names and payloads are left  *)
(* out.  A `try_send` that fails (the bounded queue is full, or its writer *)
(* has stopped) is a client in the set `slow` of the handler at hand.      *)
(***************************************************************************)
EXTENDS Naturals

CONSTANTS
  Client,     \* connection ids; one is reused only when nothing names it
  NoClient,   \* absence of a connection
  MaxPlayer   \* bound on the members ever created

ASSUME ConstantsAssumption ==
  /\ NoClient \notin Client
  /\ MaxPlayer \in Nat \ {0}

Player == 1..MaxPlayer
NoPlayer == 0
NoToken == 0

-----------------------------------------------------------------------------
(* The table.                                                              *)

Table ==
  [ clients    : SUBSET Client,                       \* keys of `clients`
    bound      : [Client -> Player \cup {NoPlayer}],  \* ClientContext.player_id
    members    : SUBSET Player,                       \* keys of `lobby_players`
    connected  : SUBSET Player,                       \* members with that flag
    ai         : SUBSET Player,                       \* members with that flag
    spectator  : SUBSET Player,                       \* members with that flag
    active     : [Player -> Client \cup {NoClient}],  \* active_client_by_player_id
    host       : Player \cup {NoPlayer},              \* host_id
    running    : BOOLEAN,                             \* game.is_some()
    aiCount    : Nat,                                 \* running_ai_count
    seats      : SUBSET Player,  \* humans in the game engine's player list
    live       : SUBSET Player,  \* seats with the engine's `connected` flag, not `ai`
    steered    : SUBSET Player,  \* seats whose input the engine has accepted
    pingOwners : SUBSET Player ] \* owners of the pings the ping manager holds

EmptyTable ==
  [ clients |-> {}, bound |-> [c \in Client |-> NoPlayer],
    members |-> {}, connected |-> {}, ai |-> {}, spectator |-> {},
    active |-> [p \in Player |-> NoClient], host |-> NoPlayer,
    running |-> FALSE, aiCount |-> 0, seats |-> {}, live |-> {},
    steered |-> {}, pingOwners |-> {} ]

-----------------------------------------------------------------------------
(* Host election.                                                          *)

Oldest(S) == CHOOSE p \in S : \A q \in S : p <= q

\* Mutant: the filter on the flag is forgotten.
ChooseNextHostAbsent(s) ==
  IF s.members = {} THEN NoPlayer ELSE Oldest(s.members)

ChooseNextHost(s) ==
  IF s.connected = {} THEN NoPlayer ELSE Oldest(s.connected)

\* Mutant: the preferred member takes the role over.
EnsureHostPreferred(s, preferred) ==
  IF preferred \in s.connected THEN [s EXCEPT !.host = preferred]
  ELSE IF s.host \in s.connected THEN s
  ELSE [s EXCEPT !.host = ChooseNextHost(s)]

EnsureHostAssigned(s, preferred) ==
  IF s.host \in s.connected
  THEN s
  ELSE [s EXCEPT !.host =
          IF preferred \in s.connected THEN preferred ELSE ChooseNextHost(s)]

-----------------------------------------------------------------------------
(* Losing connections.  A broadcast removes its failed clients one after   *)
(* the other, in the order of a hash map; removing them together gives the *)
(* same table, because only the last choice of a host survives.            *)

LostPlayers(s, D) ==
  {p \in Player : \E c \in D \cap s.clients : s.bound[c] = p /\ s.active[p] = c}

WithoutBinding(s, D) == [c \in Client |-> IF c \in D THEN NoPlayer ELSE s.bound[c]]

WithoutActive(s, P) == [p \in Player |-> IF p \in P THEN NoClient ELSE s.active[p]]

\* Mutant: a match in progress makes no difference.
RemovedAtOnce(s, lost) == lost

\* The lost members that leave the lobby: all of them between matches, only the
\* spectators in a match.
RemovedMembers(s, lost) == IF s.running THEN lost \cap s.spectator ELSE lost

DisconnectClients(s, D) ==
  LET lost    == LostPlayers(s, D)
      removed == RemovedMembers(s, lost)
      kept    == (lost \ removed) \cap s.members
      after   == [s EXCEPT
        !.clients   = @ \ D,
        !.bound     = WithoutBinding(s, D),
        !.active    = WithoutActive(s, lost),
        !.members   = @ \ removed,
        !.spectator = @ \ removed,
        !.connected = @ \ lost,
        !.ai        = (@ \ removed) \cup kept,
        !.live      = @ \ kept]
  IN  [after EXCEPT !.host = IF @ \in lost THEN ChooseNextHost(after) ELSE @]

-----------------------------------------------------------------------------
(* Sending.  Only the failure of a send changes the table.                 *)

SendToClient(s, c, slow) == DisconnectClients(s, {c} \cap slow)

CanReceiveBroadcast(s, c) ==
  /\ s.bound[c] # NoPlayer
  /\ s.active[s.bound[c]] = c
  /\ s.bound[c] \in s.members

Broadcast(s, slow) ==
  DisconnectClients(s, {c \in slow \cap s.clients : CanReceiveBroadcast(s, c)})

BroadcastLobby(s, slow) == Broadcast(EnsureHostAssigned(s, NoPlayer), slow)

-----------------------------------------------------------------------------
(* Binding a connection to a member.                                       *)

\* Mutant: the older connection is told to close but keeps its player id.
BoundBesides(s, c, p) ==
  [d \in Client |-> IF d = c /\ c \in s.clients THEN p ELSE s.bound[d]]

\* The older connection of p is told to close and loses its binding; an
\* earlier member of c loses its connection.  A connection the server has
\* already dropped from `clients` becomes the active one of p all the same.
BoundTo(s, c, p) ==
  [d \in Client |-> CASE d = c /\ c \in s.clients       -> p
                      [] d # c /\ d = s.active[p]       -> NoPlayer
                      [] OTHER                          -> s.bound[d]]
ActiveOn(s, c, p) ==
  [q \in Player |-> CASE q = p                          -> c
                      [] q # p /\ q = s.bound[c]        -> NoClient
                      [] OTHER                          -> s.active[q]]

BindClientToPlayer(s, c, p) ==
  [s EXCEPT !.bound = BoundTo(s, c, p), !.active = ActiveOn(s, c, p)]

\* `hello` of a connection whose member is gone first drops the stale id.
ForgetMissingMember(s, c) ==
  IF s.bound[c] \in s.members THEN s ELSE [s EXCEPT !.bound[c] = NoPlayer]

\* Mutant: the flag may change in a match.
SpectatorsAnytime(s, p, wantsSpectator) ==
  IF wantsSpectator THEN s.spectator \cup {p} ELSE s.spectator \ {p}

\* The spectator flag of a member that is back: fixed while a game runs.
SpectatorsAfter(s, p, wantsSpectator) ==
  IF s.running THEN s.spectator
  ELSE IF wantsSpectator THEN s.spectator \cup {p} ELSE s.spectator \ {p}

\* A known member is back, on connection c: by a repeated `hello` or a token.
Rejoin(s, c, p, wantsSpectator) ==
  LET present == [s EXCEPT
        !.spectator = SpectatorsAfter(s, p, wantsSpectator),
        !.connected = @ \cup {p},
        !.ai        = @ \ {p}]
      bound == BindClientToPlayer(present, c, p)
  IN  [bound EXCEPT !.live = @ \cup (({p} \cap s.seats) \ present.spectator)]

\* A new member p, on connection c.
Admit(s, c, p, wantsSpectator) ==
  BindClientToPlayer(
    [s EXCEPT !.members   = @ \cup {p},
              !.connected = @ \cup {p},
              !.ai        = @ \ {p},
              !.spectator = IF wantsSpectator THEN @ \cup {p} ELSE @ \ {p}],
    c, p)

\* The end of every successful `hello`: host, welcome and initial state to c,
\* then the lobby to everybody.
Welcome(s, c, p, slow) ==
  BroadcastLobby(SendToClient(EnsureHostAssigned(s, p), c, slow), slow)

-----------------------------------------------------------------------------
(* Match start and end.                                                    *)

Humans(s) == s.connected \ s.spectator

\* The game is created with the humans present; members left over from an
\* earlier match that did not come back are dropped.
SeatMembers(s, aiCount) ==
  LET kept == s.spectator \cup Humans(s)
  IN  [s EXCEPT
        !.running    = TRUE,
        !.aiCount    = aiCount,
        !.seats      = Humans(s),
        !.live       = Humans(s),
        !.steered    = {},
        !.pingOwners = {},
        !.members    = @ \cap kept,
        !.connected  = @ \cap kept,
        !.ai         = Humans(s) \ s.connected,
        !.active     = WithoutActive(s, s.members \ kept)]

\* The game is dropped with everything that lives in it.
DropGame(s) ==
  [s EXCEPT !.running = FALSE, !.aiCount = 0, !.pingOwners = {}, !.ai = {},
            !.seats = {}, !.live = {}, !.steered = {}]

-----------------------------------------------------------------------------
(* Consistency of a table, part by part.                                   *)

\* A registered connection that holds a player id is the active connection of
\* a member, and the other way round.
OneBinding(s) ==
  /\ \A c \in Client : s.bound[c] # NoPlayer =>
       /\ c \in s.clients
       /\ s.bound[c] \in s.members
       /\ s.active[s.bound[c]] = c
  /\ \A p \in Player : s.active[p] \in s.clients => s.bound[s.active[p]] = p

\* A member is connected exactly when a connection is recorded as active.
ActiveIffConnected(s) ==
  /\ s.connected \subseteq s.members
  /\ \A p \in Player : p \in s.connected <=> s.active[p] # NoClient

\* The host is a connected member, as soon as there is one.
HostConnected(s) ==
  IF s.connected = {} THEN s.host = NoPlayer ELSE s.host \in s.connected

\* In a match the players are the members that do not spectate, and the
\* engine's connected flag is the lobby's.
SeatsAreMembers(s) ==
  s.running =>
    /\ s.seats = s.members \ s.spectator
    /\ s.live = s.seats \cap s.connected

\* Between matches the table holds nothing of a game.
NoGameNoState(s) ==
  ~s.running =>
    /\ s.seats = {} /\ s.live = {} /\ s.steered = {} /\ s.pingOwners = {}
    /\ s.aiCount = 0

\* AI plays the seats whose player is away, and no other member is flagged.
AiIffAbsent(s) == s.ai = IF s.running THEN s.seats \ s.connected ELSE {}

SpectatorsConnected(s) == s.spectator \subseteq s.connected

SeatedEffects(s) == s.steered \cup s.pingOwners \subseteq s.seats

=============================================================================
