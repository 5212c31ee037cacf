---------------------------- MODULE LobbyServer -----------------------------
(***************************************************************************)
(* The connection, lobby and match-boundary protocol of the Rust server    *)
(* (rust/server/src/bin/server.rs).  One asynchronous task per WebSocket   *)
(* reads requests in order; every critical section of a handler holds the  *)
(* mutex on ServerState, so it is one action here.  Three requests read    *)
(* the sender's player id in one critical section and act on it in a       *)
(* second one: between the two, every other task may run.                  *)
(***************************************************************************)
EXTENDS SessionTable

CONSTANTS
  AiCounts    \* AI player counts a start request may ask for

ASSUME AiCountsAssumption == AiCounts \subseteq Nat

VARIABLES
  srv,        \* the session table, behind the mutex
  open,       \* connections whose reader loop is running
  pending,    \* per connection, the request between its two critical sections
  nextPlayer  \* the next member number (NEXT_ID)

vars == <<srv, open, pending, nextPlayer>>

Operation == {"lobby_start", "input", "place_ping"}
Idle == [op |-> "none", player |-> NoPlayer]
Request == [op : Operation, player : Player]

TypeOK ==
  /\ srv \in Table
  /\ open \in SUBSET Client
  /\ pending \in [Client -> Request \cup {Idle}]
  /\ nextPlayer \in 1..(MaxPlayer + 1)

Init ==
  /\ srv = EmptyTable
  /\ open = {}
  /\ pending = [c \in Client |-> Idle]
  /\ nextPlayer = 1

\* The reader of c waits for its next message.
Reading(c) == c \in open /\ pending[c] = Idle

-----------------------------------------------------------------------------
(* Opening and closing connections.                                        *)

Connect(c) ==
  /\ c \notin open \cup srv.clients
  /\ \A p \in Player : srv.active[p] # c
  /\ open' = open \cup {c}
  /\ srv' = [srv EXCEPT !.clients = @ \cup {c}, !.bound[c] = NoPlayer]
  /\ UNCHANGED <<pending, nextPlayer>>

\* The reader loop ends.  Nothing is broadcast for a connection the server
\* had already dropped, or that is not the active one of a member.
Disconnect(c, slow) ==
  /\ Reading(c)
  /\ open' = open \ {c}
  /\ LET s == DisconnectClients(srv, {c})
     IN  srv' = IF LostPlayers(srv, {c}) = {} THEN s ELSE BroadcastLobby(s, slow)
  /\ UNCHANGED <<pending, nextPlayer>>

-----------------------------------------------------------------------------
(* hello                                                                   *)

\* A bound connection repeats `hello`: no token, or its own.
HelloAgain(c, token, wantsSpectator, slow) ==
  LET p == srv.bound[c]
  IN  /\ Reading(c)
      /\ p \in srv.members
      /\ token \in {NoToken, p}
      /\ srv' = Welcome(Rejoin(srv, c, p, wantsSpectator), c, p, slow)
      /\ UNCHANGED <<open, pending, nextPlayer>>

\* A member of a running game without a seat in it may not come back as player.
LateForGame(s, p) == s.running /\ p \notin s.spectator /\ p \notin s.seats

HelloWithToken(c, p, wantsSpectator, slow) ==
  /\ Reading(c)
  /\ srv.bound[c] \notin srv.members
  /\ p \in srv.members
  /\ ~LateForGame(srv, p)
  /\ LET s == ForgetMissingMember(srv, c)
     IN  srv' = Welcome(Rejoin(s, c, p, wantsSpectator), c, p, slow)
  /\ UNCHANGED <<open, pending, nextPlayer>>

\* No token, or one that names no member any more.
HelloNew(c, token, wantsSpectator, slow) ==
  /\ Reading(c)
  /\ srv.bound[c] \notin srv.members
  /\ token \notin srv.members
  /\ ~srv.running \/ wantsSpectator
  /\ nextPlayer <= MaxPlayer
  /\ LET s == ForgetMissingMember(srv, c)
     IN  srv' = Welcome(Admit(s, c, nextPlayer, wantsSpectator), c, nextPlayer, slow)
  /\ nextPlayer' = nextPlayer + 1
  /\ UNCHANGED <<open, pending>>

\* Refusals: a bound connection presents another token; a player comes to a
\* running game without a seat in it.
HelloRefused(c, token, wantsSpectator, slow) ==
  /\ Reading(c)
  /\ \/ /\ srv.bound[c] \in srv.members
        /\ token \notin {NoToken, srv.bound[c]}
        /\ srv' = SendToClient(srv, c, slow)
     \/ /\ srv.bound[c] \notin srv.members
        /\ \/ token \in srv.members /\ LateForGame(srv, token)
           \/ token \notin srv.members /\ srv.running /\ ~wantsSpectator
        /\ srv' = SendToClient(ForgetMissingMember(srv, c), c, slow)
  /\ UNCHANGED <<open, pending, nextPlayer>>

\* Requests that are only answered: a ping, a message that does not parse, an
\* unsupported room, a request before `hello`.
Answer(c, slow) ==
  /\ Reading(c)
  /\ srv' = SendToClient(srv, c, slow)
  /\ UNCHANGED <<open, pending, nextPlayer>>

-----------------------------------------------------------------------------
(* Requests in two critical sections.                                      *)

\* Mutant: a connection that has not said `hello` is not turned away.
ReadAnySender(c, op) ==
  /\ Reading(c)
  /\ pending' = [pending EXCEPT ![c] = [op |-> op, player |-> srv.bound[c]]]
  /\ UNCHANGED <<srv, open, nextPlayer>>

ReadSender(c, op) ==
  /\ Reading(c)
  /\ srv.bound[c] # NoPlayer
  /\ pending' = [pending EXCEPT ![c] = [op |-> op, player |-> srv.bound[c]]]
  /\ UNCHANGED <<srv, open, nextPlayer>>

Finish(c) ==
  /\ pending' = [pending EXCEPT ![c] = Idle]
  /\ UNCHANGED <<open, nextPlayer>>

\* A start request while a game runs is dropped without an answer.
StartIgnored(c) ==
  /\ pending[c].op = "lobby_start"
  /\ srv.running
  /\ UNCHANGED srv
  /\ Finish(c)

\* Mutant: anybody may start.
MayStartAnybody(s, requestedBy, aiCount) == Humans(s) # {} \/ aiCount > 0

\* Whether the request may start a game with aiCount AI players.
MayStart(s, requestedBy, aiCount) ==
  /\ s.host = requestedBy
  /\ Humans(s) # {} \/ aiCount > 0

\* The error goes to whatever connection is the requester's active one now.
StartRefused(c, aiCount, slow) ==
  LET requestedBy == pending[c].player
      s == EnsureHostAssigned(srv, NoPlayer)
  IN  /\ pending[c].op = "lobby_start"
      /\ ~srv.running
      /\ ~MayStart(s, requestedBy, aiCount)
      /\ srv' = SendToClient(s, s.active[requestedBy], slow)
      /\ Finish(c)

\* The lobby goes to every bound connection, then game_init to the active
\* connection of every connected member; both sends run in the new game.
StartMatch(c, aiCount, slow) ==
  LET s == EnsureHostAssigned(srv, NoPlayer)
  IN  /\ pending[c].op = "lobby_start"
      /\ ~srv.running
      /\ MayStart(s, pending[c].player, aiCount)
      /\ LET t == BroadcastLobby(SeatMembers(s, aiCount), slow)
         IN  srv' = DisconnectClients(t, {t.active[p] : p \in t.connected} \cap slow)
      /\ Finish(c)

\* The engine takes an input for a seat that no AI is playing.
Input(c) ==
  /\ pending[c].op = "input"
  /\ srv' = [srv EXCEPT !.steered = @ \cup ({pending[c].player} \cap srv.live)]
  /\ Finish(c)

\* accepted is the verdict of the ping manager's rate limit; a ping that does
\* not fit under the cap of the list drives out the last ping of evicted, if any.
PlacePing(c, accepted, evicted, slow) ==
  LET p == pending[c].player
      mayPlace == p \in srv.members \ srv.spectator /\ srv.running /\ p \in srv.seats
  IN  /\ pending[c].op = "place_ping"
      /\ srv' = IF mayPlace /\ accepted
                THEN [srv EXCEPT !.pingOwners = (@ \ {evicted}) \cup {p}]
                ELSE SendToClient(srv, c, slow)
      /\ Finish(c)

-----------------------------------------------------------------------------
(* The tick loop.  Its state broadcast drops what a full queue rejects, so *)
(* an ordinary tick changes the table only by pruning pings.               *)

Tick(expired) ==
  /\ srv.running
  /\ srv' = [srv EXCEPT !.pingOwners = @ \ expired]
  /\ UNCHANGED <<open, pending, nextPlayer>>

\* The last tick of a match.  A connection lost to the game_over message is
\* lost while the game still exists, one lost to the lobby message is not.
GameOver(slowOver, slowLobby) ==
  /\ srv.running
  /\ LET ended == DropGame(Broadcast(srv, slowOver))
     IN  srv' = BroadcastLobby(EnsureHostAssigned(ended, NoPlayer), slowLobby)
  /\ UNCHANGED <<open, pending, nextPlayer>>

-----------------------------------------------------------------------------
(* A client may present any token the server has issued so far.            *)
IssuedTokens == 1..(nextPlayer - 1)

Hello(c, slow) ==
  \E wantsSpectator \in BOOLEAN :
    \/ \E token \in {NoToken} \cup IssuedTokens :
         \/ HelloAgain(c, token, wantsSpectator, slow)
         \/ HelloNew(c, token, wantsSpectator, slow)
         \/ HelloRefused(c, token, wantsSpectator, slow)
    \/ \E token \in IssuedTokens : HelloWithToken(c, token, wantsSpectator, slow)

Handle(c, slow) ==
  \/ Hello(c, slow)
  \/ Answer(c, slow)
  \/ \E aiCount \in AiCounts :
       StartRefused(c, aiCount, slow) \/ StartMatch(c, aiCount, slow)
  \/ \E accepted \in BOOLEAN, evicted \in {NoPlayer} \cup srv.pingOwners :
       PlacePing(c, accepted, evicted, slow)
  \/ Disconnect(c, slow)

Next ==
  \/ \E c \in Client :
       \/ Connect(c)
       \/ \E op \in Operation : ReadSender(c, op)
       \/ StartIgnored(c)
       \/ Input(c)
       \/ \E slow \in SUBSET srv.clients : Handle(c, slow)
  \/ \E expired \in SUBSET srv.pingOwners : Tick(expired)
  \/ \E slowOver, slowLobby \in SUBSET srv.clients : GameOver(slowOver, slowLobby)

Spec == Init /\ [][Next]_vars

-----------------------------------------------------------------------------
(* What the server promises of its table after every critical section.     *)

\* No member has two connections and none is half bound, whatever supersedes,
\* drops or returns, and the `connected` flag of the lobby is exactly "some
\* connection is recorded as active": every bound connection receives the
\* broadcasts (can_receive_broadcast never rejects one) and the "member missing"
\* path of `hello` is never taken.
BindingAgrees == OneBinding(srv) /\ ActiveIffConnected(srv)

\* No handler returns with a host that is away while a member is connected,
\* nor with a lobby of connected members that has no host.
HostIsConnected == HostConnected(srv)

\* While a game runs its human players are exactly the lobby members that do
\* not spectate: nobody joins late, nobody loses the seat to come back to, and
\* the engine's own connected flag is the lobby's.  The AI flag is set for the
\* seats whose player is away and for nobody else: an AI never plays on for a
\* player who came back.  A spectator that is away is no member.  And pings on the
\* map and inputs in the engine belong to seats of this match, although the sender
\* was looked up in an earlier critical section, possibly of an earlier match.
SeatsAgree ==
  /\ SeatsAreMembers(srv) /\ AiIffAbsent(srv) /\ SpectatorsConnected(srv)
  /\ SeatedEffects(srv)

\* The host keeps the role as long as its member stays connected, whoever
\* joins, returns, is lost or starts a match meanwhile.
HostIsStable ==
  [][srv.host \in srv.connected' => srv.host' = srv.host]_srv

\* During a match no seat appears or disappears, and an absent player's seat
\* is still a member, so its token still finds it.
SeatsAreKept ==
  [][srv.running /\ srv.running' =>
       srv.seats' = srv.seats /\ srv.seats \subseteq srv.members']_srv

\* All steps together implement the roster: in particular a match never begins
\* without a host, its seats are taken once, and nobody joins with the losses
\* that a start or an end causes.
Roster == INSTANCE MatchRoster
  WITH Member <- Player, Nobody <- NoPlayer, present <- srv.connected,
       host <- srv.host, running <- srv.running, seats <- srv.seats

ImplementsRoster == Roster!Spec

-----------------------------------------------------------------------------
(* What the documents promise and the code does not keep.                  *)

\* docs/server_protocol.md: after a disconnection, `hello` with the same token
\* returns to the same member.
TokenKeepsMember == \A token \in IssuedTokens : token \in srv.members

\* docs/game_design.md 3.4: when a player disconnects, whatever the reason, AI
\* takes the seat over at once; so a seat no AI plays has an open connection.
AbsentSeatHasAI == srv.running => \A p \in srv.live : srv.active[p] \in open

=============================================================================
