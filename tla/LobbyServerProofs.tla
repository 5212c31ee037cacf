------------------------- MODULE LobbyServerProofs --------------------------
(***************************************************************************)
(* Proofs about LobbyServer, for any number of connections, members and AI *)
(* players.  The argument: every helper of SessionTable keeps the parts of *)
(* a consistent table (Core), whatever set of sends fails inside it; the   *)
(* guarantee on the host is re-established at the end of each handler, by  *)
(* the host election in broadcast_lobby or in disconnect_client_internal.  *)
(* So each action, a chain of helpers, keeps the inductive invariant IInv. *)
(***************************************************************************)
EXTENDS LobbyServer, WellFoundedInduction, TLAPS

\* A set of numbers that is not empty has a least element, so the choice of a
\* host by member number is well defined.
LEMMA NatMinimum ==
  ASSUME NEW S \in SUBSET Nat, S # {}
  PROVE  \E p \in S : \A q \in S : p <= q
<1> DEFINE R == {ss \in Nat \X Nat : ss[1] < ss[2]}
<1>1. R = OpToRel(<, Nat)
  BY Zenon DEF OpToRel
<1>2. IsWellFoundedOn(R, Nat)
  BY <1>1, NatLessThanWellFounded, Zenon
<1> HIDE DEF R
<1>3. \E p \in S : \A q \in S : ~(<<q, p>> \in R)
  BY <1>2, WFMin, Zenon
<1>4. \E p \in S : \A q \in S : ~(q < p)
  BY <1>3 DEF R
<1> QED
  BY <1>4

\* choose_next_host finds a connected member whenever there is one.
LEMMA HostChoice ==
  ASSUME NEW s, s.connected \in SUBSET Player
  PROVE  IF s.connected = {} THEN ChooseNextHost(s) = NoPlayer
                             ELSE ChooseNextHost(s) \in s.connected
<1>1. s.connected # {} => \E p \in s.connected : \A q \in s.connected : p <= q
  BY NatMinimum, ConstantsAssumption DEF Player
<1> QED
  BY <1>1 DEF ChooseNextHost, Oldest

\* The inductive part of a table: everything but the host, whose guarantee is
\* suspended inside a handler until ensure_host_assigned restores it.
Core(s) ==
  /\ s \in Table
  /\ OneBinding(s)
  /\ ActiveIffConnected(s)
  /\ SeatsAreMembers(s)
  /\ NoGameNoState(s)
  /\ AiIffAbsent(s)
  /\ SpectatorsConnected(s)
  /\ SeatedEffects(s)

\* The inductive part does not depend on the host.
LEMMA HostOnly ==
  ASSUME NEW s, Core(s), NEW h \in Player \cup {NoPlayer}
  PROVE  Core([s EXCEPT !.host = h])
<1> DEFINE t == [s EXCEPT !.host = h]
<1>1. t \in Table
  BY DEF Core, Table
<1>2. /\ t.clients = s.clients /\ t.bound = s.bound /\ t.active = s.active
      /\ t.members = s.members /\ t.connected = s.connected /\ t.ai = s.ai
      /\ t.spectator = s.spectator /\ t.running = s.running
      /\ t.aiCount = s.aiCount /\ t.seats = s.seats /\ t.live = s.live
      /\ t.steered = s.steered /\ t.pingOwners = s.pingOwners
  BY DEF Core, Table
<1> HIDE DEF t
<1> QED
  BY <1>1, <1>2 DEF Core, OneBinding, ActiveIffConnected, SeatsAreMembers,
     NoGameNoState, AiIffAbsent, SpectatorsConnected, SeatedEffects, t

\* ensure_host_assigned establishes the guarantee on the host.
LEMMA EnsureHostKeeps ==
  ASSUME NEW s, Core(s), NEW p \in Player \cup {NoPlayer}
  PROVE  /\ Core(EnsureHostAssigned(s, p))
         /\ HostConnected(EnsureHostAssigned(s, p))
<1>1. s \in Table
  BY DEF Core
<1>2. s.connected \in SUBSET Player
  BY <1>1 DEF Table
<1>3. CASE s.host \in s.connected
  BY <1>3 DEF EnsureHostAssigned, HostConnected
<1>4. CASE s.host \notin s.connected
  <2> DEFINE h == IF p \in s.connected THEN p ELSE ChooseNextHost(s)
  <2>1. /\ h \in Player \cup {NoPlayer}
        /\ IF s.connected = {} THEN h = NoPlayer ELSE h \in s.connected
    BY HostChoice, <1>2
  <2>2. EnsureHostAssigned(s, p) = [s EXCEPT !.host = h]
    BY <1>4 DEF EnsureHostAssigned
  <2> HIDE DEF h
  <2>3. [s EXCEPT !.host = h].host = h /\ [s EXCEPT !.host = h].connected = s.connected
    BY <1>1 DEF Table
  <2> QED
    BY <2>1, <2>2, <2>3, HostOnly DEF HostConnected
<1> QED
  BY <1>3, <1>4

\* Losing any set of connections at once keeps a table consistent: this is the
\* heart of the proof, since any send of any handler may end this way.
LEMMA DisconnectKeeps ==
  ASSUME NEW s, NEW D \in SUBSET Client, Core(s), HostConnected(s)
  PROVE  Core(DisconnectClients(s, D)) /\ HostConnected(DisconnectClients(s, D))
<1> DEFINE lost    == LostPlayers(s, D)
           removed == IF s.running THEN lost \cap s.spectator ELSE lost
           kept    == (lost \ removed) \cap s.members
           bound2  == WithoutBinding(s, D)
           active2 == WithoutActive(s, lost)
           t       == [s EXCEPT
             !.clients   = @ \ D,
             !.bound     = bound2,
             !.active    = active2,
             !.members   = @ \ removed,
             !.spectator = @ \ removed,
             !.connected = @ \ lost,
             !.ai        = (@ \ removed) \cup kept,
             !.live      = @ \ kept]
           h       == IF t.host \in lost THEN ChooseNextHost(t) ELSE t.host
<1>0. DisconnectClients(s, D) = [t EXCEPT !.host = h]
  BY DEF DisconnectClients, RemovedMembers
<1>1. s \in Table
  BY DEF Core
<1>2. /\ bound2 \in [Client -> Player \cup {NoPlayer}]
      /\ \A c \in Client : bound2[c] = IF c \in D THEN NoPlayer ELSE s.bound[c]
  BY <1>1 DEF WithoutBinding, Table
<1>3. /\ active2 \in [Player -> Client \cup {NoClient}]
      /\ \A p \in Player : active2[p] = IF p \in lost THEN NoClient ELSE s.active[p]
  BY <1>1 DEF WithoutActive, Table
<1>4. /\ lost \subseteq Player
      /\ \A p \in lost : \E c \in D \cap s.clients : s.bound[c] = p /\ s.active[p] = c
      /\ \A p \in Player, c \in D \cap s.clients :
           s.bound[c] = p /\ s.active[p] = c => p \in lost
  BY DEF LostPlayers
<1> HIDE DEF bound2, active2, lost
<1>5. lost \subseteq s.connected /\ lost \subseteq s.members
  BY <1>1, <1>4, ConstantsAssumption DEF Core, OneBinding, ActiveIffConnected, Table
<1>6. removed \subseteq lost /\ kept \subseteq lost
  OBVIOUS
<1>7. IF s.running THEN removed = lost \cap s.spectator /\ kept = lost \ s.spectator
                   ELSE removed = lost /\ kept = {}
  BY <1>5
<1> HIDE DEF removed, kept
<1>8. t \in Table
  BY <1>1, <1>2, <1>3, <1>4, <1>5, <1>6 DEF Table
<1>9. /\ t.clients = s.clients \ D /\ t.bound = bound2 /\ t.active = active2
      /\ t.members = s.members \ removed /\ t.spectator = s.spectator \ removed
      /\ t.connected = s.connected \ lost /\ t.ai = (s.ai \ removed) \cup kept
      /\ t.live = s.live \ kept /\ t.host = s.host
      /\ t.running = s.running /\ t.aiCount = s.aiCount /\ t.seats = s.seats
      /\ t.steered = s.steered /\ t.pingOwners = s.pingOwners
  BY <1>1 DEF Table
<1> HIDE DEF t
<1>10. Core(t)
  <2>1. OneBinding(t)
    <3>1. ASSUME NEW c \in Client, t.bound[c] # NoPlayer
          PROVE  /\ c \in t.clients
                 /\ t.bound[c] \in t.members
                 /\ t.active[t.bound[c]] = c
      <4>1. c \notin D /\ t.bound[c] = s.bound[c]
        BY <3>1, <1>2, <1>9
      <4>2. /\ c \in s.clients
            /\ s.bound[c] \in s.members
            /\ s.active[s.bound[c]] = c
        BY <4>1, <3>1 DEF Core, OneBinding
      <4>3. s.bound[c] \notin lost
        BY <4>1, <4>2, <1>4
      <4> QED
        BY <4>1, <4>2, <4>3, <1>1, <1>3, <1>6, <1>9 DEF Table
    <3>2. ASSUME NEW p \in Player, t.active[p] \in t.clients
          PROVE  t.bound[t.active[p]] = p
      <4>1. t.active[p] \in s.clients \ D
        BY <3>2, <1>9
      <4>2. t.active[p] \in Client
        BY <4>1, <1>1 DEF Table
      <4>3. t.active[p] = s.active[p]
        BY <4>2, <1>3, <1>9, ConstantsAssumption
      <4>4. s.bound[s.active[p]] = p
        BY <4>1, <4>3 DEF Core, OneBinding
      <4> QED
        BY <4>1, <4>2, <4>3, <4>4, <1>2, <1>9
    <3> QED
      BY <3>1, <3>2 DEF OneBinding
  <2>2. ActiveIffConnected(t)
    BY <1>1, <1>3, <1>5, <1>6, <1>9 DEF Core, ActiveIffConnected, Table
  <2>3. SeatsAreMembers(t)
    BY <1>5, <1>7, <1>9 DEF Core, SeatsAreMembers
  <2>4. NoGameNoState(t)
    BY <1>9 DEF Core, NoGameNoState
  <2>5. AiIffAbsent(t)
    BY <1>5, <1>7, <1>9 DEF Core, AiIffAbsent, SeatsAreMembers, SpectatorsConnected
  <2>6. SpectatorsConnected(t)
    BY <1>7, <1>9 DEF Core, SpectatorsConnected, AiIffAbsent
  <2>7. SeatedEffects(t)
    BY <1>9 DEF Core, SeatedEffects
  <2> QED
    BY <1>8, <2>1, <2>2, <2>3, <2>4, <2>5, <2>6, <2>7 DEF Core
<1>11. /\ h \in Player \cup {NoPlayer}
       /\ IF t.connected = {} THEN h = NoPlayer ELSE h \in t.connected
  <2>1. t.connected \in SUBSET Player /\ t.host \in Player \cup {NoPlayer}
    BY <1>8 DEF Table
  <2>2. CASE t.host \in lost
    BY <2>1, <2>2, HostChoice
  <2>3. CASE t.host \notin lost
    BY <2>1, <2>3, <1>5, <1>9 DEF HostConnected
  <2> QED
    BY <2>2, <2>3
<1> HIDE DEF h
<1>12. [t EXCEPT !.host = h].host = h /\ [t EXCEPT !.host = h].connected = t.connected
  BY <1>8 DEF Table
<1> QED
  BY <1>0, <1>10, <1>11, <1>12, HostOnly DEF HostConnected

-----------------------------------------------------------------------------
\* What a chain of sends and host elections can do to a table: members and
\* connections only go, the game and its seats stay, and so does a host that
\* remains connected.
Lessens(s, t) ==
  /\ t.connected \subseteq s.connected
  /\ s.host \in t.connected => t.host = s.host
  /\ t.members \subseteq s.members
  /\ t.running = s.running
  /\ t.seats = s.seats

\* Such chains compose.
LEMMA LessensTransitive ==
  ASSUME NEW s, NEW t, NEW u, Lessens(s, t), Lessens(t, u)
  PROVE  Lessens(s, u)
BY DEF Lessens

\* A host election is such a chain.
LEMMA EnsureHostLessens ==
  ASSUME NEW s, Core(s), NEW p
  PROVE  Lessens(s, EnsureHostAssigned(s, p))
BY DEF Lessens, EnsureHostAssigned, Core, Table

\* So is the loss of any set of connections.
LEMMA DisconnectLessens ==
  ASSUME NEW s, NEW D \in SUBSET Client, Core(s)
  PROVE  Lessens(s, DisconnectClients(s, D))
<1> DEFINE lost == LostPlayers(s, D)
           bound2 == WithoutBinding(s, D)
           active2 == WithoutActive(s, lost)
           t == DisconnectClients(s, D)
<1> HIDE DEF lost, bound2, active2
<1>1. /\ t.connected = s.connected \ lost
      /\ t.members \subseteq s.members
      /\ t.running = s.running
      /\ t.seats = s.seats
      /\ s.host \notin lost => t.host = s.host
  BY DEF DisconnectClients, Core, Table, lost, bound2, active2
<1> QED
  BY <1>1 DEF Lessens

\* A send to one connection, with its possible failure.
LEMMA SendKeeps ==
  ASSUME NEW s, NEW c, NEW slow \in SUBSET Client, Core(s), HostConnected(s)
  PROVE  /\ Core(SendToClient(s, c, slow))
         /\ HostConnected(SendToClient(s, c, slow))
         /\ Lessens(s, SendToClient(s, c, slow))
<1>1. {c} \cap slow \in SUBSET Client
  OBVIOUS
<1> QED
  BY <1>1, DisconnectKeeps, DisconnectLessens DEF SendToClient

\* A broadcast, with any set of failures.
LEMMA BroadcastKeeps ==
  ASSUME NEW s, NEW slow \in SUBSET Client, Core(s), HostConnected(s)
  PROVE  /\ Core(Broadcast(s, slow))
         /\ HostConnected(Broadcast(s, slow))
         /\ Lessens(s, Broadcast(s, slow))
<1> DEFINE D == {c \in slow \cap s.clients : CanReceiveBroadcast(s, c)}
<1>1. D \in SUBSET Client
  OBVIOUS
<1> QED
  BY <1>1, DisconnectKeeps, DisconnectLessens DEF Broadcast

\* broadcast_lobby needs no host to begin with and leaves a correct one.
LEMMA BroadcastLobbyKeeps ==
  ASSUME NEW s, NEW slow \in SUBSET Client, Core(s)
  PROVE  /\ Core(BroadcastLobby(s, slow))
         /\ HostConnected(BroadcastLobby(s, slow))
         /\ Lessens(s, BroadcastLobby(s, slow))
<1> DEFINE t == EnsureHostAssigned(s, NoPlayer)
<1>1. Core(t) /\ HostConnected(t) /\ Lessens(s, t)
  BY EnsureHostKeeps, EnsureHostLessens
<1> HIDE DEF t
<1>2. /\ Core(Broadcast(t, slow))
      /\ HostConnected(Broadcast(t, slow))
      /\ Lessens(t, Broadcast(t, slow))
  BY <1>1, BroadcastKeeps
<1> QED
  BY <1>1, <1>2, LessensTransitive DEF BroadcastLobby, t

\* The common end of every successful `hello`.
LEMMA WelcomeKeeps ==
  ASSUME NEW s, NEW c, NEW p \in Player, NEW slow \in SUBSET Client, Core(s)
  PROVE  /\ Core(Welcome(s, c, p, slow))
         /\ HostConnected(Welcome(s, c, p, slow))
         /\ Lessens(s, Welcome(s, c, p, slow))
<1> DEFINE t == EnsureHostAssigned(s, p)
           u == SendToClient(t, c, slow)
<1>1. Core(t) /\ HostConnected(t) /\ Lessens(s, t)
  BY EnsureHostKeeps, EnsureHostLessens
<1> HIDE DEF t
<1>2. Core(u) /\ Lessens(t, u)
  BY <1>1, SendKeeps
<1> HIDE DEF u
<1>3. /\ Core(BroadcastLobby(u, slow))
      /\ HostConnected(BroadcastLobby(u, slow))
      /\ Lessens(u, BroadcastLobby(u, slow))
  BY <1>2, BroadcastLobbyKeeps
<1> QED
  BY <1>1, <1>2, <1>3, LessensTransitive DEF Welcome, t, u

-----------------------------------------------------------------------------
\* The "member missing" branch of `hello` never has anything to forget.
LEMMA NothingToForget ==
  ASSUME NEW s, Core(s), NEW c \in Client
  PROVE  /\ s.bound[c] \notin s.members => s.bound[c] = NoPlayer
         /\ ForgetMissingMember(s, c) = s
<1>1. s \in Table
  BY DEF Core
<1>2. s.bound[c] \notin s.members => s.bound[c] = NoPlayer
  BY DEF Core, OneBinding
<1>3. s.bound[c] = NoPlayer => [s EXCEPT !.bound[c] = NoPlayer] = s
  BY <1>1 DEF Table
<1> QED
  BY <1>2, <1>3 DEF ForgetMissingMember

\* What bind_client_to_player does to the two maps: the new connection is the
\* active one of p, and nobody else changes except the connection it supersedes
\* and the member the connection leaves.
LEMMA BindingFields ==
  ASSUME NEW s, s \in Table, OneBinding(s), NEW c \in Client, NEW p \in Player,
         s.bound[c] \in {NoPlayer, p},
         p \in s.members
  PROVE  LET t == BindClientToPlayer(s, c, p)
         IN  /\ t \in Table
             /\ OneBinding(t)
             /\ \A q \in Player : t.active[q] = IF q = p THEN c ELSE s.active[q]
             /\ t.members = s.members /\ t.connected = s.connected
             /\ t.spectator = s.spectator /\ t.ai = s.ai /\ t.host = s.host
             /\ t.running = s.running /\ t.aiCount = s.aiCount
             /\ t.seats = s.seats /\ t.live = s.live
             /\ t.steered = s.steered /\ t.pingOwners = s.pingOwners
<1> DEFINE bound2  == BoundTo(s, c, p)
           active2 == ActiveOn(s, c, p)
           t       == [s EXCEPT !.bound = bound2, !.active = active2]
<1>1. /\ bound2 \in [Client -> Player \cup {NoPlayer}]
      /\ \A d \in Client : bound2[d] =
           IF d = c /\ c \in s.clients THEN p
           ELSE IF d # c /\ d = s.active[p] THEN NoPlayer ELSE s.bound[d]
  BY DEF BoundTo, Table
<1>2. /\ active2 \in [Player -> Client \cup {NoClient}]
      /\ \A q \in Player : active2[q] = IF q = p THEN c ELSE s.active[q]
  BY ConstantsAssumption DEF ActiveOn, Table, Player, NoPlayer
<1> HIDE DEF bound2, active2
<1>3. t \in Table
  BY <1>1, <1>2 DEF Table
<1>4. /\ t.bound = bound2 /\ t.active = active2 /\ t.clients = s.clients
      /\ t.members = s.members /\ t.connected = s.connected
      /\ t.spectator = s.spectator /\ t.ai = s.ai /\ t.host = s.host
      /\ t.running = s.running /\ t.aiCount = s.aiCount
      /\ t.seats = s.seats /\ t.live = s.live
      /\ t.steered = s.steered /\ t.pingOwners = s.pingOwners
  BY DEF Table
<1>5. t = BindClientToPlayer(s, c, p)
  BY DEF BindClientToPlayer, bound2, active2
<1> HIDE DEF t
<1>6. OneBinding(t)
  <2>1. ASSUME NEW d \in Client, t.bound[d] # NoPlayer
        PROVE  d \in t.clients /\ t.bound[d] \in t.members /\ t.active[t.bound[d]] = d
    <3>1. CASE d = c
      BY <2>1, <3>1, <1>1, <1>2, <1>4 DEF OneBinding
    <3>2. CASE d # c
      <4>1. t.bound[d] = s.bound[d] /\ d # s.active[p]
        BY <2>1, <3>2, <1>1, <1>4
      <4>2. d \in s.clients /\ s.bound[d] \in s.members /\ s.active[s.bound[d]] = d
        BY <4>1, <2>1 DEF OneBinding
      <4>3. s.bound[d] # p /\ s.bound[d] \in Player
        BY <4>1, <4>2 DEF Table
      <4> QED
        BY <4>1, <4>2, <4>3, <1>2, <1>4
    <3> QED
      BY <3>1, <3>2
  <2>2. ASSUME NEW q \in Player, t.active[q] \in t.clients
        PROVE  t.bound[t.active[q]] = q
    <3>1. CASE q = p
      BY <2>2, <3>1, <1>1, <1>2, <1>4
    <3>2. CASE q # p
      <4>1. t.active[q] = s.active[q] /\ s.active[q] \in s.clients
        BY <2>2, <3>2, <1>2, <1>4
      <4>2. s.bound[s.active[q]] = q /\ s.active[q] \in Client
        BY <4>1 DEF OneBinding, Table
      <4>3. s.active[q] # c
        BY <4>2, <3>2, ConstantsAssumption DEF NoPlayer, Player
      <4>4. s.active[q] # s.active[p]
        BY <4>1, <4>2, <3>2 DEF OneBinding
      <4> QED
        BY <4>1, <4>2, <4>3, <4>4, <1>1, <1>4
    <3> QED
      BY <3>1, <3>2
  <2> QED
    BY <2>1, <2>2 DEF OneBinding
<1> QED
  BY <1>2, <1>3, <1>4, <1>5, <1>6

\* A member that comes back, from any connection, leaves the table consistent.
LEMMA RejoinKeeps ==
  ASSUME NEW s, Core(s), NEW c \in Client, NEW p \in Player,
         NEW wants \in BOOLEAN,
         p \in s.members, s.bound[c] \in {NoPlayer, p}, ~LateForGame(s, p)
  PROVE  LET t == Rejoin(s, c, p, wants)
         IN  /\ Core(t)
             /\ t.host = s.host /\ t.running = s.running /\ t.seats = s.seats
             /\ t.members = s.members /\ t.connected = s.connected \cup {p}
<1> DEFINE spectator2 == IF s.running THEN s.spectator
                         ELSE IF wants THEN s.spectator \cup {p} ELSE s.spectator \ {p}
           r == [s EXCEPT
                   !.spectator = IF s.running THEN @
                                 ELSE IF wants THEN @ \cup {p} ELSE @ \ {p},
                   !.connected = @ \cup {p},
                   !.ai        = @ \ {p}]
           b == BindClientToPlayer(r, c, p)
           t == Rejoin(s, c, p, wants)
<1>1. s \in Table
  BY DEF Core
<1>2. spectator2 \in SUBSET Player
  BY <1>1 DEF Table
<1>3. /\ r.clients = s.clients /\ r.bound = s.bound /\ r.active = s.active
      /\ r.members = s.members /\ r.connected = s.connected \cup {p}
      /\ r.spectator = spectator2 /\ r.ai = s.ai \ {p} /\ r.host = s.host
      /\ r.running = s.running /\ r.aiCount = s.aiCount
      /\ r.seats = s.seats /\ r.live = s.live
      /\ r.steered = s.steered /\ r.pingOwners = s.pingOwners
  BY <1>1 DEF Table
<1>4. r \in Table
  BY <1>1, <1>2 DEF Table
<1> HIDE DEF r, spectator2
<1>5. OneBinding(r)
  BY <1>3 DEF Core, OneBinding
<1>6. /\ b \in Table
      /\ OneBinding(b)
      /\ \A q \in Player : b.active[q] = IF q = p THEN c ELSE s.active[q]
      /\ b.members = s.members /\ b.connected = s.connected \cup {p}
      /\ b.spectator = spectator2 /\ b.ai = s.ai \ {p} /\ b.host = s.host
      /\ b.running = s.running /\ b.aiCount = s.aiCount
      /\ b.seats = s.seats /\ b.live = s.live
      /\ b.steered = s.steered /\ b.pingOwners = s.pingOwners
  BY <1>3, <1>4, <1>5, BindingFields
<1> HIDE DEF b
<1>7. t = [b EXCEPT !.live = @ \cup (({p} \cap s.seats) \ spectator2)]
  BY <1>3 DEF Rejoin, SpectatorsAfter, b, r
<1>8. /\ t \in Table
      /\ t.bound = b.bound /\ t.clients = b.clients /\ t.active = b.active
      /\ t.members = b.members /\ t.connected = b.connected
      /\ t.spectator = b.spectator /\ t.ai = b.ai /\ t.host = b.host
      /\ t.running = b.running /\ t.aiCount = b.aiCount /\ t.seats = b.seats
      /\ t.live = b.live \cup (({p} \cap s.seats) \ spectator2)
      /\ t.steered = b.steered /\ t.pingOwners = b.pingOwners
  BY <1>1, <1>6, <1>7 DEF Table
<1> HIDE DEF t
<1>9. Core(t)
  <2>1. OneBinding(t)
    BY <1>6, <1>8 DEF OneBinding
  <2>2. ActiveIffConnected(t)
    BY <1>6, <1>8, ConstantsAssumption DEF Core, ActiveIffConnected
  <2>3. SeatsAreMembers(t)
    BY <1>6, <1>8 DEF Core, SeatsAreMembers, spectator2
  <2>4. NoGameNoState(t)
    BY <1>6, <1>8 DEF Core, NoGameNoState
  <2>5. AiIffAbsent(t)
    BY <1>6, <1>8 DEF Core, AiIffAbsent
  <2>6. SpectatorsConnected(t)
    BY <1>6, <1>8 DEF Core, SpectatorsConnected, spectator2
  <2>7. SeatedEffects(t)
    BY <1>6, <1>8 DEF Core, SeatedEffects
  <2> QED
    BY <1>8, <2>1, <2>2, <2>3, <2>4, <2>5, <2>6, <2>7 DEF Core
<1> QED
  BY <1>6, <1>8, <1>9 DEF t

\* So does a new member, which becomes a spectator if a game is running.
LEMMA AdmitKeeps ==
  ASSUME NEW s, Core(s), NEW c \in Client, NEW p \in Player,
         NEW wants \in BOOLEAN,
         p \notin s.members, s.bound[c] = NoPlayer, ~s.running \/ wants
  PROVE  LET t == Admit(s, c, p, wants)
         IN  /\ Core(t)
             /\ t.host = s.host /\ t.running = s.running /\ t.seats = s.seats
             /\ t.members = s.members \cup {p}
             /\ t.connected = s.connected \cup {p}
<1> DEFINE spectator2 == IF wants THEN s.spectator \cup {p} ELSE s.spectator \ {p}
           r == [s EXCEPT !.members   = @ \cup {p},
                          !.connected = @ \cup {p},
                          !.ai        = @ \ {p},
                          !.spectator = IF wants THEN @ \cup {p} ELSE @ \ {p}]
           t == BindClientToPlayer(r, c, p)
<1>1. s \in Table
  BY DEF Core
<1>2. spectator2 \in SUBSET Player
  BY <1>1 DEF Table
<1>3. /\ r.clients = s.clients /\ r.bound = s.bound /\ r.active = s.active
      /\ r.members = s.members \cup {p} /\ r.connected = s.connected \cup {p}
      /\ r.spectator = spectator2 /\ r.ai = s.ai \ {p} /\ r.host = s.host
      /\ r.running = s.running /\ r.aiCount = s.aiCount
      /\ r.seats = s.seats /\ r.live = s.live
      /\ r.steered = s.steered /\ r.pingOwners = s.pingOwners
  BY <1>1 DEF Table
<1>4. r \in Table
  BY <1>1, <1>2 DEF Table
<1> HIDE DEF r, spectator2
<1>5. OneBinding(r)
  BY <1>3 DEF Core, OneBinding
<1>6. /\ t \in Table
      /\ OneBinding(t)
      /\ \A q \in Player : t.active[q] = IF q = p THEN c ELSE s.active[q]
      /\ t.members = s.members \cup {p} /\ t.connected = s.connected \cup {p}
      /\ t.spectator = spectator2 /\ t.ai = s.ai \ {p} /\ t.host = s.host
      /\ t.running = s.running /\ t.aiCount = s.aiCount
      /\ t.seats = s.seats /\ t.live = s.live
      /\ t.steered = s.steered /\ t.pingOwners = s.pingOwners
  BY <1>3, <1>4, <1>5, BindingFields
<1>7. t = Admit(s, c, p, wants)
  BY DEF Admit, r
<1> HIDE DEF t
<1>8. Core(t)
  <2>1. ActiveIffConnected(t)
    BY <1>6, ConstantsAssumption DEF Core, ActiveIffConnected
  <2>2. SeatsAreMembers(t)
    BY <1>6 DEF Core, SeatsAreMembers, spectator2
  <2>3. NoGameNoState(t)
    BY <1>6 DEF Core, NoGameNoState
  <2>4. AiIffAbsent(t)
    BY <1>6 DEF Core, AiIffAbsent, SeatsAreMembers
  <2>5. SpectatorsConnected(t)
    BY <1>6 DEF Core, SpectatorsConnected, spectator2
  <2>6. SeatedEffects(t)
    BY <1>6 DEF Core, SeatedEffects
  <2> QED
    BY <1>6, <2>1, <2>2, <2>3, <2>4, <2>5, <2>6 DEF Core
<1> QED
  BY <1>6, <1>7, <1>8

\* Starting a match seats the humans present and drops the leftovers.
LEMMA SeatMembersKeeps ==
  ASSUME NEW s, Core(s), HostConnected(s), NEW n \in Nat
  PROVE  LET t == SeatMembers(s, n)
         IN  Core(t) /\ HostConnected(t)
             /\ t.host = s.host /\ t.connected \subseteq s.connected
             /\ t.members \subseteq s.members /\ t.running
             /\ t.seats \subseteq s.connected
<1> DEFINE kept == s.spectator \cup Humans(s)
           active2 == WithoutActive(s, s.members \ kept)
           t == SeatMembers(s, n)
<1>1. s \in Table
  BY DEF Core
<1>2. /\ active2 \in [Player -> Client \cup {NoClient}]
      /\ \A p \in Player :
           active2[p] = IF p \in s.members \ kept THEN NoClient ELSE s.active[p]
  BY <1>1 DEF WithoutActive, Table
<1>3. /\ kept \subseteq Player /\ Humans(s) \subseteq Player
      /\ s.connected \subseteq kept /\ kept \subseteq s.members
      /\ kept = s.connected
  BY <1>1 DEF Humans, Core, SpectatorsConnected, ActiveIffConnected, Table
<1>4. t = [s EXCEPT !.running = TRUE, !.aiCount = n, !.seats = Humans(s),
                    !.live = Humans(s), !.steered = {}, !.pingOwners = {},
                    !.members = @ \cap kept, !.connected = @ \cap kept,
                    !.ai = Humans(s) \ s.connected, !.active = active2]
  BY DEF SeatMembers
<1> HIDE DEF t, active2, kept
<1>5. t \in Table
  BY <1>1, <1>2, <1>3, <1>4, ZenonT(30) DEF Table
<1>6. /\ t.clients = s.clients /\ t.bound = s.bound /\ t.active = active2
      /\ t.members = s.members \cap kept /\ t.connected = s.connected \cap kept
      /\ t.spectator = s.spectator /\ t.ai = Humans(s) \ s.connected
      /\ t.host = s.host /\ t.running = TRUE /\ t.aiCount = n
      /\ t.seats = Humans(s) /\ t.live = Humans(s)
      /\ t.steered = {} /\ t.pingOwners = {}
  BY <1>1, <1>4 DEF Table
<1>7. \A p \in Player : active2[p] = s.active[p]
  BY <1>1, <1>2, <1>3 DEF Core, ActiveIffConnected
<1>8. OneBinding(t)
  BY <1>1, <1>3, <1>6, <1>7, ConstantsAssumption
  DEF Core, OneBinding, ActiveIffConnected, Table
<1>9. /\ ActiveIffConnected(t)
      /\ SeatsAreMembers(t)
      /\ NoGameNoState(t)
      /\ AiIffAbsent(t)
      /\ SpectatorsConnected(t)
      /\ SeatedEffects(t)
      /\ HostConnected(t)
  BY <1>3, <1>6, <1>7 DEF Core, HostConnected, ActiveIffConnected, SeatsAreMembers,
     NoGameNoState, AiIffAbsent, SpectatorsConnected, SeatedEffects, Humans
<1>10. t.seats \subseteq s.connected
  BY <1>6 DEF Humans
<1> QED
  BY <1>5, <1>6, <1>8, <1>9, <1>10 DEF Core, t

\* Dropping the game leaves a consistent lobby.
LEMMA DropGameKeeps ==
  ASSUME NEW s, Core(s)
  PROVE  LET t == DropGame(s)
         IN  /\ Core(t)
             /\ t.host = s.host /\ t.connected = s.connected
             /\ t.members = s.members /\ ~t.running
<1> DEFINE t == DropGame(s)
<1>1. s \in Table
  BY DEF Core
<1>2. t \in Table
  BY <1>1 DEF DropGame, Table
<1>3. /\ t.clients = s.clients /\ t.bound = s.bound /\ t.active = s.active
      /\ t.members = s.members /\ t.connected = s.connected
      /\ t.spectator = s.spectator /\ t.ai = {}
      /\ t.host = s.host /\ t.running = FALSE /\ t.aiCount = 0
      /\ t.seats = {} /\ t.live = {} /\ t.steered = {} /\ t.pingOwners = {}
  BY <1>1 DEF DropGame, Table
<1> HIDE DEF t
<1>4. Core(t)
  BY <1>2, <1>3 DEF Core, OneBinding, ActiveIffConnected, SeatsAreMembers,
     NoGameNoState, AiIffAbsent, SpectatorsConnected, SeatedEffects
<1> QED
  BY <1>3, <1>4 DEF t

-----------------------------------------------------------------------------
\* The inductive invariant.  Besides the properties it says that a member's
\* number was issued: otherwise a new member could replace an existing one.
IInv ==
  /\ TypeOK
  /\ Core(srv)
  /\ HostConnected(srv)
  /\ \A p \in srv.members : p < nextPlayer

\* What every step owes: the inductive invariant of the new table, the two action
\* properties, and what the roster needs besides: one arrival at most, none when a
\* match begins or ends, and a match begins with a host.
Keeps(s) ==
  /\ Core(s)
  /\ HostConnected(s)
  /\ srv.host \in s.connected => s.host = srv.host
  /\ srv.running /\ s.running => s.seats = srv.seats
  /\ \A p, q \in s.connected \ srv.connected : p = q
  /\ srv.running # s.running => s.connected \subseteq srv.connected
  /\ ~srv.running /\ s.running =>
       /\ srv.host \in srv.connected
       /\ s.seats \subseteq srv.connected

Step ==
  /\ Keeps(srv')
  /\ \A p \in srv'.members : p < nextPlayer'

\* The server starts with a consistent table.
LEMMA InitInv == Init => IInv
<1> SUFFICES ASSUME Init PROVE IInv
  OBVIOUS
<1>1. EmptyTable \in Table
  BY DEF EmptyTable, Table
<1>2. TypeOK
  BY <1>1, ConstantsAssumption DEF Init, TypeOK
<1> QED
  BY <1>1, <1>2, ConstantsAssumption DEF Init, IInv, EmptyTable, Core, HostConnected,
     OneBinding, ActiveIffConnected, SeatsAreMembers, NoGameNoState, AiIffAbsent,
     SpectatorsConnected, SeatedEffects

\* Steps that leave the table alone.
LEMMA SameTable ==
  ASSUME IInv, srv' = srv, nextPlayer' = nextPlayer
  PROVE  Step
BY DEF IInv, Step, Keeps

\* Steps that only lose connections.
LEMMA SmallerTable ==
  ASSUME IInv, NEW s, Core(s), HostConnected(s), Lessens(srv, s),
         srv' = s, nextPlayer' = nextPlayer
  PROVE  Step
BY DEF IInv, Step, Keeps, Lessens

\* One lemma per action follows.  A new connection is bound to nobody.
LEMMA ConnectStep ==
  ASSUME IInv, NEW c \in Client, Connect(c)
  PROVE  Step
<1>1. srv \in Table /\ c \notin srv.clients
  BY DEF IInv, TypeOK, Connect
<1>2. srv.bound[c] = NoPlayer
  BY <1>1 DEF IInv, Core, OneBinding
<1>3. /\ srv' \in Table
      /\ srv'.clients = srv.clients \cup {c} /\ srv'.bound = srv.bound
      /\ srv'.active = srv.active
      /\ srv'.members = srv.members /\ srv'.connected = srv.connected
      /\ srv'.spectator = srv.spectator /\ srv'.ai = srv.ai /\ srv'.host = srv.host
      /\ srv'.running = srv.running /\ srv'.aiCount = srv.aiCount
      /\ srv'.seats = srv.seats /\ srv'.live = srv.live
      /\ srv'.steered = srv.steered /\ srv'.pingOwners = srv.pingOwners
  BY <1>1, <1>2 DEF Connect, Table
<1>4. OneBinding(srv')
  <2>1. \A p \in Player : srv.active[p] # c
    BY DEF Connect
  <2> QED
    BY <1>3, <2>1 DEF IInv, Core, OneBinding
<1>5. Core(srv') /\ HostConnected(srv')
  BY <1>3, <1>4 DEF IInv, Core, ActiveIffConnected, SeatsAreMembers, NoGameNoState,
     AiIffAbsent, SpectatorsConnected, SeatedEffects, HostConnected
<1>6. nextPlayer' = nextPlayer
  BY DEF Connect
<1> QED
  BY <1>3, <1>5, <1>6 DEF Step, Keeps, IInv

\* The end of a connection.
LEMMA DisconnectStep ==
  ASSUME IInv, NEW c \in Client, NEW slow \in SUBSET Client, Disconnect(c, slow)
  PROVE  Step
<1> DEFINE s == DisconnectClients(srv, {c})
<1>1. {c} \in SUBSET Client
  OBVIOUS
<1>2. Core(s) /\ HostConnected(s) /\ Lessens(srv, s)
  BY <1>1, DisconnectKeeps, DisconnectLessens DEF IInv
<1>3. nextPlayer' = nextPlayer /\ (srv' = s \/ srv' = BroadcastLobby(s, slow))
  BY DEF Disconnect
<1> HIDE DEF s
<1>4. /\ Core(BroadcastLobby(s, slow)) /\ HostConnected(BroadcastLobby(s, slow))
      /\ Lessens(srv, BroadcastLobby(s, slow))
  BY <1>2, BroadcastLobbyKeeps, LessensTransitive
<1> QED
  BY <1>2, <1>3, <1>4, SmallerTable

\* Any `hello` that ends in a welcome.
LEMMA WelcomeStep ==
  ASSUME IInv, NEW s, Core(s),
         s.host = srv.host, s.running = srv.running, s.seats = srv.seats,
         NEW c, NEW p \in Player, NEW slow \in SUBSET Client,
         s.connected = srv.connected \cup {p},
         \A q \in s.members : q < nextPlayer',
         srv' = Welcome(s, c, p, slow)
  PROVE  Step
<1>1. Core(srv') /\ HostConnected(srv') /\ Lessens(s, srv')
  BY WelcomeKeeps
<1> QED
  BY <1>1 DEF Step, Keeps, Lessens

\* A repeated `hello`.
LEMMA HelloAgainStep ==
  ASSUME IInv, NEW c \in Client, NEW token, NEW wants \in BOOLEAN,
         NEW slow \in SUBSET Client, HelloAgain(c, token, wants, slow)
  PROVE  Step
<1> DEFINE p == srv.bound[c]
           s == Rejoin(srv, c, p, wants)
<1>1. p \in srv.members /\ p \in Player
  BY DEF HelloAgain, IInv, TypeOK, Table
<1>2. ~LateForGame(srv, p)
  BY <1>1 DEF LateForGame, IInv, Core, SeatsAreMembers
<1>3. /\ Core(s) /\ s.members = srv.members /\ s.connected = srv.connected \cup {p}
      /\ s.host = srv.host /\ s.running = srv.running /\ s.seats = srv.seats
  BY <1>1, <1>2, RejoinKeeps DEF IInv
<1>4. srv' = Welcome(s, c, p, slow) /\ nextPlayer' = nextPlayer
  BY DEF HelloAgain
<1> HIDE DEF s, p
<1>5. \A q \in s.members : q < nextPlayer'
  BY <1>3, <1>4 DEF IInv
<1> QED
  BY <1>1, <1>3, <1>4, <1>5, WelcomeStep

\* A return by token.
LEMMA HelloWithTokenStep ==
  ASSUME IInv, NEW c \in Client, NEW p \in Player, NEW wants \in BOOLEAN,
         NEW slow \in SUBSET Client, HelloWithToken(c, p, wants, slow)
  PROVE  Step
<1> DEFINE s == Rejoin(srv, c, p, wants)
<1>1. p \in srv.members /\ ~LateForGame(srv, p)
  BY DEF HelloWithToken
<1>2. srv.bound[c] = NoPlayer /\ ForgetMissingMember(srv, c) = srv
  BY NothingToForget DEF HelloWithToken, IInv
<1>3. /\ Core(s) /\ s.members = srv.members /\ s.connected = srv.connected \cup {p}
      /\ s.host = srv.host /\ s.running = srv.running /\ s.seats = srv.seats
  BY <1>1, <1>2, RejoinKeeps DEF IInv
<1>4. srv' = Welcome(s, c, p, slow) /\ nextPlayer' = nextPlayer
  BY <1>2 DEF HelloWithToken
<1> HIDE DEF s
<1>5. \A q \in s.members : q < nextPlayer'
  BY <1>3, <1>4 DEF IInv
<1> QED
  BY <1>3, <1>4, <1>5, WelcomeStep

\* A new member.
LEMMA HelloNewStep ==
  ASSUME IInv, NEW c \in Client, NEW token, NEW wants \in BOOLEAN,
         NEW slow \in SUBSET Client, HelloNew(c, token, wants, slow)
  PROVE  Step
<1> DEFINE p == nextPlayer
           s == Admit(srv, c, p, wants)
<1>1. p \in Player /\ p \notin srv.members
  BY ConstantsAssumption DEF HelloNew, IInv, TypeOK, Player
<1>2. srv.bound[c] = NoPlayer /\ ForgetMissingMember(srv, c) = srv
  BY NothingToForget DEF HelloNew, IInv
<1>3. /\ Core(s) /\ s.members = srv.members \cup {p}
      /\ s.connected = srv.connected \cup {p}
      /\ s.host = srv.host /\ s.running = srv.running /\ s.seats = srv.seats
  BY <1>1, <1>2, AdmitKeeps DEF IInv, HelloNew
<1>4. srv' = Welcome(s, c, p, slow) /\ nextPlayer' = nextPlayer + 1
  BY <1>2 DEF HelloNew
<1> HIDE DEF s
<1>5. \A q \in s.members : q < nextPlayer'
  <2>1. srv.members \subseteq Player /\ nextPlayer \in Nat
    BY ConstantsAssumption DEF IInv, TypeOK, Table
  <2> QED
    BY <2>1, <1>3, <1>4, ConstantsAssumption DEF IInv, Player
<1> QED
  BY <1>1, <1>3, <1>4, <1>5, WelcomeStep

\* A refused `hello`.
LEMMA HelloRefusedStep ==
  ASSUME IInv, NEW c \in Client, NEW token, NEW wants \in BOOLEAN,
         NEW slow \in SUBSET Client, HelloRefused(c, token, wants, slow)
  PROVE  Step
<1>1. ForgetMissingMember(srv, c) = srv
  BY NothingToForget DEF IInv
<1>2. srv' = SendToClient(srv, c, slow) /\ nextPlayer' = nextPlayer
  BY <1>1 DEF HelloRefused
<1> QED
  BY <1>2, SendKeeps, SmallerTable DEF IInv

\* A request that is only answered.
LEMMA AnswerStep ==
  ASSUME IInv, NEW c \in Client, NEW slow \in SUBSET Client, Answer(c, slow)
  PROVE  Step
BY SendKeeps, SmallerTable DEF IInv, Answer

\* A start request that is refused.
LEMMA StartRefusedStep ==
  ASSUME IInv, NEW c \in Client, NEW n, NEW slow \in SUBSET Client,
         StartRefused(c, n, slow)
  PROVE  Step
<1> DEFINE s == EnsureHostAssigned(srv, NoPlayer)
           to == s.active[pending[c].player]
<1>1. Core(s) /\ HostConnected(s) /\ Lessens(srv, s)
  BY EnsureHostKeeps, EnsureHostLessens DEF IInv
<1>2. srv' = SendToClient(s, to, slow) /\ nextPlayer' = nextPlayer
  BY DEF StartRefused, Finish
<1> HIDE DEF s, to
<1>3. /\ Core(SendToClient(s, to, slow)) /\ HostConnected(SendToClient(s, to, slow))
      /\ Lessens(srv, SendToClient(s, to, slow))
  BY <1>1, SendKeeps, LessensTransitive
<1> QED
  BY <1>2, <1>3, SmallerTable

\* The start of a match.
LEMMA StartMatchStep ==
  ASSUME IInv, NEW c \in Client, NEW n \in AiCounts, NEW slow \in SUBSET Client,
         StartMatch(c, n, slow)
  PROVE  Step
<1> DEFINE s == EnsureHostAssigned(srv, NoPlayer)
           m == SeatMembers(s, n)
           t == BroadcastLobby(m, slow)
           D == {t.active[p] : p \in t.connected} \cap slow
<1>1. Core(s) /\ HostConnected(s) /\ Lessens(srv, s)
  BY EnsureHostKeeps, EnsureHostLessens DEF IInv
<1>2. /\ srv' = DisconnectClients(t, D) /\ nextPlayer' = nextPlayer /\ ~srv.running
      /\ n \in Nat
  BY AiCountsAssumption DEF StartMatch, Finish
<1>3. D \in SUBSET Client
  OBVIOUS
<1>0. s.host \in Player
  <2>1. pending[c].op = "lobby_start" /\ s.host = pending[c].player
    BY DEF StartMatch, MayStart
  <2> QED
    BY <2>1 DEF IInv, TypeOK, Request, Idle
<1> HIDE DEF s
<1>7. srv.host \in srv.connected
  BY <1>0, <1>1, ConstantsAssumption DEF IInv, HostConnected, Lessens, Player, NoPlayer
<1>4. /\ Core(m) /\ HostConnected(m) /\ m.host = s.host
      /\ m.connected \subseteq s.connected /\ m.members \subseteq s.members
      /\ m.seats \subseteq s.connected
  BY <1>1, <1>2, SeatMembersKeeps
<1> HIDE DEF m
<1>5. Core(t) /\ HostConnected(t) /\ Lessens(m, t)
  BY <1>4, BroadcastLobbyKeeps
<1> HIDE DEF t, D
<1>6. Core(srv') /\ HostConnected(srv') /\ Lessens(t, srv')
  BY <1>2, <1>3, <1>5, DisconnectKeeps, DisconnectLessens
<1> QED
  BY <1>1, <1>2, <1>4, <1>5, <1>6, <1>7 DEF Step, Keeps, Lessens, IInv

\* An input, of a sender read in an earlier critical section.
LEMMA InputStep ==
  ASSUME IInv, NEW c \in Client, Input(c)
  PROVE  Step
<1> DEFINE more == {pending[c].player} \cap srv.live
<1>1. srv \in Table
  BY DEF IInv, TypeOK
<1>2. more \subseteq srv.seats /\ more \subseteq Player
  BY <1>1 DEF IInv, Core, SeatsAreMembers, NoGameNoState, Table
<1>3. srv' = [srv EXCEPT !.steered = @ \cup more] /\ nextPlayer' = nextPlayer
  BY DEF Input, Finish
<1> HIDE DEF more
<1>4. /\ srv' \in Table
      /\ srv'.clients = srv.clients /\ srv'.bound = srv.bound
      /\ srv'.active = srv.active
      /\ srv'.members = srv.members /\ srv'.connected = srv.connected
      /\ srv'.spectator = srv.spectator /\ srv'.ai = srv.ai /\ srv'.host = srv.host
      /\ srv'.running = srv.running /\ srv'.aiCount = srv.aiCount
      /\ srv'.seats = srv.seats /\ srv'.live = srv.live
      /\ srv'.steered = srv.steered \cup more /\ srv'.pingOwners = srv.pingOwners
  BY <1>1, <1>2, <1>3 DEF Table
<1>5. Core(srv') /\ HostConnected(srv')
  BY <1>2, <1>4 DEF IInv, Core, OneBinding, ActiveIffConnected, SeatsAreMembers,
     NoGameNoState, AiIffAbsent, SpectatorsConnected, SeatedEffects, HostConnected
<1> QED
  BY <1>3, <1>4, <1>5 DEF Step, Keeps, IInv

\* Any change of the ping owners that stays among the seats.
LEMMA PingOwnersStep ==
  ASSUME IInv, NEW P, P \subseteq srv.seats,
         srv' = [srv EXCEPT !.pingOwners = P], nextPlayer' = nextPlayer
  PROVE  Step
<1>1. srv \in Table
  BY DEF IInv, TypeOK
<1>2. /\ srv' \in Table
      /\ srv'.clients = srv.clients /\ srv'.bound = srv.bound
      /\ srv'.active = srv.active
      /\ srv'.members = srv.members /\ srv'.connected = srv.connected
      /\ srv'.spectator = srv.spectator /\ srv'.ai = srv.ai /\ srv'.host = srv.host
      /\ srv'.running = srv.running /\ srv'.aiCount = srv.aiCount
      /\ srv'.seats = srv.seats /\ srv'.live = srv.live
      /\ srv'.steered = srv.steered /\ srv'.pingOwners = P
  BY <1>1 DEF Table
<1>3. Core(srv') /\ HostConnected(srv')
  BY <1>2 DEF IInv, Core, OneBinding, ActiveIffConnected, SeatsAreMembers,
     NoGameNoState, AiIffAbsent, SpectatorsConnected, SeatedEffects, HostConnected
<1> QED
  BY <1>2, <1>3 DEF Step, Keeps, IInv

\* A ping, of a sender read in an earlier critical section.
LEMMA PlacePingStep ==
  ASSUME IInv, NEW c \in Client, NEW accepted \in BOOLEAN,
         NEW evicted, NEW slow \in SUBSET Client,
         PlacePing(c, accepted, evicted, slow)
  PROVE  Step
<1> DEFINE p == pending[c].player
           P == (srv.pingOwners \ {evicted}) \cup {p}
<1>1. nextPlayer' = nextPlayer
  BY DEF PlacePing, Finish
<1>2. CASE srv' = SendToClient(srv, c, slow)
  BY <1>1, <1>2, SendKeeps, SmallerTable DEF IInv
<1>3. CASE srv' # SendToClient(srv, c, slow)
  <2>1. p \in srv.seats /\ srv' = [srv EXCEPT !.pingOwners = P]
    BY <1>3 DEF PlacePing
  <2>2. P \subseteq srv.seats
    BY <2>1 DEF IInv, Core, SeatedEffects
  <2> QED
    BY <1>1, <2>1, <2>2, PingOwnersStep
<1> QED
  BY <1>2, <1>3

\* An ordinary tick.
LEMMA TickStep ==
  ASSUME IInv, NEW expired, Tick(expired)
  PROVE  Step
<1> DEFINE P == srv.pingOwners \ expired
<1>1. P \subseteq srv.seats
  BY DEF IInv, Core, SeatedEffects
<1>2. srv' = [srv EXCEPT !.pingOwners = P] /\ nextPlayer' = nextPlayer
  BY DEF Tick
<1> QED
  BY <1>1, <1>2, PingOwnersStep

\* The last tick of a match.
LEMMA GameOverStep ==
  ASSUME IInv, NEW slowOver \in SUBSET Client, NEW slowLobby \in SUBSET Client,
         GameOver(slowOver, slowLobby)
  PROVE  Step
<1> DEFINE b == Broadcast(srv, slowOver)
           d == DropGame(b)
           e == EnsureHostAssigned(d, NoPlayer)
<1>1. Core(b) /\ HostConnected(b) /\ Lessens(srv, b)
  BY BroadcastKeeps DEF IInv
<1>2. srv' = BroadcastLobby(e, slowLobby) /\ nextPlayer' = nextPlayer
  BY DEF GameOver
<1> HIDE DEF b
<1>3. /\ Core(d) /\ d.host = b.host /\ d.connected = b.connected
      /\ d.members = b.members /\ ~d.running
  BY <1>1, DropGameKeeps
<1> HIDE DEF d
<1>4. Core(e) /\ Lessens(d, e)
  BY <1>3, EnsureHostKeeps, EnsureHostLessens
<1> HIDE DEF e
<1>5. Core(srv') /\ HostConnected(srv') /\ Lessens(e, srv')
  BY <1>2, <1>4, BroadcastLobbyKeeps
<1> QED
  BY <1>1, <1>2, <1>3, <1>4, <1>5 DEF Step, Keeps, Lessens, IInv

-----------------------------------------------------------------------------
\* All steps with sends to a connection.
LEMMA HandleStep ==
  ASSUME IInv, NEW c \in Client, NEW slow \in SUBSET Client, Handle(c, slow)
  PROVE  Step
<1>1. CASE Hello(c, slow)
  <2>1. PICK wants \in BOOLEAN :
          \/ \E token \in {NoToken} \cup IssuedTokens :
               \/ HelloAgain(c, token, wants, slow)
               \/ HelloNew(c, token, wants, slow)
               \/ HelloRefused(c, token, wants, slow)
          \/ \E token \in IssuedTokens : HelloWithToken(c, token, wants, slow)
    BY <1>1 DEF Hello
  <2>2. ASSUME NEW token \in IssuedTokens, HelloWithToken(c, token, wants, slow)
        PROVE  Step
    <3>1. token \in Player
      BY <2>2 DEF HelloWithToken, IInv, TypeOK, Table
    <3> QED
      BY <2>2, <3>1, HelloWithTokenStep
  <2> QED
    BY <2>1, <2>2, HelloAgainStep, HelloNewStep, HelloRefusedStep
<1>2. CASE Answer(c, slow)
  BY <1>2, AnswerStep
<1>3. CASE \E aiCount \in AiCounts :
             StartRefused(c, aiCount, slow) \/ StartMatch(c, aiCount, slow)
  BY <1>3, StartRefusedStep, StartMatchStep
<1>4. CASE \E accepted \in BOOLEAN, evicted \in {NoPlayer} \cup srv.pingOwners :
             PlacePing(c, accepted, evicted, slow)
  BY <1>4, PlacePingStep
<1>5. CASE Disconnect(c, slow)
  BY <1>5, DisconnectStep
<1> QED
  BY <1>1, <1>2, <1>3, <1>4, <1>5 DEF Handle

\* All steps.
LEMMA NextStep == IInv /\ [Next]_vars => Step
<1> SUFFICES ASSUME IInv, [Next]_vars PROVE Step
  OBVIOUS
<1>1. ASSUME NEW c \in Client, Connect(c) PROVE Step
  BY <1>1, ConnectStep
<1>2. ASSUME NEW c \in Client, NEW op \in Operation, ReadSender(c, op) PROVE Step
  BY <1>2, SameTable DEF ReadSender
<1>3. ASSUME NEW c \in Client, StartIgnored(c) PROVE Step
  BY <1>3, SameTable DEF StartIgnored, Finish
<1>4. ASSUME NEW c \in Client, Input(c) PROVE Step
  BY <1>4, InputStep
<1>5. ASSUME NEW c \in Client, NEW slow \in SUBSET srv.clients, Handle(c, slow)
      PROVE  Step
  BY <1>5, HandleStep DEF IInv, TypeOK, Table
<1>6. ASSUME NEW expired \in SUBSET srv.pingOwners, Tick(expired) PROVE Step
  BY <1>6, TickStep
<1>7. ASSUME NEW slowOver \in SUBSET srv.clients, NEW slowLobby \in SUBSET srv.clients,
             GameOver(slowOver, slowLobby)
      PROVE  Step
  BY <1>7, GameOverStep DEF IInv, TypeOK, Table
<1>8. CASE UNCHANGED vars
  BY <1>8, SameTable DEF vars
<1> QED
  BY <1>1, <1>2, <1>3, <1>4, <1>5, <1>6, <1>7, <1>8 DEF Next

\* The types of the other variables.
LEMMA NextTypes ==
  IInv /\ [Next]_vars =>
    /\ open' \in SUBSET Client
    /\ pending' \in [Client -> Request \cup {Idle}]
    /\ nextPlayer' \in 1..(MaxPlayer + 1)
<1> SUFFICES ASSUME IInv, [Next]_vars
             PROVE  /\ open' \in SUBSET Client
                    /\ pending' \in [Client -> Request \cup {Idle}]
                    /\ nextPlayer' \in 1..(MaxPlayer + 1)
  OBVIOUS
<1>1. TypeOK
  BY DEF IInv
<1>2. ASSUME NEW c \in Client, Connect(c)
      PROVE  open' \in SUBSET Client /\ UNCHANGED <<pending, nextPlayer>>
  BY <1>1, <1>2 DEF Connect, TypeOK
<1>3. ASSUME NEW c \in Client, NEW op \in Operation, ReadSender(c, op)
      PROVE  /\ pending' \in [Client -> Request \cup {Idle}]
             /\ UNCHANGED <<open, nextPlayer>>
  <2>1. srv.bound[c] \in Player
    BY <1>1, <1>3 DEF ReadSender, TypeOK, Table
  <2>2. [op |-> op, player |-> srv.bound[c]] \in Request
    BY <2>1 DEF Request
  <2> QED
    BY <1>1, <1>3, <2>2 DEF ReadSender, TypeOK
<1>4. ASSUME NEW c \in Client, Finish(c)
      PROVE  /\ pending' \in [Client -> Request \cup {Idle}]
             /\ UNCHANGED <<open, nextPlayer>>
  BY <1>1, <1>4 DEF Finish, TypeOK
<1>5. ASSUME NEW c \in Client, NEW slow, Hello(c, slow)
      PROVE  /\ nextPlayer' \in 1..(MaxPlayer + 1)
             /\ UNCHANGED <<open, pending>>
  <2>1. nextPlayer' = nextPlayer \/ (nextPlayer <= MaxPlayer /\ nextPlayer' = nextPlayer + 1)
    BY <1>5 DEF Hello, HelloAgain, HelloNew, HelloRefused, HelloWithToken
  <2>2. UNCHANGED <<open, pending>>
    BY <1>5 DEF Hello, HelloAgain, HelloNew, HelloRefused, HelloWithToken
  <2> QED
    BY <2>1, <2>2, <1>1, ConstantsAssumption DEF TypeOK
<1>6. ASSUME NEW c \in Client, NEW slow, Handle(c, slow)
      PROVE  /\ open' \in SUBSET Client
             /\ pending' \in [Client -> Request \cup {Idle}]
             /\ nextPlayer' \in 1..(MaxPlayer + 1)
  <2>1. CASE Disconnect(c, slow)
    BY <2>1, <1>1 DEF Disconnect, TypeOK
  <2>2. CASE Answer(c, slow)
    BY <2>2, <1>1 DEF Answer, TypeOK
  <2>3. CASE Hello(c, slow)
    BY <2>3, <1>1, <1>5 DEF TypeOK
  <2>4. CASE \/ \E n \in AiCounts : StartRefused(c, n, slow) \/ StartMatch(c, n, slow)
             \/ \E accepted \in BOOLEAN, evicted \in {NoPlayer} \cup srv.pingOwners :
                  PlacePing(c, accepted, evicted, slow)
    <3>1. Finish(c)
      BY <2>4 DEF StartRefused, StartMatch, PlacePing
    <3> QED
      BY <3>1, <1>1, <1>4 DEF TypeOK
  <2> QED
    BY <1>6, <2>1, <2>2, <2>3, <2>4 DEF Handle
<1>7. CASE Next
  <2>1. CASE \E c \in Client : Connect(c)
    BY <2>1, <1>1, <1>2 DEF TypeOK
  <2>2. CASE \E c \in Client, op \in Operation : ReadSender(c, op)
    BY <2>2, <1>1, <1>3 DEF TypeOK
  <2>3. CASE \E c \in Client : StartIgnored(c) \/ Input(c)
    BY <2>3, <1>1, <1>4 DEF TypeOK, StartIgnored, Input
  <2>4. CASE \E c \in Client, slow \in SUBSET srv.clients : Handle(c, slow)
    BY <2>4, <1>6
  <2>5. CASE \/ \E expired \in SUBSET srv.pingOwners : Tick(expired)
             \/ \E so, sl \in SUBSET srv.clients : GameOver(so, sl)
    BY <2>5, <1>1 DEF TypeOK, Tick, GameOver
  <2> QED
    BY <1>7, <2>1, <2>2, <2>3, <2>4, <2>5 DEF Next
<1>8. CASE UNCHANGED vars
  BY <1>8, <1>1 DEF TypeOK, vars
<1> QED
  BY <1>7, <1>8

\* The invariant is inductive.
LEMMA InvKept == IInv /\ [Next]_vars => IInv'
<1> SUFFICES ASSUME IInv, [Next]_vars PROVE IInv'
  OBVIOUS
<1>1. Step
  BY NextStep
<1>2. TypeOK'
  BY <1>1, NextTypes DEF TypeOK, Step, Keeps, Core
<1> QED
  BY <1>1, <1>2 DEF IInv, Step, Keeps

\* The inductive invariant holds in every reachable state.
THEOREM Invariance == Spec => []IInv
BY InitInv, InvKept, PTL DEF Spec

\* Every variable keeps its type, whatever the connections do.
THEOREM TypeCorrect == Spec => []TypeOK
<1>1. IInv => TypeOK
  BY DEF IInv
<1> QED
  BY <1>1, Invariance, PTL

\* However connections supersede each other, fail and return, no member has two
\* connections, none is half bound, and "connected" means "has an active one".
THEOREM BindingCorrect == Spec => []BindingAgrees
<1>1. IInv => BindingAgrees
  BY DEF IInv, Core, BindingAgrees
<1> QED
  BY <1>1, Invariance, PTL

\* A lobby with connected members always has one of them as its host.
THEOREM HostCorrect == Spec => []HostIsConnected
<1>1. IInv => HostIsConnected
  BY DEF IInv, HostIsConnected
<1> QED
  BY <1>1, Invariance, PTL

\* In every match the human players are the members that do not spectate, AI
\* plays exactly those that are away, no spectator is away, and pings and inputs
\* belong to seats.
THEOREM SeatsCorrect == Spec => []SeatsAgree
<1>1. IInv => SeatsAgree
  BY DEF IInv, Core, SeatsAgree
<1> QED
  BY <1>1, Invariance, PTL

\* No step takes the role from a host that stays connected.
THEOREM HostStability == Spec => HostIsStable
<1>1. IInv /\ [Next]_vars => [srv.host \in srv.connected' => srv.host' = srv.host]_srv
  BY NextStep DEF Step, Keeps
<1> QED
  BY <1>1, Invariance, PTL DEF Spec, HostIsStable

\* No step of a match adds or removes a seat, or drops the member it belongs to.
THEOREM SeatStability == Spec => SeatsAreKept
<1>1. IInv /\ [Next]_vars =>
        [srv.running /\ srv.running' =>
           srv.seats' = srv.seats /\ srv.seats \subseteq srv.members']_srv
  BY NextStep DEF Step, Keeps, Core, SeatsAreMembers
<1> QED
  BY <1>1, Invariance, PTL DEF Spec, SeatsAreKept

-----------------------------------------------------------------------------
\* The server implements the roster of MatchRoster: its connected members, host
\* and seats behave as that specification says, each step being one of its steps
\* or leaving the roster alone.
THEOREM Refinement == Spec => ImplementsRoster
<1>1. Init => Roster!Init
  BY DEF Init, EmptyTable, Roster!Init
<1>2. IInv /\ [Next]_vars => [Roster!Next]_Roster!vars
  <2> SUFFICES ASSUME IInv, [Next]_vars PROVE [Roster!Next]_Roster!vars
    OBVIOUS
  <2>1. Keeps(srv')
    BY NextStep DEF Step
  <2>2. Roster!HostPasses
    BY <2>1 DEF Keeps, HostConnected, Roster!HostPasses
  <2>3. \E p \in Player : srv'.connected \subseteq srv.connected \cup {p}
    <3>1. srv'.connected \subseteq Player /\ 1 \in Player
      BY <2>1, ConstantsAssumption DEF Keeps, Core, Table, Player
    <3>2. CASE srv'.connected \subseteq srv.connected
      BY <3>1, <3>2
    <3>3. CASE \E p \in srv'.connected : p \notin srv.connected
      BY <2>1, <3>1, <3>3 DEF Keeps
    <3> QED
      BY <3>2, <3>3
  <2>4. srv.running \in BOOLEAN /\ srv'.running \in BOOLEAN
    BY <2>1 DEF Keeps, Core, IInv, Table
  <2>5. CASE srv.running = srv'.running
    <3>1. srv'.seats = srv.seats
      BY <2>1, <2>4, <2>5 DEF Keeps, Core, NoGameNoState, IInv
    <3> QED
      BY <2>2, <2>3, <2>5, <3>1 DEF Roster!Next, Roster!ComeAndGo
  <2>6. CASE ~srv.running /\ srv'.running
    BY <2>1, <2>2, <2>6 DEF Keeps, Roster!Next, Roster!Begin
  <2>7. CASE srv.running /\ ~srv'.running
    BY <2>1, <2>2, <2>7 DEF Keeps, Core, NoGameNoState, Roster!Next, Roster!End
  <2> QED
    BY <2>4, <2>5, <2>6, <2>7
<1> QED
  BY <1>1, <1>2, Invariance, PTL DEF Spec, ImplementsRoster, Roster!Spec

=============================================================================
