-------------------------- MODULE TabSessionsProofs --------------------------
(***************************************************************************)
(* Proofs about TabSessions and the table of the TypeScript server below   *)
(* it, for any number of tabs, connections, rooms, members and moves.      *)
(*                                                                         *)
(* A room is taken by itself first: RoomOK says what holds of its record   *)
(* at any time, and each operator on rooms is shown to keep it.  A table   *)
(* is Sound if its rooms are and its bindings agree; LeaveRoom and         *)
(* HandleHello pass through tables that are not, so each is seen as one    *)
(* replacement of a room and of some bindings (Placed).                    *)
(*                                                                         *)
(* What a tab knows is stated of the messages that are under way to it:    *)
(* Heard is what the tab will take itself for once it has handled them,    *)
(* Truth is what the table says of it.  Each handler is shown to tell      *)
(* every tab what it changes (Tells), each step of a tab to take one       *)
(* message from the front, and Knowing, the invariant of the second        *)
(* induction, is that Heard and Truth agree for each open connection.      *)
(***************************************************************************)
EXTENDS TabSessions, FiniteSetTheorems, WellFoundedInduction, TLAPS

-----------------------------------------------------------------------------
(* One room.                                                               *)

\* `before` is the order of a Map: strict, total and transitive.
Ordered(m) ==
  /\ m.before \subseteq m.members \X m.members
  /\ \A p \in m.members : <<p, p>> \notin m.before
  /\ \A p, q \in m.members : p # q => <<p, q>> \in m.before \/ <<q, p>> \in m.before
  /\ \A p, q, o \in m.members :
       <<p, q>> \in m.before /\ <<q, o>> \in m.before => <<p, o>> \in m.before

Flagged(m) ==
  /\ m.connected \cup m.spectator \cup m.ai \subseteq m.members
  /\ m.spectator \subseteq m.connected
  /\ \A p \in Player : p \in m.connected <=> m.active[p] # NoConn

Seated(m) ==
  IF m.running
  THEN /\ m.seats = m.members \ m.spectator
       /\ m.live = m.seats \cap m.connected
       /\ m.ai = m.seats \ m.connected
       /\ m.spectator \subseteq m.connected
       /\ m.steered \cup m.pingOwners \subseteq m.seats
  ELSE m.seats \cup m.live \cup m.ai \cup m.steered \cup m.pingOwners = {}

RoomOK(m) == m \in RoomState /\ Ordered(m) /\ Flagged(m) /\ Seated(m)

Hosted(m) == IF m.connected = {} THEN m.host = NoPlayer ELSE m.host \in m.connected

\* A set of numbers that is not empty has a least element.
LEMMA NatMinimum ==
  ASSUME NEW S \in SUBSET Nat, S # {}
  PROVE  \E p \in S : \A q \in S : p <= q
<1> DEFINE R == {ss \in Nat \X Nat : ss[1] < ss[2]}
<1>1. R = OpToRel(<, Nat)
  BY Zenon DEF OpToRel
<1>2. IsWellFoundedOn(R, Nat)
  BY <1>1, NatLessThanWellFounded, Zenon
<1> HIDE DEF R
<1>3. \E p \in S : \A q \in S : ~(<<q, p>> \in R)
  BY <1>2, WFMin, Zenon
<1>4. \E p \in S : \A q \in S : ~(q < p)
  BY <1>3 DEF R
<1> QED
  BY <1>4

LEMMA PlayersFinite == IsFiniteSet(Player) /\ Player \subseteq Nat /\ NoPlayer \notin Player
<1>1. MaxPlayer \in Int /\ 1 \in Int
  BY TableAssumption
<1>2. IsFiniteSet(1..MaxPlayer)
  BY <1>1, FS_Interval
<1> QED
  BY <1>2, TableAssumption DEF Player, NoPlayer

\* Members that are not none have a first one: the member with the fewest
\* before it.
LEMMA FirstMember ==
  ASSUME NEW m \in RoomState, Ordered(m), NEW S \in SUBSET m.members, S # {}
  PROVE  \E p \in S : \A q \in S \ {p} : <<p, q>> \in m.before
<1> DEFINE Earlier(p) == {q \in S : <<q, p>> \in m.before}
           sizes == {Cardinality(Earlier(p)) : p \in S}
<1>1. m.members \subseteq Player
  BY DEF RoomState
<1>2. \A p \in S : IsFiniteSet(Earlier(p)) /\ Cardinality(Earlier(p)) \in Nat
  <2> SUFFICES ASSUME NEW p \in S PROVE IsFiniteSet(Earlier(p)) /\ Cardinality(Earlier(p)) \in Nat
    OBVIOUS
  <2>1. Earlier(p) \subseteq Player
    BY <1>1
  <2>2. IsFiniteSet(Earlier(p))
    BY <2>1, PlayersFinite, FS_Subset
  <2> QED
    BY <2>2, FS_CardinalityType
<1>3. sizes \in SUBSET Nat /\ sizes # {}
  BY <1>2
<1>4. PICK n \in sizes : \A k \in sizes : n <= k
  <2> HIDE DEF sizes
  <2> QED  BY <1>3, NatMinimum
<1>5. PICK p \in S : \A q \in S : Cardinality(Earlier(p)) <= Cardinality(Earlier(q))
  BY <1>4
<1> SUFFICES ASSUME NEW q \in S \ {p} PROVE <<p, q>> \in m.before
  BY <1>5
<1> SUFFICES ASSUME <<p, q>> \notin m.before PROVE FALSE
  OBVIOUS
<1>6. <<q, p>> \in m.before
  BY DEF Ordered
<1>7. Earlier(q) \subseteq Earlier(p) /\ q \in Earlier(p) /\ q \notin Earlier(q)
  BY <1>6 DEF Ordered
<1>8. /\ Cardinality(Earlier(q)) <= Cardinality(Earlier(p))
      /\ Cardinality(Earlier(q)) = Cardinality(Earlier(p)) => Earlier(q) = Earlier(p)
  <2>1. Earlier(q) \subseteq Earlier(p) /\ IsFiniteSet(Earlier(p))
    BY <1>2, <1>7
  <2> HIDE DEF Earlier
  <2> QED  BY <2>1, FS_Subset
<1>9. Cardinality(Earlier(q)) \in Nat /\ Cardinality(Earlier(p)) \in Nat
      /\ Cardinality(Earlier(p)) <= Cardinality(Earlier(q))
  BY <1>2, <1>5
<1>10. Earlier(q) # Earlier(p)
  BY <1>7
<1> HIDE DEF Earlier
<1> QED
  BY <1>8, <1>9, <1>10

\* chooseNextHost finds a connected member whenever there is one.
LEMMA NextHost ==
  ASSUME NEW m, RoomOK(m)
  PROVE  IF m.connected = {} THEN ChooseNextHost(m) = NoPlayer
                             ELSE ChooseNextHost(m) \in m.connected
<1>1. m \in RoomState /\ Ordered(m) /\ m.members \cap m.connected = m.connected
  BY DEF RoomOK, Flagged
<1>2. m.connected \in SUBSET m.members
  BY DEF RoomOK, Flagged
<1>3. m.connected # {} => \E p \in m.connected : \A q \in m.connected \ {p} : <<p, q>> \in m.before
  BY <1>1, <1>2, FirstMember
<1> QED
  BY <1>1, <1>3 DEF ChooseNextHost

\* A room that is told apart by its host only.
LEMMA HostOnly ==
  ASSUME NEW m, RoomOK(m), NEW h \in Player \cup {NoPlayer}
  PROVE  /\ RoomOK([m EXCEPT !.host = h])
         /\ [m EXCEPT !.host = h].host = h
         /\ [m EXCEPT !.host = h].connected = m.connected
         /\ [m EXCEPT !.host = h].members = m.members
         /\ [m EXCEPT !.host = h].active = m.active
         /\ [m EXCEPT !.host = h].running = m.running
<1> DEFINE t == [m EXCEPT !.host = h]
<1>1. m \in RoomState
  BY DEF RoomOK
<1>2. /\ t \in RoomState /\ t.host = h
      /\ t.members = m.members /\ t.before = m.before /\ t.connected = m.connected
      /\ t.spectator = m.spectator /\ t.ai = m.ai /\ t.active = m.active
      /\ t.running = m.running /\ t.seats = m.seats /\ t.live = m.live
      /\ t.steered = m.steered /\ t.pingOwners = m.pingOwners
  BY <1>1 DEF RoomState
<1> HIDE DEF t
<1>3. RoomOK(t)
  BY <1>2 DEF RoomOK, Ordered, Flagged, Seated
<1> QED
  BY <1>2, <1>3 DEF t

\* ensureHostAssigned gives the room a host that is there.
LEMMA EnsureHostOK ==
  ASSUME NEW m, RoomOK(m), NEW p \in Player \cup {NoPlayer}
  PROVE  LET t == EnsureHostAssigned(m, p)
         IN  /\ RoomOK(t) /\ Hosted(t)
             /\ t.connected = m.connected /\ t.members = m.members
             /\ t.active = m.active /\ t.running = m.running
<1>1. m.connected \subseteq Player
  BY DEF RoomOK, RoomState
<1>2. CASE m.host \in m.connected
  BY <1>2 DEF EnsureHostAssigned, Hosted
<1>3. CASE m.host \notin m.connected
  <2> DEFINE h == IF p \in m.connected THEN p ELSE ChooseNextHost(m)
  <2>1. /\ h \in Player \cup {NoPlayer}
        /\ IF m.connected = {} THEN h = NoPlayer ELSE h \in m.connected
    BY <1>1, NextHost
  <2>2. EnsureHostAssigned(m, p) = [m EXCEPT !.host = h]
    BY <1>3 DEF EnsureHostAssigned
  <2> HIDE DEF h
  <2> QED
    BY <2>1, <2>2, HostOnly DEF Hosted
<1> QED
  BY <1>2, <1>3

\* It changes nothing else.
LEMMA EnsureHostFlags ==
  ASSUME NEW m \in RoomState, NEW p
  PROVE  LET t == EnsureHostAssigned(m, p)
         IN  t.spectator = m.spectator /\ t.live = m.live /\ t.steered = m.steered
BY DEF EnsureHostAssigned, RoomState

LEMMA CreatedRoomOK == RoomOK(CreatedRoom) /\ Hosted(CreatedRoom)
<1> DEFINE m == CreatedRoom
<1>1. /\ m.members = {} /\ m.before = {} /\ m.connected = {} /\ m.spectator = {}
      /\ m.ai = {} /\ m.host = NoPlayer /\ m.running = FALSE /\ m.seats = {}
      /\ m.live = {} /\ m.steered = {} /\ m.pingOwners = {}
      /\ \A p \in Player : m.active[p] = NoConn
  BY DEF CreatedRoom
<1>2. m \in RoomState
  BY DEF CreatedRoom, RoomState
<1> HIDE DEF m
<1>3. RoomOK(m) /\ Hosted(m)
  BY <1>1, <1>2 DEF RoomOK, Ordered, Flagged, Seated, Hosted
<1> QED
  BY <1>3 DEF m

\* Keys that are deleted, and one that is added, leave an order.
LEMMA OnlyOrdered ==
  ASSUME NEW m \in RoomState, Ordered(m), NEW P \in SUBSET Player
  PROVE  /\ Only(m, P) \in RoomState /\ Ordered(Only(m, P))
         /\ Only(m, P) = [m EXCEPT !.members = m.members \cap P,
                                   !.before = m.before \cap (P \X P)]
<1> DEFINE t == Only(m, P)
<1>1. /\ t \in RoomState
      /\ t.members = m.members \cap P /\ t.before = m.before \cap (P \X P)
  BY DEF Only, RoomState
<1> HIDE DEF t
<1>2. Ordered(t)
  BY <1>1 DEF Ordered
<1> QED
  BY <1>1, <1>2 DEF t, Only

LEMMA JoinedOrdered ==
  ASSUME NEW m \in RoomState, Ordered(m), NEW p \in Player \ m.members
  PROVE  /\ Joined(m, p) \in RoomState /\ Ordered(Joined(m, p))
<1> DEFINE t == Joined(m, p)
<1>1. /\ t \in RoomState
      /\ t.members = m.members \cup {p} /\ t.before = m.before \cup (m.members \X {p})
  BY DEF Joined, RoomState
<1> HIDE DEF t
<1>2. Ordered(t)
  BY <1>1 DEF Ordered
<1> QED
  BY <1>1, <1>2 DEF t

\* A member whose connection has left: kept in a match it plays, else removed.
LEMMA LeftMemberOK ==
  ASSUME NEW m, RoomOK(m), Hosted(m), NEW p \in m.connected
  PROVE  LET t == LeftMember(m, p)
         IN  /\ RoomOK(t) /\ Hosted(t)
             /\ t.connected = m.connected \ {p} /\ t.members \subseteq m.members
             /\ t.active = [m.active EXCEPT ![p] = NoConn] /\ t.running = m.running
<1> DEFINE gone == [m EXCEPT !.active[p] = NoConn]
           kept == [gone EXCEPT !.connected = @ \ {p}, !.ai = @ \cup {p}, !.live = @ \ {p}]
           removed == [Only(gone, m.members \ {p}) EXCEPT
                         !.connected = @ \ {p}, !.spectator = @ \ {p}, !.ai = @ \ {p}]
           left == IF m.running /\ p \notin m.spectator THEN kept ELSE removed
<1>1. m \in RoomState /\ Ordered(m) /\ Flagged(m) /\ Seated(m) /\ p \in Player /\ p \in m.members
  BY DEF RoomOK, RoomState, Flagged
<1>2. /\ gone \in RoomState /\ gone.members = m.members /\ gone.before = m.before
      /\ gone.connected = m.connected /\ gone.spectator = m.spectator /\ gone.ai = m.ai
      /\ gone.active = [m.active EXCEPT ![p] = NoConn]
      /\ gone.host = m.host /\ gone.running = m.running /\ gone.seats = m.seats
      /\ gone.live = m.live /\ gone.steered = m.steered /\ gone.pingOwners = m.pingOwners
  BY <1>1 DEF RoomState
<1>3. Ordered(gone)
  BY <1>1, <1>2 DEF Ordered
<1> HIDE DEF gone
<1>4. m.active \in [Player -> Conn \cup {NoConn}]
  BY <1>1 DEF RoomState
<1>5. ASSUME m.running, p \notin m.spectator
      PROVE  /\ RoomOK(kept) /\ kept.connected = m.connected \ {p}
             /\ kept.members \subseteq m.members
             /\ kept.active = [m.active EXCEPT ![p] = NoConn]
             /\ kept.running = m.running /\ kept.host = m.host
  <2>1. /\ kept \in RoomState /\ kept.members = m.members /\ kept.before = m.before
        /\ kept.connected = m.connected \ {p} /\ kept.spectator = m.spectator
        /\ kept.ai = m.ai \cup {p} /\ kept.active = [m.active EXCEPT ![p] = NoConn]
        /\ kept.host = m.host /\ kept.running = m.running /\ kept.seats = m.seats
        /\ kept.live = m.live \ {p} /\ kept.steered = m.steered
        /\ kept.pingOwners = m.pingOwners
    BY <1>1, <1>2 DEF RoomState
  <2> HIDE DEF kept
  <2>2. Ordered(kept)
    BY <1>1, <2>1 DEF Ordered
  <2>3. Flagged(kept)
    BY <1>1, <1>4, <1>5, <2>1 DEF Flagged
  <2>4. Seated(kept)
    BY <1>1, <1>5, <2>1 DEF Seated, Flagged
  <2> QED
    BY <1>5, <2>1, <2>2, <2>3, <2>4 DEF RoomOK
<1>6. ASSUME ~(m.running /\ p \notin m.spectator)
      PROVE  /\ RoomOK(removed) /\ removed.connected = m.connected \ {p}
             /\ removed.members \subseteq m.members
             /\ removed.active = [m.active EXCEPT ![p] = NoConn]
             /\ removed.running = m.running /\ removed.host = m.host
  <2> DEFINE only == Only(gone, m.members \ {p})
  <2>1. only \in RoomState /\ Ordered(only)
    BY <1>1, <1>2, <1>3, OnlyOrdered DEF RoomState
  <2>2. only = [gone EXCEPT !.members = gone.members \cap (m.members \ {p}),
                            !.before = gone.before \cap ((m.members \ {p}) \X (m.members \ {p}))]
    BY DEF Only
  <2>3. /\ only.members = m.members \ {p}
        /\ only.connected = m.connected /\ only.spectator = m.spectator /\ only.ai = m.ai
        /\ only.active = gone.active /\ only.host = m.host /\ only.running = m.running
        /\ only.seats = m.seats /\ only.live = m.live /\ only.steered = m.steered
        /\ only.pingOwners = m.pingOwners
    BY <1>2, <2>2 DEF RoomState
  <2> HIDE DEF only
  <2>4. removed = [only EXCEPT !.connected = @ \ {p}, !.spectator = @ \ {p}, !.ai = @ \ {p}]
    BY DEF only
  <2> HIDE DEF removed
  <2>5. /\ removed \in RoomState /\ removed.members = m.members \ {p}
        /\ removed.before = only.before
        /\ removed.connected = m.connected \ {p} /\ removed.spectator = m.spectator \ {p}
        /\ removed.ai = m.ai \ {p} /\ removed.active = [m.active EXCEPT ![p] = NoConn]
        /\ removed.host = m.host /\ removed.running = m.running /\ removed.seats = m.seats
        /\ removed.live = m.live /\ removed.steered = m.steered
        /\ removed.pingOwners = m.pingOwners
    BY <1>2, <2>1, <2>3, <2>4 DEF RoomState
  <2>6. Ordered(removed)
    BY <2>1, <2>3, <2>5 DEF Ordered
  <2>7. Flagged(removed)
    BY <1>1, <1>4, <2>5 DEF Flagged
  <2>8. Seated(removed)
    BY <1>1, <1>6, <2>5 DEF Seated, Flagged
  <2> QED
    BY <1>6, <2>5, <2>6, <2>7, <2>8 DEF RoomOK
<1>7. /\ RoomOK(left) /\ left.connected = m.connected \ {p} /\ left.members \subseteq m.members
      /\ left.active = [m.active EXCEPT ![p] = NoConn] /\ left.running = m.running
      /\ left.host = m.host
  <2> HIDE DEF kept, removed
  <2> QED  BY <1>5, <1>6
<1>8. LeftMember(m, p) = IF m.host = p THEN [left EXCEPT !.host = ChooseNextHost(left)] ELSE left
  BY <1>1 DEF LeftMember, gone
<1> HIDE DEF left
<1>9. IF left.connected = {} THEN ChooseNextHost(left) = NoPlayer
                             ELSE ChooseNextHost(left) \in left.connected
  BY <1>7, NextHost
<1>10. left.connected \subseteq Player
  BY <1>7 DEF RoomOK, RoomState
<1>11. CASE m.host = p
  <2>1. ChooseNextHost(left) \in Player \cup {NoPlayer}
    BY <1>9, <1>10
  <2>2. LeftMember(m, p) = [left EXCEPT !.host = ChooseNextHost(left)]
    BY <1>8, <1>11
  <2> QED
    BY <1>7, <1>9, <2>1, <2>2, HostOnly DEF Hosted
<1>12. CASE m.host # p
  BY <1>7, <1>8, <1>12 DEF Hosted
<1> QED
  BY <1>11, <1>12

\* A member on its connection c; the engine is told, if it has a seat.
Back(m, c, p, wantsSpectator) ==
  LET t == Returned(m, p, wantsSpectator)
  IN  [t EXCEPT !.active[p] = c, !.live = @ \cup (({p} \cap m.seats) \ t.spectator)]

LEMMA BackOK ==
  ASSUME NEW m, RoomOK(m), NEW p \in m.members, NEW c \in Conn, NEW w \in BOOLEAN
  PROVE  LET t == Back(m, c, p, w)
         IN  /\ RoomOK(t)
             /\ t.connected = m.connected \cup {p} /\ t.members = m.members
             /\ t.active = [m.active EXCEPT ![p] = c] /\ t.running = m.running
<1> DEFINE back == Returned(m, p, w)
           t == Back(m, c, p, w)
<1>1. m \in RoomState /\ Ordered(m) /\ Flagged(m) /\ Seated(m) /\ p \in Player
  BY DEF RoomOK, RoomState
<1>2. /\ back \in RoomState /\ back.members = m.members /\ back.before = m.before
      /\ back.connected = m.connected \cup {p} /\ back.ai = m.ai \ {p}
      /\ back.spectator = IF m.running THEN m.spectator
                          ELSE IF w THEN m.spectator \cup {p} ELSE m.spectator \ {p}
      /\ back.active = m.active
      /\ back.host = m.host /\ back.running = m.running /\ back.seats = m.seats
      /\ back.live = m.live /\ back.steered = m.steered /\ back.pingOwners = m.pingOwners
  BY <1>1 DEF Returned, RoomState
<1>3. t = [back EXCEPT !.active[p] = c, !.live = @ \cup (({p} \cap m.seats) \ back.spectator)]
  BY DEF Back
<1> HIDE DEF back, t
<1>4. /\ t \in RoomState /\ t.members = m.members /\ t.before = m.before
      /\ t.connected = m.connected \cup {p} /\ t.ai = m.ai \ {p}
      /\ t.spectator = back.spectator /\ t.active = [m.active EXCEPT ![p] = c]
      /\ t.host = m.host /\ t.running = m.running /\ t.seats = m.seats
      /\ t.live = m.live \cup (({p} \cap m.seats) \ back.spectator)
      /\ t.steered = m.steered /\ t.pingOwners = m.pingOwners
  BY <1>1, <1>2, <1>3 DEF RoomState
<1>5. Ordered(t)
  BY <1>1, <1>4 DEF Ordered
<1>6. Flagged(t)
  <2>1. m.active \in [Player -> Conn \cup {NoConn}]
    BY <1>1 DEF RoomState
  <2>2. t.spectator \subseteq m.spectator \cup {p}
    BY <1>2, <1>4
  <2>3. \A q \in Player : q \in t.connected <=> t.active[q] # NoConn
    BY <1>1, <1>4, <2>1, TableAssumption DEF Flagged
  <2> QED
    BY <1>1, <1>4, <2>2, <2>3 DEF Flagged
<1>7. Seated(t)
  <2>1. CASE m.running
    BY <1>1, <1>2, <1>4, <2>1 DEF Seated, Flagged
  <2>2. CASE ~m.running
    BY <1>1, <1>2, <1>4, <2>2 DEF Seated, Flagged
  <2> QED
    BY <2>1, <2>2
<1> QED
  BY <1>4, <1>5, <1>6, <1>7 DEF RoomOK, t

LEMMA JoiningOK ==
  ASSUME NEW m, RoomOK(m), NEW p \in Player \ m.members, NEW c \in Conn, NEW w \in BOOLEAN,
         m.running => w
  PROVE  LET t == [Joining(m, p, w) EXCEPT !.active[p] = c]
         IN  /\ RoomOK(t)
             /\ t.connected = m.connected \cup {p} /\ t.members = m.members \cup {p}
             /\ t.active = [m.active EXCEPT ![p] = c] /\ t.running = m.running
<1> DEFINE new == Joined(m, p)
           t == [Joining(m, p, w) EXCEPT !.active[p] = c]
<1>1. m \in RoomState /\ Ordered(m) /\ Flagged(m) /\ Seated(m)
  BY DEF RoomOK
<1>2. new \in RoomState /\ Ordered(new)
  BY <1>1, JoinedOrdered
<1>3. /\ new.members = m.members \cup {p}
      /\ new.connected = m.connected /\ new.ai = m.ai
      /\ new.spectator = m.spectator /\ new.active = m.active
      /\ new.host = m.host /\ new.running = m.running /\ new.seats = m.seats
      /\ new.live = m.live /\ new.steered = m.steered /\ new.pingOwners = m.pingOwners
  BY <1>1 DEF Joined, RoomState
<1>4. t = [new EXCEPT !.connected = @ \cup {p},
                      !.spectator = IF w THEN @ \cup {p} ELSE @, !.active[p] = c]
  BY DEF Joining
<1> HIDE DEF new, t
<1>5. /\ t \in RoomState /\ t.members = m.members \cup {p} /\ t.before = new.before
      /\ t.connected = m.connected \cup {p} /\ t.ai = m.ai
      /\ t.spectator = IF w THEN m.spectator \cup {p} ELSE m.spectator
      /\ t.active = [m.active EXCEPT ![p] = c]
      /\ t.host = m.host /\ t.running = m.running /\ t.seats = m.seats
      /\ t.live = m.live /\ t.steered = m.steered /\ t.pingOwners = m.pingOwners
  BY <1>2, <1>3, <1>4 DEF RoomState
<1>6. Ordered(t)
  BY <1>2, <1>3, <1>5 DEF Ordered
<1>7. Flagged(t)
  <2>1. m.active \in [Player -> Conn \cup {NoConn}]
    BY <1>1 DEF RoomState
  <2> QED
    BY <1>1, <1>5, <2>1, TableAssumption DEF Flagged
<1>8. Seated(t)
  <2>1. CASE m.running
    BY <1>1, <1>5, <2>1 DEF Seated, Flagged
  <2>2. CASE ~m.running
    BY <1>1, <1>5, <2>2 DEF Seated, Flagged
  <2> QED
    BY <2>1, <2>2
<1> QED
  BY <1>5, <1>6, <1>7, <1>8 DEF RoomOK, t

\* A match begins: those that are not there are dropped.
LEMMA StartedOK ==
  ASSUME NEW m, RoomOK(m), Hosted(m), ~m.running
  PROVE  LET t == Started(m, (m.connected \cap m.members) \ m.spectator)
         IN  /\ RoomOK(t) /\ Hosted(t) /\ t.running
             /\ t.connected = m.connected /\ t.members \subseteq m.members
             /\ t.active = m.active
<1> DEFINE humans == (m.connected \cap m.members) \ m.spectator
           stay == m.spectator \cup humans
           only == Only(m, stay)
           t == Started(m, humans)
<1>1. m \in RoomState /\ Ordered(m) /\ Flagged(m) /\ Seated(m)
  BY DEF RoomOK
<1>2. stay = m.connected /\ stay \subseteq Player /\ humans \subseteq Player
  BY <1>1 DEF Flagged, RoomState
<1>3. only \in RoomState /\ Ordered(only)
  <2> HIDE DEF stay
  <2> QED  BY <1>1, <1>2, OnlyOrdered
<1>4. /\ only.members = m.members \cap stay
      /\ only.connected = m.connected /\ only.ai = m.ai
      /\ only.spectator = m.spectator /\ only.active = m.active
      /\ only.host = m.host /\ only.running = m.running
  <2> HIDE DEF stay
  <2> QED  BY <1>1 DEF Only, RoomState
<1>5. t = [only EXCEPT !.running = TRUE, !.ticked = FALSE, !.seats = humans, !.live = humans,
            !.steered = {}, !.pingOwners = {},
            !.connected = @ \cap stay,
            !.active = [p \in Player |-> IF p \in m.members \ stay THEN NoConn ELSE m.active[p]],
            !.ai = humans \ m.connected]
  BY DEF Started
<1>6. [p \in Player |-> IF p \in m.members \ stay THEN NoConn ELSE m.active[p]] = m.active
  BY <1>1, <1>2 DEF Flagged, RoomState
<1>7. m.connected \cap stay = m.connected /\ humans \ m.connected = {}
  BY <1>2
<1> HIDE DEF only, t
<1>8. /\ t \in RoomState /\ t.members = m.members \cap stay /\ t.before = only.before
      /\ t.connected = m.connected /\ t.ai = {}
      /\ t.spectator = m.spectator /\ t.active = m.active
      /\ t.host = m.host /\ t.running = TRUE /\ t.seats = humans
      /\ t.live = humans /\ t.steered = {} /\ t.pingOwners = {}
  <2> HIDE DEF stay, humans
  <2> QED  BY <1>2, <1>3, <1>4, <1>5, <1>6, <1>7 DEF RoomState
<1>9. Ordered(t)
  BY <1>3, <1>4, <1>8 DEF Ordered
<1>10. Flagged(t)
  BY <1>1, <1>2, <1>8 DEF Flagged
<1>11. Seated(t)
  BY <1>1, <1>2, <1>8 DEF Seated, Flagged
<1>12. Hosted(t)
  BY <1>8 DEF Hosted
<1> QED
  BY <1>8, <1>9, <1>10, <1>11, <1>12 DEF RoomOK, t

\* A match ends; who was absent is only a member.
LEMMA OverOK ==
  ASSUME NEW m, RoomOK(m)
  PROVE  LET t == Over(m)
         IN  /\ RoomOK(t) /\ Hosted(t)
             /\ t.connected = m.connected /\ t.members = m.members
             /\ t.active = m.active /\ ~t.running
<1> DEFINE t == [m EXCEPT !.running = FALSE, !.ticked = FALSE, !.seats = {}, !.live = {},
                          !.steered = {}, !.pingOwners = {}, !.ai = {}]
<1>1. m \in RoomState /\ Ordered(m) /\ Flagged(m)
  BY DEF RoomOK
<1>2. /\ t \in RoomState /\ t.members = m.members /\ t.before = m.before
      /\ t.connected = m.connected /\ t.ai = {}
      /\ t.spectator = m.spectator /\ t.active = m.active
      /\ t.host = m.host /\ t.running = FALSE /\ t.seats = {}
      /\ t.live = {} /\ t.steered = {} /\ t.pingOwners = {}
  BY <1>1 DEF RoomState
<1>3. Over(m) = EnsureHostAssigned(t, NoPlayer)
  BY DEF Over
<1> HIDE DEF t
<1>4. RoomOK(t)
  BY <1>1, <1>2 DEF RoomOK, Ordered, Flagged, Seated
<1> QED
  BY <1>2, <1>3, <1>4, EnsureHostOK

\* What a match records of itself: its steps, inputs and pings.
Recorded(m, ticked, steered, owners) ==
  [m EXCEPT !.ticked = ticked, !.steered = steered, !.pingOwners = owners]

LEMMA RecordedOK ==
  ASSUME NEW m, RoomOK(m), Hosted(m), NEW ticked \in BOOLEAN,
         NEW S \in SUBSET (m.steered \cup m.live), NEW O \in SUBSET (m.pingOwners \cup m.seats)
  PROVE  LET t == Recorded(m, ticked, S, O)
         IN  /\ RoomOK(t) /\ Hosted(t)
             /\ t.connected = m.connected /\ t.members = m.members
             /\ t.active = m.active /\ t.running = m.running
<1> DEFINE t == Recorded(m, ticked, S, O)
<1>1. m \in RoomState /\ Ordered(m) /\ Flagged(m) /\ Seated(m)
  BY DEF RoomOK
<1>2. /\ t \in RoomState /\ t.members = m.members /\ t.before = m.before
      /\ t.connected = m.connected /\ t.ai = m.ai
      /\ t.spectator = m.spectator /\ t.active = m.active
      /\ t.host = m.host /\ t.running = m.running /\ t.seats = m.seats
      /\ t.live = m.live /\ t.steered = S /\ t.pingOwners = O
  BY <1>1 DEF RoomState, Recorded
<1> HIDE DEF t
<1>3. Seated(t)
  BY <1>1, <1>2 DEF Seated
<1>4. RoomOK(t) /\ Hosted(t)
  BY <1>1, <1>2, <1>3 DEF RoomOK, Ordered, Flagged, Hosted
<1> QED
  BY <1>2, <1>4 DEF t

-----------------------------------------------------------------------------
(* What a tab knows once it has handled what is under way to it.           *)

\* What a tab takes itself for, and what a message makes of that.
View(p, host, watches) ==
  [session |-> p, token |-> p, isHost |-> host, isSpectator |-> watches]

Hears(k, msg) ==
  CASE msg.kind = "welcome"   -> View(msg.player, msg.isHost, msg.isSpectator)
    [] msg.kind = "lobby"     -> [k EXCEPT !.isHost = (msg.host = k.session)]
    [] msg.kind = "game_init" -> [k EXCEPT !.isSpectator = msg.isSpectator]
    [] OTHER                  -> k

Heard(k, q) ==
  LET heard[n \in 0..Len(q)] == IF n = 0 THEN k ELSE Hears(heard[n - 1], q[n])
  IN  heard[Len(q)]

\* Two functions that begin alike and go on alike are alike.
LEMMA SameRun ==
  ASSUME NEW n \in Nat, NEW f, NEW g, f[0] = g[0],
         \A i \in 1..n : f[i - 1] = g[i - 1] => f[i] = g[i]
  PROVE  \A i \in 0..n : f[i] = g[i]
<1> DEFINE Bad == {i \in 0..n : f[i] # g[i]}
<1>1. SUFFICES ASSUME Bad # {} PROVE FALSE
  OBVIOUS
<1>2. PICK i \in Bad : \A j \in Bad : i <= j
  <2>1. Bad \in SUBSET Nat
    OBVIOUS
  <2> HIDE DEF Bad
  <2> QED
    BY <1>1, <2>1, NatMinimum, Zenon
<1>3. i \in 1..n /\ i - 1 \in 0..n /\ f[i - 1] # g[i - 1]
  BY <1>2
<1>4. i - 1 \in Bad
  BY <1>3
<1> QED
  BY <1>2, <1>3, <1>4

\* What Heard passes through.
IsRun(f, k, q) ==
  f = [n \in 0..Len(q) |-> IF n = 0 THEN k ELSE Hears(f[n - 1], q[n])]

Run(k, q) == CHOOSE f : IsRun(f, k, q)

LEMMA RunExists ==
  ASSUME NEW k, NEW q \in Seq(Message)
  PROVE  IsRun(Run(k, q), k, q)
<1> DEFINE IsRunTo(f, n) ==
             f = [i \in 0..n |-> IF i = 0 THEN k ELSE Hears(f[i - 1], q[i])]
           Bad == {n \in 0..Len(q) : \A f : ~IsRunTo(f, n)}
<1>1. Len(q) \in Nat
  OBVIOUS
<1>2. ASSUME Bad # {} PROVE FALSE
  <2>1. PICK n \in Bad : \A j \in Bad : n <= j
    <3>1. Bad \in SUBSET Nat
      BY <1>1
    <3> HIDE DEF Bad
    <3> QED
      BY <1>2, <3>1, NatMinimum, Zenon
  <2>2. CASE n = 0
    <3> DEFINE f == [i \in 0..0 |-> k]
    <3>1. IsRunTo(f, 0)
      OBVIOUS
    <3> QED
      BY <2>1, <2>2, <3>1
  <2>3. CASE n # 0
    <3>0. n \in Nat /\ n <= Len(q) /\ \A j \in Bad : n <= j
      BY <1>1, <2>1
    <3>1. n - 1 \in 0..Len(q) /\ n - 1 \notin Bad
      <4> HIDE DEF Bad
      <4> QED
        BY <1>1, <2>3, <3>0
    <3>2. PICK f : IsRunTo(f, n - 1)
      BY <3>1
    <3> DEFINE g == [i \in 0..n |-> IF i = n THEN Hears(f[n - 1], q[n]) ELSE f[i]]
    <3>3. ASSUME NEW i \in 0..n PROVE g[i] = IF i = 0 THEN k ELSE Hears(g[i - 1], q[i])
      <4>1. CASE i = n
        <5>1. g[n] = Hears(f[n - 1], q[n]) /\ g[n - 1] = f[n - 1]
          BY <1>1, <2>1, <2>3
        <5> QED
          BY <4>1, <5>1, <2>3
      <4>2. CASE i # n
        <5>1. g[i] = f[i] /\ i \in 0..(n - 1)
          BY <1>1, <2>1, <4>2
        <5>2. i # 0 => g[i - 1] = f[i - 1]
          BY <1>1, <2>1, <4>2
        <5>3. f[i] = IF i = 0 THEN k ELSE Hears(f[i - 1], q[i])
          BY <3>2, <5>1
        <5> QED
          BY <5>1, <5>2, <5>3
      <4> QED
        BY <4>1, <4>2
    <3>4. IsRunTo(g, n)
      <4> HIDE DEF g
      <4>1. g = [i \in 0..n |-> g[i]]
        BY DEF g
      <4> QED
        BY <3>3, <4>1
    <3> QED
      BY <2>1, <3>4
  <2> QED
    BY <2>2, <2>3
<1>3. \E f : IsRunTo(f, Len(q))
  BY <1>1, <1>2
<1>4. \E f : IsRun(f, k, q)
  BY <1>3 DEF IsRun
<1> QED
  BY <1>4, Zenon DEF Run

LEMMA RunSteps ==
  ASSUME NEW k, NEW q \in Seq(Message)
  PROVE  /\ Run(k, q)[0] = k
         /\ \A i \in 1..Len(q) : Run(k, q)[i] = Hears(Run(k, q)[i - 1], q[i])
         /\ Heard(k, q) = Run(k, q)[Len(q)]
<1> DEFINE f == Run(k, q)
<1>1. f = [i \in 0..Len(q) |-> IF i = 0 THEN k ELSE Hears(f[i - 1], q[i])]
  BY RunExists DEF IsRun
<1>2. Heard(k, q) = f[Len(q)]
  BY DEF Heard, Run, IsRun
<1>3. Len(q) \in Nat
  OBVIOUS
<1> HIDE DEF f
<1>4. f[0] = k /\ \A i \in 1..Len(q) : f[i] = Hears(f[i - 1], q[i])
  BY <1>1, <1>3
<1> QED
  BY <1>2, <1>4 DEF f

\* With nothing under way a tab knows what it knows.
LEMMA HeardNothing ==
  ASSUME NEW k, NEW q \in Seq(Message), q = <<>>
  PROVE  Heard(k, q) = k
<1>1. Run(k, q)[0] = k /\ Heard(k, q) = Run(k, q)[Len(q)]
  BY RunSteps
<1>2. Len(q) = 0
  OBVIOUS
<1> QED
  BY <1>1, <1>2

\* What is sent last is heard last.
LEMMA HeardAppend ==
  ASSUME NEW k, NEW q \in Seq(Message), NEW m \in Message
  PROVE  Heard(k, Append(q, m)) = Hears(Heard(k, q), m)
<1> DEFINE t == Append(q, m)
           n == Len(q)
           f == Run(k, q)
           g == Run(k, t)
<1>1. t \in Seq(Message) /\ n \in Nat /\ Len(t) = n + 1 /\ t[n + 1] = m
      /\ \A i \in 1..n : t[i] = q[i]
  OBVIOUS
<1>2. /\ f[0] = k /\ \A i \in 1..n : f[i] = Hears(f[i - 1], q[i])
      /\ Heard(k, q) = f[n]
  BY RunSteps
<1>3. /\ g[0] = k /\ \A i \in 1..Len(t) : g[i] = Hears(g[i - 1], t[i])
      /\ Heard(k, t) = g[Len(t)]
  <2> HIDE DEF t
  <2> QED  BY <1>1, RunSteps
<1> HIDE DEF t, n, f, g
<1>5. f[n] = g[n]
  <2>1. \A i \in 1..n : f[i - 1] = g[i - 1] => f[i] = g[i]
    BY <1>1, <1>2, <1>3
  <2>2. n \in Nat /\ f[0] = g[0]
    BY <1>1, <1>2, <1>3
  <2>3. \A i \in 0..n : f[i] = g[i]
    BY <2>1, <2>2, SameRun, ZenonT(30)
  <2> QED
    BY <2>2, <2>3
<1>6. g[n + 1] = Hears(g[n], m)
  BY <1>1, <1>3
<1> QED
  BY <1>1, <1>2, <1>3, <1>5, <1>6 DEF t

\* What was sent first is heard first.
LEMMA HeardHead ==
  ASSUME NEW k, NEW q \in Seq(Message), q # <<>>
  PROVE  Heard(k, q) = Heard(Hears(k, Head(q)), Tail(q))
<1> DEFINE t == Tail(q)
           n == Len(t)
           f == Run(k, q)
           g == Run(Hears(k, Head(q)), t)
           h == [i \in 0..n |-> f[i + 1]]
<1>1. t \in Seq(Message) /\ n \in Nat /\ Len(q) = n + 1 /\ q[1] = Head(q)
      /\ \A i \in 1..n : t[i] = q[i + 1]
  OBVIOUS
<1>2. /\ f[0] = k /\ \A i \in 1..Len(q) : f[i] = Hears(f[i - 1], q[i])
      /\ Heard(k, q) = f[Len(q)]
  BY RunSteps
<1>3. /\ g[0] = Hears(k, Head(q)) /\ \A i \in 1..n : g[i] = Hears(g[i - 1], t[i])
      /\ Heard(Hears(k, Head(q)), t) = g[n]
  <2> HIDE DEF t
  <2> QED  BY <1>1, RunSteps
<1> HIDE DEF t, n, f, g
<1>4. h[0] = g[0]
  BY <1>1, <1>2, <1>3
<1>5. ASSUME NEW i \in 1..n, h[i - 1] = g[i - 1] PROVE h[i] = g[i]
  <2>1. h[i] = f[i + 1] /\ h[i - 1] = f[i]
    BY <1>1
  <2>2. f[i + 1] = Hears(f[i], q[i + 1])
    BY <1>1, <1>2
  <2> QED
    BY <1>1, <1>3, <1>5, <2>1, <2>2
<1>6. h[n] = g[n]
  <2> HIDE DEF h
  <2>1. n \in Nat /\ h[0] = g[0]
    BY <1>1, <1>4
  <2>2. \A i \in 1..n : h[i - 1] = g[i - 1] => h[i] = g[i]
    BY <1>5
  <2>3. \A i \in 0..n : h[i] = g[i]
    BY <2>1, <2>2, SameRun, ZenonT(30)
  <2> QED
    BY <2>1, <2>3
<1> QED
  BY <1>1, <1>2, <1>3, <1>6 DEF t

\* A message of some kind is among those of a sequence.
Holds(q, kind) == \E i \in DOMAIN q : q[i].kind = kind

LEMMA HoldsAppend ==
  ASSUME NEW T, NEW q \in Seq(T), NEW m \in T, NEW kind
  PROVE  Holds(Append(q, m), kind) <=> Holds(q, kind) \/ m.kind = kind
<1> DEFINE t == Append(q, m)
<1>1. /\ Len(q) \in Nat /\ Len(t) = Len(q) + 1 /\ t[Len(q) + 1] = m
      /\ \A i \in 1..Len(q) : t[i] = q[i]
      /\ DOMAIN t = 1..Len(t) /\ DOMAIN q = 1..Len(q)
  OBVIOUS
<1> HIDE DEF t
<1>2. Holds(t, kind) <=> Holds(q, kind) \/ m.kind = kind
  BY <1>1 DEF Holds
<1> QED
  BY <1>2 DEF t

LEMMA HoldsTail ==
  ASSUME NEW T, NEW q \in Seq(T), q # <<>>, NEW kind
  PROVE  Holds(q, kind) <=> Head(q).kind = kind \/ Holds(Tail(q), kind)
<1> DEFINE t == Tail(q)
<1>1. /\ Len(q) \in Nat /\ Len(q) = Len(t) + 1 /\ Len(t) \in Nat /\ q[1] = Head(q)
      /\ \A i \in 1..Len(t) : t[i] = q[i + 1]
      /\ DOMAIN t = 1..Len(t) /\ DOMAIN q = 1..Len(q)
  OBVIOUS
<1> HIDE DEF t
<1>2. ASSUME Holds(q, kind) PROVE Head(q).kind = kind \/ Holds(t, kind)
  <2>1. PICK i \in 1..Len(q) : q[i].kind = kind
    BY <1>1, <1>2 DEF Holds
  <2>2. CASE i = 1
    BY <1>1, <2>1, <2>2
  <2>3. CASE i # 1
    <3>1. i - 1 \in 1..Len(t) /\ t[i - 1] = q[i]
      BY <1>1, <2>3
    <3> QED
      BY <1>1, <2>1, <3>1 DEF Holds
  <2> QED
    BY <2>2, <2>3
<1>3. ASSUME Head(q).kind = kind \/ Holds(t, kind) PROVE Holds(q, kind)
  <2>1. ASSUME NEW i \in 1..Len(t) PROVE i + 1 \in 1..Len(q)
    BY <1>1
  <2>2. 1 \in 1..Len(q)
    BY <1>1
  <2> QED
    BY <1>1, <1>3, <2>1, <2>2 DEF Holds
<1> QED
  BY <1>2, <1>3 DEF t

\* The last message tells the tab that the connection is over.
Closing(q) == q # <<>> /\ q[Len(q)].kind \in {"replaced", "cut"}

LEMMA ClosingAppend ==
  ASSUME NEW q \in Seq(Message), NEW m \in Message, m.kind \in {"replaced", "cut"}
  PROVE  Closing(Append(q, m))
<1> DEFINE t == Append(q, m)
<1>1. Len(t) = Len(q) + 1 /\ t[Len(t)] = m /\ t # <<>>
  OBVIOUS
<1> HIDE DEF t
<1>2. Closing(t)
  BY <1>1 DEF Closing
<1> QED
  BY <1>2 DEF t

LEMMA ClosingTail ==
  ASSUME NEW q \in Seq(Message), Closing(q), Head(q).kind \notin {"replaced", "cut"}
  PROVE  Closing(Tail(q))
<1> DEFINE t == Tail(q)
<1>1. q # <<>>
  BY DEF Closing
<1>2. /\ Len(q) \in Nat /\ Len(q) = Len(t) + 1 /\ Len(t) \in Nat /\ q[1] = Head(q)
      /\ \A i \in 1..Len(t) : t[i] = q[i + 1]
  BY <1>1
<1>t. Len(t) # 0 => t # <<>>
  <2> SUFFICES ASSUME t = <<>> PROVE Len(t) = 0
    OBVIOUS
  <2> HIDE DEF t
  <2> QED
    OBVIOUS
<1> HIDE DEF t
<1>3. Len(t) # 0
  BY <1>2 DEF Closing
<1>4. t[Len(t)] = q[Len(q)]
  BY <1>2, <1>3
<1>5. Closing(t)
  BY <1>t, <1>3, <1>4 DEF Closing
<1> QED
  BY <1>5 DEF t

-----------------------------------------------------------------------------
(* Tables.                                                                 *)

Sound(s) ==
  /\ s \in Table
  /\ \A r \in Room : RoomOK(s.room[r])
  /\ OneBinding(s)
  /\ OneRoomEach(s)

Needed(s, r) ==
  IF r \in s.rooms THEN s.room[r].running \/ s.room[r].connected # {}
  ELSE s.room[r] = CreatedRoom

\* A table between two handlers, and one that may have a room too many.
CoreBut(s, R) ==
  /\ Sound(s)
  /\ \A r \in Room : Hosted(s.room[r])
  /\ \A r \in Room \ R : Needed(s, r)

Core(s) == CoreBut(s, {})

\* This is what RoomsAreApart says, and a little more.
LEMMA CoreIsApart ==
  ASSUME NEW s, Core(s)
  PROVE  /\ OneBinding(s) /\ ActiveIffConnected(s) /\ OneRoomEach(s)
         /\ HostConnected(s) /\ RoomsNeeded(s) /\ SeatsAreMembers(s)
<1>1. \A r \in Room : Flagged(s.room[r]) /\ Seated(s.room[r]) /\ Hosted(s.room[r]) /\ Needed(s, r)
  BY DEF Core, CoreBut, Sound, RoomOK
<1>2. ActiveIffConnected(s)
  BY <1>1 DEF ActiveIffConnected, Flagged
<1>3. HostConnected(s)
  BY <1>1 DEF HostConnected, Hosted
<1>4. RoomsNeeded(s)
  BY <1>1 DEF RoomsNeeded, Needed
<1>5. SeatsAreMembers(s)
  BY <1>1 DEF SeatsAreMembers, Seated
<1> QED
  BY <1>2, <1>3, <1>4, <1>5 DEF Core, CoreBut, Sound

LEMMA EmptyIsCore == Core(EmptyTable)
<1> DEFINE s == EmptyTable
<1>1. /\ s.clients = {} /\ s.open = {} /\ s.rooms = {}
      /\ s.player = [c \in Conn |-> NoPlayer] /\ s.at = [c \in Conn |-> NoRoom]
      /\ s.room = [r \in Room |-> CreatedRoom] /\ s.out = [c \in Conn |-> <<>>]
  BY DEF EmptyTable
<1>2. CreatedRoom \in RoomState
  BY CreatedRoomOK DEF RoomOK
<1>3. s \in Table
  BY <1>2 DEF EmptyTable, Table
<1> HIDE DEF s
<1>4. /\ CreatedRoom.members = {} /\ \A p \in Player : CreatedRoom.active[p] = NoConn
  BY DEF CreatedRoom
<1>5. OneBinding(s) /\ OneRoomEach(s)
  BY <1>1, <1>4 DEF OneBinding, OneRoomEach
<1>6. \A r \in Room : s.room[r] = CreatedRoom
  BY <1>1
<1>7. \A r \in Room : Needed(s, r)
  BY <1>1, <1>6 DEF Needed
<1>8. Core(s)
  BY <1>3, <1>5, <1>6, <1>7, CreatedRoomOK DEF Core, CoreBut, Sound
<1> QED
  BY <1>8 DEF s

\* Two tables that differ in what is under way only.
Alike(s, t) ==
  /\ t \in Table
  /\ t.clients = s.clients /\ t.player = s.player /\ t.at = s.at
  /\ t.rooms = s.rooms /\ t.room = s.room

LEMMA AlikeTransitive ==
  ASSUME NEW s, NEW t, NEW u, Alike(s, t), Alike(t, u)
  PROVE  Alike(s, u)
BY DEF Alike

LEMMA AlikeSound ==
  ASSUME NEW s, NEW t, Alike(s, t)
  PROVE  /\ Sound(s) => Sound(t)
         /\ \A R : CoreBut(s, R) => CoreBut(t, R)
         /\ Core(s) => Core(t)
<1>1. t \in Table /\ t.clients = s.clients /\ t.player = s.player /\ t.at = s.at
      /\ t.rooms = s.rooms /\ t.room = s.room
  BY DEF Alike
<1>2. Sound(s) => Sound(t)
  BY <1>1 DEF Sound, OneBinding, OneRoomEach
<1>3. \A r \in Room : Needed(s, r) <=> Needed(t, r)
  BY <1>1 DEF Needed
<1> QED
  BY <1>1, <1>2, <1>3 DEF Core, CoreBut

LEMMA SendingAlike ==
  ASSUME NEW s \in Table, NEW o \in [Conn -> Seq(Message)]
  PROVE  Alike(s, [s EXCEPT !.out = o])
BY DEF Alike, Table

LEMMA SentAlike ==
  ASSUME NEW s \in Table, NEW C, NEW msg \in Message
  PROVE  Alike(s, Sent(s, C, msg))
<1> DEFINE o == [c \in Conn |-> IF c \in C \cap s.open THEN Append(s.out[c], msg) ELSE s.out[c]]
<1>1. o \in [Conn -> Seq(Message)]
  BY DEF Table
<1>2. Sent(s, C, msg) = [s EXCEPT !.out = o]
  BY DEF Sent
<1> QED
  BY <1>1, <1>2, SendingAlike

LEMMA MessageTypes ==
  /\ \A m \in RoomState : LobbyMessage(m) \in Message
  /\ \A m \in RoomState : \A p : InitMessage(m, p) \in Message
  /\ \A p \in Player, h, w \in BOOLEAN :
       [kind |-> "welcome", player |-> p, isHost |-> h, isSpectator |-> w] \in Message
  /\ [kind |-> "state"] \in Message /\ [kind |-> "replaced"] \in Message
  /\ [kind |-> "cut"] \in Message /\ [kind |-> "game_over"] \in Message
<1>1. ASSUME NEW m \in RoomState PROVE LobbyMessage(m) \in Message
  BY DEF LobbyMessage, Message, RoomState
<1>2. ASSUME NEW m \in RoomState, NEW p PROVE InitMessage(m, p) \in Message
  BY DEF InitMessage, Message
<1>3. ASSUME NEW p \in Player, NEW h \in BOOLEAN, NEW w \in BOOLEAN
      PROVE  [kind |-> "welcome", player |-> p, isHost |-> h, isSpectator |-> w] \in Message
  BY DEF Message
<1>4. /\ [kind |-> "state"] \in Message /\ [kind |-> "replaced"] \in Message
      /\ [kind |-> "cut"] \in Message /\ [kind |-> "game_over"] \in Message
  BY DEF Message
<1> QED
  BY <1>1, <1>2, <1>3, <1>4

\* A room of a table is replaced.
LEMMA RoomReplaced ==
  ASSUME NEW s \in Table, NEW r \in Room, NEW m \in RoomState
  PROVE  LET t == [s EXCEPT !.room[r] = m]
         IN  /\ t \in Table
             /\ t.clients = s.clients /\ t.player = s.player /\ t.at = s.at
             /\ t.rooms = s.rooms /\ t.room = [s.room EXCEPT ![r] = m]
             /\ t.open = s.open /\ t.out = s.out
BY DEF Table

\* The players of a room that the engine takes for live are replaced.
WithLive(s, r, L) == [s EXCEPT !.room[r].live = L]

LEMMA LiveReplaced ==
  ASSUME NEW s \in Table, NEW r \in Room, NEW L \in SUBSET Player
  PROVE  LET t == WithLive(s, r, L)
         IN  /\ t \in Table
             /\ t.clients = s.clients /\ t.player = s.player /\ t.at = s.at
             /\ t.rooms = s.rooms
             /\ t.room = [s.room EXCEPT ![r] = [s.room[r] EXCEPT !.live = L]]
             /\ t.open = s.open /\ t.out = s.out
<1> DEFINE m == [s.room[r] EXCEPT !.live = L]
           t == [s EXCEPT !.room[r] = m]
<1>1. s.room[r] \in RoomState
  BY DEF Table
<1>2. m \in RoomState
  BY <1>1 DEF RoomState
<1>3. WithLive(s, r, L) = t
  BY DEF Table, WithLive
<1> HIDE DEF m
<1>4. /\ t \in Table
      /\ t.clients = s.clients /\ t.player = s.player /\ t.at = s.at
      /\ t.rooms = s.rooms /\ t.room = [s.room EXCEPT ![r] = m]
      /\ t.open = s.open /\ t.out = s.out
  BY <1>2, RoomReplaced
<1> HIDE DEF t
<1> QED
  BY <1>3, <1>4 DEF m

LEMMA BroadcastLobbyAlike ==
  ASSUME NEW s \in Table, NEW r \in Room, RoomOK(s.room[r])
  PROVE  /\ EnsureHostAssigned(s.room[r], NoPlayer) \in RoomState
         /\ Alike([s EXCEPT !.room[r] = EnsureHostAssigned(s.room[r], NoPlayer)],
                  BroadcastLobby(s, r))
<1> DEFINE m == EnsureHostAssigned(s.room[r], NoPlayer)
           after == [s EXCEPT !.room[r] = m]
<1>1. m \in RoomState
  BY EnsureHostOK DEF RoomOK
<1>2. after \in Table /\ after.room[r] = m
  <2> HIDE DEF m
  <2> QED  BY <1>1, RoomReplaced DEF Table
<1>3. BroadcastLobby(s, r) = Sent(after, Listeners(after, r), LobbyMessage(after.room[r]))
  BY DEF BroadcastLobby
<1>4. LobbyMessage(after.room[r]) \in Message
  BY <1>1, <1>2, MessageTypes
<1> HIDE DEF after
<1>5. Alike(after, BroadcastLobby(s, r))
  BY <1>2, <1>3, <1>4, SentAlike
<1> QED
  BY <1>1, <1>5 DEF after

LEMMA WelcomeAlike ==
  ASSUME NEW s \in Table, NEW c, NEW r \in Room, NEW p \in Player
  PROVE  Alike(s, SendWelcomeAndInitialState(s, c, r, p))
<1> DEFINE m == s.room[r]
           welcome == [kind |-> "welcome", player |-> p, isHost |-> m.host = p,
                       isSpectator |-> p \in m.spectator]
           greeted == Sent(s, {c}, welcome)
           told == Sent(greeted, {c}, InitMessage(m, p))
           shown == Sent(told, {c}, [kind |-> "state"])
<1>1. m \in RoomState
  BY DEF Table
<1>2. welcome \in Message /\ InitMessage(m, p) \in Message /\ [kind |-> "state"] \in Message
  <2>1. (m.host = p) \in BOOLEAN /\ (p \in m.spectator) \in BOOLEAN
    OBVIOUS
  <2> QED  BY <1>1, <2>1, MessageTypes
<1> HIDE DEF welcome
<1>3. Alike(s, greeted)
  BY <1>2, SentAlike
<1> HIDE DEF greeted
<1>4. Alike(greeted, told)
  BY <1>2, <1>3, SentAlike DEF Alike
<1> HIDE DEF told
<1>5. Alike(told, shown)
  BY <1>2, <1>4, SentAlike DEF Alike
<1> HIDE DEF shown
<1>6. SendWelcomeAndInitialState(s, c, r, p) = IF m.running THEN shown ELSE greeted
  BY DEF SendWelcomeAndInitialState, shown, told, greeted, welcome
<1> QED
  BY <1>3, <1>4, <1>5, <1>6, AlikeTransitive

-----------------------------------------------------------------------------
(* Leaving.                                                                *)

LEMMA UnboundTable ==
  ASSUME NEW s \in Table, NEW c \in Conn
  PROVE  LET t == Unbound(s, c)
         IN  /\ t \in Table /\ t.clients = s.clients /\ t.rooms = s.rooms /\ t.room = s.room
             /\ t.player = [s.player EXCEPT ![c] = NoPlayer]
             /\ t.at = [s.at EXCEPT ![c] = NoRoom]
             /\ t.open = s.open /\ t.out = s.out
BY DEF Unbound, Table

\* A room nobody is connected to goes, once no match runs in it.
LEMMA CleanupKeeps ==
  ASSUME NEW s, NEW r \in Room, CoreBut(s, {r}), r \in s.rooms
  PROVE  LET t == CleanupRoomIfIdle(s, r)
         IN  /\ Core(t) /\ t.clients = s.clients /\ t.player = s.player /\ t.at = s.at
             /\ \A q \in Room : t.room[q].members \subseteq s.room[q].members
<1> DEFINE m == s.room[r]
           t == [s EXCEPT !.rooms = @ \ {r}, !.room[r] = CreatedRoom]
<1>1. /\ s \in Table /\ OneBinding(s) /\ OneRoomEach(s)
      /\ \A q \in Room : RoomOK(s.room[q]) /\ Hosted(s.room[q])
      /\ \A q \in Room \ {r} : Needed(s, q)
  BY DEF CoreBut, Sound
<1>2. m.connected \subseteq Player /\ \A p \in Player : p \in m.connected <=> m.active[p] # NoConn
  BY <1>1 DEF RoomOK, Flagged, RoomState
<1>3. CASE ~m.running /\ \A p \in Player : m.active[p] = NoConn
  <2>1. CleanupRoomIfIdle(s, r) = t
    BY <1>3 DEF CleanupRoomIfIdle
  <2>2. /\ t \in Table /\ t.clients = s.clients /\ t.player = s.player /\ t.at = s.at
        /\ t.rooms = s.rooms \ {r} /\ t.room = [s.room EXCEPT ![r] = CreatedRoom]
    BY <1>1, CreatedRoomOK DEF Table, RoomOK
  <2> HIDE DEF t
  <2>3. s.room \in [Room -> RoomState] /\ s.player \in [Conn -> Player \cup {NoPlayer}]
    BY <1>1 DEF Table
  <2>4. CreatedRoom.members = {} /\ \A p \in Player : CreatedRoom.active[p] = NoConn
    BY DEF CreatedRoom
  <2>5. \A c \in Conn : s.player[c] # NoPlayer => s.at[c] \in s.rooms \ {r}
    BY <1>1, <1>3, <2>3, TableAssumption DEF OneBinding
  <2>6. OneBinding(t)
    BY <1>1, <2>2, <2>3, <2>4, <2>5 DEF OneBinding
  <2>7. OneRoomEach(t)
    BY <1>1, <2>2, <2>3, <2>4 DEF OneRoomEach
  <2>8. \A q \in Room : RoomOK(t.room[q]) /\ Hosted(t.room[q])
    BY <1>1, <2>2, <2>3, CreatedRoomOK
  <2>9. \A q \in Room : Needed(t, q)
    BY <1>1, <2>2, <2>3 DEF Needed
  <2>10. \A q \in Room : t.room[q].members \subseteq s.room[q].members
    BY <2>2, <2>3, <2>4
  <2> QED
    BY <2>1, <2>2, <2>6, <2>7, <2>8, <2>9, <2>10 DEF Core, CoreBut, Sound
<1>4. CASE ~(~m.running /\ \A p \in Player : m.active[p] = NoConn)
  <2>1. CleanupRoomIfIdle(s, r) = s
    BY <1>4 DEF CleanupRoomIfIdle
  <2>2. m.running \in BOOLEAN
    BY <1>1 DEF RoomOK, RoomState
  <2>3. Needed(s, r)
    BY <1>2, <1>4, <2>2 DEF Needed
  <2> QED
    BY <1>1, <2>1, <2>3 DEF Core, CoreBut, Sound
<1> QED
  BY <1>3, <1>4

\* The others are told that c is leaving; then it is unbound.
Parting(s, c) ==
  LET r == s.at[c]
  IN  BroadcastLobby([s EXCEPT !.room[r] = LeftMember(s.room[r], s.player[c])], r)

LEMMA PartingKeeps ==
  ASSUME NEW s, Core(s), NEW c \in Conn, s.player[c] # NoPlayer
  PROVE  LET u == Unbound(Parting(s, c), c)
         IN  /\ LeaveRoom(s, c, s.at[c]) = CleanupRoomIfIdle(u, s.at[c])
             /\ CoreBut(u, {s.at[c]}) /\ s.at[c] \in u.rooms /\ u.clients = s.clients
             /\ u.player[c] = NoPlayer /\ u.at[c] = NoRoom
             /\ \A q \in Room : u.room[q].members \subseteq s.room[q].members
<1> DEFINE p == s.player[c]
           r == s.at[c]
           m == LeftMember(s.room[r], p)
           left == [s EXCEPT !.room[r] = m]
           h == EnsureHostAssigned(m, NoPlayer)
           told == BroadcastLobby(left, r)
           u == Unbound(told, c)
<1>1. /\ s \in Table /\ OneBinding(s) /\ OneRoomEach(s)
      /\ \A q \in Room : RoomOK(s.room[q]) /\ Hosted(s.room[q]) /\ Needed(s, q)
  BY DEF Core, CoreBut, Sound
<1>2. /\ s.room \in [Room -> RoomState] /\ s.player \in [Conn -> Player \cup {NoPlayer}]
      /\ s.at \in [Conn -> Room \cup {NoRoom}] /\ s.rooms \subseteq Room
  BY <1>1 DEF Table
<1>3. /\ p \in Player /\ r \in s.rooms /\ r \in Room /\ c \in s.clients
      /\ s.room[r].active[p] = c
  BY <1>1, <1>2 DEF OneBinding
<1>4. p \in s.room[r].connected /\ p \in s.room[r].members
  BY <1>1, <1>3, TableAssumption DEF RoomOK, Flagged
<1>5. LeaveRoom(s, c, r) = CleanupRoomIfIdle(u, r)
  BY <1>3, <1>4 DEF LeaveRoom
<1> HIDE DEF p, r
<1>6. /\ RoomOK(m) /\ Hosted(m)
      /\ m.members \subseteq s.room[r].members
      /\ m.active = [s.room[r].active EXCEPT ![p] = NoConn]
  BY <1>1, <1>3, <1>4, LeftMemberOK
<1> HIDE DEF m
<1>7. RoomOK(h) /\ Hosted(h) /\ h.members = m.members /\ h.active = m.active
  BY <1>6, EnsureHostOK
<1>8. /\ left \in Table /\ left.clients = s.clients /\ left.player = s.player
      /\ left.at = s.at /\ left.rooms = s.rooms /\ left.room = [s.room EXCEPT ![r] = m]
  BY <1>1, <1>3, <1>6, RoomReplaced DEF RoomOK
<1> HIDE DEF left
<1>9. left.room[r] = m
  BY <1>2, <1>3, <1>8
<1>10. Alike([left EXCEPT !.room[r] = h], told)
  BY <1>3, <1>6, <1>8, <1>9, BroadcastLobbyAlike
<1>11. LET v == [left EXCEPT !.room[r] = h]
       IN  /\ v.clients = s.clients /\ v.player = s.player
           /\ v.at = s.at /\ v.rooms = s.rooms /\ v.room = [left.room EXCEPT ![r] = h]
  BY <1>3, <1>7, <1>8, RoomReplaced DEF RoomOK
<1>12. [left.room EXCEPT ![r] = h] = [s.room EXCEPT ![r] = h]
  BY <1>2, <1>8
<1>13. /\ told \in Table /\ told.clients = s.clients /\ told.player = s.player
       /\ told.at = s.at /\ told.rooms = s.rooms /\ told.room = [s.room EXCEPT ![r] = h]
  BY <1>10, <1>11, <1>12 DEF Alike
<1> HIDE DEF told, h
<1>14. /\ u \in Table /\ u.clients = s.clients /\ u.rooms = s.rooms
       /\ u.room = [s.room EXCEPT ![r] = h]
       /\ u.player = [s.player EXCEPT ![c] = NoPlayer]
       /\ u.at = [s.at EXCEPT ![c] = NoRoom]
  BY <1>13, UnboundTable, SMTT(30)
<1> HIDE DEF u
<1>15. s.room[r].active \in [Player -> Conn \cup {NoConn}]
  BY <1>2, <1>3 DEF RoomState
<1>16. OneBinding(u)
  <2>1. \A d \in Conn : u.player[d] = NoPlayer <=> u.at[d] = NoRoom
    BY <1>1, <1>2, <1>14 DEF OneBinding
  <2>2. ASSUME NEW d \in Conn, u.player[d] # NoPlayer
        PROVE  /\ d \in u.clients /\ u.at[d] \in u.rooms
               /\ u.room[u.at[d]].active[u.player[d]] = d
    <3>1. d # c /\ u.player[d] = s.player[d] /\ u.at[d] = s.at[d]
      BY <1>2, <1>14, <2>2
    <3>2. /\ d \in s.clients /\ s.at[d] \in s.rooms /\ s.player[d] \in Player
          /\ s.room[s.at[d]].active[s.player[d]] = d
      BY <1>1, <1>2, <2>2, <3>1 DEF OneBinding
    <3>3. CASE s.at[d] # r
      BY <1>2, <1>14, <3>1, <3>2, <3>3
    <3>4. CASE s.at[d] = r
      <4>1. s.player[d] # p
        BY <1>3, <3>1, <3>2, <3>4
      <4>2. u.room[r].active = [s.room[r].active EXCEPT ![p] = NoConn]
        BY <1>2, <1>3, <1>6, <1>7, <1>14
      <4> QED
        BY <1>14, <1>15, <3>1, <3>2, <3>4, <4>1, <4>2
    <3> QED
      BY <3>3, <3>4
  <2>3. ASSUME NEW q \in Room, NEW o \in Player, u.room[q].active[o] # NoConn
        PROVE  LET d == u.room[q].active[o] IN u.player[d] = o /\ u.at[d] = q
    <3>1. u.room[q].active[o] = s.room[q].active[o] /\ (q # r \/ o # p)
      BY <1>2, <1>3, <1>6, <1>7, <1>14, <1>15, <2>3
    <3> DEFINE d == s.room[q].active[o]
    <3>2. d \in Conn /\ s.player[d] = o /\ s.at[d] = q
      BY <1>1, <1>2, <2>3, <3>1 DEF OneBinding, RoomState
    <3>3. d # c
      BY <3>1, <3>2 DEF p, r
    <3> QED
      BY <1>2, <1>14, <3>1, <3>2, <3>3
  <2> QED
    BY <2>1, <2>2, <2>3 DEF OneBinding
<1>17. OneRoomEach(u)
  BY <1>1, <1>2, <1>6, <1>7, <1>14 DEF OneRoomEach
<1>18. \A q \in Room : RoomOK(u.room[q]) /\ Hosted(u.room[q])
  BY <1>1, <1>2, <1>7, <1>14
<1>19. \A q \in Room \ {r} : Needed(u, q)
  BY <1>1, <1>2, <1>14 DEF Needed
<1>20. CoreBut(u, {r})
  BY <1>14, <1>16, <1>17, <1>18, <1>19 DEF CoreBut, Sound
<1>21. u.player[c] = NoPlayer /\ u.at[c] = NoRoom
  BY <1>2, <1>14
<1>22. \A q \in Room : u.room[q].members \subseteq s.room[q].members
  BY <1>2, <1>6, <1>7, <1>14
<1>23. u = Unbound(Parting(s, c), c)
  BY DEF u, told, left, m, p, r, Parting
<1>24. r = s.at[c]
  BY DEF r
<1> QED
  BY <1>3, <1>5, <1>14, <1>20, <1>21, <1>22, <1>23, <1>24

LEMMA LeaveRoomKeeps ==
  ASSUME NEW s, Core(s), NEW c \in Conn, s.player[c] # NoPlayer
  PROVE  LET t == LeaveRoom(s, c, s.at[c])
         IN  /\ Core(t) /\ t.clients = s.clients
             /\ t.player[c] = NoPlayer /\ t.at[c] = NoRoom
             /\ \A q \in Room : t.room[q].members \subseteq s.room[q].members
<1> DEFINE u == Unbound(Parting(s, c), c)
           r == s.at[c]
           t == CleanupRoomIfIdle(u, r)
<1>1. /\ LeaveRoom(s, c, s.at[c]) = t
      /\ CoreBut(u, {r}) /\ r \in u.rooms /\ u.clients = s.clients
      /\ u.player[c] = NoPlayer /\ u.at[c] = NoRoom
      /\ \A q \in Room : u.room[q].members \subseteq s.room[q].members
  BY PartingKeeps
<1> HIDE DEF u, r
<1>2. r \in Room
  BY <1>1 DEF CoreBut, Sound, Table
<1>3. /\ Core(t) /\ t.clients = u.clients /\ t.player = u.player /\ t.at = u.at
      /\ \A q \in Room : t.room[q].members \subseteq u.room[q].members
  BY <1>1, <1>2, CleanupKeeps
<1> HIDE DEF t
<1> QED
  BY <1>1, <1>3

LEMMA HandleClientCloseKeeps ==
  ASSUME NEW s, Core(s), NEW c \in Conn
  PROVE  LET t == HandleClientClose(s, c)
         IN  Core(t) /\ t.clients = s.clients /\ t.player[c] = NoPlayer
<1>1. s \in Table /\ OneBinding(s)
  BY DEF Core, CoreBut, Sound
<1>2. CASE s.player[c] = NoPlayer
  BY <1>2 DEF HandleClientClose
<1>3. CASE s.player[c] # NoPlayer
  <2>1. s.at[c] \in s.rooms /\ s.at[c] # NoRoom
    BY <1>1, <1>3, TableAssumption DEF OneBinding, Table
  <2>2. HandleClientClose(s, c) = LeaveRoom(s, c, s.at[c])
    BY <1>3, <2>1 DEF HandleClientClose
  <2> QED
    BY <1>3, <2>2, LeaveRoomKeeps
<1> QED
  BY <1>2, <1>3

LEMMA MovedKeeps ==
  ASSUME NEW s, Core(s), NEW c \in Conn, NEW r \in Room
  PROVE  LET t == Moved(s, c, r)
         IN  /\ Core(t) /\ t.clients = s.clients
             /\ t.at[c] \in {r, NoRoom}
             /\ \A q \in Room : t.room[q].members \subseteq s.room[q].members
<1>1. s \in Table /\ OneBinding(s)
  BY DEF Core, CoreBut, Sound
<1>2. CASE s.at[c] = NoRoom \/ s.at[c] = r
  BY <1>2 DEF Moved
<1>3. CASE ~(s.at[c] = NoRoom \/ s.at[c] = r)
  <2>1. s.player[c] # NoPlayer /\ s.at[c] \in s.rooms
    BY <1>1, <1>3 DEF OneBinding
  <2>2. Moved(s, c, r) = LeaveRoom(s, c, s.at[c])
    BY <1>3, <2>1 DEF Moved
  <2> QED
    BY <2>1, <2>2, LeaveRoomKeeps
<1> QED
  BY <1>2, <1>3

-----------------------------------------------------------------------------
(* Binding and `hello`.                                                    *)

\* What BindClientToPlayer makes of the contexts: c is bound to p, and the
\* connection that was is not.
Rebound(f, c, old, new, none) ==
  [d \in Conn |-> IF d = c THEN new ELSE IF d = old THEN none ELSE f[d]]

\* c is bound to p already, or to nobody, and p is bound to a connection, if to
\* anything.
MayBind(s, c, r, p) ==
  /\ \/ s.player[c] = NoPlayer
     \/ s.player[c] = p /\ s.at[c] = r /\ s.room[r].active[p] = c
  /\ s.room[r].active[p] \in s.clients \cup {NoConn}

\* t is s with m for room r and c bound to p.
Placed(s, t, c, r, p, m) ==
  /\ t \in Table /\ t.clients = s.clients /\ t.rooms = s.rooms
  /\ t.room = [s.room EXCEPT ![r] = m]
  /\ t.player = Rebound(s.player, c, s.room[r].active[p], p, NoPlayer)
  /\ t.at = Rebound(s.at, c, s.room[r].active[p], r, NoRoom)

\* What m has to be for that.
MayTake(s, c, r, p, m) ==
  /\ RoomOK(m) /\ p \in m.connected
  /\ m.active = [s.room[r].active EXCEPT ![p] = c]
  /\ m.members \subseteq s.room[r].members \cup {p}
  /\ \A q \in Room \ {r} : p \notin s.room[q].members

\* c takes the place of another connection, which is told so and nothing later.
Announced(s, t, c, old) ==
  /\ t.open = s.open \ ({old} \ {c})
  /\ \A d \in Conn : IF d \in s.open \ t.open THEN Closing(t.out[d])
                                             ELSE t.out[d] = s.out[d]

LEMMA SupersededTable ==
  ASSUME NEW s \in Table, NEW d \in Conn
  PROVE  LET t == Superseded(s, d)
         IN  /\ t \in Table /\ t.clients = s.clients /\ t.rooms = s.rooms /\ t.room = s.room
             /\ t.player = [s.player EXCEPT ![d] = NoPlayer]
             /\ t.at = [s.at EXCEPT ![d] = NoRoom]
             /\ t.open = s.open \ {d}
             /\ \A e \in Conn : IF e \in s.open /\ e = d THEN Closing(t.out[e])
                                                        ELSE t.out[e] = s.out[e]
<1> DEFINE msg == [kind |-> "replaced"]
           u == Unbound(s, d)
           v == Sent(u, {d}, msg)
<1>1. /\ u \in Table /\ u.clients = s.clients /\ u.rooms = s.rooms /\ u.room = s.room
      /\ u.player = [s.player EXCEPT ![d] = NoPlayer]
      /\ u.at = [s.at EXCEPT ![d] = NoRoom]
      /\ u.open = s.open /\ u.out = s.out
  BY UnboundTable
<1>m. msg \in Message /\ msg.kind = "replaced"
  BY MessageTypes
<1> HIDE DEF msg
<1>2. Superseded(s, d) = [v EXCEPT !.open = @ \ {d}]
  BY DEF Superseded, msg
<1> HIDE DEF u
<1>3. Alike(u, v)
  BY <1>1, <1>m, SentAlike
<1>o. v.open = u.open /\ v.out = [e \in Conn |-> IF e \in {d} \cap u.open
                                               THEN Append(u.out[e], msg) ELSE u.out[e]]
  BY <1>1 DEF Sent, Table
<1> HIDE DEF v
<1>4. LET t == [v EXCEPT !.open = @ \ {d}]
      IN  /\ t \in Table /\ t.clients = v.clients /\ t.rooms = v.rooms /\ t.room = v.room
          /\ t.player = v.player /\ t.at = v.at /\ t.open = v.open \ {d} /\ t.out = v.out
  BY <1>3 DEF Alike, Table
<1>5. ASSUME NEW e \in Conn
      PROVE  IF e \in s.open /\ e = d THEN Closing(v.out[e]) ELSE v.out[e] = s.out[e]
  <2>1. u.out[e] \in Seq(Message)
    BY <1>1 DEF Table
  <2>2. CASE e \in s.open /\ e = d
    <3>1. v.out[e] = Append(u.out[e], msg)
      BY <1>1, <1>o, <2>2
    <3> QED
      BY <1>m, <2>1, <2>2, <3>1, ClosingAppend
  <2>3. CASE ~(e \in s.open /\ e = d)
    BY <1>1, <1>o, <2>3
  <2> QED
    BY <2>2, <2>3
<1>6. v \in Table /\ v.clients = s.clients /\ v.rooms = s.rooms /\ v.room = s.room
      /\ v.player = [s.player EXCEPT ![d] = NoPlayer]
      /\ v.at = [s.at EXCEPT ![d] = NoRoom] /\ v.open = s.open
  BY <1>1, <1>3, <1>o DEF Alike
<1> DEFINE t == [v EXCEPT !.open = @ \ {d}]
<1>7. t \in Table /\ t.clients = v.clients /\ t.rooms = v.rooms /\ t.room = v.room
      /\ t.player = v.player /\ t.at = v.at /\ t.open = v.open \ {d} /\ t.out = v.out
  BY <1>4
<1> HIDE DEF t
<1>8. Superseded(s, d) = t
  BY <1>2 DEF t
<1> QED
  BY <1>5, <1>6, <1>7, <1>8

LEMMA BindTable ==
  ASSUME NEW s \in Table, NEW c \in Conn, NEW r \in Room, NEW p \in Player, MayBind(s, c, r, p)
  PROVE  LET t == BindClientToPlayer(s, c, r, p)
         IN  /\ Placed(s, t, c, r, p, [s.room[r] EXCEPT !.active[p] = c])
             /\ Announced(s, t, c, s.room[r].active[p])
<1> DEFINE old == s.room[r].active[p]
           u == IF old # c /\ old \in s.clients THEN Superseded(s, old) ELSE s
           t == BindClientToPlayer(s, c, r, p)
<1>0. /\ s.player[c] = NoPlayer \/ (s.player[c] = p /\ s.at[c] = r /\ old = c)
      /\ old \in s.clients \cup {NoConn}
  BY DEF MayBind
<1>1. /\ s.room \in [Room -> RoomState] /\ s.player \in [Conn -> Player \cup {NoPlayer}]
      /\ s.at \in [Conn -> Room \cup {NoRoom}] /\ s.clients \subseteq Conn
      /\ s.room[r].active \in [Player -> Conn \cup {NoConn}]
  BY DEF Table, RoomState
<1>2. CASE s.player[c] = p /\ s.at[c] = r /\ old = c
  <2>1. t = s
    BY <1>2 DEF BindClientToPlayer
  <2>2. [s.room EXCEPT ![r] = [s.room[r] EXCEPT !.active[p] = c]] = s.room
    BY <1>1, <1>2, SMTT(30) DEF RoomState
  <2>3. /\ s.player = Rebound(s.player, c, old, p, NoPlayer)
        /\ s.at = Rebound(s.at, c, old, r, NoRoom)
    BY <1>1, <1>2 DEF Rebound
  <2>4. s.open = s.open \ ({old} \ {c})
    BY <1>2
  <2> QED
    BY <2>1, <2>2, <2>3, <2>4 DEF Placed, Announced
<1>3. CASE ~(s.player[c] = p /\ s.at[c] = r /\ old = c)
  <2>1. s.player[c] = NoPlayer
    BY <1>0, <1>3
  <2>2. /\ u \in Table /\ u.clients = s.clients /\ u.rooms = s.rooms /\ u.room = s.room
        /\ u.player = [d \in Conn |-> IF d = old /\ d # c THEN NoPlayer ELSE s.player[d]]
        /\ u.at = [d \in Conn |-> IF d = old /\ d # c THEN NoRoom ELSE s.at[d]]
        /\ Announced(s, u, c, old)
    <3>1. CASE old # c /\ old \in s.clients
      <4> HIDE DEF old
      <4>1. u = Superseded(s, old) /\ old \in Conn
        BY <1>1, <3>1
      <4> HIDE DEF u
      <4>2. /\ u \in Table /\ u.clients = s.clients /\ u.rooms = s.rooms /\ u.room = s.room
            /\ u.player = [s.player EXCEPT ![old] = NoPlayer]
            /\ u.at = [s.at EXCEPT ![old] = NoRoom]
            /\ u.open = s.open \ {old}
            /\ \A e \in Conn : IF e \in s.open /\ e = old THEN Closing(u.out[e])
                                                         ELSE u.out[e] = s.out[e]
        BY <4>1, SupersededTable
      <4>3. Announced(s, u, c, old)
        BY <3>1, <4>2 DEF Announced
      <4> QED
        BY <1>1, <3>1, <4>1, <4>2, <4>3
    <3>2. CASE ~(old # c /\ old \in s.clients)
      <4>1. \A d \in Conn : ~(d = old /\ d # c)
        BY <1>0, <3>2, TableAssumption
      <4>2. u = s
        BY <3>2
      <4>3. s.open = s.open \ ({old} \ {c})
        BY <4>1 DEF Table
      <4>4. Announced(s, s, c, old)
        BY <4>3 DEF Announced
      <4> QED
        BY <1>1, <4>1, <4>2, <4>4
    <3> QED
      BY <3>1, <3>2
  <2>3. u.player[c] = NoPlayer
    BY <2>1, <2>2
  <2>4. t = [u EXCEPT !.player[c] = p, !.at[c] = r, !.room[r].active[p] = c]
    BY <1>3, <2>3 DEF BindClientToPlayer
  <2> HIDE DEF u, t
  <2>5. /\ t.clients = u.clients /\ t.rooms = u.rooms
        /\ t.room = [u.room EXCEPT ![r].active[p] = c]
        /\ t.player = [u.player EXCEPT ![c] = p] /\ t.at = [u.at EXCEPT ![c] = r]
        /\ t.open = u.open /\ t.out = u.out
        /\ t = [clients |-> t.clients, open |-> t.open, player |-> t.player, at |-> t.at,
                rooms |-> t.rooms, room |-> t.room, out |-> t.out]
    BY <2>2, <2>4 DEF Table
  <2>7. /\ [u.player EXCEPT ![c] = p] \in [Conn -> Player \cup {NoPlayer}]
        /\ [u.at EXCEPT ![c] = r] \in [Conn -> Room \cup {NoRoom}]
        /\ u.open \subseteq Conn /\ u.out \in [Conn -> Seq(Message)]
        /\ u.clients \subseteq Conn /\ u.rooms \subseteq Room
    BY <2>2 DEF Table
  <2>8. [u.room[r] EXCEPT !.active[p] = c] \in RoomState
    <3> SUFFICES ASSUME NEW m \in RoomState PROVE [m EXCEPT !.active[p] = c] \in RoomState
      BY <1>1, <2>2
    <3> QED  BY DEF RoomState
  <2>9. [u.room EXCEPT ![r].active[p] = c] = [u.room EXCEPT ![r] = [u.room[r] EXCEPT !.active[p] = c]]
    BY <1>1, <2>2
  <2>10. [u.room EXCEPT ![r].active[p] = c] \in [Room -> RoomState]
    <3> DEFINE m == [u.room[r] EXCEPT !.active[p] = c]
    <3>1. m \in RoomState
      BY <2>8
    <3> HIDE DEF m
    <3>2. [u.room EXCEPT ![r] = m] \in [Room -> RoomState]
      BY <1>1, <2>2, <3>1
    <3> QED
      BY <2>9, <3>2 DEF m
  <2>11. t \in Table
    BY <2>5, <2>7, <2>10 DEF Table
  <2>6. /\ [u.player EXCEPT ![c] = p] = Rebound(s.player, c, old, p, NoPlayer)
        /\ [u.at EXCEPT ![c] = r] = Rebound(s.at, c, old, r, NoRoom)
    <3> HIDE DEF old
    <3> QED  BY <2>2 DEF Rebound
  <2>12. Announced(s, t, c, old)
    BY <2>2, <2>5 DEF Announced
  <2> QED
    BY <2>2, <2>5, <2>6, <2>9, <2>11, <2>12 DEF t, Placed
<1> QED
  BY <1>2, <1>3

\* A connection is bound to a member of a room; the rest of the table stays.
LEMMA PlacedKeeps ==
  ASSUME NEW s, NEW r \in Room, CoreBut(s, {r}), r \in s.rooms,
         NEW c \in Conn, c \in s.clients, NEW p \in Player, MayBind(s, c, r, p),
         NEW m, MayTake(s, c, r, p, m), Hosted(m), NEW t, Placed(s, t, c, r, p, m)
  PROVE  Core(t)
<1> DEFINE old == s.room[r].active[p]
<1>0. /\ s.player[c] = NoPlayer \/ (s.player[c] = p /\ s.at[c] = r)
      /\ RoomOK(m) /\ Hosted(m) /\ p \in m.connected
      /\ m.active = [s.room[r].active EXCEPT ![p] = c]
      /\ m.members \subseteq s.room[r].members \cup {p}
      /\ \A q \in Room \ {r} : p \notin s.room[q].members
  BY DEF MayBind, MayTake
<1>placed. /\ t \in Table /\ t.clients = s.clients /\ t.rooms = s.rooms
           /\ t.room = [s.room EXCEPT ![r] = m]
           /\ t.player = Rebound(s.player, c, old, p, NoPlayer)
           /\ t.at = Rebound(s.at, c, old, r, NoRoom)
  BY DEF Placed
<1>1. /\ s \in Table /\ OneBinding(s) /\ OneRoomEach(s)
      /\ \A q \in Room : RoomOK(s.room[q]) /\ Hosted(s.room[q])
      /\ \A q \in Room \ {r} : Needed(s, q)
  BY DEF CoreBut, Sound
<1>2. /\ s.room \in [Room -> RoomState] /\ s.player \in [Conn -> Player \cup {NoPlayer}]
      /\ s.at \in [Conn -> Room \cup {NoRoom}] /\ s.clients \subseteq Conn
      /\ s.room[r].active \in [Player -> Conn \cup {NoConn}]
      /\ NoPlayer \notin Player /\ NoRoom \notin Room /\ NoConn \notin Conn
  BY <1>1, TableAssumption, PlayersFinite DEF Table, RoomState
<1>3. /\ \A d \in Conn : t.player[d] = IF d = c THEN p ELSE IF d = old THEN NoPlayer ELSE s.player[d]
      /\ \A d \in Conn : t.at[d] = IF d = c THEN r ELSE IF d = old THEN NoRoom ELSE s.at[d]
  BY <1>placed DEF Rebound
<1>4. /\ t.room[r] = m
      /\ \A q \in Room \ {r} : t.room[q] = s.room[q]
  BY <1>placed, <1>2
<1>5. /\ \A d \in Conn : s.player[d] = NoPlayer <=> s.at[d] = NoRoom
      /\ \A d \in Conn : s.player[d] # NoPlayer =>
           d \in s.clients /\ s.at[d] \in s.rooms /\ s.room[s.at[d]].active[s.player[d]] = d
      /\ \A q \in Room, o \in Player : s.room[q].active[o] # NoConn =>
           /\ s.room[q].active[o] \in Conn
           /\ s.player[s.room[q].active[o]] = o /\ s.at[s.room[q].active[o]] = q
  BY <1>1, <1>2 DEF OneBinding, RoomState
<1> HIDE DEF old
<1>6. ASSUME NEW d \in Conn PROVE t.player[d] = NoPlayer <=> t.at[d] = NoRoom
  <2>1. CASE d = c
    <3>1. t.player[d] = p /\ t.at[d] = r
      BY <1>3, <2>1
    <3> QED  BY <1>2, <3>1
  <2>2. CASE d # c /\ d = old
    BY <1>3, <2>2
  <2>3. CASE d # c /\ d # old
    <3>1. t.player[d] = s.player[d] /\ t.at[d] = s.at[d]
      BY <1>3, <2>3
    <3> QED  BY <1>5, <3>1
  <2> QED
    BY <2>1, <2>2, <2>3
<1>7. ASSUME NEW d \in Conn, t.player[d] # NoPlayer
      PROVE  /\ d \in t.clients /\ t.at[d] \in t.rooms
             /\ t.room[t.at[d]].active[t.player[d]] = d
  <2>1. CASE d = c
    BY <1>0, <1>placed, <1>2, <1>3, <1>4, <2>1
  <2>2. CASE d # c
    <3>1. d # old /\ t.player[d] = s.player[d] /\ t.at[d] = s.at[d]
      BY <1>3, <1>7, <2>2
    <3>2. /\ d \in s.clients /\ s.at[d] \in s.rooms /\ s.player[d] \in Player
          /\ s.at[d] \in Room /\ s.room[s.at[d]].active[s.player[d]] = d
      BY <1>1, <1>2, <1>5, <1>7, <3>1 DEF Table
    <3>3. CASE s.at[d] # r
      BY <1>placed, <1>4, <3>1, <3>2, <3>3
    <3>4. CASE s.at[d] = r
      <4>1. s.player[d] # p
        BY <3>1, <3>2, <3>4 DEF old
      <4> QED
        BY <1>0, <1>placed, <1>2, <1>4, <3>1, <3>2, <3>4, <4>1
    <3> QED
      BY <3>3, <3>4
  <2> QED
    BY <2>1, <2>2
<1>8. ASSUME NEW q \in Room, NEW o \in Player, t.room[q].active[o] # NoConn
      PROVE  LET d == t.room[q].active[o] IN t.player[d] = o /\ t.at[d] = q
  <2>1. CASE q = r /\ o = p
    BY <1>0, <1>placed, <1>2, <1>3, <1>4, <2>1
  <2>2. CASE ~(q = r /\ o = p)
    <3>1. t.room[q].active[o] = s.room[q].active[o]
      BY <1>0, <1>2, <1>4, <2>2
    <3> DEFINE d == s.room[q].active[o]
    <3>2. d \in Conn /\ s.player[d] = o /\ s.at[d] = q
      BY <1>5, <1>8, <3>1
    <3>3. d # c
      BY <1>0, <1>2, <2>2, <3>2
    <3>4. d # old
      <4>1. CASE old = NoConn
        BY <1>2, <3>2, <4>1
      <4>2. CASE old # NoConn
        BY <1>5, <2>2, <3>2, <4>2 DEF old
      <4> QED
        BY <4>1, <4>2
    <3> QED
      BY <1>3, <3>1, <3>2, <3>3, <3>4
  <2> QED
    BY <2>1, <2>2
<1>9. OneBinding(t)
  BY <1>6, <1>7, <1>8 DEF OneBinding
<1>10. OneRoomEach(t)
  <2> SUFFICES ASSUME NEW q \in Room, NEW o \in Room, q # o
               PROVE  t.room[q].members \cap t.room[o].members = {}
    BY DEF OneRoomEach
  <2>1. s.room[q].members \cap s.room[o].members = {}
    BY <1>1 DEF OneRoomEach
  <2> QED
    BY <1>0, <1>4, <2>1
<1>11. \A q \in Room : RoomOK(t.room[q]) /\ Hosted(t.room[q])
  BY <1>0, <1>1, <1>4
<1>12. \A q \in Room : Needed(t, q)
  <2>1. Needed(t, r)
    BY <1>0, <1>placed, <1>4 DEF Needed
  <2>2. \A q \in Room \ {r} : Needed(t, q)
    BY <1>placed, <1>1, <1>4 DEF Needed
  <2> QED
    BY <2>1, <2>2
<1> QED
  BY <1>placed, <1>9, <1>10, <1>11, <1>12 DEF Core, CoreBut, Sound

\* Everybody is told, and the room has a host that is there.
LEMMA WelcomedRoom ==
  ASSUME NEW s \in Table, NEW c \in Conn, NEW r \in Room, NEW p \in Player,
         RoomOK(s.room[r])
  PROVE  \E m \in RoomState :
           /\ RoomOK(m) /\ Hosted(m)
           /\ m.members = s.room[r].members /\ m.connected = s.room[r].connected
           /\ m.active = s.room[r].active
           /\ Alike([s EXCEPT !.room[r] = m], Welcomed(s, c, r, p))
<1> DEFINE h == EnsureHostAssigned(s.room[r], p)
           hosted == [s EXCEPT !.room[r] = h]
           shown == SendWelcomeAndInitialState(hosted, c, r, p)
           m == EnsureHostAssigned(h, NoPlayer)
           told == BroadcastLobby(shown, r)
<1>1. Welcomed(s, c, r, p) = told
  BY DEF Welcomed
<1>2. /\ RoomOK(h) /\ h.members = s.room[r].members /\ h.connected = s.room[r].connected
      /\ h.active = s.room[r].active
  BY EnsureHostOK
<1> HIDE DEF h
<1>3. /\ RoomOK(m) /\ Hosted(m) /\ m.members = h.members /\ m.connected = h.connected
      /\ m.active = h.active /\ m \in RoomState
  BY <1>2, EnsureHostOK DEF RoomOK
<1>4. s.room \in [Room -> RoomState] /\ h \in RoomState
  BY <1>2 DEF Table, RoomOK
<1>5. /\ hosted \in Table /\ hosted.clients = s.clients /\ hosted.player = s.player
      /\ hosted.at = s.at /\ hosted.rooms = s.rooms /\ hosted.room = [s.room EXCEPT ![r] = h]
  BY <1>4, RoomReplaced
<1> HIDE DEF hosted
<1>6. Alike(hosted, shown)
  BY <1>5, WelcomeAlike
<1> HIDE DEF shown
<1>7. shown \in Table /\ shown.room[r] = h
  BY <1>4, <1>5, <1>6 DEF Alike
<1>8. Alike([shown EXCEPT !.room[r] = m], told)
  BY <1>2, <1>7, BroadcastLobbyAlike
<1> HIDE DEF told, m
<1>9. LET u == [shown EXCEPT !.room[r] = m]
      IN  /\ u.clients = shown.clients /\ u.player = shown.player
          /\ u.at = shown.at /\ u.rooms = shown.rooms
          /\ u.room = [shown.room EXCEPT ![r] = m]
  BY <1>3, <1>7, RoomReplaced
<1>10. LET u == [s EXCEPT !.room[r] = m]
       IN  /\ u.clients = s.clients /\ u.player = s.player /\ u.at = s.at
           /\ u.rooms = s.rooms /\ u.room = [s.room EXCEPT ![r] = m]
  BY <1>3, RoomReplaced
<1>11. [shown.room EXCEPT ![r] = m] = [s.room EXCEPT ![r] = m]
  BY <1>4, <1>5, <1>6 DEF Alike
<1>12. Alike([s EXCEPT !.room[r] = m], told)
  BY <1>5, <1>6, <1>8, <1>9, <1>10, <1>11 DEF Alike
<1> QED
  BY <1>1, <1>2, <1>3, <1>12

\* A room is replaced, and one of its members bound to c.
LEMMA BoundReplaced ==
  ASSUME NEW s \in Table, NEW r \in Room, NEW b \in RoomState,
         b.active = s.room[r].active, NEW c \in Conn, NEW p \in Player, MayBind(s, c, r, p)
  PROVE  LET t == BindClientToPlayer([s EXCEPT !.room[r] = b], c, r, p)
         IN  /\ Placed(s, t, c, r, p, [b EXCEPT !.active[p] = c])
             /\ Announced(s, t, c, s.room[r].active[p])
<1> DEFINE u == [s EXCEPT !.room[r] = b]
           t == BindClientToPlayer(u, c, r, p)
<1>1. s.room \in [Room -> RoomState]
  BY DEF Table
<1>2. /\ u \in Table /\ u.clients = s.clients /\ u.player = s.player
      /\ u.at = s.at /\ u.rooms = s.rooms /\ u.room = [s.room EXCEPT ![r] = b]
      /\ u.open = s.open /\ u.out = s.out
  BY RoomReplaced
<1> HIDE DEF u
<1>3. u.room[r] = b
  BY <1>1, <1>2
<1>4. MayBind(u, c, r, p)
  BY <1>2, <1>3 DEF MayBind
<1>5. /\ Placed(u, t, c, r, p, [u.room[r] EXCEPT !.active[p] = c])
      /\ Announced(u, t, c, u.room[r].active[p])
  BY <1>2, <1>4, BindTable
<1> HIDE DEF t
<1> DEFINE k == [b EXCEPT !.active[p] = c]
<1>6. Placed(u, t, c, r, p, k)
  BY <1>3, <1>5
<1> HIDE DEF k
<1>7. [u.room EXCEPT ![r] = k] = [s.room EXCEPT ![r] = k]
  BY <1>1, <1>2
<1>8. Placed(s, t, c, r, p, k)
  BY <1>2, <1>3, <1>6, <1>7 DEF Placed
<1>9. Announced(s, t, c, s.room[r].active[p])
  BY <1>2, <1>3, <1>5 DEF Announced
<1> QED
  BY <1>8, <1>9 DEF t, u, k

LEMMA WelcomedKeeps ==
  ASSUME NEW s, NEW r \in Room, CoreBut(s, {r}), r \in s.rooms,
         NEW c \in Conn, c \in s.clients, NEW p \in Player, MayBind(s, c, r, p),
         NEW k, MayTake(s, c, r, p, k), NEW t, Placed(s, t, c, r, p, k)
  PROVE  /\ Core(Welcomed(t, c, r, p))
         /\ Welcomed(t, c, r, p).clients = s.clients
<1> DEFINE u == Welcomed(t, c, r, p)
<1>0. /\ t \in Table /\ t.clients = s.clients /\ t.rooms = s.rooms
      /\ t.room = [s.room EXCEPT ![r] = k] /\ RoomOK(k)
  BY DEF Placed, MayTake
<1>1. s.room \in [Room -> RoomState] /\ k \in RoomState
  BY <1>0 DEF CoreBut, Sound, Table, RoomOK
<1>2. t.room[r] = k
  BY <1>0, <1>1
<1>3. PICK m \in RoomState :
         /\ RoomOK(m) /\ Hosted(m) /\ m.members = k.members /\ m.connected = k.connected
         /\ m.active = k.active /\ Alike([t EXCEPT !.room[r] = m], u)
  BY <1>0, <1>2, WelcomedRoom
<1> HIDE DEF u
<1>4. LET v == [t EXCEPT !.room[r] = m]
      IN  /\ v.clients = t.clients /\ v.player = t.player /\ v.at = t.at
          /\ v.rooms = t.rooms /\ v.room = [t.room EXCEPT ![r] = m]
  BY <1>0, <1>3, RoomReplaced
<1>5. [t.room EXCEPT ![r] = m] = [s.room EXCEPT ![r] = m]
  BY <1>0, <1>1
<1>6. /\ u \in Table /\ u.clients = s.clients /\ u.rooms = s.rooms
      /\ u.room = [s.room EXCEPT ![r] = m] /\ u.player = t.player /\ u.at = t.at
  BY <1>0, <1>3, <1>4, <1>5 DEF Alike
<1>7. MayTake(s, c, r, p, m)
  BY <1>3 DEF MayTake
<1>8. Placed(s, u, c, r, p, m)
  BY <1>6 DEF Placed
<1>9. Core(u)
  BY <1>3, <1>7, <1>8, PlacedKeeps
<1> QED
  BY <1>6, <1>9 DEF u

\* In a table that is sound, a connection bound to nobody or to p may be bound
\* to p.
LEMMA BindingAllowed ==
  ASSUME NEW s, Sound(s), NEW r \in Room, NEW c \in Conn, NEW p \in Player,
         s.player[c] = NoPlayer \/ (s.player[c] = p /\ s.at[c] = r)
  PROVE  MayBind(s, c, r, p)
<1>1. s \in Table /\ OneBinding(s) /\ NoPlayer \notin Player
  BY PlayersFinite DEF Sound
<1>2. s.room[r].active[p] \in Conn \cup {NoConn}
  BY <1>1 DEF Table, RoomState
<1>3. s.room[r].active[p] \in s.clients \cup {NoConn}
  BY <1>1, <1>2 DEF OneBinding
<1>4. s.player[c] = p /\ s.at[c] = r => s.room[r].active[p] = c
  BY <1>1 DEF OneBinding
<1> QED
  BY <1>3, <1>4 DEF MayBind

\* t is s with c bound to p in r, as somebody who may be welcomed there: m is the
\* room, old who had p, and the others of the room are what they were.
SameFor(a, m, p) ==
  \A o \in Player \ {p} :
    /\ o \in m.spectator <=> o \in a.spectator
    /\ o \in m.live \ m.steered => o \in a.live \ a.steered

MayWelcome(s, t, c, r, p, m) ==
  /\ MayBind(s, c, r, p) /\ MayTake(s, c, r, p, m) /\ Placed(s, t, c, r, p, m)
  /\ Announced(s, t, c, s.room[r].active[p]) /\ SameFor(s.room[r], m, p)

LEMMA RejoinedPlaced ==
  ASSUME NEW s, NEW r \in Room, CoreBut(s, {r}), r \in s.rooms,
         NEW c \in Conn, c \in s.clients, NEW p \in s.room[r].members, NEW w \in BOOLEAN,
         s.player[c] = NoPlayer \/ (s.player[c] = p /\ s.at[c] = r)
  PROVE  \E t, m : /\ MayWelcome(s, t, c, r, p, m)
                   /\ Rejoined(s, c, r, p, w) = Welcomed(t, c, r, p)
<1> DEFINE a == s.room[r]
           b == Returned(a, p, w)
           k == Back(a, c, p, w)
           bound == BindClientToPlayer([s EXCEPT !.room[r] = b], c, r, p)
           L == bound.room[r].live \cup (({p} \cap a.seats) \ bound.room[r].spectator)
           told == WithLive(bound, r, L)
<1>1. Sound(s) /\ s \in Table /\ OneRoomEach(s) /\ RoomOK(a) /\ a \in RoomState
  BY DEF CoreBut, Sound, RoomOK
<1>2. s.room \in [Room -> RoomState] /\ p \in Player
  BY <1>1 DEF Table, RoomState
<1>3. MayBind(s, c, r, p)
  BY <1>1, <1>2, BindingAllowed
<1>4. /\ RoomOK(k) /\ k.connected = a.connected \cup {p} /\ k.members = a.members
      /\ k.active = [a.active EXCEPT ![p] = c]
  BY <1>1, BackOK
<1>5. MayTake(s, c, r, p, k)
  BY <1>1, <1>4 DEF MayTake, OneRoomEach
<1>6. /\ b \in RoomState /\ b.active = a.active
      /\ k = [b EXCEPT !.active[p] = c, !.live = @ \cup (({p} \cap a.seats) \ b.spectator)]
  BY <1>1, <1>2 DEF Returned, RoomState, Back
<1>s. SameFor(a, k, p)
  <2>1. /\ b.spectator \ {p} = a.spectator \ {p} /\ b.live = a.live /\ b.steered = a.steered
    BY <1>1 DEF Returned, RoomState
  <2> HIDE DEF b
  <2>2. /\ k.spectator = b.spectator /\ k.steered = b.steered
        /\ k.live \subseteq b.live \cup {p}
    BY <1>6 DEF RoomState
  <2> HIDE DEF k
  <2> QED
    BY <2>1, <2>2 DEF SameFor
<1> HIDE DEF b, k
<1>7. /\ Placed(s, bound, c, r, p, [b EXCEPT !.active[p] = c])
      /\ Announced(s, bound, c, a.active[p])
  BY <1>1, <1>2, <1>3, <1>6, BoundReplaced
<1> HIDE DEF bound
<1>8. bound.room[r] = [b EXCEPT !.active[p] = c] /\ bound \in Table
  BY <1>2, <1>7 DEF Placed
<1>9. bound.room[r].spectator = b.spectator
  BY <1>6, <1>8 DEF RoomState
<1>10. L \in SUBSET Player
  BY <1>1, <1>6, <1>8, <1>9 DEF RoomState
<1>11. [bound.room[r] EXCEPT !.live = L] = k
  BY <1>6, <1>8, <1>9 DEF RoomState
<1>12. Rejoined(s, c, r, p, w) = Welcomed(told, c, r, p)
  BY DEF Rejoined, bound, b, WithLive
<1> HIDE DEF L
<1>13. /\ told \in Table /\ told.clients = bound.clients /\ told.rooms = bound.rooms
       /\ told.player = bound.player /\ told.at = bound.at
       /\ told.room = [bound.room EXCEPT ![r] = k]
       /\ told.open = bound.open /\ told.out = bound.out
  <2>1. bound \in Table
    BY <1>8
  <2>2. /\ told \in Table /\ told.clients = bound.clients /\ told.rooms = bound.rooms
        /\ told.player = bound.player /\ told.at = bound.at
        /\ told.room = [bound.room EXCEPT ![r] = [bound.room[r] EXCEPT !.live = L]]
        /\ told.open = bound.open /\ told.out = bound.out
    BY <1>10, <2>1, LiveReplaced
  <2> QED
    BY <1>11, <2>2, Zenon
<1> HIDE DEF told
<1>14. told.room = [s.room EXCEPT ![r] = k]
  BY <1>2, <1>7, <1>13 DEF Placed
<1>15. Placed(s, told, c, r, p, k)
  BY <1>7, <1>13, <1>14 DEF Placed
<1>16. Announced(s, told, c, a.active[p])
  BY <1>7, <1>13 DEF Announced
<1>17. MayWelcome(s, told, c, r, p, k)
  BY <1>3, <1>5, <1>15, <1>16, <1>s DEF MayWelcome
<1> QED
  BY <1>12, <1>17

LEMMA AdmittedPlaced ==
  ASSUME NEW s, NEW r \in Room, CoreBut(s, {r}), r \in s.rooms,
         NEW c \in Conn, c \in s.clients, s.player[c] = NoPlayer,
         NEW p \in Player, \A q \in Room : p \notin s.room[q].members,
         NEW w \in BOOLEAN, s.room[r].running => w
  PROVE  \E t, m : /\ MayWelcome(s, t, c, r, p, m)
                   /\ Admitted(s, c, r, p, w) = Welcomed(t, c, r, p)
<1> DEFINE a == s.room[r]
           b == Joining(a, p, w)
           k == [b EXCEPT !.active[p] = c]
           told == BindClientToPlayer([s EXCEPT !.room[r] = b], c, r, p)
<1>1. Sound(s) /\ s \in Table /\ RoomOK(a) /\ a \in RoomState
  BY DEF CoreBut, Sound, RoomOK
<1>2. p \in Player \ a.members /\ (a.running => w)
  OBVIOUS
<1>3. MayBind(s, c, r, p)
  BY <1>1, BindingAllowed
<1>4. /\ RoomOK(k) /\ k.connected = a.connected \cup {p} /\ k.members = a.members \cup {p}
      /\ k.active = [a.active EXCEPT ![p] = c]
  <2> HIDE DEF a
  <2> QED  BY <1>1, <1>2, JoiningOK
<1>5. MayTake(s, c, r, p, k)
  <2> HIDE DEF k
  <2> QED  BY <1>4 DEF MayTake
<1>6. /\ b \in RoomState /\ b.active = a.active
      /\ b.spectator \ {p} = a.spectator \ {p} /\ b.live = a.live /\ b.steered = a.steered
  <2> DEFINE new == Joined(a, p)
  <2>1. new \in RoomState
    BY <1>1, <1>2, JoinedOrdered DEF RoomOK
  <2>2. /\ new.active = a.active /\ new.spectator = a.spectator /\ new.live = a.live
        /\ new.steered = a.steered
    BY <1>1 DEF Joined, RoomState
  <2>3. b = [new EXCEPT !.connected = @ \cup {p},
                        !.spectator = IF w THEN @ \cup {p} ELSE @]
    BY DEF Joining
  <2> HIDE DEF new, b
  <2> QED  BY <2>1, <2>2, <2>3 DEF RoomState
<1> HIDE DEF b
<1>7. Placed(s, told, c, r, p, k) /\ Announced(s, told, c, a.active[p])
  BY <1>1, <1>3, <1>6, BoundReplaced
<1>s. SameFor(a, k, p)
  <2>1. k.spectator = b.spectator /\ k.steered = b.steered /\ k.live = b.live
    BY <1>6 DEF RoomState
  <2> HIDE DEF k
  <2> QED
    BY <1>6, <2>1 DEF SameFor
<1> HIDE DEF k
<1>8. Admitted(s, c, r, p, w) = Welcomed(told, c, r, p)
  BY DEF Admitted, b
<1> HIDE DEF told
<1>9. MayWelcome(s, told, c, r, p, k)
  BY <1>3, <1>5, <1>7, <1>s DEF MayWelcome
<1> QED
  BY <1>8, <1>9

LEMMA MayWelcomeKeeps ==
  ASSUME NEW s, NEW r \in Room, CoreBut(s, {r}), r \in s.rooms,
         NEW c \in Conn, c \in s.clients, NEW p \in Player, NEW t, NEW m,
         MayWelcome(s, t, c, r, p, m)
  PROVE  /\ Core(Welcomed(t, c, r, p))
         /\ Welcomed(t, c, r, p).clients = s.clients
BY WelcomedKeeps DEF MayWelcome

LEMMA GetOrCreateKeeps ==
  ASSUME NEW s, Core(s), NEW r \in Room
  PROVE  LET t == GetOrCreateRoom(s, r)
         IN  /\ CoreBut(t, {r}) /\ r \in t.rooms
             /\ t.clients = s.clients /\ t.player = s.player /\ t.at = s.at
             /\ t.room = s.room
<1> DEFINE t == [s EXCEPT !.rooms = @ \cup {r}, !.room[r] = CreatedRoom]
<1>1. /\ s \in Table /\ OneBinding(s) /\ OneRoomEach(s)
      /\ \A q \in Room : RoomOK(s.room[q]) /\ Hosted(s.room[q]) /\ Needed(s, q)
  BY DEF Core, CoreBut, Sound
<1>2. CASE r \in s.rooms
  BY <1>1, <1>2 DEF GetOrCreateRoom, CoreBut, Sound
<1>3. CASE r \notin s.rooms
  <2>1. s.room[r] = CreatedRoom /\ s.room \in [Room -> RoomState]
    BY <1>1, <1>3 DEF Needed, Table
  <2>2. /\ t.clients = s.clients /\ t.player = s.player /\ t.at = s.at
        /\ t.rooms = s.rooms \cup {r} /\ t.room = [s.room EXCEPT ![r] = CreatedRoom]
    BY <1>1 DEF Table
  <2>3. t \in Table
    <3>1. CreatedRoom \in RoomState
      BY CreatedRoomOK DEF RoomOK
    <3> QED
      BY <1>1, <3>1 DEF Table
  <2>4. GetOrCreateRoom(s, r) = t
    BY <1>3 DEF GetOrCreateRoom
  <2> HIDE DEF t
  <2>5. t.room = s.room
    BY <2>1, <2>2
  <2>6. OneBinding(t) /\ OneRoomEach(t)
    BY <1>1, <2>2, <2>5 DEF OneBinding, OneRoomEach
  <2>7. \A q \in Room \ {r} : Needed(t, q)
    BY <1>1, <2>2, <2>5 DEF Needed
  <2>8. CoreBut(t, {r})
    BY <1>1, <2>3, <2>5, <2>6, <2>7 DEF CoreBut, Sound
  <2> QED
    BY <2>2, <2>4, <2>5, <2>8
<1> QED
  BY <1>2, <1>3

\* A room with somebody in it, or a match, is needed.
LEMMA NeededThen ==
  ASSUME NEW s, NEW r \in Room, CoreBut(s, {r}), r \in s.rooms,
         s.room[r].running \/ s.room[r].connected # {}
  PROVE  Core(s)
<1>1. Needed(s, r)
  BY DEF Needed
<1> QED
  BY <1>1 DEF Core, CoreBut

\* What a hello comes to once the connection has left another room: nothing, or a
\* member is welcomed.
Answered(s, t, c, r) ==
  \/ t = s /\ Core(s)
  \/ \E u, m : \E p \in Player : MayWelcome(s, u, c, r, p, m) /\ t = Welcomed(u, c, r, p)

LEMMA HandleHelloCases ==
  ASSUME NEW s, Core(s), NEW c \in Conn, c \in s.clients,
         NEW token \in Player \cup {NoPlayer}, NEW w \in BOOLEAN, NEW r \in Room,
         NEW fresh \in Player, \A q \in Room : fresh \notin s.room[q].members
  PROVE  LET here == GetOrCreateRoom(Moved(s, c, r), r)
             t    == HandleHello(s, c, token, w, r, fresh)
         IN  /\ CoreBut(here, {r}) /\ r \in here.rooms /\ here.clients = s.clients
             /\ Answered(here, t, c, r)
<1> DEFINE moved == Moved(s, c, r)
           here  == GetOrCreateRoom(moved, r)
           p     == here.player[c]
           bound == p # NoPlayer /\ here.at[c] = r
           m     == here.room[r]
           late  == m.running /\ token \notin m.spectator \cup m.seats
           t     == HandleHello(s, c, token, w, r, fresh)
           Result == Answered(here, t, c, r)
<1>1. /\ Core(moved) /\ moved.clients = s.clients /\ moved.at[c] \in {r, NoRoom}
      /\ \A q \in Room : moved.room[q].members \subseteq s.room[q].members
  BY MovedKeeps
<1> HIDE DEF moved
<1>2. /\ CoreBut(here, {r}) /\ r \in here.rooms /\ here.clients = s.clients
      /\ here.player = moved.player /\ here.at = moved.at /\ here.room = moved.room
  BY <1>1, GetOrCreateKeeps
<1> HIDE DEF here
<1>3. /\ here \in Table /\ OneBinding(here) /\ RoomOK(m)
      /\ here.player[c] \in Player \cup {NoPlayer} /\ m.members \subseteq Player
  BY <1>2 DEF CoreBut, Sound, Table, RoomOK, RoomState
<1>4. p = NoPlayer \/ (p \in Player /\ here.at[c] = r)
  BY <1>1, <1>2, <1>3 DEF OneBinding
<1>5. bound => p \in m.connected /\ p \in m.members
  <2>1. m.connected \subseteq m.members /\ \A q \in Player : q \in m.connected <=> m.active[q] # NoConn
    BY <1>3 DEF RoomOK, Flagged
  <2> QED
    BY <1>3, <1>4, <2>1, TableAssumption DEF OneBinding
<1>6. t = IF bound
          THEN IF token # NoPlayer /\ token # p THEN here ELSE Rejoined(here, c, r, p, w)
          ELSE IF token \in m.members
          THEN IF late THEN here ELSE Rejoined(here, c, r, token, w)
          ELSE IF m.running /\ ~w THEN here
          ELSE Admitted(here, c, r, fresh, w)
  <2>1. CASE bound
    BY <1>5, <2>1 DEF HandleHello, here, moved
  <2>2. CASE ~bound
    BY <2>2 DEF HandleHello, here, moved
  <2> QED
    BY <2>1, <2>2
<1> HIDE DEF t
<1>r. Result <=> \/ t = here /\ Core(here)
                 \/ \E u, k : \E q \in Player : /\ MayWelcome(here, u, c, r, q, k)
                                                /\ t = Welcomed(u, c, r, q)
  BY DEF Answered
<1> HIDE DEF Result
<1>7. ASSUME bound PROVE Result
  <2>1. Core(here)
    BY <1>2, <1>5, <1>7, NeededThen
  <2>2. CASE token # NoPlayer /\ token # p
    BY <1>2, <1>6, <1>7, <1>r, <2>1, <2>2
  <2>3. CASE ~(token # NoPlayer /\ token # p)
    <3>1. t = Rejoined(here, c, r, p, w)
      BY <1>6, <1>7, <2>3
    <3>2. p \in here.room[r].members /\ here.player[c] = p /\ here.at[c] = r /\ p \in Player
      BY <1>4, <1>5, <1>7
    <3> HIDE DEF p
    <3>3. \E u, k : /\ MayWelcome(here, u, c, r, p, k)
                    /\ Rejoined(here, c, r, p, w) = Welcomed(u, c, r, p)
      BY <1>2, <3>2, RejoinedPlaced
    <3> QED
      BY <1>r, <3>1, <3>2, <3>3
  <2> QED
    BY <2>2, <2>3
<1>8. ASSUME ~bound PROVE Result
  <2>1. here.player[c] = NoPlayer
    BY <1>4, <1>8
  <2>2. CASE token \in m.members
    <3>1. CASE late
      <4>1. Core(here)
        BY <1>2, <3>1, NeededThen
      <4> QED
        BY <1>6, <1>8, <1>r, <2>2, <3>1, <4>1
    <3>2. CASE ~late
      <4>1. t = Rejoined(here, c, r, token, w)
        BY <1>6, <1>8, <2>2, <3>2
      <4>2. \E u, k : /\ MayWelcome(here, u, c, r, token, k)
                      /\ Rejoined(here, c, r, token, w) = Welcomed(u, c, r, token)
        BY <1>2, <2>1, <2>2, RejoinedPlaced
      <4> QED
        BY <1>3, <1>r, <2>2, <4>1, <4>2
    <3> QED
      BY <3>1, <3>2
  <2>3. CASE token \notin m.members /\ m.running /\ ~w
    <3>1. Core(here)
      BY <1>2, <2>3, NeededThen
    <3> QED
      BY <1>6, <1>8, <1>r, <2>3, <3>1
  <2>4. CASE token \notin m.members /\ ~(m.running /\ ~w)
    <3>1. t = Admitted(here, c, r, fresh, w)
      BY <1>6, <1>8, <2>4
    <3>2. \A q \in Room : fresh \notin here.room[q].members
      BY <1>1, <1>2
    <3>3. /\ here.room[r].running => w
          /\ CoreBut(here, {r}) /\ r \in here.rooms /\ c \in here.clients
      BY <1>2, <2>4
    <3> HIDE DEF p, bound, m, late
    <3>4. \E u, k : /\ MayWelcome(here, u, c, r, fresh, k)
                    /\ Admitted(here, c, r, fresh, w) = Welcomed(u, c, r, fresh)
      BY <2>1, <3>2, <3>3, AdmittedPlaced
    <3> QED
      BY <1>r, <3>1, <3>4
  <2> QED
    BY <2>2, <2>3, <2>4
<1>9. Result
  BY <1>7, <1>8
<1> QED
  BY <1>2, <1>9 DEF here, moved, t, Result

LEMMA HandleHelloKeeps ==
  ASSUME NEW s, Core(s), NEW c \in Conn, c \in s.clients,
         NEW token \in Player \cup {NoPlayer}, NEW w \in BOOLEAN, NEW r \in Room,
         NEW fresh \in Player, \A q \in Room : fresh \notin s.room[q].members
  PROVE  LET t == HandleHello(s, c, token, w, r, fresh) IN Core(t) /\ t.clients = s.clients
<1> DEFINE here == GetOrCreateRoom(Moved(s, c, r), r)
           t == HandleHello(s, c, token, w, r, fresh)
<1>1. /\ CoreBut(here, {r}) /\ r \in here.rooms /\ here.clients = s.clients
      /\ Answered(here, t, c, r)
  BY HandleHelloCases
<1> HIDE DEF here, t
<1>2. ASSUME NEW u, NEW m, NEW p \in Player, MayWelcome(here, u, c, r, p, m),
             t = Welcomed(u, c, r, p)
      PROVE  Core(t) /\ t.clients = here.clients
  <2>1. CoreBut(here, {r}) /\ r \in here.rooms /\ c \in here.clients
    BY <1>1
  <2>2. Core(Welcomed(u, c, r, p)) /\ Welcomed(u, c, r, p).clients = here.clients
    BY <1>2, <2>1, MayWelcomeKeeps, SMTT(30)
  <2> QED
    BY <1>2, <2>2
<1>3. Core(t) /\ t.clients = s.clients
  BY <1>1, <1>2 DEF Answered
<1> QED
  BY <1>3 DEF t

-----------------------------------------------------------------------------
(* Messages of members, the loop and the close of a connection.            *)

\* t is s with m for room r, and m has the connections and no new members.
Rewritten(s, t, r, m) ==
  /\ t \in Table /\ t.clients = s.clients /\ t.player = s.player /\ t.at = s.at
  /\ t.rooms = s.rooms /\ t.room = [s.room EXCEPT ![r] = m]
  /\ RoomOK(m) /\ Hosted(m)
  /\ m.active = s.room[r].active /\ m.members \subseteq s.room[r].members

LEMMA RewrittenKeeps ==
  ASSUME NEW s, Core(s), NEW r \in Room, r \in s.rooms, NEW m, NEW t, Rewritten(s, t, r, m)
  PROVE  /\ CoreBut(t, {r}) /\ t.clients = s.clients /\ r \in t.rooms
         /\ m.running \/ m.connected # {} => Core(t)
<1>1. /\ s \in Table /\ OneBinding(s) /\ OneRoomEach(s)
      /\ \A q \in Room : RoomOK(s.room[q]) /\ Hosted(s.room[q]) /\ Needed(s, q)
      /\ s.room \in [Room -> RoomState]
  BY DEF Core, CoreBut, Sound, Table
<1>2. /\ t \in Table /\ t.clients = s.clients /\ t.player = s.player /\ t.at = s.at
      /\ t.rooms = s.rooms /\ t.room = [s.room EXCEPT ![r] = m]
      /\ RoomOK(m) /\ Hosted(m)
      /\ m.active = s.room[r].active /\ m.members \subseteq s.room[r].members
  BY DEF Rewritten
<1>3. t.room[r] = m /\ \A q \in Room \ {r} : t.room[q] = s.room[q]
  BY <1>1, <1>2
<1>4. \A q \in Room : /\ t.room[q].active = s.room[q].active
                      /\ t.room[q].members \subseteq s.room[q].members
  BY <1>2, <1>3
<1>5. OneBinding(t)
  <2>1. \A d \in Conn : s.player[d] # NoPlayer => s.at[d] \in Room
    BY <1>1 DEF OneBinding, Table
  <2> QED
    BY <1>1, <1>2, <1>4, <2>1 DEF OneBinding
<1>6. OneRoomEach(t)
  BY <1>1, <1>4 DEF OneRoomEach
<1>7. \A q \in Room : RoomOK(t.room[q]) /\ Hosted(t.room[q])
  BY <1>1, <1>2, <1>3
<1>8. \A q \in Room \ {r} : Needed(t, q)
  BY <1>1, <1>2, <1>3 DEF Needed
<1>9. CoreBut(t, {r})
  BY <1>2, <1>5, <1>6, <1>7, <1>8 DEF CoreBut, Sound
<1>10. m.running \/ m.connected # {} => Core(t)
  BY <1>2, <1>3, <1>9, NeededThen
<1> QED
  BY <1>2, <1>9, <1>10

LEMMA RoomRewritten ==
  ASSUME NEW s, Core(s), NEW r \in Room, NEW m, RoomOK(m), Hosted(m),
         m.active = s.room[r].active, m.members \subseteq s.room[r].members
  PROVE  Rewritten(s, [s EXCEPT !.room[r] = m], r, m)
<1>1. s \in Table /\ m \in RoomState
  BY DEF Core, CoreBut, Sound, RoomOK
<1> DEFINE t == [s EXCEPT !.room[r] = m]
<1>2. /\ t \in Table /\ t.clients = s.clients /\ t.player = s.player /\ t.at = s.at
      /\ t.rooms = s.rooms /\ t.room = [s.room EXCEPT ![r] = m]
  BY <1>1, RoomReplaced
<1> HIDE DEF t
<1>3. Rewritten(s, t, r, m)
  BY <1>2 DEF Rewritten
<1> QED
  BY <1>3 DEF t

\* A lobby broadcast after a room is rewritten.
LEMMA BroadcastRewritten ==
  ASSUME NEW s, Core(s), NEW r \in Room, NEW m, RoomOK(m), Hosted(m),
         m.active = s.room[r].active, m.members \subseteq s.room[r].members
  PROVE  \E h : /\ h \in RoomState /\ h.running = m.running
                /\ Rewritten(s, BroadcastLobby([s EXCEPT !.room[r] = m], r), r, h)
<1> DEFINE u == [s EXCEPT !.room[r] = m]
           h == EnsureHostAssigned(m, NoPlayer)
           t == BroadcastLobby(u, r)
<1>1. s \in Table /\ m \in RoomState /\ s.room \in [Room -> RoomState]
  BY DEF Core, CoreBut, Sound, RoomOK, Table
<1>2. /\ u \in Table /\ u.clients = s.clients /\ u.player = s.player /\ u.at = s.at
      /\ u.rooms = s.rooms /\ u.room = [s.room EXCEPT ![r] = m]
  BY <1>1, RoomReplaced
<1> HIDE DEF u
<1>3. u.room[r] = m
  BY <1>1, <1>2
<1>4. /\ RoomOK(h) /\ Hosted(h) /\ h.members = m.members /\ h.active = m.active
      /\ h.running = m.running /\ h \in RoomState
  BY EnsureHostOK DEF RoomOK
<1>5. Alike([u EXCEPT !.room[r] = h], t)
  BY <1>2, <1>3, BroadcastLobbyAlike
<1> HIDE DEF h, t
<1>6. LET v == [u EXCEPT !.room[r] = h]
      IN  /\ v.clients = u.clients /\ v.player = u.player /\ v.at = u.at
          /\ v.rooms = u.rooms /\ v.room = [u.room EXCEPT ![r] = h]
  BY <1>2, <1>4, RoomReplaced
<1>7. [u.room EXCEPT ![r] = h] = [s.room EXCEPT ![r] = h]
  BY <1>1, <1>2
<1>8. Rewritten(s, t, r, h)
  BY <1>2, <1>4, <1>5, <1>6, <1>7 DEF Rewritten, Alike
<1> QED
  BY <1>4, <1>8 DEF t, u

LEMMA HandleLobbyStartKeeps ==
  ASSUME NEW s, Core(s), NEW r \in Room, r \in s.rooms, NEW p, NEW a
  PROVE  LET t == HandleLobbyStart(s, r, p, a) IN Core(t) /\ t.clients = s.clients
<1> DEFINE m == EnsureHostAssigned(s.room[r], NoPlayer)
           humans == (m.connected \cap m.members) \ m.spectator
           n == Started(m, humans)
           told == BroadcastLobby([s EXCEPT !.room[r] = n], r)
           o == [c \in Conn |->
                  IF \E q \in told.room[r].connected :
                       /\ told.room[r].active[q] = c
                       /\ c \in told.clients \cap told.open
                  THEN Append(told.out[c], InitMessage(told.room[r], told.player[c]))
                  ELSE told.out[c]]
           sent == [told EXCEPT !.out = o]
           t == HandleLobbyStart(s, r, p, a)
<1>1. RoomOK(s.room[r]) /\ Hosted(s.room[r]) /\ Needed(s, r)
  BY DEF Core, CoreBut, Sound
<1>2. /\ RoomOK(m) /\ Hosted(m) /\ m.connected = s.room[r].connected
      /\ m.members = s.room[r].members /\ m.active = s.room[r].active
      /\ m.running = s.room[r].running
  BY <1>1, EnsureHostOK
<1> HIDE DEF m
<1>3. t = IF s.room[r].running THEN s
          ELSE IF p # m.host \/ (humans = {} /\ ~a) THEN [s EXCEPT !.room[r] = m]
          ELSE sent
  BY DEF HandleLobbyStart, m
<1>4. CASE s.room[r].running
  BY <1>3, <1>4
<1>5. CASE ~s.room[r].running /\ (p # m.host \/ (humans = {} /\ ~a))
  <2> DEFINE u == [s EXCEPT !.room[r] = m]
  <2>1. t = u
    BY <1>3, <1>5
  <2>2. Rewritten(s, u, r, m)
    BY <1>2, RoomRewritten
  <2>3. m.connected # {}
    BY <1>1, <1>2, <1>5 DEF Needed
  <2> HIDE DEF u, t
  <2>4. Core(u) /\ u.clients = s.clients
    BY <2>2, <2>3, RewrittenKeeps
  <2> QED
    BY <2>1, <2>4 DEF t
<1>6. CASE ~s.room[r].running /\ ~(p # m.host \/ (humans = {} /\ ~a))
  <2>1. t = sent
    BY <1>3, <1>6
  <2>2. /\ RoomOK(n) /\ Hosted(n) /\ n.running
        /\ n.members \subseteq m.members /\ n.active = m.active
    BY <1>2, <1>6, StartedOK
  <2> HIDE DEF n
  <2>3. PICK h : h \in RoomState /\ h.running = n.running /\ Rewritten(s, told, r, h)
    BY <1>2, <2>2, BroadcastRewritten
  <2> HIDE DEF told
  <2>4. Core(told) /\ told.clients = s.clients
    BY <2>2, <2>3, RewrittenKeeps
  <2>5. told \in Table /\ told.room[r] \in RoomState
    BY <2>4 DEF Core, CoreBut, Sound, Table
  <2>6. o \in [Conn -> Seq(Message)]
    BY <2>5, MessageTypes DEF Table
  <2> HIDE DEF o
  <2>7. Alike(told, sent)
    BY <2>5, <2>6, SendingAlike
  <2> HIDE DEF sent, t
  <2>8. Core(sent) /\ sent.clients = told.clients
    BY <2>4, <2>7, AlikeSound DEF Alike
  <2> QED
    BY <2>1, <2>4, <2>8 DEF t
<1> QED
  BY <1>4, <1>5, <1>6

\* A room whose match has recorded something.
WithRecord(s, r, ticked, S, O) == [s EXCEPT !.room[r] = Recorded(s.room[r], ticked, S, O)]

LEMMA RecordedKeeps ==
  ASSUME NEW s, Core(s), NEW r \in Room, r \in s.rooms, NEW ticked \in BOOLEAN,
         NEW S \in SUBSET (s.room[r].steered \cup s.room[r].live),
         NEW O \in SUBSET (s.room[r].pingOwners \cup s.room[r].seats),
         s.room[r].running
  PROVE  LET t == WithRecord(s, r, ticked, S, O) IN Core(t) /\ t.clients = s.clients
<1> DEFINE m == Recorded(s.room[r], ticked, S, O)
           t == [s EXCEPT !.room[r] = m]
<1>1. RoomOK(s.room[r]) /\ Hosted(s.room[r])
  BY DEF Core, CoreBut, Sound
<1>2. /\ RoomOK(m) /\ Hosted(m) /\ m.members = s.room[r].members
      /\ m.active = s.room[r].active /\ m.running = s.room[r].running
  BY <1>1, RecordedOK, ZenonT(60)
<1> HIDE DEF m
<1>3. Rewritten(s, t, r, m)
  BY <1>2, RoomRewritten
<1> HIDE DEF t
<1> QED
  BY <1>2, <1>3, RewrittenKeeps, ZenonT(60) DEF t, m, WithRecord

LEMMA HandleInputKeeps ==
  ASSUME NEW s, Core(s), NEW r \in Room, r \in s.rooms, NEW p
  PROVE  LET t == HandleInput(s, r, p) IN Core(t) /\ t.clients = s.clients
<1> DEFINE m == s.room[r]
           S == m.steered \cup ({p} \cap m.live)
<1>1. m \in RoomState /\ Seated(m) /\ s \in Table
  BY DEF Core, CoreBut, Sound, RoomOK
<1>2. HandleInput(s, r, p) = [s EXCEPT !.room[r] = [m EXCEPT !.steered = S]]
  BY <1>1 DEF HandleInput, Table
<1>3. CASE m.running
  <2>1. [m EXCEPT !.steered = S] = Recorded(m, m.ticked, S, m.pingOwners)
    BY <1>1 DEF Recorded, RoomState
  <2>2. /\ m.ticked \in BOOLEAN /\ S \in SUBSET (m.steered \cup m.live)
        /\ m.pingOwners \in SUBSET (m.pingOwners \cup m.seats)
    BY <1>1 DEF RoomState
  <2>3. HandleInput(s, r, p) = WithRecord(s, r, m.ticked, S, m.pingOwners)
    BY <1>2, <2>1 DEF WithRecord
  <2> HIDE DEF S
  <2> QED
    BY <1>3, <2>2, <2>3, RecordedKeeps
<1>4. CASE ~m.running
  <2>1. S = m.steered
    BY <1>1, <1>4 DEF Seated
  <2>2. [m EXCEPT !.steered = S] = m
    BY <1>1, <2>1 DEF RoomState
  <2>3. [s EXCEPT !.room[r] = m] = s
    BY <1>1 DEF Table
  <2> QED
    BY <1>2, <2>2, <2>3
<1> QED
  BY <1>3, <1>4

LEMMA HandlePlacePingKeeps ==
  ASSUME NEW s, Core(s), NEW r \in Room, r \in s.rooms, NEW p
  PROVE  LET t == HandlePlacePing(s, r, p) IN Core(t) /\ t.clients = s.clients
<1> DEFINE m == s.room[r]
           O == m.pingOwners \cup {p}
           taken == /\ m.running /\ p \in m.members \ m.spectator
                    /\ m.active[p] \in s.clients /\ p \in m.seats
<1>1. m \in RoomState /\ s \in Table
  BY DEF Core, CoreBut, Sound, RoomOK
<1>2. CASE taken
  <2>1. HandlePlacePing(s, r, p) = [s EXCEPT !.room[r] = [m EXCEPT !.pingOwners = O]]
    BY <1>1, <1>2 DEF HandlePlacePing, Table
  <2>2. [m EXCEPT !.pingOwners = O] = Recorded(m, m.ticked, m.steered, O)
    BY <1>1 DEF Recorded, RoomState
  <2>3. /\ m.ticked \in BOOLEAN /\ m.steered \in SUBSET (m.steered \cup m.live)
        /\ O \in SUBSET (m.pingOwners \cup m.seats)
    BY <1>1, <1>2 DEF RoomState
  <2>4. HandlePlacePing(s, r, p) = WithRecord(s, r, m.ticked, m.steered, O)
    BY <2>1, <2>2 DEF WithRecord
  <2> HIDE DEF O
  <2> QED
    BY <1>2, <2>3, <2>4, RecordedKeeps
<1>3. CASE ~taken
  BY <1>3 DEF HandlePlacePing
<1> QED
  BY <1>2, <1>3

LEMMA FirstTickKeeps ==
  ASSUME NEW s, Core(s), NEW r \in Room, r \in s.rooms, s.room[r].running
  PROVE  LET t == FirstTick(s, r) IN Core(t) /\ t.clients = s.clients
<1> DEFINE m == s.room[r]
           u == [s EXCEPT !.room[r].ticked = TRUE]
           C == {c \in Listeners(u, r) : \E p \in u.room[r].members : u.room[r].active[p] = c}
<1>1. m \in RoomState /\ s \in Table
  BY DEF Core, CoreBut, Sound, RoomOK
<1>2. u = WithRecord(s, r, TRUE, m.steered, m.pingOwners)
  <2>1. [m EXCEPT !.ticked = TRUE] = Recorded(m, TRUE, m.steered, m.pingOwners)
    BY <1>1 DEF Recorded, RoomState
  <2>2. u = [s EXCEPT !.room[r] = [m EXCEPT !.ticked = TRUE]]
    BY <1>1 DEF Table
  <2> QED
    BY <2>1, <2>2 DEF WithRecord
<1>3. Core(u) /\ u.clients = s.clients
  <2>1. /\ m.steered \in SUBSET (m.steered \cup m.live)
        /\ m.pingOwners \in SUBSET (m.pingOwners \cup m.seats)
    OBVIOUS
  <2> HIDE DEF u
  <2> QED  BY <1>2, <2>1, RecordedKeeps
<1>4. FirstTick(s, r) = Sent(u, C, [kind |-> "state"])
  BY DEF FirstTick, BroadcastState
<1> HIDE DEF u, C
<1>5. u \in Table
  BY <1>3 DEF Core, CoreBut, Sound
<1>6. Alike(u, Sent(u, C, [kind |-> "state"]))
  BY <1>5, MessageTypes, SentAlike
<1>7. /\ Core(Sent(u, C, [kind |-> "state"]))
      /\ Sent(u, C, [kind |-> "state"]).clients = u.clients
  BY <1>3, <1>6, AlikeSound DEF Alike
<1> QED
  BY <1>3, <1>4, <1>7

LEMMA LastTickKeeps ==
  ASSUME NEW s, Core(s), NEW r \in Room, r \in s.rooms
  PROVE  LET t == LastTick(s, r) IN Core(t) /\ t.clients = s.clients
<1> DEFINE e == Sent(s, Listeners(s, r), [kind |-> "game_over"])
           m == Over(s.room[r])
           u == BroadcastLobby([e EXCEPT !.room[r] = m], r)
<1>0. Core(e) /\ e.clients = s.clients /\ e.rooms = s.rooms /\ e.room = s.room
  <2>1. s \in Table
    BY DEF Core, CoreBut, Sound
  <2>2. Alike(s, e)
    BY <2>1, MessageTypes, SentAlike
  <2> HIDE DEF e
  <2> QED
    BY <2>2, AlikeSound DEF Alike
<1>1. RoomOK(s.room[r])
  BY DEF Core, CoreBut, Sound
<1>2. /\ RoomOK(m) /\ Hosted(m) /\ m.members = s.room[r].members
      /\ m.active = s.room[r].active
  BY <1>1, OverOK
<1>3. LastTick(s, r) = CleanupRoomIfIdle(u, r)
  <2>1. e.room[r] = s.room[r] /\ e.room \in [Room -> RoomState] /\ e \in Table
    BY <1>0 DEF Core, CoreBut, Sound, Table
  <2>2. [e EXCEPT !.room[r] = Over(@)] = [e EXCEPT !.room[r] = m]
    <3> HIDE DEF e
    <3> QED  BY <2>1
  <2>3. LastTick(s, r) = CleanupRoomIfIdle(BroadcastLobby([e EXCEPT !.room[r] = Over(@)], r), r)
    BY DEF LastTick
  <2> HIDE DEF e, m
  <2> QED
    BY <2>2, <2>3
<1> HIDE DEF m, e
<1>4. PICK h : h \in RoomState /\ Rewritten(e, u, r, h)
  BY <1>0, <1>2, BroadcastRewritten
<1> HIDE DEF u
<1>5. CoreBut(u, {r}) /\ u.clients = s.clients /\ r \in u.rooms
  BY <1>0, <1>4, RewrittenKeeps, ZenonT(60)
<1>6. /\ Core(CleanupRoomIfIdle(u, r))
      /\ CleanupRoomIfIdle(u, r).clients = u.clients
  BY <1>5, CleanupKeeps
<1> QED
  BY <1>3, <1>5, <1>6

\* A connection that is bound to nobody may go, and one may come.
LEMMA ClientsChanged ==
  ASSUME NEW s, Core(s), NEW C \in SUBSET Conn, NEW P \in SUBSET Conn,
         \A c \in Conn : s.player[c] # NoPlayer => c \in C
  PROVE  Core([s EXCEPT !.clients = C, !.open = P])
<1> DEFINE t == [s EXCEPT !.clients = C, !.open = P]
<1>1. /\ s \in Table /\ OneBinding(s) /\ OneRoomEach(s)
      /\ \A q \in Room : RoomOK(s.room[q]) /\ Hosted(s.room[q]) /\ Needed(s, q)
  BY DEF Core, CoreBut, Sound
<1>2. /\ t.clients = C /\ t.player = s.player /\ t.at = s.at
      /\ t.rooms = s.rooms /\ t.room = s.room /\ t \in Table
  BY <1>1 DEF Table
<1> HIDE DEF t
<1>3. OneBinding(t) /\ OneRoomEach(t)
  BY <1>1, <1>2 DEF OneBinding, OneRoomEach
<1>4. \A q \in Room : Needed(t, q)
  BY <1>1, <1>2 DEF Needed
<1>5. Core(t)
  BY <1>1, <1>2, <1>3, <1>4 DEF Core, CoreBut, Sound
<1> QED
  BY <1>5 DEF t

LEMMA ServerClosedKeeps ==
  ASSUME NEW s, Core(s), NEW c \in Conn
  PROVE  /\ Core(ServerClosed(s, c)) /\ ServerClosed(s, c).clients = s.clients \ {c}
<1> DEFINE u == [s EXCEPT !.clients = s.clients, !.open = @ \ {c}]
           left == HandleClientClose(u, c)
           t == [left EXCEPT !.clients = left.clients \ {c}, !.open = left.open]
<1>1. s \in Table /\ OneBinding(s)
  BY DEF Core, CoreBut, Sound
<1>2. u = [s EXCEPT !.open = @ \ {c}] /\ u.clients = s.clients
  BY <1>1 DEF Table
<1>3. Core(u)
  <2>1. s.clients \in SUBSET Conn /\ s.open \ {c} \in SUBSET Conn
    BY <1>1 DEF Table
  <2>2. \A d \in Conn : s.player[d] # NoPlayer => d \in s.clients
    BY <1>1 DEF OneBinding
  <2> QED
    BY <2>1, <2>2, ClientsChanged
<1> HIDE DEF u
<1>4. Core(left) /\ left.clients = s.clients /\ left.player[c] = NoPlayer
  BY <1>2, <1>3, HandleClientCloseKeeps
<1>5. ServerClosed(s, c) = [left EXCEPT !.clients = @ \ {c}]
  BY <1>2 DEF ServerClosed
<1> HIDE DEF left
<1>6. left \in Table /\ OneBinding(left)
  BY <1>4 DEF Core, CoreBut, Sound
<1>7. t = [left EXCEPT !.clients = @ \ {c}] /\ t.clients = s.clients \ {c}
  BY <1>4, <1>6 DEF Table
<1>8. Core(t)
  <2>1. left.clients \ {c} \in SUBSET Conn /\ left.open \in SUBSET Conn
    BY <1>6 DEF Table
  <2>2. \A d \in Conn : left.player[d] # NoPlayer => d \in left.clients \ {c}
    BY <1>4, <1>6 DEF OneBinding
  <2> HIDE DEF t
  <2> QED
    BY <1>4, <2>1, <2>2, ClientsChanged DEF t
<1> QED
  BY <1>5, <1>7, <1>8

LEMMA HandledKeeps ==
  ASSUME NEW s, Core(s), NEW c \in Conn,
         NEW msg, msg.kind \in {"lobby_start", "input", "place_ping"}
  PROVE  LET t == Handled(s, c, msg) IN Core(t) /\ t.clients = s.clients
<1> DEFINE p == s.player[c]
           r == s.at[c]
<1>1. s \in Table /\ OneBinding(s)
  BY DEF Core, CoreBut, Sound
<1>2. CASE p = NoPlayer \/ r = NoRoom
  BY <1>2 DEF Handled
<1>3. CASE ~(p = NoPlayer \/ r = NoRoom)
  <2>1. r \in s.rooms /\ r \in Room
    BY <1>1, <1>3 DEF OneBinding, Table
  <2>2. CASE msg.kind = "lobby_start"
    <3>1. Handled(s, c, msg) = HandleLobbyStart(s, r, p, msg.withAi)
      BY <1>3, <2>1, <2>2 DEF Handled
    <3> QED
      BY <2>1, <3>1, HandleLobbyStartKeeps
  <2>3. CASE msg.kind = "input"
    <3>1. Handled(s, c, msg) = HandleInput(s, r, p)
      BY <1>3, <2>1, <2>3 DEF Handled
    <3> QED
      BY <2>1, <3>1, HandleInputKeeps
  <2>4. CASE msg.kind = "place_ping"
    <3>1. Handled(s, c, msg) = HandlePlacePing(s, r, p)
      BY <1>3, <2>1, <2>4 DEF Handled
    <3> QED
      BY <2>1, <3>1, HandlePlacePingKeeps
  <2> QED
    BY <2>2, <2>3, <2>4
<1> QED
  BY <1>2, <1>3

-----------------------------------------------------------------------------
(* What is under way tells every tab what the table says of it.            *)

\* What the server takes the tab behind a connection for, and whether the tab
\* will agree once it has handled what is under way, k being what it knows now.
\* Near leaves out who is host, which a broadcast of the lobby tells.
Truth(s, c) ==
  LET p == s.player[c]
      m == s.room[s.at[c]]
  IN  View(p, m.host = p, p \in m.spectator)

Right(s, c, k) == s.player[c] # NoPlayer => Heard(k, s.out[c]) = Truth(s, c)

Near(s, c, k) ==
  s.player[c] # NoPlayer =>
    \E host \in BOOLEAN :
      Heard(k, s.out[c]) = View(s.player[c], host, s.player[c] \in s.room[s.at[c]].spectator)

\* The seat of c has no direction, and no game_init is under way that makes the
\* tab forget what it has sent.
Owing(s, c) ==
  /\ s.player[c] # NoPlayer
  /\ s.player[c] \in s.room[s.at[c]].live \ s.room[s.at[c]].steered

Late(s, c) == Owing(s, c) /\ ~Holds(s.out[c], "game_init")

\* From s to t every tab is told what there is to tell.
Kept(s, t, d) ==
  /\ \A k : Right(s, d, k) => Right(t, d, k)
  /\ Late(t, d) => Late(s, d)

Tells(s, t) ==
  /\ t.open \subseteq s.open
  /\ \A d \in Conn : d \notin s.open => t.out[d] = s.out[d]
  /\ \A d \in Conn : d \in s.open \ t.open => Closing(t.out[d])
  /\ \A d \in t.open : Kept(s, t, d)

LEMMA TellsTransitive ==
  ASSUME NEW s, NEW t, NEW u, Tells(s, t), Tells(t, u)
  PROVE  Tells(s, u)
<1>1. u.open \subseteq s.open
  BY DEF Tells
<1>2. ASSUME NEW d \in Conn, d \notin s.open PROVE u.out[d] = s.out[d]
  BY <1>2 DEF Tells
<1>3. ASSUME NEW d \in Conn, d \in s.open \ u.open PROVE Closing(u.out[d])
  <2>1. CASE d \in t.open
    BY <1>3, <2>1 DEF Tells
  <2>2. CASE d \notin t.open
    <3>1. Closing(t.out[d]) /\ u.out[d] = t.out[d]
      BY <1>3, <2>2 DEF Tells
    <3> QED
      BY <3>1
  <2> QED
    BY <2>1, <2>2
<1>4. ASSUME NEW d \in u.open PROVE Kept(s, u, d)
  <2>1. Kept(s, t, d) /\ Kept(t, u, d)
    BY DEF Tells
  <2> QED
    BY <2>1 DEF Kept
<1> QED
  BY <1>1, <1>2, <1>3, <1>4 DEF Tells

\* Nothing is sent, and whoever stays bound is what it was.
Unmoved(s, t, d) ==
  /\ t.player[d] # NoPlayer => /\ t.player[d] = s.player[d]
                               /\ Truth(t, d) = Truth(s, d)
  /\ Owing(t, d) => Owing(s, d)

LEMMA UnmovedTells ==
  ASSUME NEW s, NEW t, t.open = s.open, t.out = s.out, \A d \in s.open : Unmoved(s, t, d)
  PROVE  Tells(s, t)
<1>1. ASSUME NEW d \in t.open PROVE Kept(s, t, d)
  <2>1. Unmoved(s, t, d)
    OBVIOUS
  <2>2. ASSUME NEW k, Right(s, d, k) PROVE Right(t, d, k)
    BY <2>1, <2>2 DEF Unmoved, Right
  <2>3. Late(t, d) => Late(s, d)
    BY <2>1 DEF Unmoved, Late
  <2> QED
    BY <2>2, <2>3 DEF Kept
<1> QED
  BY <1>1 DEF Tells

\* The same with a room replaced: the bindings stay.
LEMMA RoomUnmoved ==
  ASSUME NEW s \in Table, NEW t, NEW r \in Room, NEW m,
         t.open = s.open, t.out = s.out, t.player = s.player, t.at = s.at,
         t.room = [s.room EXCEPT ![r] = m],
         m.host = s.room[r].host, m.spectator = s.room[r].spectator,
         m.live \ m.steered \subseteq s.room[r].live \ s.room[r].steered
  PROVE  Tells(s, t)
<1>1. ASSUME NEW d \in s.open PROVE Unmoved(s, t, d)
  <2>1. s.room \in [Room -> RoomState] /\ d \in Conn /\ s.at[d] \in Room \cup {NoRoom}
    BY DEF Table
  <2>2. CASE s.at[d] = r
    <3>1. t.room[t.at[d]] = m
      BY <2>1, <2>2
    <3>2. Truth(t, d) = Truth(s, d)
      BY <2>2, <3>1 DEF Truth
    <3>3. Owing(t, d) => Owing(s, d)
      BY <2>2, <3>1 DEF Owing
    <3> QED
      BY <3>2, <3>3 DEF Unmoved
  <2>3. CASE s.at[d] # r
    <3>1. t.room[t.at[d]] = s.room[s.at[d]]
      BY <2>1, <2>3
    <3>2. Truth(t, d) = Truth(s, d)
      BY <3>1 DEF Truth
    <3>3. Owing(t, d) => Owing(s, d)
      BY <3>1 DEF Owing
    <3> QED
      BY <3>2, <3>3 DEF Unmoved
  <2> QED
    BY <2>2, <2>3
<1> QED
  BY <1>1, UnmovedTells

LEMMA TellsItself ==
  ASSUME NEW s
  PROVE  Tells(s, s)
<1>1. \A d \in s.open : Unmoved(s, s, d)
  BY DEF Unmoved
<1> QED
  BY <1>1, UnmovedTells

-----------------------------------------------------------------------------
(* Messages.                                                               *)

\* One message of a kind on its way to d.
LEMMA HearsMessage ==
  ASSUME NEW p, NEW host \in BOOLEAN, NEW watches
  PROVE  /\ \A msg : msg.kind = "lobby" =>
              Hears(View(p, host, watches), msg) = View(p, msg.host = p, watches)
         /\ \A msg : msg.kind = "game_init" =>
              Hears(View(p, host, watches), msg) = View(p, host, msg.isSpectator)
         /\ \A msg, k : msg.kind = "welcome" =>
              Hears(k, msg) = View(msg.player, msg.isHost, msg.isSpectator)
         /\ \A msg, k : msg.kind \in {"state", "game_over", "replaced", "cut"} =>
              Hears(k, msg) = k
<1>1. ASSUME NEW msg, msg.kind = "lobby"
      PROVE  Hears(View(p, host, watches), msg) = View(p, msg.host = p, watches)
  BY <1>1 DEF Hears, View
<1>2. ASSUME NEW msg, msg.kind = "game_init"
      PROVE  Hears(View(p, host, watches), msg) = View(p, host, msg.isSpectator)
  BY <1>2 DEF Hears, View
<1>3. ASSUME NEW msg, NEW k, msg.kind = "welcome"
      PROVE  Hears(k, msg) = View(msg.player, msg.isHost, msg.isSpectator)
  BY <1>3 DEF Hears
<1>4. ASSUME NEW msg, NEW k, msg.kind \in {"state", "game_over", "replaced", "cut"}
      PROVE  Hears(k, msg) = k
  BY <1>4 DEF Hears
<1> QED
  BY <1>1, <1>2, <1>3, <1>4

\* d is the active connection of a member of r.
Listening(s, d, r) ==
  /\ d \in s.clients /\ s.player[d] \in Player /\ s.at[d] = r
  /\ s.room[r].active[s.player[d]] = d

LEMMA SentOut ==
  ASSUME NEW s \in Table, NEW C, NEW msg
  PROVE  LET t == Sent(s, C, msg)
         IN  /\ t.open = s.open
             /\ \A d \in Conn : t.out[d] = IF d \in C /\ d \in s.open THEN Append(s.out[d], msg)
                                                                      ELSE s.out[d]
BY DEF Sent, Table

\* Who listens hears of the host; who is in another room hears nothing.
Lobbied(s, t, r) ==
  /\ t.open = s.open
  /\ \A d \in Conn : d \notin s.open => t.out[d] = s.out[d]
  /\ \A d \in s.open :
       /\ Listening(s, d, r) => \A k : Near(s, d, k) => Right(t, d, k)
       /\ s.at[d] # r => \A k : Right(s, d, k) => Right(t, d, k)
       /\ Late(t, d) => Late(s, d)

LEMMA BroadcastTells ==
  ASSUME NEW s \in Table, NEW r \in Room, RoomOK(s.room[r])
  PROVE  Lobbied(s, BroadcastLobby(s, r), r)
<1> DEFINE m == EnsureHostAssigned(s.room[r], NoPlayer)
           u == [s EXCEPT !.room[r] = m]
           L == Listeners(u, r)
           msg == LobbyMessage(m)
           t == Sent(u, L, msg)
<1>1. /\ m \in RoomState /\ m.active = s.room[r].active /\ m.spectator = s.room[r].spectator
      /\ m.live = s.room[r].live /\ m.steered = s.room[r].steered
  BY EnsureHostOK, EnsureHostFlags DEF RoomOK
<1> HIDE DEF m
<1>2. /\ u \in Table /\ u.clients = s.clients /\ u.player = s.player /\ u.at = s.at
      /\ u.room = [s.room EXCEPT ![r] = m] /\ u.open = s.open /\ u.out = s.out
  BY <1>1, RoomReplaced
<1> HIDE DEF u
<1>3. s.room \in [Room -> RoomState] /\ s.at \in [Conn -> Room \cup {NoRoom}] /\ s.open \subseteq Conn
      /\ s.out \in [Conn -> Seq(Message)] /\ u.room[r] = m
  BY <1>2 DEF Table
<1>4. BroadcastLobby(s, r) = t
  BY <1>3 DEF BroadcastLobby, u, m
<1>5. msg \in Message /\ msg.kind = "lobby" /\ msg.host = m.host
  BY <1>1, MessageTypes DEF LobbyMessage
<1> HIDE DEF msg
<1>6. /\ Alike(u, t) /\ t.open = s.open
      /\ \A d \in Conn : t.out[d] = IF d \in L /\ d \in s.open THEN Append(s.out[d], msg)
                                                               ELSE s.out[d]
  BY <1>2, <1>5, SentAlike, SentOut
<1>7. t.player = s.player /\ t.at = s.at /\ t.room = u.room
  BY <1>2, <1>6 DEF Alike
<1> HIDE DEF t
<1>8. ASSUME NEW d \in s.open, Listening(s, d, r), NEW k, Near(s, d, k) PROVE Right(t, d, k)
  <2> DEFINE p == s.player[d]
             watches == p \in s.room[r].spectator
  <2>1. p \in Player /\ s.at[d] = r /\ p # NoPlayer
    BY <1>8, PlayersFinite DEF Listening
  <2>2. d \in L
    BY <1>1, <1>2, <1>3, <1>8, <2>1 DEF Listening, Listeners
  <2>3. t.out[d] = Append(s.out[d], msg)
    BY <1>3, <1>6, <2>2
  <2>4. PICK host \in BOOLEAN : Heard(k, s.out[d]) = View(p, host, watches)
    BY <1>8, <2>1 DEF Near
  <2>5. Heard(k, t.out[d]) = Hears(Heard(k, s.out[d]), msg)
    BY <1>3, <1>5, <2>3, HeardAppend
  <2>6. Hears(View(p, host, watches), msg) = View(p, m.host = p, watches)
    BY <1>5, HearsMessage
  <2>7. Truth(t, d) = View(p, m.host = p, watches)
    BY <1>1, <1>3, <1>7, <2>1 DEF Truth
  <2> QED
    BY <2>4, <2>5, <2>6, <2>7 DEF Right
<1>9. ASSUME NEW d \in s.open, s.at[d] # r, NEW k, Right(s, d, k) PROVE Right(t, d, k)
  <2>1. d \notin L
    BY <1>2, <1>9 DEF Listeners
  <2>2. t.out[d] = s.out[d]
    BY <1>3, <1>6, <2>1
  <2>3. t.room[t.at[d]] = s.room[s.at[d]]
    BY <1>2, <1>3, <1>7, <1>9
  <2> QED
    BY <1>7, <1>9, <2>2, <2>3 DEF Right, Truth
<1>10. ASSUME NEW d \in s.open, Late(t, d) PROVE Late(s, d)
  <2>1. Owing(s, d)
    <3>1. CASE s.at[d] = r
      BY <1>1, <1>3, <1>7, <1>10, <3>1 DEF Late, Owing
    <3>2. CASE s.at[d] # r
      <4>1. t.room[t.at[d]] = s.room[s.at[d]]
        BY <1>2, <1>3, <1>7, <3>2
      <4> QED
        BY <1>7, <1>10, <4>1 DEF Late, Owing
    <3> QED
      BY <3>1, <3>2
  <2>2. ~Holds(s.out[d], "game_init")
    <3>1. CASE t.out[d] = s.out[d]
      BY <1>10, <3>1 DEF Late
    <3>2. CASE t.out[d] = Append(s.out[d], msg)
      BY <1>3, <1>5, <1>10, <3>2, HoldsAppend DEF Late
    <3> QED
      BY <1>3, <1>6, <3>1, <3>2
  <2> QED
    BY <2>1, <2>2 DEF Late
<1>11. \A d \in Conn : d \notin s.open => t.out[d] = s.out[d]
  BY <1>6
<1> QED
  BY <1>4, <1>6, <1>8, <1>9, <1>10, <1>11 DEF Lobbied

-----------------------------------------------------------------------------
(* Leaving tells the others.                                               *)

\* The others of the room stay what they were.
LEMMA LeftMemberOthers ==
  ASSUME NEW m \in RoomState, NEW p \in Player
  PROVE  SameFor(m, LeftMember(m, p), p)
<1> DEFINE gone == [m EXCEPT !.active[p] = NoConn]
           kept == [gone EXCEPT !.connected = @ \ {p}, !.ai = @ \cup {p}, !.live = @ \ {p}]
           removed == [Only(gone, m.members \ {p}) EXCEPT
                         !.connected = @ \ {p}, !.spectator = @ \ {p}, !.ai = @ \ {p}]
           left == IF m.running /\ p \notin m.spectator THEN kept ELSE removed
<1>1. /\ gone.spectator = m.spectator /\ gone.live = m.live /\ gone.steered = m.steered
  BY DEF RoomState
<1>2. kept.spectator = m.spectator /\ kept.live \subseteq m.live /\ kept.steered = m.steered
  BY DEF RoomState
<1>3. /\ removed.spectator = m.spectator \ {p} /\ removed.live = m.live
      /\ removed.steered = m.steered
  BY DEF RoomState, Only
<1>4. /\ [kept EXCEPT !.host = ChooseNextHost(kept)].spectator = m.spectator
      /\ [kept EXCEPT !.host = ChooseNextHost(kept)].live \subseteq m.live
      /\ [kept EXCEPT !.host = ChooseNextHost(kept)].steered = m.steered
  BY DEF RoomState
<1>5. /\ [removed EXCEPT !.host = ChooseNextHost(removed)].spectator = m.spectator \ {p}
      /\ [removed EXCEPT !.host = ChooseNextHost(removed)].live = m.live
      /\ [removed EXCEPT !.host = ChooseNextHost(removed)].steered = m.steered
  BY DEF RoomState, Only
<1>6. LeftMember(m, p) \in {gone, kept, removed, [kept EXCEPT !.host = ChooseNextHost(kept)],
                            [removed EXCEPT !.host = ChooseNextHost(removed)]}
  BY DEF LeftMember
<1> HIDE DEF gone, kept, removed
<1> QED
  BY <1>1, <1>2, <1>3, <1>4, <1>5, <1>6 DEF SameFor

\* To unbind a connection moves nobody else.
LEMMA UnboundTells ==
  ASSUME NEW s \in Table, NEW c \in Conn
  PROVE  Tells(s, Unbound(s, c))
<1> DEFINE t == Unbound(s, c)
<1>1. /\ t.room = s.room /\ t.player = [s.player EXCEPT ![c] = NoPlayer]
      /\ t.at = [s.at EXCEPT ![c] = NoRoom] /\ t.open = s.open /\ t.out = s.out
  BY UnboundTable
<1>2. /\ s.player \in [Conn -> Player \cup {NoPlayer}]
      /\ s.at \in [Conn -> Room \cup {NoRoom}] /\ s.open \subseteq Conn
  BY DEF Table
<1> HIDE DEF t
<1>3. ASSUME NEW d \in s.open PROVE Unmoved(s, t, d)
  <2>1. CASE d = c
    BY <1>1, <1>2, <2>1 DEF Unmoved, Owing
  <2>2. CASE d # c
    BY <1>1, <1>2, <2>2 DEF Unmoved, Owing, Truth
  <2> QED
    BY <2>1, <2>2
<1>4. Tells(s, t)
  BY <1>1, <1>3, UnmovedTells
<1> QED
  BY <1>4 DEF t

\* Nobody is connected to a room that goes.
LEMMA CleanupTells ==
  ASSUME NEW s \in Table, OneBinding(s), NEW r \in Room
  PROVE  Tells(s, CleanupRoomIfIdle(s, r))
<1> DEFINE t == [s EXCEPT !.rooms = @ \ {r}, !.room[r] = CreatedRoom]
<1>1. CASE ~s.room[r].running /\ \A p \in Player : s.room[r].active[p] = NoConn
  <2>1. CleanupRoomIfIdle(s, r) = t
    BY <1>1 DEF CleanupRoomIfIdle
  <2>2. /\ t.player = s.player /\ t.at = s.at /\ t.open = s.open /\ t.out = s.out
        /\ t.room = [s.room EXCEPT ![r] = CreatedRoom]
    BY DEF Table
  <2> HIDE DEF t
  <2>3. /\ s.player \in [Conn -> Player \cup {NoPlayer}] /\ s.room \in [Room -> RoomState]
        /\ s.at \in [Conn -> Room \cup {NoRoom}] /\ s.open \subseteq Conn
    BY DEF Table
  <2>4. ASSUME NEW d \in s.open PROVE Unmoved(s, t, d)
    <3>1. CASE s.player[d] = NoPlayer
      BY <2>2, <3>1 DEF Unmoved, Owing
    <3>2. CASE s.player[d] # NoPlayer
      <4>1. s.room[s.at[d]].active[s.player[d]] = d /\ d \in Conn /\ s.player[d] \in Player
        BY <2>3, <3>2 DEF OneBinding
      <4>2. s.at[d] # r
        BY <1>1, <4>1, TableAssumption
      <4>3. t.room[t.at[d]] = s.room[s.at[d]]
        BY <2>2, <2>3, <4>1, <4>2
      <4> QED
        BY <2>2, <4>3 DEF Unmoved, Owing, Truth
    <3> QED
      BY <3>1, <3>2
  <2>5. Tells(s, t)
    BY <2>2, <2>4, UnmovedTells
  <2> QED
    BY <2>1, <2>5
<1>2. CASE ~(~s.room[r].running /\ \A p \in Player : s.room[r].active[p] = NoConn)
  <2>1. CleanupRoomIfIdle(s, r) = s
    BY <1>2 DEF CleanupRoomIfIdle
  <2> QED
    BY <2>1, TellsItself
<1> QED
  BY <1>1, <1>2

\* t is s with m for room r, told to everybody that is not on c; a seat that lacks
\* a direction only now is told nothing of that.
Retold(s, t, r, c, m) ==
  /\ t \in Table /\ t.player = s.player /\ t.at = s.at /\ t.open = s.open
  /\ t.clients = s.clients
  /\ t.room = [s.room EXCEPT ![r] = EnsureHostAssigned(m, NoPlayer)]
  /\ \A d \in Conn : d \notin s.open => t.out[d] = s.out[d]
  /\ \A d \in s.open : \A k : d # c /\ Right(s, d, k) => Right(t, d, k)
  /\ \A d \in s.open :
       /\ d # c
       /\ s.at[d] = r /\ s.player[d] \in m.live \ m.steered
            => s.player[d] \in s.room[r].live \ s.room[r].steered
       => (Late(t, d) => Late(s, d))

\* What m has to be for that: whoever is on another connection than c is in m what
\* it was.
SameBut(a, c, m) ==
  \A o \in Player : a.active[o] # c =>
    /\ m.active[o] = a.active[o]
    /\ o \in m.spectator <=> o \in a.spectator

\* A room is rewritten and the lobby broadcast: who is connected to it, and not on
\* c, learns what has changed.
LEMMA RewriteTells ==
  ASSUME NEW s, Core(s), NEW r \in Room, NEW c, NEW m, RoomOK(m),
         SameBut(s.room[r], c, m)
  PROVE  Retold(s, BroadcastLobby([s EXCEPT !.room[r] = m], r), r, c, m)
<1> DEFINE left == [s EXCEPT !.room[r] = m]
           h == EnsureHostAssigned(m, NoPlayer)
           told == BroadcastLobby(left, r)
<1>1. s \in Table /\ OneBinding(s)
  BY DEF Core, CoreBut, Sound
<1>2. /\ s.room \in [Room -> RoomState] /\ s.player \in [Conn -> Player \cup {NoPlayer}]
      /\ s.at \in [Conn -> Room \cup {NoRoom}] /\ s.open \subseteq Conn
  BY <1>1 DEF Table
<1>3. /\ left \in Table /\ left.clients = s.clients /\ left.player = s.player
      /\ left.at = s.at /\ left.room = [s.room EXCEPT ![r] = m]
      /\ left.open = s.open /\ left.out = s.out
  BY <1>1, RoomReplaced DEF RoomOK
<1> HIDE DEF left
<1>4. left.room[r] = m
  BY <1>2, <1>3
<1>5. Lobbied(left, told, r)
  BY <1>3, <1>4, BroadcastTells
<1>6. /\ told \in Table /\ told.player = s.player /\ told.at = s.at /\ told.clients = s.clients
      /\ told.room = [s.room EXCEPT ![r] = h]
  <2>1. h \in RoomState /\ Alike([left EXCEPT !.room[r] = h], told)
    BY <1>3, <1>4, BroadcastLobbyAlike
  <2> HIDE DEF h, told
  <2>2. LET v == [left EXCEPT !.room[r] = h]
        IN  /\ v.player = left.player /\ v.at = left.at /\ v.clients = left.clients
            /\ v.room = [left.room EXCEPT ![r] = h]
    BY <1>3, <2>1, RoomReplaced
  <2>3. [left.room EXCEPT ![r] = h] = [s.room EXCEPT ![r] = h]
    BY <1>2, <1>3
  <2> QED
    BY <1>3, <2>1, <2>2, <2>3 DEF Alike
<1> HIDE DEF told, h
<1>7. told.open = s.open /\ \A d \in Conn : d \notin s.open => told.out[d] = s.out[d]
  BY <1>3, <1>5 DEF Lobbied
<1>8. ASSUME NEW d \in s.open, d # c
      PROVE  /\ \A k : Right(s, d, k) => Right(told, d, k)
             /\ (s.at[d] = r /\ s.player[d] \in m.live \ m.steered
                   => s.player[d] \in s.room[r].live \ s.room[r].steered)
                => (Late(told, d) => Late(s, d))
  <2>1. CASE s.player[d] = NoPlayer
    BY <1>6, <2>1 DEF Right, Late, Owing
  <2>2. CASE s.player[d] # NoPlayer /\ s.at[d] # r
    <3>1. d \in Conn /\ s.at[d] \in Room
      BY <1>1, <1>2, <2>2 DEF OneBinding
    <3>2. left.room[left.at[d]] = s.room[s.at[d]]
      BY <1>2, <1>3, <2>2, <3>1
    <3>3. ASSUME NEW k, Right(s, d, k) PROVE Right(told, d, k)
      <4>1. Right(left, d, k)
        BY <1>3, <3>2, <3>3 DEF Right, Truth
      <4> QED
        BY <1>3, <1>5, <2>2, <4>1 DEF Lobbied
    <3>4. Late(told, d) => Late(s, d)
      <4>1. Late(told, d) => Late(left, d)
        BY <1>3, <1>5 DEF Lobbied
      <4> QED
        BY <1>3, <3>2, <4>1 DEF Late, Owing
    <3> QED
      BY <3>3, <3>4
  <2>3. CASE s.player[d] # NoPlayer /\ s.at[d] = r
    <3> DEFINE o == s.player[d]
    <3>1. /\ d \in Conn /\ d \in s.clients /\ o \in Player /\ s.room[r].active[o] = d
      BY <1>1, <1>2, <2>3 DEF OneBinding
    <3>2. m.active[o] = d /\ (o \in m.spectator <=> o \in s.room[r].spectator)
      BY <1>8, <3>1 DEF SameBut
    <3>3. Listening(left, d, r)
      BY <1>3, <1>4, <2>3, <3>1, <3>2 DEF Listening
    <3>4. ASSUME NEW k, Right(s, d, k) PROVE Right(told, d, k)
      <4> DEFINE host == s.room[r].host = o
      <4>1. Heard(k, s.out[d]) = View(o, host, o \in s.room[r].spectator)
        BY <2>3, <3>4 DEF Right, Truth
      <4>2. (o \in s.room[r].spectator) = (o \in m.spectator) /\ host \in BOOLEAN
        BY <3>2
      <4>3. Heard(k, left.out[d]) = View(o, host, o \in m.spectator)
        BY <1>3, <4>1, <4>2
      <4> HIDE DEF host
      <4>4. Near(left, d, k)
        BY <1>3, <1>4, <2>3, <4>2, <4>3 DEF Near
      <4> QED
        BY <1>3, <1>5, <3>3, <4>4 DEF Lobbied
    <3>5. ASSUME o \in m.live \ m.steered => o \in s.room[r].live \ s.room[r].steered
          PROVE  Late(told, d) => Late(s, d)
      <4>1. Late(told, d) => Late(left, d)
        BY <1>3, <1>5 DEF Lobbied
      <4>2. Owing(left, d) => Owing(s, d)
        BY <1>3, <1>4, <2>3, <3>5 DEF Owing
      <4> QED
        BY <1>3, <4>1, <4>2 DEF Late
    <3> QED
      BY <2>3, <3>4, <3>5
  <2> QED
    BY <2>1, <2>2, <2>3
<1> QED
  BY <1>6, <1>7, <1>8 DEF told, left, h, Retold

LEMMA LeaveRoomTells ==
  ASSUME NEW s, Core(s), NEW c \in Conn, s.player[c] # NoPlayer
  PROVE  Tells(s, LeaveRoom(s, c, s.at[c]))
<1> DEFINE p == s.player[c]
           r == s.at[c]
           m == LeftMember(s.room[r], p)
           told == BroadcastLobby([s EXCEPT !.room[r] = m], r)
           u == Unbound(told, c)
<1>1. /\ s \in Table /\ OneBinding(s)
      /\ \A q \in Room : RoomOK(s.room[q]) /\ Hosted(s.room[q])
  BY DEF Core, CoreBut, Sound
<1>2. /\ s.room \in [Room -> RoomState] /\ s.player \in [Conn -> Player \cup {NoPlayer}]
      /\ s.at \in [Conn -> Room \cup {NoRoom}] /\ s.open \subseteq Conn
  BY <1>1 DEF Table
<1>3. /\ p \in Player /\ r \in Room /\ s.room[r].active[p] = c
  BY <1>1, <1>2 DEF OneBinding
<1>4. p \in s.room[r].connected
  BY <1>1, <1>3, TableAssumption DEF RoomOK, Flagged
<1>5. LeaveRoom(s, c, r) = CleanupRoomIfIdle(u, r) /\ CoreBut(u, {r})
  <2>1. u = Unbound(Parting(s, c), c)
    BY DEF Parting
  <2> HIDE DEF u
  <2> QED
    BY <2>1, PartingKeeps
<1>6. /\ RoomOK(m) /\ m.active = [s.room[r].active EXCEPT ![p] = NoConn]
      /\ SameFor(s.room[r], m, p)
  <2>1. s.room[r] \in RoomState /\ RoomOK(s.room[r]) /\ Hosted(s.room[r])
    BY <1>1, <1>2, <1>3
  <2> HIDE DEF p, r
  <2> QED
    BY <1>3, <1>4, <2>1, LeftMemberOK, LeftMemberOthers
<1> HIDE DEF m
<1>7. s.room[r].active \in [Player -> Conn \cup {NoConn}]
  BY <1>2, <1>3 DEF RoomState
<1>8. SameBut(s.room[r], c, m)
  BY <1>3, <1>6, <1>7 DEF SameFor, SameBut
<1>l. \A o \in Player : s.room[r].active[o] # c =>
        (o \in m.live \ m.steered => o \in s.room[r].live \ s.room[r].steered)
  BY <1>3, <1>6, <1>7 DEF SameFor
<1> HIDE DEF r, p
<1>t. Retold(s, told, r, c, m)
  BY <1>3, <1>6, <1>8, RewriteTells
<1> HIDE DEF told
<1>9. /\ told \in Table /\ told.player = s.player /\ told.open = s.open
      /\ \A d \in Conn : d \notin s.open => told.out[d] = s.out[d]
      /\ \A d \in s.open : \A k : d # c /\ Right(s, d, k) => Right(told, d, k)
      /\ \A d \in s.open :
           /\ d # c
           /\ s.at[d] = r /\ s.player[d] \in m.live \ m.steered
                => s.player[d] \in s.room[r].live \ s.room[r].steered
           => (Late(told, d) => Late(s, d))
  BY <1>t DEF Retold
<1>10. Tells(told, u)
  BY <1>9, UnboundTells
<1>11. u.open = told.open /\ u.out = told.out /\ u.player = [s.player EXCEPT ![c] = NoPlayer]
  BY <1>9, UnboundTable, ZenonT(60)
<1> HIDE DEF u
<1>12. ASSUME NEW d \in s.open, d # c PROVE Kept(s, told, d)
  <2>1. CASE s.player[d] = NoPlayer
    BY <1>9, <2>1 DEF Kept, Right, Late, Owing
  <2>2. CASE s.player[d] # NoPlayer
    <3>1. /\ s.player[d] \in Player /\ d \in Conn
          /\ s.at[d] = r => s.room[r].active[s.player[d]] # c
      BY <1>1, <1>2, <1>12, <2>2 DEF OneBinding
    <3>2. s.at[d] = r /\ s.player[d] \in m.live \ m.steered
            => s.player[d] \in s.room[r].live \ s.room[r].steered
      BY <1>l, <3>1
    <3>3. Late(told, d) => Late(s, d)
      BY <1>9, <1>12, <3>2
    <3> QED
      BY <1>9, <1>12, <3>3 DEF Kept
  <2> QED
    BY <2>1, <2>2
<1>13. ASSUME NEW d \in u.open PROVE Kept(s, u, d)
  <2>1. CASE d = c
    <3>1. u.player[c] = NoPlayer
      BY <1>2, <1>11
    <3> QED
      BY <2>1, <3>1 DEF Kept, Right, Late, Owing
  <2>2. CASE d # c
    <3>1. Kept(s, told, d) /\ Kept(told, u, d)
      BY <1>9, <1>10, <1>11, <1>12, <2>2 DEF Tells
    <3> QED
      BY <3>1 DEF Kept
  <2> QED
    BY <2>1, <2>2
<1>14. Tells(s, u)
  BY <1>9, <1>11, <1>13 DEF Tells
<1>15. Tells(u, CleanupRoomIfIdle(u, r))
  BY <1>3, <1>5, CleanupTells DEF CoreBut, Sound
<1>16. Tells(s, CleanupRoomIfIdle(u, r))
  BY <1>14, <1>15, TellsTransitive
<1> QED
  BY <1>5, <1>16 DEF r

LEMMA HandleClientCloseTells ==
  ASSUME NEW s, Core(s), NEW c \in Conn
  PROVE  Tells(s, HandleClientClose(s, c))
<1>1. s \in Table /\ OneBinding(s)
  BY DEF Core, CoreBut, Sound
<1>2. CASE s.player[c] = NoPlayer
  BY <1>2, TellsItself DEF HandleClientClose
<1>3. CASE s.player[c] # NoPlayer
  <2>1. s.at[c] \in s.rooms /\ s.at[c] # NoRoom
    BY <1>1, <1>3, TableAssumption DEF OneBinding, Table
  <2>2. HandleClientClose(s, c) = LeaveRoom(s, c, s.at[c])
    BY <1>3, <2>1 DEF HandleClientClose
  <2> QED
    BY <1>3, <2>2, LeaveRoomTells
<1> QED
  BY <1>2, <1>3

LEMMA MovedTells ==
  ASSUME NEW s, Core(s), NEW c \in Conn, NEW r \in Room
  PROVE  Tells(s, Moved(s, c, r))
<1>1. s \in Table /\ OneBinding(s)
  BY DEF Core, CoreBut, Sound
<1>2. CASE s.at[c] = NoRoom \/ s.at[c] = r
  BY <1>2, TellsItself DEF Moved
<1>3. CASE ~(s.at[c] = NoRoom \/ s.at[c] = r)
  <2>1. s.player[c] # NoPlayer /\ s.at[c] \in s.rooms
    BY <1>1, <1>3 DEF OneBinding
  <2>2. Moved(s, c, r) = LeaveRoom(s, c, s.at[c])
    BY <1>3, <2>1 DEF Moved
  <2> QED
    BY <2>1, <2>2, LeaveRoomTells
<1> QED
  BY <1>2, <1>3

LEMMA GetOrCreateTells ==
  ASSUME NEW s, Core(s), NEW r \in Room
  PROVE  Tells(s, GetOrCreateRoom(s, r))
<1> DEFINE t == GetOrCreateRoom(s, r)
<1>1. t.player = s.player /\ t.at = s.at /\ t.room = s.room
  BY GetOrCreateKeeps
<1>2. t.open = s.open /\ t.out = s.out
  BY DEF GetOrCreateRoom, Core, CoreBut, Sound, Table
<1> HIDE DEF t
<1>3. \A d \in s.open : Unmoved(s, t, d)
  BY <1>1 DEF Unmoved, Owing, Truth
<1>4. Tells(s, t)
  BY <1>2, <1>3, UnmovedTells
<1> QED
  BY <1>4 DEF t

-----------------------------------------------------------------------------
(* `hello` tells everybody.                                                *)

\* What c is told at a welcome is what the server takes it for, whatever it
\* knew, and where a match runs its input counts from then on.
Greeted(s, t, c, r, p) ==
  /\ t.open = s.open
  /\ \A d \in Conn : d # c \/ d \notin s.open => t.out[d] = s.out[d]
  /\ c \in s.open =>
       /\ \A k : Heard(k, t.out[c]) = View(p, s.room[r].host = p, p \in s.room[r].spectator)
       /\ s.room[r].running => Holds(t.out[c], "game_init")

LEMMA WelcomeGreets ==
  ASSUME NEW s \in Table, NEW c \in Conn, NEW r \in Room, NEW p \in Player
  PROVE  Greeted(s, SendWelcomeAndInitialState(s, c, r, p), c, r, p)
<1> DEFINE m == s.room[r]
           host == m.host = p
           watches == p \in m.spectator
           welcome == [kind |-> "welcome", player |-> p, isHost |-> m.host = p,
                       isSpectator |-> p \in m.spectator]
           init == InitMessage(m, p)
           state == [kind |-> "state"]
           greeted == Sent(s, {c}, welcome)
           told == Sent(greeted, {c}, init)
           shown == Sent(told, {c}, state)
<1>1. m \in RoomState /\ s.out \in [Conn -> Seq(Message)]
  BY DEF Table
<1>2. welcome \in Message /\ init \in Message /\ state \in Message
  <2>1. (m.host = p) \in BOOLEAN /\ (p \in m.spectator) \in BOOLEAN
    OBVIOUS
  <2> QED  BY <1>1, <2>1, MessageTypes
<1>3. /\ welcome.kind = "welcome" /\ welcome.player = p
      /\ welcome.isHost = host /\ welcome.isSpectator = watches
      /\ init.kind = "game_init" /\ init.isSpectator = watches /\ state.kind = "state"
  BY DEF InitMessage
<1>k. host \in BOOLEAN /\ watches \in BOOLEAN
  OBVIOUS
<1>4. SendWelcomeAndInitialState(s, c, r, p) = IF m.running THEN shown ELSE greeted
  BY DEF SendWelcomeAndInitialState
<1> HIDE DEF welcome, init, state
<1>5. /\ greeted \in Table /\ greeted.open = s.open
      /\ \A d \in Conn : greeted.out[d] = IF d \in {c} /\ d \in s.open THEN Append(s.out[d], welcome)
                                                                      ELSE s.out[d]
  BY <1>2, SentAlike, SentOut DEF Alike
<1> HIDE DEF greeted
<1>6. /\ told \in Table /\ told.open = s.open
      /\ \A d \in Conn : told.out[d] = IF d \in {c} /\ d \in s.open THEN Append(greeted.out[d], init)
                                                                   ELSE greeted.out[d]
  BY <1>2, <1>5, SentAlike, SentOut DEF Alike
<1> HIDE DEF told
<1>7. /\ shown.open = s.open
      /\ \A d \in Conn : shown.out[d] = IF d \in {c} /\ d \in s.open THEN Append(told.out[d], state)
                                                                    ELSE told.out[d]
  BY <1>2, <1>6, SentAlike, SentOut DEF Alike
<1> HIDE DEF shown
<1>8. \A d \in Conn : d # c \/ d \notin s.open =>
        greeted.out[d] = s.out[d] /\ shown.out[d] = s.out[d]
  BY <1>5, <1>6, <1>7
<1>9. ASSUME c \in s.open, NEW k
      PROVE  /\ Heard(k, greeted.out[c]) = View(p, host, watches)
             /\ Heard(k, shown.out[c]) = View(p, host, watches)
  <2>1. /\ greeted.out[c] = Append(s.out[c], welcome)
        /\ told.out[c] = Append(greeted.out[c], init)
        /\ shown.out[c] = Append(told.out[c], state)
    BY <1>5, <1>6, <1>7, <1>9
  <2>2. s.out[c] \in Seq(Message) /\ greeted.out[c] \in Seq(Message) /\ told.out[c] \in Seq(Message)
    BY <1>1, <1>5, <1>6 DEF Table
  <2>3. Heard(k, greeted.out[c]) = Hears(Heard(k, s.out[c]), welcome)
    BY <1>2, <2>1, <2>2, HeardAppend
  <2>4. Heard(k, told.out[c]) = Hears(Heard(k, greeted.out[c]), init)
    BY <1>2, <2>1, <2>2, HeardAppend, ZenonT(30)
  <2>5. Heard(k, shown.out[c]) = Hears(Heard(k, told.out[c]), state)
    BY <1>2, <2>1, <2>2, HeardAppend, ZenonT(60)
  <2> HIDE DEF host, watches
  <2>6. Heard(k, greeted.out[c]) = View(p, host, watches)
    BY <1>3, <2>3 DEF Hears
  <2>7. Hears(View(p, host, watches), init) = View(p, host, watches)
    BY <1>3, <1>k, HearsMessage
  <2>8. Hears(View(p, host, watches), state) = View(p, host, watches)
    BY <1>3 DEF Hears
  <2> QED
    BY <2>4, <2>5, <2>6, <2>7, <2>8
<1>10. ASSUME c \in s.open PROVE Holds(shown.out[c], "game_init")
  <2>1. /\ told.out[c] = Append(greeted.out[c], init)
        /\ shown.out[c] = Append(told.out[c], state)
    BY <1>6, <1>7, <1>10
  <2>2. greeted.out[c] \in Seq(Message) /\ told.out[c] \in Seq(Message)
    BY <1>5, <1>6 DEF Table
  <2>3. Holds(told.out[c], "game_init")
    BY <1>2, <1>3, <2>1, <2>2, HoldsAppend
  <2>4. Holds(Append(told.out[c], state), "game_init")
    BY <1>2, <2>2, <2>3, HoldsAppend
  <2> QED
    BY <2>1, <2>4
<1>11. Greeted(s, shown, c, r, p)
  BY <1>7, <1>8, <1>9, <1>10 DEF Greeted
<1>12. ~m.running => Greeted(s, greeted, c, r, p)
  BY <1>5, <1>8, <1>9 DEF Greeted
<1> QED
  BY <1>4, <1>11, <1>12

\* Who has another connection than c keeps what it has when c is bound.
LEMMA WelcomedTells ==
  ASSUME NEW s, NEW r \in Room, CoreBut(s, {r}), NEW c \in Conn, c \in s.clients,
         NEW p \in Player, NEW t, NEW m, MayWelcome(s, t, c, r, p, m)
  PROVE  Tells(s, Welcomed(t, c, r, p))
<1> DEFINE old == s.room[r].active[p]
           h == EnsureHostAssigned(m, p)
           hosted == [t EXCEPT !.room[r] = h]
           shown == SendWelcomeAndInitialState(hosted, c, r, p)
           u == BroadcastLobby(shown, r)
<1>1. /\ s \in Table /\ OneBinding(s)
      /\ s.room \in [Room -> RoomState] /\ s.player \in [Conn -> Player \cup {NoPlayer}]
      /\ s.at \in [Conn -> Room \cup {NoRoom}] /\ s.open \subseteq Conn
      /\ NoPlayer \notin Player
  BY PlayersFinite DEF CoreBut, Sound, Table
<1>2. /\ t \in Table /\ t.clients = s.clients /\ t.room = [s.room EXCEPT ![r] = m]
      /\ t.player = Rebound(s.player, c, old, p, NoPlayer)
      /\ t.at = Rebound(s.at, c, old, r, NoRoom)
      /\ RoomOK(m) /\ m.active = [s.room[r].active EXCEPT ![p] = c]
      /\ SameFor(s.room[r], m, p)
      /\ t.open = s.open \ ({old} \ {c})
      /\ \A d \in Conn : IF d \in s.open \ t.open THEN Closing(t.out[d])
                                                 ELSE t.out[d] = s.out[d]
  BY DEF MayWelcome, Placed, MayTake, Announced
<1>3. t.room[r] = m
  BY <1>1, <1>2
<1>4. Welcomed(t, c, r, p) = u
  <2>1. hosted = [t EXCEPT !.room[r] = EnsureHostAssigned(@, p)]
    BY <1>2, <1>3 DEF Table
  <2> QED
    BY <2>1 DEF Welcomed
<1> HIDE DEF old
<1>5. /\ RoomOK(h) /\ h.active = m.active /\ h \in RoomState
      /\ h.spectator = m.spectator /\ h.live = m.live /\ h.steered = m.steered
  BY <1>2, EnsureHostOK, EnsureHostFlags DEF RoomOK
<1> HIDE DEF h
<1>6. /\ hosted \in Table /\ hosted.clients = t.clients /\ hosted.player = t.player
      /\ hosted.at = t.at /\ hosted.room = [t.room EXCEPT ![r] = h]
      /\ hosted.open = t.open /\ hosted.out = t.out
  BY <1>2, <1>5, RoomReplaced
<1> HIDE DEF hosted
<1>7. hosted.room[r] = h /\ \A q \in Room \ {r} : hosted.room[q] = s.room[q]
  BY <1>1, <1>2, <1>6
<1>8. Alike(hosted, shown) /\ Greeted(hosted, shown, c, r, p)
  BY <1>6, WelcomeAlike, WelcomeGreets
<1> HIDE DEF shown
<1>9. shown \in Table /\ shown.room = hosted.room /\ shown.player = t.player
      /\ shown.at = t.at /\ shown.clients = s.clients /\ shown.open = t.open
  BY <1>2, <1>6, <1>8 DEF Alike, Greeted
<1>10. Lobbied(shown, u, r)
  BY <1>5, <1>7, <1>9, BroadcastTells
<1>a. u.player = t.player
  <2> DEFINE g == EnsureHostAssigned(shown.room[r], NoPlayer)
  <2>1. g \in RoomState /\ Alike([shown EXCEPT !.room[r] = g], u)
    BY <1>5, <1>7, <1>9, BroadcastLobbyAlike
  <2> HIDE DEF g, u
  <2>2. [shown EXCEPT !.room[r] = g].player = shown.player
    BY <1>9, <2>1, RoomReplaced
  <2> QED
    BY <1>9, <2>1, <2>2 DEF Alike
<1> HIDE DEF u
<1>11. u.open = t.open
  BY <1>9, <1>10 DEF Lobbied
<1>12. ASSUME NEW d \in Conn, d \notin s.open PROVE u.out[d] = s.out[d]
  <2>1. d \notin t.open /\ t.out[d] = s.out[d]
    BY <1>2, <1>12
  <2>2. shown.out[d] = t.out[d]
    BY <1>6, <1>8, <2>1 DEF Greeted
  <2> QED
    BY <1>9, <1>10, <2>1, <2>2 DEF Lobbied
<1>13. ASSUME NEW d \in Conn, d \in s.open \ u.open PROVE Closing(u.out[d])
  <2>1. d \notin t.open /\ Closing(t.out[d])
    BY <1>2, <1>11, <1>13
  <2>2. shown.out[d] = t.out[d]
    BY <1>6, <1>8, <2>1 DEF Greeted
  <2>3. u.out[d] = shown.out[d]
    BY <1>9, <1>10, <2>1 DEF Lobbied
  <2> QED
    BY <2>1, <2>2, <2>3
<1>14. ASSUME c \in u.open PROVE Kept(s, u, c)
  <2>1. shown.player[c] = p /\ shown.at[c] = r /\ shown.room[r] = h
    BY <1>2, <1>7, <1>9 DEF Rebound
  <2>2. h.active[p] = c
    BY <1>1, <1>2, <1>5 DEF RoomState
  <2>3. Listening(shown, c, r)
    BY <1>9, <2>1, <2>2 DEF Listening
  <2>4. /\ \A k : Heard(k, shown.out[c]) = View(p, h.host = p, p \in h.spectator)
        /\ h.running => Holds(shown.out[c], "game_init")
    BY <1>6, <1>7, <1>8, <1>11, <1>14 DEF Greeted
  <2>5. ASSUME NEW k PROVE Right(u, c, k)
    <3> DEFINE host == h.host = p
    <3>1. host \in BOOLEAN
      OBVIOUS
    <3>2. Heard(k, shown.out[c]) = View(p, host, p \in h.spectator)
      BY <2>4
    <3> HIDE DEF host
    <3>3. Near(shown, c, k)
      BY <2>1, <3>1, <3>2 DEF Near
    <3> QED
      BY <1>9, <1>10, <1>11, <1>14, <2>3, <3>3 DEF Lobbied
  <2>6. ~Late(shown, c)
    <3>1. CASE h.running
      BY <2>4, <3>1 DEF Late
    <3>2. CASE ~h.running
      <4>1. h.live = {}
        BY <1>5, <3>2 DEF RoomOK, Seated
      <4> QED
        BY <2>1, <4>1 DEF Late, Owing
    <3> QED
      BY <3>1, <3>2
  <2>7. ~Late(u, c)
    BY <1>9, <1>10, <1>11, <1>14, <2>6 DEF Lobbied
  <2> QED
    BY <2>5, <2>7 DEF Kept
<1>15. ASSUME NEW d \in u.open, d # c PROVE Kept(s, u, d)
  <2>1. d \in s.open /\ d \in t.open /\ d # old /\ d \in Conn
    BY <1>1, <1>2, <1>11, <1>15
  <2>2. /\ t.player[d] = s.player[d] /\ t.at[d] = s.at[d] /\ t.out[d] = s.out[d]
    BY <1>2, <1>15, <2>1 DEF Rebound
  <2>3. shown.out[d] = s.out[d]
    BY <1>6, <1>8, <1>15, <2>1, <2>2 DEF Greeted
  <2>4. CASE s.player[d] = NoPlayer
    BY <1>a, <2>2, <2>4 DEF Kept, Right, Late, Owing
  <2>5. CASE s.player[d] # NoPlayer /\ s.at[d] # r
    <3>1. s.at[d] \in Room
      BY <1>1, <2>1, <2>5 DEF OneBinding
    <3>2. shown.room[shown.at[d]] = s.room[s.at[d]]
      BY <1>7, <1>9, <2>2, <2>5, <3>1
    <3>3. ASSUME NEW k, Right(s, d, k) PROVE Right(u, d, k)
      <4>1. Right(shown, d, k)
        BY <1>9, <2>2, <2>3, <3>2, <3>3 DEF Right, Truth
      <4> QED
        BY <1>9, <1>10, <2>1, <2>2, <2>5, <4>1 DEF Lobbied
    <3>4. Late(u, d) => Late(s, d)
      <4>1. Late(u, d) => Late(shown, d)
        BY <1>9, <1>10, <2>1 DEF Lobbied
      <4> QED
        BY <1>9, <2>2, <2>3, <3>2, <4>1 DEF Late, Owing
    <3> QED
      BY <3>3, <3>4 DEF Kept
  <2>6. CASE s.player[d] # NoPlayer /\ s.at[d] = r
    <3> DEFINE o == s.player[d]
    <3>1. /\ d \in s.clients /\ o \in Player /\ s.room[r].active[o] = d
      BY <1>1, <2>1, <2>6 DEF OneBinding
    <3>2. o # p
      BY <2>1, <3>1 DEF old
    <3>3. s.room[r].active \in [Player -> Conn \cup {NoConn}]
      BY <1>1 DEF RoomState
    <3>4. h.active[o] = d
      BY <1>2, <1>5, <3>1, <3>2, <3>3
    <3>5. Listening(shown, d, r) /\ shown.room[r] = h
      BY <1>7, <1>9, <2>2, <2>6, <3>1, <3>4 DEF Listening
    <3>6. /\ o \in h.spectator <=> o \in s.room[r].spectator
          /\ o \in h.live \ h.steered => o \in s.room[r].live \ s.room[r].steered
      BY <1>2, <1>5, <3>1, <3>2 DEF SameFor
    <3>7. ASSUME NEW k, Right(s, d, k) PROVE Right(u, d, k)
      <4> DEFINE host == s.room[r].host = o
      <4>1. Heard(k, s.out[d]) = View(o, host, o \in s.room[r].spectator)
        BY <2>6, <3>7 DEF Right, Truth
      <4>2. (o \in s.room[r].spectator) = (o \in h.spectator) /\ host \in BOOLEAN
        BY <3>6
      <4>3. Heard(k, shown.out[d]) = View(o, host, o \in h.spectator)
        BY <2>3, <4>1, <4>2
      <4> HIDE DEF host
      <4>4. Near(shown, d, k)
        BY <1>9, <2>2, <2>6, <3>5, <4>2, <4>3 DEF Near
      <4> QED
        BY <1>9, <1>10, <2>1, <3>5, <4>4 DEF Lobbied
    <3>8. Late(u, d) => Late(s, d)
      <4>1. Late(u, d) => Late(shown, d)
        BY <1>9, <1>10, <2>1 DEF Lobbied
      <4>2. Owing(shown, d) => Owing(s, d)
        BY <1>9, <2>2, <2>6, <3>5, <3>6 DEF Owing
      <4> QED
        BY <2>3, <4>1, <4>2 DEF Late
    <3> QED
      BY <3>7, <3>8 DEF Kept
  <2> QED
    BY <2>4, <2>5, <2>6
<1>16. Tells(s, u)
  BY <1>2, <1>11, <1>12, <1>13, <1>14, <1>15 DEF Tells
<1> QED
  BY <1>4, <1>16

LEMMA HandleHelloTells ==
  ASSUME NEW s, Core(s), NEW c \in Conn, c \in s.clients,
         NEW token \in Player \cup {NoPlayer}, NEW w \in BOOLEAN, NEW r \in Room,
         NEW fresh \in Player, \A q \in Room : fresh \notin s.room[q].members
  PROVE  Tells(s, HandleHello(s, c, token, w, r, fresh))
<1> DEFINE moved == Moved(s, c, r)
           here == GetOrCreateRoom(moved, r)
           t == HandleHello(s, c, token, w, r, fresh)
<1>1. /\ CoreBut(here, {r}) /\ r \in here.rooms /\ here.clients = s.clients
      /\ Answered(here, t, c, r)
  BY HandleHelloCases
<1>2. Tells(s, moved) /\ Core(moved)
  BY MovedTells, MovedKeeps
<1> HIDE DEF moved
<1>3. Tells(moved, here)
  BY <1>2, GetOrCreateTells
<1> HIDE DEF here, t
<1>4. Tells(s, here)
  BY <1>2, <1>3, TellsTransitive
<1>5. ASSUME NEW u, NEW m, NEW p \in Player, MayWelcome(here, u, c, r, p, m),
             t = Welcomed(u, c, r, p)
      PROVE  Tells(here, t)
  <2>1. CoreBut(here, {r}) /\ c \in here.clients
    BY <1>1
  <2>2. Tells(here, Welcomed(u, c, r, p))
    BY <1>5, <2>1, WelcomedTells
  <2> QED
    BY <1>5, <2>2
<1>6. Tells(here, t)
  BY <1>1, <1>5, TellsItself DEF Answered
<1>7. Tells(s, t)
  BY <1>4, <1>6, TellsTransitive
<1> QED
  BY <1>7 DEF t

-----------------------------------------------------------------------------
(* So do the messages of members, the loop and the close of a connection.  *)

LEMMA HostedStays ==
  ASSUME NEW m, RoomOK(m), Hosted(m)
  PROVE  EnsureHostAssigned(m, NoPlayer) = m
<1>1. m \in RoomState /\ m.connected \subseteq Player /\ NoPlayer \notin Player
  BY PlayersFinite DEF RoomOK, RoomState
<1>2. CASE m.host \in m.connected
  BY <1>2 DEF EnsureHostAssigned
<1>3. CASE m.host \notin m.connected
  <2>1. m.connected = {} /\ m.host = NoPlayer
    BY <1>3 DEF Hosted
  <2>2. ChooseNextHost(m) = NoPlayer
    BY <2>1, NextHost
  <2>3. [m EXCEPT !.host = NoPlayer] = m
    BY <1>1, <2>1 DEF RoomState
  <2> QED
    BY <1>1, <1>3, <2>1, <2>2, <2>3 DEF EnsureHostAssigned
<1> QED
  BY <1>2, <1>3

\* The flags of a match that begins and of one that ends.
LEMMA StartedFlags ==
  ASSUME NEW m \in RoomState, NEW humans
  PROVE  Started(m, humans).spectator = m.spectator
BY DEF Started, Only, RoomState

LEMMA OverFlags ==
  ASSUME NEW m \in RoomState
  PROVE  Over(m).spectator = m.spectator /\ Over(m).live = {}
<1> DEFINE t == [m EXCEPT !.running = FALSE, !.ticked = FALSE, !.seats = {}, !.live = {},
                          !.steered = {}, !.pingOwners = {}, !.ai = {}]
<1>1. t \in RoomState /\ t.spectator = m.spectator /\ t.live = {}
  BY DEF RoomState
<1>2. Over(m) = EnsureHostAssigned(t, NoPlayer)
  BY DEF Over
<1> HIDE DEF t
<1> QED
  BY <1>1, <1>2, EnsureHostFlags

\* A match begins: who is connected is told so, and of its mode.
LEMMA HandleLobbyStartTells ==
  ASSUME NEW s, Core(s), NEW r \in Room, r \in s.rooms, NEW p, NEW a
  PROVE  Tells(s, HandleLobbyStart(s, r, p, a))
<1> DEFINE m == s.room[r]
           humans == (m.connected \cap m.members) \ m.spectator
           n == Started(m, humans)
           h == EnsureHostAssigned(n, NoPlayer)
           told == BroadcastLobby([s EXCEPT !.room[r] = n], r)
           o == [c \in Conn |->
                  IF \E q \in told.room[r].connected :
                       /\ told.room[r].active[q] = c
                       /\ c \in told.clients \cap told.open
                  THEN Append(told.out[c], InitMessage(told.room[r], told.player[c]))
                  ELSE told.out[c]]
           sent == [told EXCEPT !.out = o]
           t == HandleLobbyStart(s, r, p, a)
<1>1. /\ s \in Table /\ OneBinding(s) /\ RoomOK(m) /\ Hosted(m) /\ m \in RoomState
      /\ s.room \in [Room -> RoomState] /\ s.player \in [Conn -> Player \cup {NoPlayer}]
      /\ s.at \in [Conn -> Room \cup {NoRoom}] /\ s.open \subseteq Conn
  BY DEF Core, CoreBut, Sound, Table, RoomOK
<1>2. EnsureHostAssigned(m, NoPlayer) = m
  BY <1>1, HostedStays
<1>3. t \in {s, [s EXCEPT !.room[r] = m]} \/ (t = sent /\ ~m.running)
  BY <1>2 DEF HandleLobbyStart
<1>4. [s EXCEPT !.room[r] = m] = s
  BY <1>1 DEF Table
<1>5. ASSUME ~m.running PROVE Tells(s, sent)
  <2>1. /\ RoomOK(n) /\ n.connected = m.connected /\ n.active = m.active
        /\ n.spectator = m.spectator
    BY <1>1, <1>5, StartedOK, StartedFlags
  <2> HIDE DEF n
  <2>2. SameBut(m, NoConn, n)
    BY <2>1 DEF SameBut
  <2>3. Retold(s, told, r, NoConn, n)
    BY <2>1, <2>2, RewriteTells
  <2>4. /\ RoomOK(h) /\ h \in RoomState /\ h.connected = m.connected /\ h.active = m.active
        /\ h.spectator = m.spectator
    BY <2>1, EnsureHostOK, EnsureHostFlags DEF RoomOK
  <2> HIDE DEF told
  <2>5. /\ told \in Table /\ told.player = s.player /\ told.at = s.at /\ told.open = s.open
        /\ told.clients = s.clients /\ told.room = [s.room EXCEPT ![r] = h]
        /\ \A d \in Conn : d \notin s.open => told.out[d] = s.out[d]
        /\ \A d \in s.open : \A k : Right(s, d, k) => Right(told, d, k)
        /\ \A d \in s.open : s.at[d] # r => (Late(told, d) => Late(s, d))
    BY <1>1, <2>3, TableAssumption DEF Retold
  <2> HIDE DEF h, n
  <2>6. told.room[r] = h /\ told.out \in [Conn -> Seq(Message)]
    BY <1>1, <2>5 DEF Table
  <2>7. o \in [Conn -> Seq(Message)]
    BY <2>4, <2>6, MessageTypes
  <2>8. /\ sent.player = s.player /\ sent.at = s.at /\ sent.open = s.open
        /\ sent.room = told.room /\ sent.out = o
    BY <2>5 DEF Table
  <2> HIDE DEF sent
  <2>9. ASSUME NEW d \in Conn, d \notin s.open PROVE sent.out[d] = s.out[d]
    BY <2>5, <2>8, <2>9
  <2>10. ASSUME NEW d \in s.open PROVE Kept(s, sent, d)
    <3>1. CASE s.player[d] = NoPlayer
      BY <2>8, <3>1 DEF Kept, Right, Late, Owing
    <3>2. CASE s.player[d] # NoPlayer /\ s.at[d] # r
      <4>1. \A q \in Player : m.active[q] # d
        BY <1>1, <3>2, TableAssumption DEF OneBinding
      <4>2. m.connected \subseteq Player /\ d \in Conn
        BY <1>1 DEF RoomState
      <4>3. sent.out[d] = told.out[d]
        BY <2>4, <2>6, <2>8, <4>1, <4>2
      <4> HIDE DEF o, m
      <4>4. \A k : Right(told, d, k) => Right(sent, d, k)
        BY <2>5, <2>8, <4>3 DEF Right, Truth
      <4>5. Late(sent, d) => Late(told, d)
        BY <2>5, <2>8, <4>3 DEF Late, Owing
      <4> QED
        BY <2>5, <3>2, <4>4, <4>5 DEF Kept
    <3>3. CASE s.player[d] # NoPlayer /\ s.at[d] = r
      <4> DEFINE q == s.player[d]
                 init == InitMessage(h, q)
                 host == h.host = q
                 watches == q \in h.spectator
      <4>1. d \in Conn /\ q \in Player /\ d \in s.clients /\ m.active[q] = d
        BY <1>1, <3>3 DEF OneBinding
      <4>2. q \in m.connected
        BY <1>1, <4>1, TableAssumption DEF RoomOK, Flagged
      <4>3. sent.out[d] = Append(told.out[d], init)
        BY <2>4, <2>5, <2>6, <2>8, <4>1, <4>2
      <4>4. init \in Message /\ init.kind = "game_init" /\ init.isSpectator = watches
        BY <2>4, MessageTypes DEF InitMessage
      <4>5. host \in BOOLEAN /\ watches \in BOOLEAN
        OBVIOUS
      <4>6. told.out[d] \in Seq(Message)
        BY <2>6, <4>1
      <4>7. Truth(told, d) = View(q, host, watches) /\ Truth(sent, d) = View(q, host, watches)
        BY <2>5, <2>6, <2>8, <3>3 DEF Truth
      <4> HIDE DEF init, host, watches, o, m
      <4>8. ASSUME NEW k, Right(s, d, k) PROVE Right(sent, d, k)
        <5>1. Heard(k, told.out[d]) = View(q, host, watches)
          BY <2>5, <3>3, <4>7, <4>8 DEF Right
        <5>2. Heard(k, Append(told.out[d], init)) = Hears(Heard(k, told.out[d]), init)
          BY <4>4, <4>6, HeardAppend
        <5>3. Hears(View(q, host, watches), init) = View(q, host, watches)
          BY <4>4, <4>5, HearsMessage
        <5> QED
          BY <4>3, <4>7, <5>1, <5>2, <5>3 DEF Right
      <4>9. Holds(Append(told.out[d], init), "game_init")
        BY <4>4, <4>6, HoldsAppend
      <4>10. ~Late(sent, d)
        BY <4>3, <4>9 DEF Late
      <4> QED
        BY <4>8, <4>10 DEF Kept
    <3> QED
      BY <3>1, <3>2, <3>3
  <2> QED
    BY <2>8, <2>9, <2>10 DEF Tells
<1> HIDE DEF sent, t, m
<1>6. Tells(s, t)
  BY <1>3, <1>4, <1>5, TellsItself
<1> QED
  BY <1>6 DEF t

\* A direction is taken: nobody is told, and the seat has one.
LEMMA HandleInputTells ==
  ASSUME NEW s, Core(s), NEW r \in Room, NEW p
  PROVE  /\ Tells(s, HandleInput(s, r, p))
         /\ \A c \in Conn : s.player[c] = p /\ s.at[c] = r => ~Owing(HandleInput(s, r, p), c)
<1> DEFINE m == s.room[r]
           S == m.steered \cup ({p} \cap m.live)
           n == [m EXCEPT !.steered = S]
           t == [s EXCEPT !.room[r] = n]
<1>1. m \in RoomState /\ s \in Table /\ s.room \in [Room -> RoomState]
  BY DEF Core, CoreBut, Sound, RoomOK, Table
<1>2. HandleInput(s, r, p) = t
  BY <1>1 DEF HandleInput, Table
<1>3. /\ n.host = m.host /\ n.spectator = m.spectator /\ n.live = m.live /\ n.steered = S
      /\ n \in RoomState
  BY <1>1 DEF RoomState
<1> HIDE DEF n
<1>4. /\ t.open = s.open /\ t.out = s.out /\ t.player = s.player /\ t.at = s.at
      /\ t.room = [s.room EXCEPT ![r] = n]
  BY <1>1, <1>3, RoomReplaced
<1> HIDE DEF t
<1>5. n.live \ n.steered \subseteq m.live \ m.steered
  BY <1>3
<1>6. Tells(s, t)
  BY <1>1, <1>3, <1>4, <1>5, RoomUnmoved
<1>7. ASSUME NEW c \in Conn, s.player[c] = p, s.at[c] = r PROVE ~Owing(t, c)
  <2>1. t.room[t.at[c]] = n
    BY <1>1, <1>4, <1>7
  <2> QED
    BY <1>3, <1>4, <1>7, <2>1 DEF Owing
<1> QED
  BY <1>2, <1>6, <1>7

LEMMA HandlePlacePingTells ==
  ASSUME NEW s, Core(s), NEW r \in Room, NEW p
  PROVE  Tells(s, HandlePlacePing(s, r, p))
<1> DEFINE m == s.room[r]
           O == m.pingOwners \cup {p}
           n == [m EXCEPT !.pingOwners = O]
           t == [s EXCEPT !.room[r] = n]
<1>1. m \in RoomState /\ s \in Table
  BY DEF Core, CoreBut, Sound, RoomOK
<1>2. HandlePlacePing(s, r, p) = s \/ (HandlePlacePing(s, r, p) = t /\ p \in m.seats)
  BY <1>1 DEF HandlePlacePing, Table
<1>3. ASSUME p \in m.seats PROVE Tells(s, t)
  <2>1. /\ n.host = m.host /\ n.spectator = m.spectator /\ n.live = m.live
        /\ n.steered = m.steered /\ n \in RoomState
    BY <1>1, <1>3 DEF RoomState
  <2> HIDE DEF n
  <2>2. /\ t.open = s.open /\ t.out = s.out /\ t.player = s.player /\ t.at = s.at
        /\ t.room = [s.room EXCEPT ![r] = n]
    BY <1>1, <2>1, RoomReplaced
  <2> HIDE DEF t
  <2> QED
    BY <1>1, <2>1, <2>2, RoomUnmoved
<1> HIDE DEF t
<1> QED
  BY <1>2, <1>3, TellsItself

LEMMA HandledTells ==
  ASSUME NEW s, Core(s), NEW c \in Conn,
         NEW msg, msg.kind \in {"lobby_start", "input", "place_ping"}
  PROVE  /\ Tells(s, Handled(s, c, msg))
         /\ msg.kind = "input" => ~Owing(Handled(s, c, msg), c)
<1> DEFINE p == s.player[c]
           r == s.at[c]
<1>1. s \in Table /\ OneBinding(s)
  BY DEF Core, CoreBut, Sound
<1>2. CASE p = NoPlayer \/ r = NoRoom
  <2>1. p = NoPlayer
    BY <1>1, <1>2 DEF OneBinding
  <2>2. Handled(s, c, msg) = s
    BY <1>2 DEF Handled
  <2> QED
    BY <2>1, <2>2, TellsItself DEF Owing
<1>3. CASE ~(p = NoPlayer \/ r = NoRoom)
  <2>1. r \in s.rooms /\ r \in Room
    BY <1>1, <1>3 DEF OneBinding, Table
  <2>2. CASE msg.kind = "lobby_start"
    <3>1. Handled(s, c, msg) = HandleLobbyStart(s, r, p, msg.withAi)
      BY <1>3, <2>1, <2>2 DEF Handled
    <3> QED
      BY <2>1, <2>2, <3>1, HandleLobbyStartTells
  <2>3. CASE msg.kind = "input"
    <3>1. Handled(s, c, msg) = HandleInput(s, r, p)
      BY <1>3, <2>1, <2>3 DEF Handled
    <3> QED
      BY <2>1, <3>1, HandleInputTells
  <2>4. CASE msg.kind = "place_ping"
    <3>1. Handled(s, c, msg) = HandlePlacePing(s, r, p)
      BY <1>3, <2>1, <2>4 DEF Handled
    <3> QED
      BY <2>1, <2>4, <3>1, HandlePlacePingTells
  <2> QED
    BY <2>2, <2>3, <2>4
<1> QED
  BY <1>2, <1>3

\* A message that says nothing of the tab itself.
LEMMA StateTells ==
  ASSUME NEW s \in Table, NEW C, NEW msg \in Message, msg.kind \in {"state", "game_over"}
  PROVE  Tells(s, Sent(s, C, msg))
<1> DEFINE t == Sent(s, C, msg)
<1>1. msg \in Message /\ msg.kind \in {"state", "game_over"}
  OBVIOUS
<1>2. /\ Alike(s, t) /\ t.open = s.open
      /\ \A d \in Conn : t.out[d] = IF d \in C /\ d \in s.open THEN Append(s.out[d], msg)
                                                               ELSE s.out[d]
  BY <1>1, SentAlike, SentOut
<1>3. t.player = s.player /\ t.at = s.at /\ t.room = s.room
  BY <1>2 DEF Alike
<1>4. s.open \subseteq Conn /\ s.out \in [Conn -> Seq(Message)]
  BY DEF Table
<1> HIDE DEF t
<1>5. ASSUME NEW d \in s.open PROVE Kept(s, t, d)
  <2>1. s.out[d] \in Seq(Message) /\ d \in Conn
    BY <1>4
  <2>2. \A k : Heard(k, t.out[d]) = Heard(k, s.out[d])
    <3>1. ASSUME NEW k PROVE Heard(k, Append(s.out[d], msg)) = Heard(k, s.out[d])
      <4>1. Heard(k, Append(s.out[d], msg)) = Hears(Heard(k, s.out[d]), msg)
        BY <1>1, <2>1, HeardAppend
      <4> QED
        BY <1>1, <4>1 DEF Hears
    <3> QED
      BY <1>2, <2>1, <3>1
  <2>3. Holds(Append(s.out[d], msg), "game_init") <=> Holds(s.out[d], "game_init")
    BY <1>1, <2>1, HoldsAppend
  <2>4. Holds(t.out[d], "game_init") <=> Holds(s.out[d], "game_init")
    BY <1>2, <2>1, <2>3
  <2>5. \A k : Right(s, d, k) => Right(t, d, k)
    BY <1>3, <2>2 DEF Right, Truth
  <2>6. Late(t, d) => Late(s, d)
    BY <1>3, <2>4 DEF Late, Owing
  <2> QED
    BY <2>5, <2>6 DEF Kept
<1>6. Tells(s, t)
  BY <1>2, <1>4, <1>5 DEF Tells
<1> QED
  BY <1>6 DEF t

LEMMA FirstTickTells ==
  ASSUME NEW s, Core(s), NEW r \in Room
  PROVE  Tells(s, FirstTick(s, r))
<1> DEFINE m == s.room[r]
           n == [m EXCEPT !.ticked = TRUE]
           u == [s EXCEPT !.room[r] = n]
           C == {c \in Listeners(u, r) : \E p \in u.room[r].members : u.room[r].active[p] = c}
<1>1. m \in RoomState /\ s \in Table
  BY DEF Core, CoreBut, Sound, RoomOK
<1>2. FirstTick(s, r) = Sent(u, C, [kind |-> "state"])
  <2>1. u = [s EXCEPT !.room[r].ticked = TRUE]
    BY <1>1 DEF Table
  <2> HIDE DEF u
  <2> QED
    BY <2>1 DEF FirstTick, BroadcastState
<1> HIDE DEF C
<1>3. /\ n.host = m.host /\ n.spectator = m.spectator /\ n.live = m.live
      /\ n.steered = m.steered /\ n \in RoomState
  BY <1>1 DEF RoomState
<1> HIDE DEF n
<1>4. /\ u.open = s.open /\ u.out = s.out /\ u.player = s.player /\ u.at = s.at
      /\ u.room = [s.room EXCEPT ![r] = n] /\ u \in Table
  BY <1>1, <1>3, RoomReplaced
<1> HIDE DEF u
<1>5. Tells(s, u)
  BY <1>1, <1>3, <1>4, RoomUnmoved
<1>6. Tells(u, Sent(u, C, [kind |-> "state"]))
  <2> DEFINE msg == [kind |-> "state"]
  <2>1. msg \in Message /\ msg.kind \in {"state", "game_over"}
    BY MessageTypes
  <2> HIDE DEF msg
  <2>2. Tells(u, Sent(u, C, msg))
    BY <1>4, <2>1, StateTells
  <2> QED
    BY <2>2 DEF msg
<1> QED
  BY <1>2, <1>5, <1>6, TellsTransitive

LEMMA LastTickTells ==
  ASSUME NEW s, Core(s), NEW r \in Room, r \in s.rooms
  PROVE  Tells(s, LastTick(s, r))
<1> DEFINE msg == [kind |-> "game_over"]
           e == Sent(s, Listeners(s, r), msg)
           m == Over(s.room[r])
           u == BroadcastLobby([e EXCEPT !.room[r] = m], r)
<1>k. msg \in Message /\ msg.kind \in {"state", "game_over"} /\ s \in Table
  BY MessageTypes DEF Core, CoreBut, Sound
<1>g. LastTick(s, r) = CleanupRoomIfIdle(BroadcastLobby([e EXCEPT !.room[r] = Over(@)], r), r)
  BY DEF LastTick
<1> HIDE DEF msg
<1>0. Alike(s, e) /\ Tells(s, e)
  BY <1>k, SentAlike, StateTells
<1> HIDE DEF e
<1>b. Core(e) /\ e \in Table /\ e.rooms = s.rooms /\ e.room = s.room /\ r \in e.rooms
  <2>1. Core(e)
    BY <1>0, AlikeSound
  <2> QED
    BY <1>0, <2>1 DEF Alike, Core, CoreBut, Sound
<1>1. /\ RoomOK(s.room[r]) /\ s.room[r] \in RoomState /\ e.open \subseteq Conn
      /\ e.room[r] = s.room[r]
  BY <1>b DEF Core, CoreBut, Sound, RoomOK, Table
<1>2. /\ RoomOK(m) /\ Hosted(m) /\ m.members = s.room[r].members
      /\ m.active = s.room[r].active /\ m.spectator = s.room[r].spectator /\ m.live = {}
  BY <1>1, OverOK, OverFlags
<1>3. LastTick(s, r) = CleanupRoomIfIdle(u, r)
  <2>1. [e EXCEPT !.room[r] = Over(@)] = [e EXCEPT !.room[r] = m]
    BY <1>b, <1>1 DEF Table
  <2> HIDE DEF m
  <2> QED
    BY <1>g, <2>1
<1> HIDE DEF m
<1>4. PICK h : h \in RoomState /\ Rewritten(e, u, r, h)
  BY <1>b, <1>1, <1>2, BroadcastRewritten
<1>5. SameBut(e.room[r], NoConn, m)
  BY <1>1, <1>2 DEF SameBut
<1>6. Retold(e, u, r, NoConn, m)
  BY <1>b, <1>1, <1>2, <1>5, RewriteTells
<1> HIDE DEF u
<1>7. CoreBut(u, {r}) /\ r \in u.rooms
  BY <1>b, <1>4, RewrittenKeeps
<1>8. Tells(e, u)
  <2>1. ASSUME NEW d \in e.open PROVE Kept(e, u, d)
    BY <1>1, <1>2, <1>6, TableAssumption DEF Retold, Kept
  <2> QED
    BY <1>6, <2>1 DEF Retold, Tells
<1>9. Tells(u, CleanupRoomIfIdle(u, r))
  BY <1>7, CleanupTells DEF CoreBut, Sound
<1> QED
  BY <1>0, <1>3, <1>8, <1>9, TellsTransitive

\* The close of a connection tells the others what there is to tell.
LEMMA ServerClosedTells ==
  ASSUME NEW s, Core(s), NEW c \in Conn
  PROVE  Tells([s EXCEPT !.open = @ \ {c}], ServerClosed(s, c))
<1> DEFINE u == [s EXCEPT !.clients = s.clients, !.open = @ \ {c}]
           left == HandleClientClose(u, c)
           t == [left EXCEPT !.clients = left.clients \ {c}]
<1>1. s \in Table /\ OneBinding(s)
  BY DEF Core, CoreBut, Sound
<1>2. u = [s EXCEPT !.open = @ \ {c}]
  BY <1>1 DEF Table
<1>3. Core(u)
  <2>1. s.clients \in SUBSET Conn /\ s.open \ {c} \in SUBSET Conn
    BY <1>1 DEF Table
  <2>2. \A d \in Conn : s.player[d] # NoPlayer => d \in s.clients
    BY <1>1 DEF OneBinding
  <2> QED
    BY <2>1, <2>2, ClientsChanged
<1> HIDE DEF u
<1>4. Core(left) /\ Tells(u, left)
  BY <1>3, HandleClientCloseKeeps, HandleClientCloseTells
<1>5. ServerClosed(s, c) = t
  BY <1>2 DEF ServerClosed
<1> HIDE DEF left
<1>6. left \in Table
  BY <1>4 DEF Core, CoreBut, Sound
<1>7. /\ t.player = left.player /\ t.at = left.at /\ t.room = left.room
      /\ t.open = left.open /\ t.out = left.out
  BY <1>6 DEF Table
<1> HIDE DEF t
<1>8. \A d \in left.open : Unmoved(left, t, d)
  BY <1>7 DEF Unmoved, Owing, Truth
<1>9. Tells(left, t)
  BY <1>7, <1>8, UnmovedTells
<1> QED
  BY <1>2, <1>4, <1>5, <1>9, TellsTransitive

-----------------------------------------------------------------------------
(* Tabs and connections.                                                   *)

\* The types but that of the server's table.
Typed ==
  /\ link \in [Conn -> {"free", "opening", "open", "gone"}]
  /\ up \in [Conn -> Seq(UpMessage)]
  /\ tab \in [Tab -> TabState]
  /\ stored \in [token : Player \cup {NoPlayer}, room : Room, prefer : BOOLEAN]
  /\ moves \in 0..MaxMoves

\* The invariant of the induction.
Consistent == OneSocket /\ Typed /\ Core(srv)

LEMMA ConsistentTypes == Consistent => TypeOK /\ RoomsAreApart
<1> SUFFICES ASSUME Consistent PROVE TypeOK /\ RoomsAreApart
  OBVIOUS
<1>1. srv \in Table
  BY DEF Consistent, Core, CoreBut, Sound
<1>2. TypeOK
  BY <1>1 DEF Consistent, Typed, TypeOK
<1>3. RoomsAreApart
  BY CoreIsApart DEF Consistent, RoomsAreApart
<1> QED
  BY <1>2, <1>3

LEMMA LoadedTabType ==
  ASSUME NEW c \in Conn \cup {NoConn},
         NEW st \in [token : Player \cup {NoPlayer}, room : Room, prefer : BOOLEAN]
  PROVE  /\ LoadedTab(c, st) \in TabState
         /\ LoadedTab(c, st).sock = c /\ LoadedTab(c, st).open /\ ~LoadedTab(c, st).timer
BY PlayersFinite DEF LoadedTab, TabState

LEMMA NoTabType ==
  /\ Empty \in [token : Player \cup {NoPlayer}, room : Room, prefer : BOOLEAN]
  /\ NoTab \in TabState /\ NoTab.sock = NoConn /\ ~NoTab.open /\ ~NoTab.timer
<1>1. Empty \in [token : Player \cup {NoPlayer}, room : Room, prefer : BOOLEAN]
  BY SessionAssumption DEF Empty
<1> DEFINE l == LoadedTab(NoConn, Empty)
<1>2. l \in TabState /\ l.sock = NoConn /\ ~l.timer
  BY <1>1, LoadedTabType
<1>3. NoTab = [l EXCEPT !.open = FALSE]
  BY DEF NoTab
<1> HIDE DEF l
<1>4. NoTab \in TabState /\ NoTab.sock = NoConn /\ ~NoTab.open /\ ~NoTab.timer
  BY <1>2, <1>3 DEF TabState
<1> QED
  BY <1>1, <1>4

\* c has not ended, as l says.
On(l, c) == l[c] \in {"opening", "open"}

\* The record of one tab changes, its socket and its timer do not.
LEMMA SocketKept ==
  ASSUME OneSocket, Typed, NEW t \in Tab, NEW rec \in TabState,
         tab' = [tab EXCEPT ![t] = rec],
         rec.sock = tab[t].sock, rec.open = tab[t].open, rec.timer = tab[t].timer,
         \A c \in Conn : On(link', c) <=> On(link, c)
  PROVE  OneSocket' /\ tab' \in [Tab -> TabState]
<1>1. /\ tab \in [Tab -> TabState] /\ tab' \in [Tab -> TabState]
      /\ \A u \in Tab : /\ tab'[u].sock = tab[u].sock /\ tab'[u].open = tab[u].open
                         /\ tab'[u].timer = tab[u].timer
                         /\ tab[u].sock \in Conn \cup {NoConn}
  BY DEF Typed, TabState
<1>2. /\ \A u \in Tab :
           /\ tab[u].sock # NoConn => tab[u].open /\ ~tab[u].timer /\ On(link, tab[u].sock)
           /\ tab[u].timer => tab[u].open
      /\ \A v, u \in Tab : v # u => tab[v].sock = NoConn \/ tab[v].sock # tab[u].sock
      /\ \A c \in Conn : On(link, c) => \E u \in Tab : tab[u].sock = c
  BY DEF OneSocket, Attached, On
<1>3. \A u \in Tab : tab[u].sock # NoConn => On(link', tab[u].sock)
  BY <1>1, <1>2
<1>4. OneSocket'
  BY <1>1, <1>2, <1>3 DEF OneSocket, Attached, On
<1> QED
  BY <1>1, <1>4

\* A tab loses its socket.
LEMMA SocketGone ==
  ASSUME OneSocket, Typed, NEW t \in Tab, NEW rec \in TabState,
         tab' = [tab EXCEPT ![t] = rec], tab[t].sock # NoConn,
         rec.sock = NoConn, rec.timer => rec.open,
         link' = Ended(tab[t].sock)
  PROVE  OneSocket' /\ tab' \in [Tab -> TabState]
         /\ link' \in [Conn -> {"free", "opening", "open", "gone"}]
<1> DEFINE c == tab[t].sock
<1>1. /\ tab \in [Tab -> TabState] /\ tab' \in [Tab -> TabState]
      /\ link \in [Conn -> {"free", "opening", "open", "gone"}]
      /\ \A u \in Tab : tab[u].sock \in Conn \cup {NoConn}
      /\ tab'[t] = rec /\ \A u \in Tab \ {t} : tab'[u] = tab[u]
  BY DEF Typed, TabState
<1>2. /\ \A u \in Tab :
           /\ tab[u].sock # NoConn => tab[u].open /\ ~tab[u].timer /\ On(link, tab[u].sock)
           /\ tab[u].timer => tab[u].open
      /\ \A v, u \in Tab : v # u => tab[v].sock = NoConn \/ tab[v].sock # tab[u].sock
      /\ \A d \in Conn : On(link, d) => \E u \in Tab : tab[u].sock = d
  BY DEF OneSocket, Attached, On
<1>3. /\ link' \in [Conn -> {"free", "opening", "open", "gone"}]
      /\ link'[c] \in {"free", "gone"} /\ \A d \in Conn \ {c} : link'[d] = link[d]
  BY <1>1 DEF Ended
<1>4. ~On(link', c) /\ \A d \in Conn \ {c} : On(link', d) <=> On(link, d)
  BY <1>3 DEF On
<1> HIDE DEF c
<1>5. \A u \in Tab :
        /\ tab'[u].sock # NoConn => tab'[u].open /\ ~tab'[u].timer /\ On(link', tab'[u].sock)
        /\ tab'[u].timer => tab'[u].open
  <2> SUFFICES ASSUME NEW u \in Tab
               PROVE  /\ tab'[u].sock # NoConn =>
                           tab'[u].open /\ ~tab'[u].timer /\ On(link', tab'[u].sock)
                      /\ tab'[u].timer => tab'[u].open
    OBVIOUS
  <2>1. CASE u = t
    BY <1>1, <2>1
  <2>2. CASE u # t
    <3>1. tab[u].sock # NoConn => tab[u].sock \in Conn \ {c}
      BY <1>1, <1>2, <2>2 DEF c
    <3> QED
      BY <1>1, <1>2, <1>4, <2>2, <3>1
  <2> QED
    BY <2>1, <2>2
<1>6. \A v, u \in Tab : v # u => tab'[v].sock = NoConn \/ tab'[v].sock # tab'[u].sock
  BY <1>1, <1>2
<1>7. \A d \in Conn : On(link', d) => \E u \in Tab : tab'[u].sock = d
  <2> SUFFICES ASSUME NEW d \in Conn, On(link', d) PROVE \E u \in Tab : tab'[u].sock = d
    OBVIOUS
  <2>1. d # c /\ On(link, d)
    BY <1>4
  <2>2. PICK u \in Tab : tab[u].sock = d
    BY <1>2, <2>1
  <2> QED
    BY <1>1, <2>1, <2>2 DEF c
<1>8. OneSocket'
  BY <1>5, <1>6, <1>7 DEF OneSocket, Attached, On
<1> QED
  BY <1>1, <1>3, <1>8

\* A tab gets a new socket.
LEMMA SocketNew ==
  ASSUME OneSocket, Typed, NEW t \in Tab, NEW rec \in TabState, FreeConns # {},
         tab' = [tab EXCEPT ![t] = rec], tab[t].sock = NoConn,
         rec.sock = NewConn, rec.open, ~rec.timer,
         link' = [link EXCEPT ![NewConn] = "opening"]
  PROVE  OneSocket' /\ tab' \in [Tab -> TabState]
         /\ link' \in [Conn -> {"free", "opening", "open", "gone"}]
<1> DEFINE c == NewConn
<1>0. c \in FreeConns
  BY DEF NewConn
<1>1. /\ tab \in [Tab -> TabState] /\ tab' \in [Tab -> TabState]
      /\ link \in [Conn -> {"free", "opening", "open", "gone"}]
      /\ \A u \in Tab : tab[u].sock \in Conn \cup {NoConn}
      /\ tab'[t] = rec /\ \A u \in Tab \ {t} : tab'[u] = tab[u]
  BY DEF Typed, TabState
<1>2. /\ \A u \in Tab :
           /\ tab[u].sock # NoConn => tab[u].open /\ ~tab[u].timer /\ On(link, tab[u].sock)
           /\ tab[u].timer => tab[u].open
      /\ \A v, u \in Tab : v # u => tab[v].sock = NoConn \/ tab[v].sock # tab[u].sock
      /\ \A d \in Conn : On(link, d) => \E u \in Tab : tab[u].sock = d
  BY DEF OneSocket, Attached, On
<1> HIDE DEF c
<1>3. /\ c \in Conn /\ ~On(link, c) /\ rec.sock = c
      /\ link' = [link EXCEPT ![c] = "opening"]
  BY <1>0 DEF FreeConns, On, c
<1>4. /\ link' \in [Conn -> {"free", "opening", "open", "gone"}]
      /\ On(link', c) /\ \A d \in Conn \ {c} : On(link', d) <=> On(link, d)
  BY <1>1, <1>3 DEF On
<1>5. \A u \in Tab :
        /\ tab'[u].sock # NoConn => tab'[u].open /\ ~tab'[u].timer /\ On(link', tab'[u].sock)
        /\ tab'[u].timer => tab'[u].open
  <2> SUFFICES ASSUME NEW u \in Tab
               PROVE  /\ tab'[u].sock # NoConn =>
                           tab'[u].open /\ ~tab'[u].timer /\ On(link', tab'[u].sock)
                      /\ tab'[u].timer => tab'[u].open
    OBVIOUS
  <2>1. CASE u = t
    BY <1>1, <1>3, <1>4, <2>1
  <2>2. CASE u # t
    <3>1. tab[u].sock # NoConn => tab[u].sock \in Conn \ {c}
      BY <1>1, <1>2, <1>3, <2>2
    <3> QED
      BY <1>1, <1>2, <1>4, <2>2, <3>1, ZenonT(60)
  <2> QED
    BY <2>1, <2>2
<1>6. \A v, u \in Tab : v # u => tab'[v].sock = NoConn \/ tab'[v].sock # tab'[u].sock
  <2>1. \A u \in Tab : tab[u].sock # c
    BY <1>2, <1>3, TableAssumption
  <2> QED
    BY <1>1, <1>2, <1>3, <2>1
<1>7. \A d \in Conn : On(link', d) => \E u \in Tab : tab'[u].sock = d
  <2> SUFFICES ASSUME NEW d \in Conn, On(link', d) PROVE \E u \in Tab : tab'[u].sock = d
    OBVIOUS
  <2>1. CASE d = c
    BY <1>1, <1>3, <2>1
  <2>2. CASE d # c
    <3>1. PICK u \in Tab : tab[u].sock = d
      BY <1>2, <1>4, <2>2
    <3> QED
      BY <1>1, <3>1, TableAssumption
  <2> QED
    BY <2>1, <2>2
<1>8. OneSocket'
  BY <1>5, <1>6, <1>7 DEF OneSocket, Attached, On
<1> QED
  BY <1>1, <1>4, <1>8

\* What is under way changes; the table stays consistent.
LEMMA OutChanged ==
  ASSUME NEW s, Core(s), NEW c \in Conn, NEW q \in Seq(Message)
  PROVE  Core([s EXCEPT !.out[c] = q])
<1> DEFINE o == [s.out EXCEPT ![c] = q]
<1>1. s \in Table
  BY DEF Core, CoreBut, Sound
<1>2. o \in [Conn -> Seq(Message)]
  BY <1>1 DEF Table
<1>3. [s EXCEPT !.out[c] = q] = [s EXCEPT !.out = o]
  BY <1>1 DEF Table
<1> HIDE DEF o
<1>4. Alike(s, [s EXCEPT !.out = o])
  BY <1>1, <1>2, SendingAlike
<1> QED
  BY <1>3, <1>4, AlikeSound

LEMMA UndeliveredCore ==
  ASSUME Core(srv), NEW c \in Conn
  PROVE  Core(Undelivered(c))
<1>1. <<>> \in Seq(Message)
  OBVIOUS
<1> QED
  BY <1>1, OutChanged DEF Undelivered

LEMMA CarriedCore ==
  ASSUME NEW s, Core(s)
  PROVE  Core(Carried(s))
<1> DEFINE o == [c \in Conn |-> IF link[c] = "gone" THEN <<>> ELSE s.out[c]]
<1>1. s \in Table
  BY DEF Core, CoreBut, Sound
<1>2. o \in [Conn -> Seq(Message)]
  BY <1>1 DEF Table
<1>3. Alike(s, [s EXCEPT !.out = o])
  BY <1>1, <1>2, SendingAlike
<1> QED
  BY <1>3, AlikeSound DEF Carried

LEMMA HelloType ==
  ASSUME Typed, NEW t \in Tab
  PROVE  /\ Hello(t) \in UpMessage
         /\ \A w \in BOOLEAN, r \in Room :
              /\ [Hello(t) EXCEPT !.spectator = w, !.room = r] \in UpMessage
              /\ [Hello(t) EXCEPT !.spectator = w] \in UpMessage
         /\ \A a \in BOOLEAN : [kind |-> "lobby_start", withAi |-> a] \in UpMessage
         /\ [kind |-> "input"] \in UpMessage /\ [kind |-> "place_ping"] \in UpMessage
<1>1. /\ tab[t].token \in Player \cup {NoPlayer} /\ tab[t].prefer \in BOOLEAN
      /\ tab[t].room \in Room
  BY DEF Typed, TabState
<1>2. \A k \in Player \cup {NoPlayer}, w \in BOOLEAN, r \in Room :
        [kind |-> "hello", token |-> k, spectator |-> w, room |-> r] \in UpMessage
  BY DEF UpMessage
<1>3. ASSUME NEW w \in BOOLEAN, NEW r \in Room
      PROVE  /\ [Hello(t) EXCEPT !.spectator = w, !.room = r] \in UpMessage
             /\ [Hello(t) EXCEPT !.spectator = w] \in UpMessage
  <2>1. Hello(t) \in [kind : {"hello"}, token : Player \cup {NoPlayer},
                         spectator : BOOLEAN, room : Room]
    BY <1>1 DEF Hello
  <2> DEFINE h == Hello(t)
  <2> HIDE DEF h
  <2>2. /\ [h EXCEPT !.spectator = w, !.room = r] \in UpMessage
        /\ [h EXCEPT !.spectator = w] \in UpMessage
    BY <2>1 DEF UpMessage, h
  <2> QED  BY <2>2 DEF h
<1>4. /\ \A a \in BOOLEAN : [kind |-> "lobby_start", withAi |-> a] \in UpMessage
      /\ [kind |-> "input"] \in UpMessage /\ [kind |-> "place_ping"] \in UpMessage
  BY DEF UpMessage
<1>5. Hello(t) \in UpMessage
  BY <1>1, <1>2 DEF Hello
<1> QED
  BY <1>1, <1>2, <1>3, <1>4, <1>5

LEMMA SentUpType ==
  ASSUME Typed, NEW t \in Tab, NEW msgs \in Seq(UpMessage), SentUp(t, msgs)
  PROVE  up' \in [Conn -> Seq(UpMessage)]
<1>1. up \in [Conn -> Seq(UpMessage)] /\ tab[t].sock \in Conn \cup {NoConn}
  BY DEF Typed, TabState
<1>2. CASE Linked(t) /\ tab[t].sock \in srv.clients
  <2>1. up' = [up EXCEPT ![tab[t].sock] = @ \o msgs] /\ tab[t].sock \in Conn
    BY <1>1, <1>2 DEF SentUp, Linked
  <2>2. up[tab[t].sock] \o msgs \in Seq(UpMessage)
    BY <1>1, <2>1
  <2> QED
    BY <1>1, <2>1, <2>2
<1>3. CASE ~(Linked(t) /\ tab[t].sock \in srv.clients)
  BY <1>1, <1>3 DEF SentUp
<1> QED
  BY <1>2, <1>3

LEMMA MoveType ==
  ASSUME Typed, Move
  PROVE  moves' \in 0..MaxMoves
BY SessionAssumption DEF Typed, Move

LEMMA OpenTabStep ==
  ASSUME Consistent, NEW t \in Tab, OpenTab(t)
  PROVE  Consistent'
<1> DEFINE rec == LoadedTab(NewConn, stored)
<1>1. OneSocket /\ Typed /\ Core(srv)
  BY DEF Consistent
<1>2. /\ ~tab[t].open /\ FreeConns # {} /\ tab' = [tab EXCEPT ![t] = rec]
      /\ link' = [link EXCEPT ![NewConn] = "opening"]
      /\ srv' = srv /\ up' = up /\ stored' = stored
  BY DEF OpenTab
<1>3. NewConn \in Conn
  BY <1>2 DEF NewConn, FreeConns
<1>4. rec \in TabState /\ rec.sock = NewConn /\ rec.open /\ ~rec.timer
  BY <1>1, <1>3, LoadedTabType DEF Typed
<1> HIDE DEF rec
<1>5. tab[t].sock = NoConn
  BY <1>1, <1>2 DEF OneSocket
<1>6. /\ OneSocket' /\ tab' \in [Tab -> TabState]
      /\ link' \in [Conn -> {"free", "opening", "open", "gone"}]
  BY <1>1, <1>2, <1>4, <1>5, SocketNew
<1>7. moves' \in 0..MaxMoves
  BY <1>1, MoveType DEF OpenTab
<1> QED
  BY <1>1, <1>2, <1>6, <1>7 DEF Consistent, Typed

LEMMA CloseTabStep ==
  ASSUME Consistent, NEW t \in Tab, CloseTab(t)
  PROVE  Consistent'
<1>1. OneSocket /\ Typed /\ Core(srv)
  BY DEF Consistent
<1>2. tab[t].sock \in Conn \cup {NoConn} /\ tab' = [tab EXCEPT ![t] = NoTab]
      /\ up' = up /\ stored' = stored
  BY <1>1 DEF Typed, TabState, CloseTab
<1>3. moves' \in 0..MaxMoves
  BY <1>1, MoveType DEF CloseTab
<1>4. CASE tab[t].sock = NoConn
  <2>1. link' = link /\ srv' = srv
    BY <1>4 DEF CloseTab
  <2>2. OneSocket' /\ tab' \in [Tab -> TabState]
    <3>1. tab' \in [Tab -> TabState]
      BY <1>1, <1>2, NoTabType DEF Typed
    <3>2. \A u \in Tab \ {t} : tab'[u] = tab[u]
      BY <1>1, <1>2 DEF Typed
    <3>3. tab'[t].sock = NoConn /\ ~tab'[t].timer /\ \A u \in Tab : tab'[u].sock = tab[u].sock
      BY <1>1, <1>2, <1>4, NoTabType DEF Typed
    <3>4. \A u \in Tab : /\ tab[u].sock # NoConn => /\ tab[u].open /\ ~tab[u].timer
                                                    /\ On(link, tab[u].sock)
                         /\ tab[u].timer => tab[u].open
      BY <1>1 DEF OneSocket, Attached, On
    <3>5. /\ \A v, u \in Tab : v # u => tab[v].sock = NoConn \/ tab[v].sock # tab[u].sock
          /\ \A d \in Conn : On(link, d) => \E u \in Tab : tab[u].sock = d
      BY <1>1 DEF OneSocket, Attached, On
    <3>6. \A u \in Tab : /\ tab'[u].sock # NoConn => /\ tab'[u].open /\ ~tab'[u].timer
                                                     /\ On(link', tab'[u].sock)
                         /\ tab'[u].timer => tab'[u].open
      BY <2>1, <3>2, <3>3, <3>4
    <3>7. /\ \A v, u \in Tab : v # u => tab'[v].sock = NoConn \/ tab'[v].sock # tab'[u].sock
          /\ \A d \in Conn : On(link', d) => \E u \in Tab : tab'[u].sock = d
      BY <2>1, <3>3, <3>5
    <3> QED
      BY <3>1, <3>6, <3>7 DEF OneSocket, Attached, On
  <2> QED
    BY <1>1, <1>2, <1>3, <2>1, <2>2 DEF Consistent, Typed
<1>5. CASE tab[t].sock # NoConn
  <2>1. link' = Ended(tab[t].sock) /\ srv' = Undelivered(tab[t].sock)
    BY <1>5 DEF CloseTab
  <2>2. /\ OneSocket' /\ tab' \in [Tab -> TabState]
        /\ link' \in [Conn -> {"free", "opening", "open", "gone"}]
    BY <1>1, <1>2, <1>5, <2>1, NoTabType, SocketGone
  <2>3. Core(srv')
    BY <1>1, <1>2, <1>5, <2>1, UndeliveredCore
  <2> QED
    BY <1>1, <1>2, <1>3, <2>2, <2>3 DEF Consistent, Typed
<1> QED
  BY <1>4, <1>5

\* The page of a tab changes, and its connection does not.
LEMMA PageStep ==
  ASSUME Consistent, NEW t \in Tab, NEW rec \in TabState,
         tab' = [tab EXCEPT ![t] = rec],
         rec.sock = tab[t].sock, rec.open = tab[t].open, rec.timer = tab[t].timer,
         link' = link, Core(srv'), up' \in [Conn -> Seq(UpMessage)],
         stored' \in [token : Player \cup {NoPlayer}, room : Room, prefer : BOOLEAN],
         moves' \in 0..MaxMoves
  PROVE  Consistent'
<1>1. OneSocket /\ Typed
  BY DEF Consistent
<1>2. \A c \in Conn : On(link', c) <=> On(link, c)
  OBVIOUS
<1>3. OneSocket' /\ tab' \in [Tab -> TabState]
  BY <1>1, <1>2, SocketKept
<1> QED
  BY <1>1, <1>3 DEF Consistent, Typed

LEMMA SaveStep ==
  ASSUME Consistent, NEW t \in Tab, NEW r \in Room, NEW w \in BOOLEAN, Save(t, r, w)
  PROVE  Consistent'
<1> DEFINE rec == [tab[t] EXCEPT !.room = r, !.prefer = w]
           hello == [Hello(t) EXCEPT !.spectator = w, !.room = r]
<1>1. Typed /\ Core(srv) /\ tab[t] \in TabState /\ tab \in [Tab -> TabState]
  BY DEF Consistent, Typed
<1>2. /\ tab' = [tab EXCEPT ![t].room = r, ![t].prefer = w] /\ link' = link /\ srv' = srv
      /\ stored' = [stored EXCEPT !.room = r, !.prefer = w] /\ SentUp(t, <<hello>>)
  BY DEF Save
<1>3. tab' = [tab EXCEPT ![t] = rec]
  BY <1>1, <1>2
<1>4. /\ rec \in TabState /\ rec.sock = tab[t].sock /\ rec.open = tab[t].open
      /\ rec.timer = tab[t].timer
  BY <1>1 DEF TabState
<1> HIDE DEF rec
<1>5. stored' \in [token : Player \cup {NoPlayer}, room : Room, prefer : BOOLEAN]
  BY <1>1, <1>2 DEF Typed
<1>6. hello \in UpMessage
  BY <1>1, HelloType
<1> HIDE DEF hello
<1>7. <<hello>> \in Seq(UpMessage)
  BY <1>6
<1>8. up' \in [Conn -> Seq(UpMessage)]
  BY <1>1, <1>2, <1>7, SentUpType
<1>9. moves' \in 0..MaxMoves
  BY <1>1, MoveType DEF Save
<1> QED
  BY <1>1, <1>2, <1>3, <1>4, <1>5, <1>8, <1>9, PageStep

LEMMA StartStep ==
  ASSUME Consistent, NEW t \in Tab, NEW w \in BOOLEAN, NEW a \in BOOLEAN, Start(t, w, a)
  PROVE  Consistent'
<1> DEFINE rec == [tab[t] EXCEPT !.prefer = w]
           hello == [Hello(t) EXCEPT !.spectator = w]
           start == [kind |-> "lobby_start", withAi |-> a]
<1>1. Typed /\ Core(srv) /\ tab[t] \in TabState /\ tab \in [Tab -> TabState]
  BY DEF Consistent, Typed
<1>2. /\ tab' = [tab EXCEPT ![t].prefer = w] /\ link' = link /\ srv' = srv
      /\ stored' = [stored EXCEPT !.prefer = w] /\ SentUp(t, <<hello, start>>)
  BY DEF Start
<1>3. tab' = [tab EXCEPT ![t] = rec]
  BY <1>1, <1>2
<1>4. /\ rec \in TabState /\ rec.sock = tab[t].sock /\ rec.open = tab[t].open
      /\ rec.timer = tab[t].timer
  BY <1>1 DEF TabState
<1> HIDE DEF rec
<1>5. stored' \in [token : Player \cup {NoPlayer}, room : Room, prefer : BOOLEAN]
  BY <1>1, <1>2 DEF Typed
<1>6. hello \in UpMessage /\ start \in UpMessage
  BY <1>1, HelloType, SessionAssumption
<1> HIDE DEF hello, start
<1>7. <<hello, start>> \in Seq(UpMessage)
  BY <1>6
<1>8. up' \in [Conn -> Seq(UpMessage)]
  BY <1>1, <1>2, <1>7, SentUpType
<1>9. moves' \in 0..MaxMoves
  BY <1>1, MoveType DEF Start
<1> QED
  BY <1>1, <1>2, <1>3, <1>4, <1>5, <1>8, <1>9, PageStep

LEMMA SteerStep ==
  ASSUME Consistent, NEW t \in Tab, Steer(t)
  PROVE  Consistent'
<1> DEFINE rec == [tab[t] EXCEPT !.steering = TRUE]
           input == [kind |-> "input"]
<1>1. Typed /\ Core(srv) /\ tab[t] \in TabState /\ tab \in [Tab -> TabState]
  BY DEF Consistent, Typed
<1>2. /\ tab' = [tab EXCEPT ![t].steering = TRUE] /\ link' = link /\ srv' = srv
      /\ stored' = stored /\ SentUp(t, <<input>>)
  BY DEF Steer
<1>3. tab' = [tab EXCEPT ![t] = rec]
  BY <1>1, <1>2
<1>4. /\ rec \in TabState /\ rec.sock = tab[t].sock /\ rec.open = tab[t].open
      /\ rec.timer = tab[t].timer
  BY <1>1 DEF TabState
<1> HIDE DEF rec
<1>5. input \in UpMessage
  BY <1>1, HelloType
<1> HIDE DEF input
<1>6. <<input>> \in Seq(UpMessage)
  BY <1>5
<1>7. up' \in [Conn -> Seq(UpMessage)]
  BY <1>1, <1>2, <1>6, SentUpType
<1>8. moves' \in 0..MaxMoves
  BY <1>1, MoveType DEF Steer
<1>9. stored' \in [token : Player \cup {NoPlayer}, room : Room, prefer : BOOLEAN]
  BY <1>1, <1>2 DEF Typed
<1> QED
  BY <1>1, <1>2, <1>3, <1>4, <1>7, <1>8, <1>9, PageStep

LEMMA PlacePingStep ==
  ASSUME Consistent, NEW t \in Tab, PlacePing(t)
  PROVE  Consistent'
<1> DEFINE ping == [kind |-> "place_ping"]
<1>1. Typed /\ Core(srv) /\ tab[t] \in TabState /\ tab \in [Tab -> TabState]
  BY DEF Consistent, Typed
<1>2. /\ tab' = tab /\ link' = link /\ srv' = srv /\ stored' = stored /\ SentUp(t, <<ping>>)
  BY DEF PlacePing
<1>3. tab' = [tab EXCEPT ![t] = tab[t]]
  BY <1>1, <1>2
<1>4. ping \in UpMessage
  BY <1>1, HelloType
<1> HIDE DEF ping
<1>5. <<ping>> \in Seq(UpMessage)
  BY <1>4
<1>6. up' \in [Conn -> Seq(UpMessage)]
  BY <1>1, <1>2, <1>5, SentUpType
<1>7. moves' \in 0..MaxMoves
  BY <1>1, MoveType DEF PlacePing
<1>8. stored' \in [token : Player \cup {NoPlayer}, room : Room, prefer : BOOLEAN]
  BY <1>1, <1>2 DEF Typed
<1> QED
  BY <1>1, <1>2, <1>3, <1>6, <1>7, <1>8, PageStep

\* A replay changes neither the connection nor what the page holds for its mode.
LEMMA ReplayPages ==
  ASSUME NEW s \in TabState
  PROVE  /\ ReplayClosed(s) \in TabState /\ ReplayOpened(s) \in TabState
         /\ \A r \in {ReplayClosed(s), ReplayOpened(s)} :
              /\ r.sock = s.sock /\ r.open = s.open /\ r.timer = s.timer
              /\ r.session = s.session /\ r.token = s.token /\ r.isHost = s.isHost
              /\ r.steering = s.steering /\ r.missed = s.missed /\ Mode(r) = Mode(s)
         /\ ~ReplayClosed(s).replay
<1> DEFINE shut == ReplayClosed(s)
           seen == ReplayOpened(s)
<1>1. /\ shut \in TabState /\ shut.sock = s.sock /\ shut.open = s.open
      /\ shut.timer = s.timer /\ shut.session = s.session /\ shut.token = s.token
      /\ shut.isHost = s.isHost /\ shut.steering = s.steering
      /\ shut.missed = s.missed /\ ~shut.replay /\ shut.isSpectator = Mode(s)
  <2>1. CASE s.replay
    <3> DEFINE mode == s.savedMode
    <3>1. shut = [s EXCEPT !.replay = FALSE, !.isSpectator = mode, !.savedMode = FALSE]
      BY <2>1 DEF ReplayClosed
    <3>2. mode \in BOOLEAN /\ Mode(s) = mode
      BY <2>1 DEF Mode, TabState
    <3> HIDE DEF shut, mode
    <3> QED
      BY <3>1, <3>2, ZenonT(60) DEF TabState
  <2>2. CASE ~s.replay
    <3>1. shut = s /\ Mode(s) = s.isSpectator
      BY <2>2 DEF ReplayClosed, Mode
    <3> HIDE DEF shut
    <3> QED
      BY <2>2, <3>1
  <2> QED
    BY <2>1, <2>2
<1> DEFINE mode == shut.isSpectator
<1>2. seen = [shut EXCEPT !.replay = TRUE, !.savedMode = mode,
                          !.isSpectator = TRUE, !.view = "live"]
  BY DEF ReplayOpened
<1>m. mode \in BOOLEAN /\ mode = Mode(s)
  BY <1>1 DEF TabState
<1> HIDE DEF shut, seen, mode
<1>3. /\ seen \in TabState /\ seen.sock = s.sock /\ seen.open = s.open
      /\ seen.timer = s.timer /\ seen.session = s.session /\ seen.token = s.token
      /\ seen.isHost = s.isHost /\ seen.steering = s.steering
      /\ seen.missed = s.missed /\ seen.replay /\ seen.savedMode = Mode(s)
  BY <1>1, <1>2, <1>m, ZenonT(60) DEF TabState
<1>4. Mode(shut) = Mode(s) /\ Mode(seen) = Mode(s)
  BY <1>1, <1>3 DEF Mode
<1> QED
  BY <1>1, <1>3, <1>4 DEF shut, seen

LEMMA OpenReplayStep ==
  ASSUME Consistent, NEW t \in Tab, OpenReplay(t)
  PROVE  Consistent'
<1> DEFINE rec == ReplayOpened(tab[t])
<1>1. Typed /\ Core(srv) /\ tab[t] \in TabState
  BY DEF Consistent, Typed
<1>2. /\ tab' = [tab EXCEPT ![t] = rec] /\ link' = link /\ srv' = srv
      /\ up' = up /\ stored' = stored
  BY DEF OpenReplay
<1>3. /\ rec \in TabState /\ rec.sock = tab[t].sock /\ rec.open = tab[t].open
      /\ rec.timer = tab[t].timer
  BY <1>1, ReplayPages
<1> HIDE DEF rec
<1>4. moves' \in 0..MaxMoves
  BY <1>1, MoveType DEF OpenReplay
<1>5. /\ up' \in [Conn -> Seq(UpMessage)]
      /\ stored' \in [token : Player \cup {NoPlayer}, room : Room, prefer : BOOLEAN]
  BY <1>1, <1>2 DEF Typed
<1> QED
  BY <1>1, <1>2, <1>3, <1>4, <1>5, PageStep

LEMMA CloseReplayStep ==
  ASSUME Consistent, NEW t \in Tab, CloseReplay(t)
  PROVE  Consistent'
<1> DEFINE rec == ReplayClosed(tab[t])
<1>1. Typed /\ Core(srv) /\ tab[t] \in TabState
  BY DEF Consistent, Typed
<1>2. /\ tab' = [tab EXCEPT ![t] = rec] /\ link' = link /\ srv' = srv
      /\ up' = up /\ stored' = stored /\ moves' = moves
  BY DEF CloseReplay
<1>3. /\ rec \in TabState /\ rec.sock = tab[t].sock /\ rec.open = tab[t].open
      /\ rec.timer = tab[t].timer
  BY <1>1, ReplayPages
<1> HIDE DEF rec
<1>4. /\ up' \in [Conn -> Seq(UpMessage)] /\ moves' \in 0..MaxMoves
      /\ stored' \in [token : Player \cup {NoPlayer}, room : Room, prefer : BOOLEAN]
  BY <1>1, <1>2 DEF Typed
<1> QED
  BY <1>1, <1>2, <1>3, <1>4, PageStep

\* The socket of a tab closes, for whatever reason.
LEMMA AfterCloseType ==
  ASSUME Typed, NEW t \in Tab, NEW kind, tab[t].open
  PROVE  LET rec == AfterClose(t, kind)
         IN  rec \in TabState /\ rec.sock = NoConn /\ rec.open
<1>1. tab[t] \in TabState
  BY DEF Typed
<1> DEFINE other == kind # "replaced"
           taken == kind = "replaced"
           rec   == AfterClose(t, kind)
<1>2. other \in BOOLEAN /\ taken \in BOOLEAN
  OBVIOUS
<1>3. rec = [tab[t] EXCEPT !.sock = NoConn, !.steering = FALSE, !.timer = other,
                           !.replaced = taken]
  BY DEF AfterClose
<1> HIDE DEF other, taken, rec
<1>4. rec \in TabState /\ rec.sock = NoConn /\ rec.open = tab[t].open
  BY <1>1, <1>2, <1>3, ZenonT(60) DEF TabState
<1> QED
  BY <1>4 DEF rec

LEMMA BreakStep ==
  ASSUME Consistent, NEW t \in Tab, Break(t)
  PROVE  Consistent'
<1> DEFINE rec == AfterClose(t, "broken")
<1>1. OneSocket /\ Typed /\ Core(srv) /\ tab[t].sock \in Conn \cup {NoConn}
  BY DEF Consistent, Typed, TabState
<1>2. /\ tab[t].sock # NoConn /\ tab' = [tab EXCEPT ![t] = rec]
      /\ link' = Ended(tab[t].sock) /\ srv' = Undelivered(tab[t].sock)
      /\ up' = up /\ stored' = stored
  BY DEF Break
<1>3. rec \in TabState /\ rec.sock = NoConn /\ rec.open
  BY <1>1, <1>2, AfterCloseType DEF OneSocket
<1> HIDE DEF rec
<1>4. /\ OneSocket' /\ tab' \in [Tab -> TabState]
      /\ link' \in [Conn -> {"free", "opening", "open", "gone"}]
  BY <1>1, <1>2, <1>3, SocketGone
<1>5. Core(srv')
  BY <1>1, <1>2, UndeliveredCore
<1>6. moves' \in 0..MaxMoves
  BY <1>1, MoveType DEF Break
<1> QED
  BY <1>1, <1>2, <1>4, <1>5, <1>6 DEF Consistent, Typed

\* Nothing changes for the tabs.
LEMMA ServerStep ==
  ASSUME Consistent, tab' = tab, stored' = stored, Core(srv'),
         link' \in [Conn -> {"free", "opening", "open", "gone"}],
         \A c \in Conn : On(link', c) <=> On(link, c),
         up' \in [Conn -> Seq(UpMessage)], moves' \in 0..MaxMoves
  PROVE  Consistent'
<1>1. OneSocket /\ Typed /\ \A t \in Tab : tab[t].sock \in Conn \cup {NoConn}
  BY DEF Consistent, Typed, TabState
<1>2. OneSocket'
  BY <1>1 DEF OneSocket, Attached, On
<1> QED
  BY <1>1, <1>2 DEF Consistent, Typed

LEMMA CutStep ==
  ASSUME Consistent, NEW c \in Conn, Cut(c)
  PROVE  Consistent'
<1> DEFINE s == ServerClosed(srv, c)
<1>1. Typed /\ Core(srv) /\ up \in [Conn -> Seq(UpMessage)]
  BY DEF Consistent, Typed
<1>2. /\ srv' = [s EXCEPT !.out[c] = Append(s.out[c], [kind |-> "cut"])]
      /\ up' = [up EXCEPT ![c] = <<>>] /\ link' = link /\ tab' = tab /\ stored' = stored
  BY DEF Cut
<1>3. Core(s)
  BY <1>1, ServerClosedKeeps
<1> HIDE DEF s
<1>4. s.out[c] \in Seq(Message)
  BY <1>3 DEF Core, CoreBut, Sound, Table
<1>5. Append(s.out[c], [kind |-> "cut"]) \in Seq(Message)
  BY <1>4, MessageTypes
<1>6. Core(srv')
  <2> DEFINE q == Append(s.out[c], [kind |-> "cut"])
  <2> HIDE DEF q
  <2> QED  BY <1>2, <1>3, <1>5, OutChanged DEF q
<1>7. up' \in [Conn -> Seq(UpMessage)]
  BY <1>1, <1>2
<1>8. moves' \in 0..MaxMoves
  BY <1>1, MoveType DEF Cut
<1> QED
  BY <1>1, <1>2, <1>6, <1>7, <1>8, ServerStep DEF Typed

LEMMA EstablishStep ==
  ASSUME Consistent, NEW t \in Tab, Establish(t)
  PROVE  Consistent'
<1> DEFINE c == tab[t].sock
           rec == [tab[t] EXCEPT !.steering = FALSE]
           C == srv.clients \cup {c}
           P == srv.open \cup {c}
<1>1. /\ OneSocket /\ Typed /\ Core(srv) /\ tab[t] \in TabState /\ tab \in [Tab -> TabState]
      /\ up \in [Conn -> Seq(UpMessage)] /\ srv \in Table /\ OneBinding(srv)
      /\ link \in [Conn -> {"free", "opening", "open", "gone"}]
  BY DEF Consistent, Typed, Core, CoreBut, Sound
<1>2. /\ c # NoConn /\ link[c] = "opening" /\ link' = [link EXCEPT ![c] = "open"]
      /\ srv' = [srv EXCEPT !.clients = C, !.open = P]
      /\ up' = [up EXCEPT ![c] = <<Hello(t)>>]
      /\ tab' = [tab EXCEPT ![t].steering = FALSE] /\ stored' = stored /\ moves' = moves
  BY DEF Establish
<1>3. c \in Conn
  BY <1>1, <1>2 DEF TabState
<1>4. tab' = [tab EXCEPT ![t] = rec]
  BY <1>1, <1>2
<1>5. /\ rec \in TabState /\ rec.sock = tab[t].sock /\ rec.open = tab[t].open
      /\ rec.timer = tab[t].timer
  BY <1>1 DEF TabState
<1>6. Core(srv')
  <2>1. C \in SUBSET Conn /\ P \in SUBSET Conn
    BY <1>1, <1>3 DEF Table
  <2>2. \A d \in Conn : srv.player[d] # NoPlayer => d \in C
    BY <1>1 DEF OneBinding
  <2> HIDE DEF C, P
  <2> QED
    BY <1>1, <1>2, <2>1, <2>2, ClientsChanged
<1> HIDE DEF rec, c
<1>7. /\ link' \in [Conn -> {"free", "opening", "open", "gone"}]
      /\ \A d \in Conn : On(link', d) <=> On(link, d)
  BY <1>1, <1>2, <1>3 DEF On
<1>8. OneSocket' /\ tab' \in [Tab -> TabState]
  BY <1>1, <1>4, <1>5, <1>7, SocketKept
<1>9. <<Hello(t)>> \in Seq(UpMessage)
  <2>1. Hello(t) \in UpMessage
    BY <1>1, HelloType
  <2> QED  BY <2>1
<1>10. up' \in [Conn -> Seq(UpMessage)]
  BY <1>1, <1>2, <1>3, <1>9
<1> QED
  BY <1>1, <1>2, <1>6, <1>7, <1>8, <1>10 DEF Consistent, Typed

LEMMA ReconnectStep ==
  ASSUME Consistent, NEW t \in Tab, Reconnect(t)
  PROVE  Consistent'
<1> DEFINE rec == Connected(t)
<1>1. OneSocket /\ Typed /\ Core(srv) /\ tab[t] \in TabState
  BY DEF Consistent, Typed
<1>2. /\ tab[t].timer /\ FreeConns # {} /\ tab' = [tab EXCEPT ![t] = rec]
      /\ link' = [link EXCEPT ![NewConn] = "opening"]
      /\ srv' = srv /\ up' = up /\ stored' = stored /\ moves' = moves
  BY DEF Reconnect
<1>3. NewConn \in Conn
  BY <1>2 DEF NewConn, FreeConns
<1>4. tab[t].open /\ tab[t].sock = NoConn
  BY <1>1, <1>2 DEF OneSocket
<1>5. rec \in TabState /\ rec.sock = NewConn /\ rec.open /\ ~rec.timer
  BY <1>1, <1>3, <1>4 DEF Connected, TabState
<1> HIDE DEF rec
<1>6. /\ OneSocket' /\ tab' \in [Tab -> TabState]
      /\ link' \in [Conn -> {"free", "opening", "open", "gone"}]
  BY <1>1, <1>2, <1>4, <1>5, SocketNew
<1> QED
  BY <1>1, <1>2, <1>6 DEF Consistent, Typed

LEMMA NoticeStep ==
  ASSUME Consistent, NEW c \in Conn, Notice(c)
  PROVE  Consistent'
<1>1. /\ Typed /\ Core(srv) /\ up \in [Conn -> Seq(UpMessage)]
      /\ link \in [Conn -> {"free", "opening", "open", "gone"}]
  BY DEF Consistent, Typed
<1>2. /\ link[c] = "gone" /\ srv' = Carried(ServerClosed(srv, c))
      /\ link' = [link EXCEPT ![c] = "free"] /\ up' = [up EXCEPT ![c] = <<>>]
      /\ tab' = tab /\ stored' = stored /\ moves' = moves
  BY DEF Notice
<1>3. Core(srv')
  BY <1>1, <1>2, ServerClosedKeeps, CarriedCore
<1>4. /\ link' \in [Conn -> {"free", "opening", "open", "gone"}]
      /\ \A d \in Conn : On(link', d) <=> On(link, d)
  BY <1>1, <1>2 DEF On
<1>5. up' \in [Conn -> Seq(UpMessage)]
  BY <1>1, <1>2
<1> QED
  BY <1>1, <1>2, <1>3, <1>4, <1>5, ServerStep DEF Typed

\* The id of a new member is nobody's.
LEMMA FreshIsFresh ==
  ASSUME Player \ Named # {}
  PROVE  Fresh \in Player /\ \A r \in Room : Fresh \notin srv.room[r].members
<1>1. Player \ Named \in SUBSET Nat
  BY PlayersFinite
<1>2. \E p \in Player \ Named : \A q \in Player \ Named : p <= q
  BY <1>1, NatMinimum
<1>3. Fresh \in Player \ Named
  BY <1>2 DEF Fresh
<1>4. \A r \in Room : srv.room[r].members \subseteq Named
  <2> DEFINE M == UNION {srv.room[r].members : r \in Room}
  <2>1. M \subseteq Named
    BY DEF Named
  <2>2. \A r \in Room : srv.room[r].members \subseteq M
    OBVIOUS
  <2> QED
    BY <2>1, <2>2
<1> QED
  BY <1>3, <1>4

LEMMA ReceiveStep ==
  ASSUME Consistent, NEW c \in Conn, Receive(c)
  PROVE  Consistent'
<1> DEFINE msg == Head(up[c])
           s == IF msg.kind = "hello"
                THEN HandleHello(srv, c, msg.token, msg.spectator, msg.room, Fresh)
                ELSE Handled(srv, c, msg)
<1>1. /\ Typed /\ Core(srv) /\ up \in [Conn -> Seq(UpMessage)]
  BY DEF Consistent, Typed
<1>2. /\ c \in srv.clients /\ up[c] # <<>> /\ Player \ Named # {}
      /\ srv' = Carried(s) /\ up' = [up EXCEPT ![c] = Tail(up[c])]
      /\ link' = link /\ tab' = tab /\ stored' = stored /\ moves' = moves
  BY DEF Receive
<1>3. msg \in UpMessage /\ Tail(up[c]) \in Seq(UpMessage)
  BY <1>1, <1>2
<1> HIDE DEF msg
<1>4. Core(s)
  <2>1. CASE msg.kind = "hello"
    <3>1. /\ msg.token \in Player \cup {NoPlayer} /\ msg.spectator \in BOOLEAN
          /\ msg.room \in Room
      BY <1>3, <2>1 DEF UpMessage
    <3>2. Fresh \in Player /\ \A r \in Room : Fresh \notin srv.room[r].members
      BY <1>2, FreshIsFresh
    <3>3. Core(HandleHello(srv, c, msg.token, msg.spectator, msg.room, Fresh))
      BY <1>1, <1>2, <3>1, <3>2, HandleHelloKeeps
    <3> QED
      BY <2>1, <3>3
  <2>2. CASE msg.kind # "hello"
    <3>1. msg.kind \in {"lobby_start", "input", "place_ping"}
      BY <1>3, <2>2 DEF UpMessage
    <3>2. Core(Handled(srv, c, msg))
      BY <1>1, <3>1, HandledKeeps
    <3> QED
      BY <2>2, <3>2
  <2> QED
    BY <2>1, <2>2
<1> HIDE DEF s
<1>5. Core(srv')
  BY <1>2, <1>4, CarriedCore
<1>6. up' \in [Conn -> Seq(UpMessage)]
  BY <1>1, <1>2, <1>3
<1> QED
  BY <1>1, <1>2, <1>5, <1>6, ServerStep DEF Typed

LEMMA TickStep ==
  ASSUME Consistent, NEW r \in Room, Tick(r)
  PROVE  Consistent'
<1> DEFINE s == IF srv.room[r].ticked THEN LastTick(srv, r) ELSE FirstTick(srv, r)
<1>1. Typed /\ Core(srv)
  BY DEF Consistent
<1>2. /\ r \in srv.rooms /\ srv.room[r].running /\ srv' = Carried(s)
      /\ link' = link /\ up' = up /\ tab' = tab /\ stored' = stored /\ moves' = moves
  BY DEF Tick
<1>3. Core(LastTick(srv, r)) /\ Core(FirstTick(srv, r))
  BY <1>1, <1>2, LastTickKeeps, FirstTickKeeps
<1>4. Core(s)
  BY <1>3
<1> HIDE DEF s
<1>5. Core(srv')
  BY <1>2, <1>4, CarriedCore
<1> QED
  BY <1>1, <1>2, <1>5, ServerStep DEF Typed

LEMMA DeliverStep ==
  ASSUME Consistent, NEW t \in Tab, Deliver(t)
  PROVE  Consistent'
<1> DEFINE c == tab[t].sock
           msg == Head(srv.out[c])
           rec == Told(t, msg)
<1>1. /\ OneSocket /\ Typed /\ Core(srv) /\ tab[t] \in TabState /\ srv \in Table
      /\ srv.out \in [Conn -> Seq(Message)]
      /\ stored \in [token : Player \cup {NoPlayer}, room : Room, prefer : BOOLEAN]
  BY DEF Consistent, Typed, Core, CoreBut, Sound, Table
<1>2. /\ c # NoConn /\ srv.out[c] # <<>> /\ tab' = [tab EXCEPT ![t] = rec]
      /\ stored' = IF msg.kind = "welcome" THEN [stored EXCEPT !.token = msg.player] ELSE stored
      /\ IF msg.kind \in {"replaced", "cut"}
         THEN link' = Ended(c) /\ srv' = Undelivered(c)
         ELSE link' = link /\ srv' = [srv EXCEPT !.out[c] = Tail(srv.out[c])]
      /\ up' = up /\ moves' = moves
  BY DEF Deliver, Linked
<1>3. c \in Conn
  BY <1>1, <1>2 DEF TabState
<1>4. msg \in Message /\ Tail(srv.out[c]) \in Seq(Message)
  BY <1>1, <1>2, <1>3
<1> HIDE DEF msg
<1>5. stored' \in [token : Player \cup {NoPlayer}, room : Room, prefer : BOOLEAN]
  <2>1. msg.kind = "welcome" => msg.player \in Player
    BY <1>4 DEF Message
  <2> QED
    BY <1>1, <1>2, <2>1
<1>6. CASE msg.kind \in {"replaced", "cut"}
  <2>1. rec = AfterClose(t, msg.kind)
    BY <1>6 DEF Told
  <2>2. tab[t].open
    BY <1>1, <1>2 DEF OneSocket
  <2>3. rec \in TabState /\ rec.sock = NoConn /\ rec.open
    BY <1>1, <2>1, <2>2, AfterCloseType
  <2> HIDE DEF rec
  <2>4. link' = Ended(c) /\ srv' = Undelivered(c)
    BY <1>2, <1>6
  <2>5. /\ OneSocket' /\ tab' \in [Tab -> TabState]
        /\ link' \in [Conn -> {"free", "opening", "open", "gone"}]
    BY <1>1, <1>2, <2>3, <2>4, SocketGone
  <2>6. Core(srv')
    BY <1>1, <1>3, <2>4, UndeliveredCore
  <2> QED
    BY <1>1, <1>2, <1>5, <2>5, <2>6 DEF Consistent, Typed
<1>7. CASE msg.kind \notin {"replaced", "cut"}
  <2>1. /\ rec \in TabState /\ rec.sock = tab[t].sock /\ rec.open = tab[t].open
        /\ rec.timer = tab[t].timer
    <3>1. CASE msg.kind = "welcome"
      <4>1. msg.player \in Player /\ msg.isHost \in BOOLEAN /\ msg.isSpectator \in BOOLEAN
        BY <1>4, <3>1 DEF Message
      <4> DEFINE missed == tab[t].replay /\ msg.isSpectator # tab[t].savedMode
      <4>2. rec = [tab[t] EXCEPT !.session = msg.player, !.token = msg.player,
                                 !.isHost = msg.isHost, !.isSpectator = msg.isSpectator,
                                 !.missed = missed]
        BY <3>1 DEF Told
      <4>3. missed \in BOOLEAN
        BY <1>1 DEF TabState
      <4> HIDE DEF rec, missed
      <4> QED
        BY <1>1, <4>1, <4>2, <4>3 DEF TabState
    <3>2. CASE msg.kind = "lobby"
      <4> DEFINE host  == msg.host = tab[t].session
                 match == msg.running /\ tab[t].view = "live"
                 able  == IF match THEN tab[t].startable
                          ELSE host /\ msg.canStart /\ ~msg.running
      <4>1. rec = [tab[t] EXCEPT !.isHost = host, !.panel = ~match, !.startable = able]
        BY <3>2 DEF Told
      <4>2. host \in BOOLEAN /\ (~match) \in BOOLEAN /\ able \in BOOLEAN
        BY <1>1 DEF TabState
      <4> DEFINE named == [tab[t] EXCEPT !.isHost = host]
                 shown == [named EXCEPT !.panel = ~match]
      <4>3. rec = [shown EXCEPT !.startable = able]
        BY <4>1
      <4> HIDE DEF rec, host, match, able
      <4>4. named \in TabState /\ named.sock = tab[t].sock /\ named.open = tab[t].open
            /\ named.timer = tab[t].timer
        BY <1>1, <4>2, ZenonT(60) DEF TabState
      <4> HIDE DEF named
      <4>5. shown \in TabState /\ shown.sock = tab[t].sock /\ shown.open = tab[t].open
            /\ shown.timer = tab[t].timer
        BY <4>2, <4>4, ZenonT(60) DEF TabState
      <4> HIDE DEF shown
      <4> QED
        BY <4>2, <4>3, <4>5, ZenonT(60) DEF TabState
    <3>3. CASE msg.kind = "game_init"
      <4>1. msg.isSpectator \in BOOLEAN
        BY <1>4, <3>3 DEF Message
      <4> DEFINE shut == ReplayClosed(tab[t])
      <4>2. rec = [shut EXCEPT !.view = "init", !.isSpectator = msg.isSpectator,
                               !.missed = FALSE, !.steering = FALSE, !.panel = FALSE]
        BY <3>3 DEF Told, Initialized
      <4>3. /\ shut \in TabState /\ shut.sock = tab[t].sock /\ shut.open = tab[t].open
            /\ shut.timer = tab[t].timer
        BY <1>1, ReplayPages
      <4> HIDE DEF rec, shut
      <4> QED
        BY <4>1, <4>2, <4>3, ZenonT(60) DEF TabState
    <3>4. CASE msg.kind = "state"
      <4>1. rec = [tab[t] EXCEPT !.view = "live"]
        BY <3>4 DEF Told
      <4> HIDE DEF rec
      <4> QED
        BY <1>1, <4>1 DEF TabState
    <3>5. CASE msg.kind = "game_over"
      <4>1. rec = [tab[t] EXCEPT !.ended = TRUE]
        BY <3>5 DEF Told
      <4> HIDE DEF rec
      <4> QED
        BY <1>1, <4>1 DEF TabState
    <3>6. msg.kind \in {"welcome", "lobby", "game_init", "state", "game_over", "replaced", "cut"}
      BY <1>4 DEF Message
    <3> QED
      BY <1>7, <3>1, <3>2, <3>3, <3>4, <3>5, <3>6
  <2> HIDE DEF rec
  <2>2. link' = link /\ srv' = [srv EXCEPT !.out[c] = Tail(srv.out[c])]
    BY <1>2, <1>7
  <2>3. Core(srv')
    <3> DEFINE q == Tail(srv.out[c])
    <3>1. q \in Seq(Message) /\ srv' = [srv EXCEPT !.out[c] = q]
      BY <1>4, <2>2
    <3> HIDE DEF q
    <3> QED  BY <1>1, <1>3, <3>1, OutChanged
  <2>4. up' \in [Conn -> Seq(UpMessage)] /\ moves' \in 0..MaxMoves
    BY <1>1, <1>2 DEF Typed
  <2> QED
    BY <1>2, <1>5, <2>1, <2>2, <2>3, <2>4, PageStep
<1> QED
  BY <1>6, <1>7

-----------------------------------------------------------------------------
LEMMA InitConsistent == Init => Consistent
<1> SUFFICES ASSUME Init PROVE Consistent
  OBVIOUS
<1>1. /\ srv = EmptyTable /\ link = [c \in Conn |-> "free"] /\ up = [c \in Conn |-> <<>>]
      /\ stored = Empty /\ tab = [t \in Tab |-> NoTab] /\ moves = 0
  BY DEF Init
<1>2. Core(srv)
  BY <1>1, EmptyIsCore
<1>3. OneSocket
  BY <1>1, NoTabType DEF OneSocket, Attached
<1>4. Typed
  <2>1. up \in [Conn -> Seq(UpMessage)]
    BY <1>1
  <2>2. moves \in 0..MaxMoves
    BY <1>1, SessionAssumption
  <2> QED
    BY <1>1, <2>1, <2>2, NoTabType DEF Typed
<1> QED
  BY <1>2, <1>3, <1>4 DEF Consistent

LEMMA StepConsistent == Consistent /\ [Next]_vars => Consistent'
<1> SUFFICES ASSUME Consistent, [Next]_vars PROVE Consistent'
  OBVIOUS
<1>1. CASE Users
  <2>1. ASSUME NEW t \in Tab, NEW r \in Room, NEW w \in BOOLEAN, Save(t, r, w)
        PROVE  Consistent'
    BY <2>1, SaveStep
  <2>2. ASSUME NEW t \in Tab, NEW w \in BOOLEAN, NEW a \in BOOLEAN, Start(t, w, a)
        PROVE  Consistent'
    BY <2>2, StartStep
  <2>3. ASSUME NEW t \in Tab, OpenTab(t) \/ CloseTab(t) \/ Steer(t) \/ PlacePing(t)
        PROVE  Consistent'
    BY <2>3, OpenTabStep, CloseTabStep, SteerStep, PlacePingStep
  <2>4. ASSUME NEW t \in Tab, OpenReplay(t) \/ CloseReplay(t)
        PROVE  Consistent'
    BY <2>4, OpenReplayStep, CloseReplayStep
  <2> QED
    BY <1>1, <2>1, <2>2, <2>3, <2>4 DEF Users
<1>2. CASE Network
  BY <1>2, BreakStep, CutStep DEF Network
<1>3. CASE System
  <2>1. ASSUME NEW t \in Tab, Establish(t) \/ Reconnect(t) \/ Deliver(t)
        PROVE  Consistent'
    BY <2>1, EstablishStep, ReconnectStep, DeliverStep
  <2>2. ASSUME NEW c \in Conn, Receive(c) \/ Notice(c)
        PROVE  Consistent'
    BY <2>2, ReceiveStep, NoticeStep
  <2>3. ASSUME NEW r \in Room, Tick(r)
        PROVE  Consistent'
    BY <2>3, TickStep
  <2> QED
    BY <1>3, <2>1, <2>2, <2>3 DEF System
<1>4. CASE UNCHANGED vars
  <2>1. OneSocket' <=> OneSocket
    BY <1>4 DEF vars, OneSocket, Attached
  <2> QED
    BY <1>4, <2>1 DEF vars, Consistent, Typed
<1> QED
  BY <1>1, <1>2, <1>3, <1>4 DEF Next

-----------------------------------------------------------------------------
(* What the tabs know, and the keys they hold.                             *)

\* What the page was last told of itself.  Of its mode: what it holds, or the
\* opposite when a welcome behind a replay told it so.
Page(rec) == [session |-> rec.session, token |-> rec.token, isHost |-> rec.isHost,
              isSpectator |-> (Mode(rec) # rec.missed)]

\* The two sides of a connection: before the browser has opened it the server
\* has not heard of it, and while it is open for the browser the server either
\* has not closed it or has said so last.
Sides(s, l) ==
  /\ s.open \subseteq s.clients
  /\ \A d \in Conn : l[d] \in {"free", "opening"} => d \notin s.clients /\ s.out[d] = <<>>
  /\ \A d \in Conn : l[d] = "open" => d \in s.open \/ Closing(s.out[d])

\* While its connection is open on both sides, a tab with this record will know
\* what it is, and the key that it holds has reached its seat or is on its way.
Claim(s, l, u, rec) ==
  (rec.sock # NoConn /\ l[rec.sock] = "open" /\ rec.sock \in s.open) =>
    /\ Right(s, rec.sock, Page(rec))
    /\ rec.steering => ~Late(s, rec.sock) \/ Holds(u[rec.sock], "input")

\* With Consistent, the invariant of the second induction.
Knowing == Sides(srv, link) /\ \A t \in Tab : Claim(srv, link, up, tab[t])

LEMMA ClaimKept ==
  ASSUME NEW s, NEW s2, NEW l, NEW l2, NEW u, NEW u2, NEW rec, NEW rec2,
         Claim(s, l, u, rec), rec2.sock = rec.sock, Page(rec2) = Page(rec),
         rec2.steering => rec.steering,
         (rec.sock # NoConn /\ l2[rec.sock] = "open" /\ rec.sock \in s2.open) =>
           /\ l[rec.sock] = "open" /\ rec.sock \in s.open
           /\ Kept(s, s2, rec.sock)
           /\ Holds(u[rec.sock], "input") => Holds(u2[rec.sock], "input") \/ ~Late(s2, rec.sock)
  PROVE  Claim(s2, l2, u2, rec2)
<1> SUFFICES ASSUME rec.sock # NoConn, l2[rec.sock] = "open", rec.sock \in s2.open
             PROVE  /\ Right(s2, rec.sock, Page(rec2))
                    /\ rec2.steering => ~Late(s2, rec.sock) \/ Holds(u2[rec.sock], "input")
  BY DEF Claim
<1>1. /\ Kept(s, s2, rec.sock) /\ Right(s, rec.sock, Page(rec))
      /\ rec.steering => ~Late(s, rec.sock) \/ Holds(u[rec.sock], "input")
  BY DEF Claim
<1>2. Right(s2, rec.sock, Page(rec2))
  BY <1>1 DEF Kept
<1> QED
  BY <1>1, <1>2 DEF Kept

\* Two tables that say the same of a connection.
LEMMA SameTelling ==
  ASSUME NEW s, NEW t, NEW d,
         t.player = s.player, t.at = s.at, t.room = s.room, t.out[d] = s.out[d]
  PROVE  Kept(s, t, d)
BY DEF Kept, Right, Truth, Late, Owing

LEMMA KeptTransitive ==
  ASSUME NEW s, NEW t, NEW u, NEW d, Kept(s, t, d), Kept(t, u, d)
  PROVE  Kept(s, u, d)
BY DEF Kept

LEMMA HoldsConcat ==
  ASSUME NEW T, NEW q \in Seq(T), NEW r \in Seq(T), NEW kind
  PROVE  Holds(q, kind) \/ Holds(r, kind) => Holds(q \o r, kind)
<1> DEFINE t == q \o r
<1>1. /\ Len(q) \in Nat /\ Len(r) \in Nat /\ Len(t) = Len(q) + Len(r)
      /\ \A i \in 1..Len(q) : t[i] = q[i]
      /\ \A i \in 1..Len(r) : t[Len(q) + i] = r[i]
      /\ DOMAIN t = 1..Len(t) /\ DOMAIN q = 1..Len(q) /\ DOMAIN r = 1..Len(r)
  OBVIOUS
<1> HIDE DEF t
<1>2. ASSUME Holds(q, kind) PROVE Holds(t, kind)
  <2>1. \A i \in 1..Len(q) : i \in 1..Len(t)
    BY <1>1
  <2> QED
    BY <1>1, <1>2, <2>1 DEF Holds
<1>3. ASSUME Holds(r, kind) PROVE Holds(t, kind)
  <2>1. \A i \in 1..Len(r) : Len(q) + i \in 1..Len(t)
    BY <1>1
  <2> QED
    BY <1>1, <1>3, <2>1 DEF Holds
<1> QED
  BY <1>2, <1>3 DEF t

\* The facts about types that the steps below start from.
LEMMA ConsistentParts ==
  ASSUME Consistent
  PROVE  /\ srv \in Table /\ OneBinding(srv) /\ Core(srv) /\ OneSocket
         /\ srv.out \in [Conn -> Seq(Message)] /\ srv.open \subseteq Conn
         /\ srv.clients \subseteq Conn
         /\ link \in [Conn -> {"free", "opening", "open", "gone"}]
         /\ up \in [Conn -> Seq(UpMessage)] /\ tab \in [Tab -> TabState]
         /\ \A t \in Tab : tab[t].sock \in Conn \cup {NoConn}
BY DEF Consistent, Core, CoreBut, Sound, Typed, Table, TabState

-----------------------------------------------------------------------------
(* Steps of the server.                                                    *)

\* A handler runs.
LEMMA ServerKnows ==
  ASSUME Consistent, Knowing, NEW s, s \in Table, s.clients = srv.clients, Tells(srv, s),
         srv' = Carried(s), link' = link, tab' = tab,
         \A d \in Conn : Holds(up[d], "input") => Holds(up'[d], "input") \/ ~Owing(s, d)
  PROVE  Knowing'
<1>1. /\ srv.open \subseteq srv.clients
      /\ \A d \in Conn : link[d] \in {"free", "opening"} => d \notin srv.clients
                                                            /\ srv.out[d] = <<>>
      /\ \A d \in Conn : link[d] = "open" => d \in srv.open \/ Closing(srv.out[d])
  BY DEF Knowing, Sides
<1>2. /\ s.open \subseteq srv.open
      /\ \A d \in Conn : d \notin srv.open => s.out[d] = srv.out[d]
      /\ \A d \in Conn : d \in srv.open \ s.open => Closing(s.out[d])
      /\ \A d \in s.open : Kept(srv, s, d)
  BY DEF Tells
<1>3. /\ srv'.player = s.player /\ srv'.at = s.at /\ srv'.room = s.room
      /\ srv'.open = s.open /\ srv'.clients = s.clients
      /\ \A d \in Conn : link[d] # "gone" => srv'.out[d] = s.out[d]
  BY DEF Carried, Table
<1>4. Sides(srv', link')
  <2>1. srv'.open \subseteq srv'.clients
    BY <1>1, <1>2, <1>3
  <2>2. ASSUME NEW d \in Conn, link'[d] \in {"free", "opening"}
        PROVE  d \notin srv'.clients /\ srv'.out[d] = <<>>
    BY <1>1, <1>2, <1>3, <2>2
  <2>3. ASSUME NEW d \in Conn, link'[d] = "open" PROVE d \in srv'.open \/ Closing(srv'.out[d])
    <3>1. srv'.out[d] = s.out[d] /\ (d \in srv.open \/ Closing(srv.out[d]))
      BY <1>1, <1>3, <2>3
    <3>2. CASE d \in srv.open
      BY <1>2, <1>3, <3>1, <3>2
    <3>3. CASE d \notin srv.open
      BY <1>2, <3>1, <3>3
    <3> QED
      BY <3>2, <3>3
  <2> QED
    BY <2>1, <2>2, <2>3 DEF Sides
<1>5. ASSUME NEW t \in Tab PROVE Claim(srv', link', up', tab'[t])
  <2> DEFINE c == tab[t].sock
  <2>1. Claim(srv, link, up, tab[t]) /\ c \in Conn \cup {NoConn}
    BY ConsistentParts DEF Knowing
  <2>2. ASSUME c # NoConn, link'[c] = "open", c \in srv'.open
        PROVE  /\ link[c] = "open" /\ c \in srv.open /\ Kept(srv, srv', c)
               /\ Holds(up[c], "input") => Holds(up'[c], "input") \/ ~Late(srv', c)
    <3>1. c \in Conn /\ c \in s.open /\ link[c] = "open" /\ srv'.out[c] = s.out[c]
      BY <1>3, <2>1, <2>2
    <3>2. Kept(srv, s, c) /\ Kept(s, srv', c)
      BY <1>2, <1>3, <3>1, SameTelling
    <3>3. Kept(srv, srv', c)
      BY <3>2, KeptTransitive
    <3>4. ~Owing(s, c) => ~Late(srv', c)
      BY <1>3 DEF Late, Owing
    <3> QED
      BY <1>2, <3>1, <3>3, <3>4
  <2> HIDE DEF c
  <2> QED
    BY <2>1, <2>2, ClaimKept DEF c
<1> QED
  BY <1>4, <1>5 DEF Knowing

\* A handler has run, and no connection has come or gone.
Served(s, t) == Core(t) /\ t.clients = s.clients

LEMMA HelloServed ==
  ASSUME NEW s, Core(s), NEW c \in Conn, c \in s.clients,
         NEW token \in Player \cup {NoPlayer}, NEW w \in BOOLEAN, NEW r \in Room,
         NEW fresh \in Player, \A q \in Room : fresh \notin s.room[q].members
  PROVE  Served(s, HandleHello(s, c, token, w, r, fresh))
BY HandleHelloKeeps DEF Served

LEMMA ReceiveKnows ==
  ASSUME Consistent, Knowing, NEW c \in Conn, Receive(c)
  PROVE  Knowing'
<1> DEFINE msg == Head(up[c])
           s == IF msg.kind = "hello"
                THEN HandleHello(srv, c, msg.token, msg.spectator, msg.room, Fresh)
                ELSE Handled(srv, c, msg)
<1>1. Core(srv) /\ up \in [Conn -> Seq(UpMessage)]
  BY ConsistentParts
<1>2. /\ c \in srv.clients /\ up[c] # <<>> /\ Player \ Named # {}
      /\ srv' = Carried(s) /\ up' = [up EXCEPT ![c] = Tail(up[c])]
      /\ link' = link /\ tab' = tab
  BY DEF Receive
<1>3. msg \in UpMessage
  BY <1>1, <1>2
<1>4. \A d \in Conn : Holds(up[d], "input") => \/ Holds(up'[d], "input")
                                               \/ d = c /\ msg.kind = "input"
  <2> SUFFICES ASSUME NEW d \in Conn, Holds(up[d], "input")
               PROVE  Holds(up'[d], "input") \/ (d = c /\ msg.kind = "input")
    OBVIOUS
  <2>1. CASE d = c
    <3>1. up'[c] = Tail(up[c]) /\ up[c] \in Seq(UpMessage)
      BY <1>1, <1>2
    <3> QED
      BY <1>2, <2>1, <3>1, HoldsTail
  <2>2. CASE d # c
    <3>1. up'[d] = up[d]
      BY <1>1, <1>2, <2>2
    <3> QED
      BY <3>1
  <2> QED
    BY <2>1, <2>2
<1> HIDE DEF msg
<1>5. /\ Core(s) /\ s.clients = srv.clients /\ Tells(srv, s)
      /\ msg.kind = "input" => ~Owing(s, c)
  <2>1. CASE msg.kind = "hello"
    <3> DEFINE token == msg.token
               watches == msg.spectator
               r == msg.room
               fresh == Fresh
               t == HandleHello(srv, c, token, watches, r, fresh)
    <3>1. token \in Player \cup {NoPlayer} /\ watches \in BOOLEAN /\ r \in Room
      BY <1>3, <2>1 DEF UpMessage
    <3>2. fresh \in Player /\ \A q \in Room : fresh \notin srv.room[q].members
      BY <1>2, FreshIsFresh
    <3>5. s = t
      BY <2>1
    <3> HIDE DEF token, watches, r, fresh, s
    <3>3. Core(t) /\ t.clients = srv.clients
      <4>1. Core(srv) /\ c \in srv.clients
        BY <1>1, <1>2
      <4> QED
        BY <3>1, <3>2, <4>1, HelloServed DEF Served
    <3>4. Tells(srv, t)
      BY <1>1, <1>2, <3>1, <3>2, HandleHelloTells
    <3> HIDE DEF t
    <3> QED
      BY <2>1, <3>3, <3>4, <3>5
  <2>2. CASE msg.kind # "hello"
    <3> DEFINE t == Handled(srv, c, msg)
    <3>1. msg.kind \in {"lobby_start", "input", "place_ping"}
      BY <1>3, <2>2 DEF UpMessage
    <3>2. Core(t) /\ t.clients = srv.clients
      BY <1>1, <3>1, HandledKeeps
    <3>3. Tells(srv, t) /\ (msg.kind = "input" => ~Owing(t, c))
      BY <1>1, <3>1, HandledTells
    <3>4. s = t
      BY <2>2
    <3> HIDE DEF s, t
    <3> QED
      BY <3>2, <3>3, <3>4
  <2> QED
    BY <2>1, <2>2
<1> HIDE DEF s
<1>6. s \in Table
  BY <1>5 DEF Core, CoreBut, Sound
<1>7. \A d \in Conn : Holds(up[d], "input") => Holds(up'[d], "input") \/ ~Owing(s, d)
  BY <1>4, <1>5
<1> QED
  BY <1>2, <1>5, <1>6, <1>7, ServerKnows

LEMMA TickKnows ==
  ASSUME Consistent, Knowing, NEW r \in Room, Tick(r)
  PROVE  Knowing'
<1> DEFINE s == IF srv.room[r].ticked THEN LastTick(srv, r) ELSE FirstTick(srv, r)
<1>1. Core(srv)
  BY ConsistentParts
<1>2. /\ r \in srv.rooms /\ srv.room[r].running /\ srv' = Carried(s)
      /\ link' = link /\ up' = up /\ tab' = tab
  BY DEF Tick
<1>3. /\ Core(LastTick(srv, r)) /\ LastTick(srv, r).clients = srv.clients
      /\ Tells(srv, LastTick(srv, r))
  BY <1>1, <1>2, LastTickKeeps, LastTickTells
<1>4. /\ Core(FirstTick(srv, r)) /\ FirstTick(srv, r).clients = srv.clients
      /\ Tells(srv, FirstTick(srv, r))
  BY <1>1, <1>2, FirstTickKeeps, FirstTickTells
<1>5. Core(s) /\ s.clients = srv.clients /\ Tells(srv, s)
  BY <1>3, <1>4
<1> HIDE DEF s
<1>6. s \in Table
  BY <1>5 DEF Core, CoreBut, Sound
<1>7. \A d \in Conn : Holds(up[d], "input") => Holds(up'[d], "input") \/ ~Owing(s, d)
  BY <1>2
<1> QED
  BY <1>2, <1>5, <1>6, <1>7, ServerKnows

\* A connection goes; the others are told what there is to tell.
LEMMA GoneTells ==
  ASSUME Consistent, Knowing, NEW c \in Conn
  PROVE  LET s == ServerClosed(srv, c)
         IN  /\ s \in Table /\ s.clients = srv.clients \ {c} /\ s.open \subseteq srv.open \ {c}
             /\ s.out[c] = srv.out[c]
             /\ \A d \in Conn : link[d] \in {"free", "opening"} => s.out[d] = <<>>
             /\ \A d \in Conn \ {c} : link[d] = "open" => d \in s.open \/ Closing(s.out[d])
             /\ \A d \in s.open : Kept(srv, s, d)
<1> DEFINE s == ServerClosed(srv, c)
           z == [srv EXCEPT !.open = @ \ {c}]
<1>1. Core(srv) /\ srv \in Table
  BY ConsistentParts
<1>2. /\ srv.open \subseteq srv.clients
      /\ \A d \in Conn : link[d] \in {"free", "opening"} => d \notin srv.clients
                                                            /\ srv.out[d] = <<>>
      /\ \A d \in Conn : link[d] = "open" => d \in srv.open \/ Closing(srv.out[d])
  BY DEF Knowing, Sides
<1>3. Core(s) /\ s.clients = srv.clients \ {c}
  BY <1>1, ServerClosedKeeps
<1>4. Tells(z, s)
  BY <1>1, ServerClosedTells
<1>5. /\ z.open = srv.open \ {c} /\ z.out = srv.out
      /\ z.player = srv.player /\ z.at = srv.at /\ z.room = srv.room
  BY <1>1 DEF Table
<1> HIDE DEF s, z
<1>6. s \in Table
  BY <1>3 DEF Core, CoreBut, Sound
<1>7. /\ s.open \subseteq srv.open \ {c}
      /\ \A d \in Conn : d \notin srv.open \ {c} => s.out[d] = srv.out[d]
      /\ \A d \in Conn : d \in (srv.open \ {c}) \ s.open => Closing(s.out[d])
      /\ \A d \in s.open : Kept(z, s, d)
  BY <1>4, <1>5 DEF Tells
<1>8. ASSUME NEW d \in s.open PROVE Kept(srv, s, d)
  <2>1. Kept(srv, z, d) /\ Kept(z, s, d)
    BY <1>5, <1>7, SameTelling
  <2> QED
    BY <2>1, KeptTransitive
<1>9. ASSUME NEW d \in Conn \ {c}, link[d] = "open" PROVE d \in s.open \/ Closing(s.out[d])
  <2>1. CASE d \in srv.open
    BY <1>7, <1>9, <2>1
  <2>2. CASE d \notin srv.open
    <3>1. s.out[d] = srv.out[d] /\ Closing(srv.out[d])
      BY <1>2, <1>7, <1>9, <2>2
    <3> QED
      BY <3>1
  <2> QED
    BY <2>1, <2>2
<1>10. \A d \in Conn : link[d] \in {"free", "opening"} => s.out[d] = <<>>
  BY <1>2, <1>7
<1>11. s.out[c] = srv.out[c]
  BY <1>7
<1> QED
  BY <1>3, <1>6, <1>7, <1>8, <1>9, <1>10, <1>11 DEF s

LEMMA CutKnows ==
  ASSUME Consistent, Knowing, NEW c \in Conn, Cut(c)
  PROVE  Knowing'
<1> DEFINE s == ServerClosed(srv, c)
           q == Append(s.out[c], [kind |-> "cut"])
<1>1. /\ link[c] = "open" /\ srv' = [s EXCEPT !.out[c] = q] /\ up' = [up EXCEPT ![c] = <<>>]
      /\ link' = link /\ tab' = tab
  BY DEF Cut
<1>2. /\ s \in Table /\ s.clients = srv.clients \ {c} /\ s.open \subseteq srv.open \ {c}
      /\ \A d \in Conn : link[d] \in {"free", "opening"} => s.out[d] = <<>>
      /\ \A d \in Conn \ {c} : link[d] = "open" => d \in s.open \/ Closing(s.out[d])
      /\ \A d \in s.open : Kept(srv, s, d)
  BY GoneTells
<1>3. /\ srv.open \subseteq srv.clients
      /\ \A d \in Conn : link[d] \in {"free", "opening"} => d \notin srv.clients
  BY DEF Knowing, Sides
<1>4. Closing(q)
  <2>1. s.out[c] \in Seq(Message)
    BY <1>2 DEF Table
  <2>2. [kind |-> "cut"] \in Message
    BY MessageTypes
  <2> QED
    BY <2>1, <2>2, ClosingAppend
<1>5. up \in [Conn -> Seq(UpMessage)]
  BY ConsistentParts
<1> HIDE DEF s, q
<1>6. /\ srv'.player = s.player /\ srv'.at = s.at /\ srv'.room = s.room
      /\ srv'.open = s.open /\ srv'.clients = s.clients
      /\ srv'.out[c] = q /\ \A d \in Conn \ {c} : srv'.out[d] = s.out[d]
  BY <1>1, <1>2 DEF Table
<1>7. Sides(srv', link')
  <2>1. srv'.open \subseteq srv'.clients
    BY <1>2, <1>3, <1>6
  <2>2. ASSUME NEW d \in Conn, link'[d] \in {"free", "opening"}
        PROVE  d \notin srv'.clients /\ srv'.out[d] = <<>>
    BY <1>1, <1>2, <1>3, <1>6, <2>2
  <2>3. ASSUME NEW d \in Conn, link'[d] = "open" PROVE d \in srv'.open \/ Closing(srv'.out[d])
    <3>1. CASE d = c
      BY <1>4, <1>6, <3>1
    <3>2. CASE d # c
      <4>1. srv'.out[d] = s.out[d] /\ (d \in s.open \/ Closing(s.out[d]))
        BY <1>1, <1>2, <1>6, <2>3, <3>2
      <4> QED
        BY <1>6, <4>1
    <3> QED
      BY <3>1, <3>2
  <2> QED
    BY <2>1, <2>2, <2>3 DEF Sides
<1>8. ASSUME NEW t \in Tab PROVE Claim(srv', link', up', tab'[t])
  <2> DEFINE e == tab[t].sock
  <2>1. Claim(srv, link, up, tab[t]) /\ e \in Conn \cup {NoConn}
    BY ConsistentParts DEF Knowing
  <2>2. ASSUME e # NoConn, link'[e] = "open", e \in srv'.open
        PROVE  /\ link[e] = "open" /\ e \in srv.open /\ Kept(srv, srv', e)
               /\ Holds(up[e], "input") => Holds(up'[e], "input") \/ ~Late(srv', e)
    <3>1. e \in Conn \ {c} /\ e \in s.open /\ link[e] = "open"
      BY <1>1, <1>2, <1>6, <2>1, <2>2
    <3>2. Kept(srv, s, e) /\ Kept(s, srv', e)
      BY <1>2, <1>6, <3>1, SameTelling
    <3>3. Kept(srv, srv', e)
      BY <3>2, KeptTransitive
    <3>4. up'[e] = up[e]
      BY <1>1, <1>5, <3>1
    <3> QED
      BY <1>2, <3>1, <3>3, <3>4
  <2>3. tab'[t] = tab[t]
    BY <1>1
  <2> HIDE DEF e
  <2> QED
    BY <2>1, <2>2, <2>3, ClaimKept DEF e
<1> QED
  BY <1>7, <1>8 DEF Knowing

LEMMA NoticeKnows ==
  ASSUME Consistent, Knowing, NEW c \in Conn, Notice(c)
  PROVE  Knowing'
<1> DEFINE s == ServerClosed(srv, c)
<1>1. /\ link[c] = "gone" /\ srv' = Carried(s) /\ up' = [up EXCEPT ![c] = <<>>]
      /\ link' = [link EXCEPT ![c] = "free"] /\ tab' = tab
  BY DEF Notice
<1>2. /\ s \in Table /\ s.clients = srv.clients \ {c} /\ s.open \subseteq srv.open \ {c}
      /\ \A d \in Conn : link[d] \in {"free", "opening"} => s.out[d] = <<>>
      /\ \A d \in Conn \ {c} : link[d] = "open" => d \in s.open \/ Closing(s.out[d])
      /\ \A d \in s.open : Kept(srv, s, d)
  BY GoneTells
<1>3. /\ srv.open \subseteq srv.clients
      /\ \A d \in Conn : link[d] \in {"free", "opening"} => d \notin srv.clients
  BY DEF Knowing, Sides
<1>4. /\ up \in [Conn -> Seq(UpMessage)]
      /\ link \in [Conn -> {"free", "opening", "open", "gone"}]
  BY ConsistentParts
<1> HIDE DEF s
<1>5. /\ srv'.player = s.player /\ srv'.at = s.at /\ srv'.room = s.room
      /\ srv'.open = s.open /\ srv'.clients = s.clients
      /\ srv'.out[c] = <<>> /\ \A d \in Conn : link[d] # "gone" => srv'.out[d] = s.out[d]
  BY <1>1, <1>2 DEF Carried, Table
<1>6. link'[c] = "free" /\ \A d \in Conn \ {c} : link'[d] = link[d]
  BY <1>1, <1>4
<1>7. Sides(srv', link')
  <2>1. srv'.open \subseteq srv'.clients
    BY <1>2, <1>3, <1>5
  <2>2. ASSUME NEW d \in Conn, link'[d] \in {"free", "opening"}
        PROVE  d \notin srv'.clients /\ srv'.out[d] = <<>>
    <3>1. CASE d = c
      BY <1>2, <1>5, <3>1
    <3>2. CASE d # c
      BY <1>2, <1>3, <1>5, <1>6, <2>2, <3>2
    <3> QED
      BY <3>1, <3>2
  <2>3. ASSUME NEW d \in Conn, link'[d] = "open" PROVE d \in srv'.open \/ Closing(srv'.out[d])
    <3>1. d # c /\ link[d] = "open"
      BY <1>6, <2>3
    <3>2. srv'.out[d] = s.out[d] /\ (d \in s.open \/ Closing(s.out[d]))
      BY <1>2, <1>5, <3>1
    <3> QED
      BY <1>5, <3>2
  <2> QED
    BY <2>1, <2>2, <2>3 DEF Sides
<1>8. ASSUME NEW t \in Tab PROVE Claim(srv', link', up', tab'[t])
  <2> DEFINE e == tab[t].sock
  <2>1. Claim(srv, link, up, tab[t]) /\ e \in Conn \cup {NoConn}
    BY ConsistentParts DEF Knowing
  <2>2. ASSUME e # NoConn, link'[e] = "open", e \in srv'.open
        PROVE  /\ link[e] = "open" /\ e \in srv.open /\ Kept(srv, srv', e)
               /\ Holds(up[e], "input") => Holds(up'[e], "input") \/ ~Late(srv', e)
    <3>1. e \in Conn \ {c} /\ e \in s.open /\ link[e] = "open"
      BY <1>2, <1>5, <1>6, <2>1, <2>2
    <3>2. Kept(srv, s, e) /\ Kept(s, srv', e)
      BY <1>2, <1>5, <3>1, SameTelling
    <3>3. Kept(srv, srv', e)
      BY <3>2, KeptTransitive
    <3>4. up'[e] = up[e]
      BY <1>1, <1>4, <3>1
    <3> QED
      BY <1>2, <3>1, <3>3, <3>4
  <2> HIDE DEF e
  <2> QED
    BY <1>1, <2>1, <2>2, ClaimKept DEF e
<1> QED
  BY <1>7, <1>8 DEF Knowing

-----------------------------------------------------------------------------
(* Steps of the tabs.                                                      *)

\* A tab's page changes, or what it has sent; the server and the connections
\* do not.
LEMMA PageKnows ==
  ASSUME Consistent, Knowing, NEW t \in Tab, NEW rec, tab' = [tab EXCEPT ![t] = rec],
         srv' = srv, link' = link,
         Claim(srv, link, up', rec),
         \A d \in Conn : Holds(up[d], "input") => Holds(up'[d], "input")
  PROVE  Knowing'
<1>1. tab \in [Tab -> TabState] /\ \A u \in Tab : tab[u].sock \in Conn \cup {NoConn}
  BY ConsistentParts
<1>2. ASSUME NEW u \in Tab PROVE Claim(srv', link', up', tab'[u])
  <2>1. CASE u = t
    <3>1. tab'[u] = rec
      BY <1>1, <2>1
    <3> QED
      BY <3>1
  <2>2. CASE u # t
    <3>1. tab'[u] = tab[u] /\ Claim(srv, link, up, tab[u]) /\ tab[u].sock \in Conn \cup {NoConn}
      BY <1>1, <2>2 DEF Knowing
    <3>2. tab[u].sock # NoConn => Kept(srv, srv, tab[u].sock)
      BY DEF Kept
    <3> QED
      BY <3>1, <3>2, ClaimKept
  <2> QED
    BY <2>1, <2>2
<1> QED
  BY <1>2 DEF Knowing

LEMMA SentUpHolds ==
  ASSUME Consistent, NEW t \in Tab, NEW msgs \in Seq(UpMessage), SentUp(t, msgs)
  PROVE  /\ \A d \in Conn : Holds(up[d], "input") => Holds(up'[d], "input")
         /\ Linked(t) /\ tab[t].sock \in srv.clients /\ Holds(msgs, "input")
              => Holds(up'[tab[t].sock], "input")
<1> DEFINE c == tab[t].sock
<1>1. up \in [Conn -> Seq(UpMessage)] /\ c \in Conn \cup {NoConn}
  BY ConsistentParts
<1>2. CASE Linked(t) /\ c \in srv.clients
  <2>1. c \in Conn /\ up' = [up EXCEPT ![c] = up[c] \o msgs]
    BY <1>1, <1>2 DEF SentUp, Linked
  <2>2. up'[c] = up[c] \o msgs /\ up[c] \in Seq(UpMessage)
        /\ \A d \in Conn \ {c} : up'[d] = up[d]
    BY <1>1, <2>1
  <2>3. Holds(up[c], "input") \/ Holds(msgs, "input") => Holds(up[c] \o msgs, "input")
    BY <2>2, HoldsConcat
  <2> HIDE DEF c
  <2>4. ASSUME NEW d \in Conn, Holds(up[d], "input") PROVE Holds(up'[d], "input")
    <3>1. CASE d = c
      BY <2>2, <2>3, <2>4, <3>1
    <3>2. CASE d # c
      <4>1. up'[d] = up[d]
        BY <2>2, <3>2
      <4> QED
        BY <2>4, <4>1
    <3> QED
      BY <3>1, <3>2
  <2>5. Holds(msgs, "input") => Holds(up'[c], "input")
    BY <2>2, <2>3
  <2> QED
    BY <2>4, <2>5 DEF c
<1>3. CASE ~(Linked(t) /\ c \in srv.clients)
  <2>1. up' = up
    BY <1>3 DEF SentUp
  <2> QED
    BY <1>3, <2>1
<1> QED
  BY <1>2, <1>3

\* What the tab takes itself for stays, and so does the key it holds.
LEMMA SameClaim ==
  ASSUME Consistent, Knowing, NEW t \in Tab, NEW rec,
         rec.sock = tab[t].sock, Page(rec) = Page(tab[t]), rec.steering => tab[t].steering,
         \A d \in Conn : Holds(up[d], "input") => Holds(up'[d], "input")
  PROVE  Claim(srv, link, up', rec)
<1>1. Claim(srv, link, up, tab[t]) /\ tab[t].sock \in Conn \cup {NoConn}
  BY ConsistentParts DEF Knowing
<1>2. tab[t].sock # NoConn => Kept(srv, srv, tab[t].sock)
  BY DEF Kept
<1> QED
  BY <1>1, <1>2, ClaimKept

LEMMA SaveKnows ==
  ASSUME Consistent, Knowing, NEW t \in Tab, NEW r \in Room, NEW w \in BOOLEAN, Save(t, r, w)
  PROVE  Knowing'
<1> DEFINE rec == [tab[t] EXCEPT !.room = r, !.prefer = w]
           hello == [Hello(t) EXCEPT !.spectator = w, !.room = r]
<1>1. Typed /\ tab \in [Tab -> TabState] /\ tab[t] \in TabState
  BY DEF Consistent, Typed
<1>2. /\ tab' = [tab EXCEPT ![t].room = r, ![t].prefer = w] /\ link' = link /\ srv' = srv
      /\ SentUp(t, <<hello>>)
  BY DEF Save
<1>3. tab' = [tab EXCEPT ![t] = rec]
  BY <1>1, <1>2
<1>4. rec.sock = tab[t].sock /\ Page(rec) = Page(tab[t]) /\ rec.steering = tab[t].steering
  BY <1>1 DEF TabState, Page, Mode
<1>5. hello \in UpMessage
  BY <1>1, HelloType
<1> HIDE DEF rec, hello
<1>6. <<hello>> \in Seq(UpMessage)
  BY <1>5
<1>7. \A d \in Conn : Holds(up[d], "input") => Holds(up'[d], "input")
  BY <1>2, <1>6, SentUpHolds
<1>8. Claim(srv, link, up', rec)
  BY <1>4, <1>7, SameClaim
<1> QED
  BY <1>2, <1>3, <1>7, <1>8, PageKnows

LEMMA StartKnows ==
  ASSUME Consistent, Knowing, NEW t \in Tab, NEW w \in BOOLEAN, NEW a \in BOOLEAN, Start(t, w, a)
  PROVE  Knowing'
<1> DEFINE rec == [tab[t] EXCEPT !.prefer = w]
           hello == [Hello(t) EXCEPT !.spectator = w]
           start == [kind |-> "lobby_start", withAi |-> a]
<1>1. Typed /\ tab \in [Tab -> TabState] /\ tab[t] \in TabState
  BY DEF Consistent, Typed
<1>2. /\ tab' = [tab EXCEPT ![t].prefer = w] /\ link' = link /\ srv' = srv
      /\ SentUp(t, <<hello, start>>)
  BY DEF Start
<1>3. tab' = [tab EXCEPT ![t] = rec]
  BY <1>1, <1>2
<1>4. rec.sock = tab[t].sock /\ Page(rec) = Page(tab[t]) /\ rec.steering = tab[t].steering
  BY <1>1 DEF TabState, Page, Mode
<1>5. hello \in UpMessage /\ start \in UpMessage
  BY <1>1, HelloType, SessionAssumption
<1> HIDE DEF rec, hello, start
<1>6. <<hello, start>> \in Seq(UpMessage)
  BY <1>5
<1>7. \A d \in Conn : Holds(up[d], "input") => Holds(up'[d], "input")
  BY <1>2, <1>6, SentUpHolds
<1>8. Claim(srv, link, up', rec)
  BY <1>4, <1>7, SameClaim
<1> QED
  BY <1>2, <1>3, <1>7, <1>8, PageKnows

LEMMA PlacePingKnows ==
  ASSUME Consistent, Knowing, NEW t \in Tab, PlacePing(t)
  PROVE  Knowing'
<1> DEFINE ping == [kind |-> "place_ping"]
<1>1. Typed /\ tab \in [Tab -> TabState]
  BY DEF Consistent, Typed
<1>2. tab' = tab /\ link' = link /\ srv' = srv /\ SentUp(t, <<ping>>)
  BY DEF PlacePing
<1>3. tab' = [tab EXCEPT ![t] = tab[t]]
  BY <1>1, <1>2
<1>4. ping \in UpMessage
  BY <1>1, HelloType
<1> HIDE DEF ping
<1>5. <<ping>> \in Seq(UpMessage)
  BY <1>4
<1>6. \A d \in Conn : Holds(up[d], "input") => Holds(up'[d], "input")
  BY <1>2, <1>5, SentUpHolds
<1>7. Claim(srv, link, up', tab[t])
  BY <1>6, SameClaim
<1> QED
  BY <1>2, <1>3, <1>6, <1>7, PageKnows

LEMMA OpenReplayKnows ==
  ASSUME Consistent, Knowing, NEW t \in Tab, OpenReplay(t)
  PROVE  Knowing'
<1> DEFINE rec == ReplayOpened(tab[t])
<1>1. tab' = [tab EXCEPT ![t] = rec] /\ link' = link /\ srv' = srv /\ up' = up
  BY DEF OpenReplay
<1>2. rec.sock = tab[t].sock /\ Page(rec) = Page(tab[t]) /\ rec.steering = tab[t].steering
  BY ConsistentParts, ReplayPages DEF Page
<1> HIDE DEF rec
<1>3. Claim(srv, link, up', rec)
  BY <1>1, <1>2, SameClaim
<1> QED
  BY <1>1, <1>3, PageKnows

LEMMA CloseReplayKnows ==
  ASSUME Consistent, Knowing, NEW t \in Tab, CloseReplay(t)
  PROVE  Knowing'
<1> DEFINE rec == ReplayClosed(tab[t])
<1>1. tab' = [tab EXCEPT ![t] = rec] /\ link' = link /\ srv' = srv /\ up' = up
  BY DEF CloseReplay
<1>2. rec.sock = tab[t].sock /\ Page(rec) = Page(tab[t]) /\ rec.steering = tab[t].steering
  BY ConsistentParts, ReplayPages DEF Page
<1> HIDE DEF rec
<1>3. Claim(srv, link, up', rec)
  BY <1>1, <1>2, SameClaim
<1> QED
  BY <1>1, <1>3, PageKnows

\* The key is sent, since what is open at the server is a connection it has.
LEMMA SteerKnows ==
  ASSUME Consistent, Knowing, NEW t \in Tab, Steer(t)
  PROVE  Knowing'
<1> DEFINE rec == [tab[t] EXCEPT !.steering = TRUE]
           input == [kind |-> "input"]
           c == tab[t].sock
<1>1. Typed /\ tab \in [Tab -> TabState] /\ tab[t] \in TabState
  BY DEF Consistent, Typed
<1>2. /\ tab' = [tab EXCEPT ![t].steering = TRUE] /\ link' = link /\ srv' = srv
      /\ SentUp(t, <<input>>)
  BY DEF Steer
<1>3. tab' = [tab EXCEPT ![t] = rec]
  BY <1>1, <1>2
<1>4. rec.sock = c /\ Page(rec) = Page(tab[t])
  BY <1>1 DEF TabState, Page, Mode
<1>5. input \in UpMessage /\ input.kind = "input"
  BY <1>1, HelloType
<1> HIDE DEF rec, input
<1>6. <<input>> \in Seq(UpMessage) /\ Holds(<<input>>, "input")
  BY <1>5 DEF Holds
<1>7. /\ \A d \in Conn : Holds(up[d], "input") => Holds(up'[d], "input")
      /\ Linked(t) /\ c \in srv.clients => Holds(up'[c], "input")
  BY <1>2, <1>6, SentUpHolds
<1>8. Claim(srv, link, up', rec)
  <2>1. Claim(srv, link, up, tab[t]) /\ srv.open \subseteq srv.clients
    BY DEF Knowing, Sides
  <2>2. ASSUME c # NoConn, link[c] = "open", c \in srv.open
        PROVE  Right(srv, c, Page(rec)) /\ Holds(up'[c], "input")
    <3>1. Right(srv, c, Page(tab[t]))
      BY <2>1, <2>2 DEF Claim
    <3>2. Linked(t) /\ c \in srv.clients
      BY <2>1, <2>2 DEF Linked
    <3> QED
      BY <1>4, <1>7, <3>1, <3>2
  <2> HIDE DEF c
  <2> QED
    BY <1>4, <2>2 DEF Claim
<1> QED
  BY <1>2, <1>3, <1>7, <1>8, PageKnows

\* A tab loses its socket.
LEMMA GoneKnows ==
  ASSUME Consistent, Knowing, NEW t \in Tab, NEW rec, tab' = [tab EXCEPT ![t] = rec],
         tab[t].sock # NoConn, rec.sock = NoConn,
         link' = Ended(tab[t].sock), srv' = Undelivered(tab[t].sock), up' = up
  PROVE  Knowing'
<1> DEFINE c == tab[t].sock
<1>1. /\ tab \in [Tab -> TabState] /\ srv \in Table /\ c \in Conn
      /\ link \in [Conn -> {"free", "opening", "open", "gone"}]
      /\ \A u \in Tab : tab[u].sock \in Conn \cup {NoConn}
  BY ConsistentParts
<1>2. /\ srv.open \subseteq srv.clients
      /\ \A d \in Conn : link[d] \in {"free", "opening"} => d \notin srv.clients
                                                            /\ srv.out[d] = <<>>
      /\ \A d \in Conn : link[d] = "open" => d \in srv.open \/ Closing(srv.out[d])
  BY DEF Knowing, Sides
<1>3. /\ link'[c] = IF c \in srv.clients THEN "gone" ELSE "free"
      /\ \A d \in Conn \ {c} : link'[d] = link[d]
  BY <1>1 DEF Ended
<1>4. /\ srv'.player = srv.player /\ srv'.at = srv.at /\ srv'.room = srv.room
      /\ srv'.open = srv.open /\ srv'.clients = srv.clients
      /\ srv'.out[c] = <<>> /\ \A d \in Conn \ {c} : srv'.out[d] = srv.out[d]
  BY <1>1 DEF Undelivered, Table
<1> HIDE DEF c
<1>5. Sides(srv', link')
  <2>1. srv'.open \subseteq srv'.clients
    BY <1>2, <1>4
  <2>2. ASSUME NEW d \in Conn, link'[d] \in {"free", "opening"}
        PROVE  d \notin srv'.clients /\ srv'.out[d] = <<>>
    <3>1. CASE d = c
      BY <1>3, <1>4, <2>2, <3>1
    <3>2. CASE d # c
      BY <1>2, <1>3, <1>4, <2>2, <3>2
    <3> QED
      BY <3>1, <3>2
  <2>3. ASSUME NEW d \in Conn, link'[d] = "open" PROVE d \in srv'.open \/ Closing(srv'.out[d])
    <3>1. d # c /\ link[d] = "open"
      BY <1>3, <2>3
    <3>2. srv'.out[d] = srv.out[d]
      BY <1>4, <3>1
    <3> QED
      BY <1>2, <1>4, <3>1, <3>2
  <2> QED
    BY <2>1, <2>2, <2>3 DEF Sides
<1>6. ASSUME NEW u \in Tab PROVE Claim(srv', link', up', tab'[u])
  <2>1. CASE u = t
    <3>1. tab'[u].sock = NoConn
      BY <1>1, <2>1
    <3> QED
      BY <3>1 DEF Claim
  <2>2. CASE u # t
    <3> DEFINE e == tab[u].sock
    <3>1. /\ tab'[u] = tab[u] /\ Claim(srv, link, up, tab[u]) /\ e \in Conn \cup {NoConn}
      BY <1>1, <2>2 DEF Knowing
    <3>2. ASSUME e # NoConn, link'[e] = "open", e \in srv'.open
          PROVE  link[e] = "open" /\ e \in srv.open /\ Kept(srv, srv', e)
      <4>1. e \in Conn \ {c}
        BY <1>3, <3>1, <3>2
      <4> QED
        BY <1>3, <1>4, <3>2, <4>1, SameTelling
    <3> HIDE DEF e
    <3> QED
      BY <3>1, <3>2, ClaimKept DEF e
  <2> QED
    BY <2>1, <2>2
<1> QED
  BY <1>5, <1>6 DEF Knowing

LEMMA BreakKnows ==
  ASSUME Consistent, Knowing, NEW t \in Tab, Break(t)
  PROVE  Knowing'
<1> DEFINE rec == AfterClose(t, "broken")
<1>1. /\ tab[t].sock # NoConn /\ tab' = [tab EXCEPT ![t] = rec]
      /\ link' = Ended(tab[t].sock) /\ srv' = Undelivered(tab[t].sock) /\ up' = up
  BY DEF Break
<1>2. rec.sock = NoConn
  <2>1. OneSocket /\ Typed
    BY DEF Consistent
  <2>2. tab[t].open
    BY <1>1, <2>1 DEF OneSocket
  <2> QED
    BY <2>1, <2>2, AfterCloseType
<1> HIDE DEF rec
<1> QED
  BY <1>1, <1>2, GoneKnows

LEMMA CloseTabKnows ==
  ASSUME Consistent, Knowing, NEW t \in Tab, CloseTab(t)
  PROVE  Knowing'
<1>1. tab' = [tab EXCEPT ![t] = NoTab] /\ up' = up /\ NoTab.sock = NoConn
  BY NoTabType DEF CloseTab
<1>2. CASE tab[t].sock = NoConn
  <2>1. link' = link /\ srv' = srv
    BY <1>2 DEF CloseTab
  <2>2. Claim(srv, link, up', NoTab)
    BY <1>1 DEF Claim
  <2> QED
    BY <1>1, <2>1, <2>2, PageKnows
<1>3. CASE tab[t].sock # NoConn
  <2>1. link' = Ended(tab[t].sock) /\ srv' = Undelivered(tab[t].sock)
    BY <1>3 DEF CloseTab
  <2> QED
    BY <1>1, <1>3, <2>1, GoneKnows
<1> QED
  BY <1>2, <1>3

\* A tab gets a new socket: the connection is not open yet.
LEMMA NewKnows ==
  ASSUME Consistent, Knowing, NEW t \in Tab, NEW rec, tab' = [tab EXCEPT ![t] = rec],
         FreeConns # {}, rec.sock = NewConn,
         link' = [link EXCEPT ![NewConn] = "opening"], srv' = srv, up' = up
  PROVE  Knowing'
<1> DEFINE c == NewConn
<1>1. /\ tab \in [Tab -> TabState]
      /\ link \in [Conn -> {"free", "opening", "open", "gone"}]
      /\ \A u \in Tab : tab[u].sock \in Conn \cup {NoConn}
  BY ConsistentParts
<1>2. c \in FreeConns
  BY DEF NewConn
<1> HIDE DEF c
<1>3. c \in Conn /\ link[c] = "free" /\ link' = [link EXCEPT ![c] = "opening"] /\ rec.sock = c
  BY <1>2 DEF FreeConns, c
<1>4. link'[c] = "opening" /\ \A d \in Conn \ {c} : link'[d] = link[d]
  BY <1>1, <1>3
<1>5. Sides(srv', link')
  BY <1>3, <1>4 DEF Knowing, Sides
<1>6. ASSUME NEW u \in Tab PROVE Claim(srv', link', up', tab'[u])
  <2>1. CASE u = t
    <3>1. tab'[u].sock = c
      BY <1>1, <1>3, <2>1
    <3> QED
      BY <1>4, <3>1 DEF Claim
  <2>2. CASE u # t
    <3> DEFINE e == tab[u].sock
    <3>1. tab'[u] = tab[u] /\ Claim(srv, link, up, tab[u]) /\ e \in Conn \cup {NoConn}
      BY <1>1, <2>2 DEF Knowing
    <3>2. ASSUME e # NoConn, link'[e] = "open", e \in srv'.open
          PROVE  link[e] = "open" /\ e \in srv.open /\ Kept(srv, srv', e)
      <4>1. e \in Conn \ {c}
        BY <1>4, <3>1, <3>2
      <4>2. Kept(srv, srv', e)
        BY DEF Kept
      <4> QED
        BY <1>4, <3>2, <4>1, <4>2
    <3> HIDE DEF e
    <3> QED
      BY <3>1, <3>2, ClaimKept DEF e
  <2> QED
    BY <2>1, <2>2
<1> QED
  BY <1>5, <1>6 DEF Knowing

LEMMA OpenTabKnows ==
  ASSUME Consistent, Knowing, NEW t \in Tab, OpenTab(t)
  PROVE  Knowing'
<1> DEFINE rec == LoadedTab(NewConn, stored)
<1>1. /\ FreeConns # {} /\ tab' = [tab EXCEPT ![t] = rec]
      /\ link' = [link EXCEPT ![NewConn] = "opening"] /\ srv' = srv /\ up' = up
  BY DEF OpenTab
<1>2. rec.sock = NewConn
  BY DEF LoadedTab
<1> HIDE DEF rec
<1> QED
  BY <1>1, <1>2, NewKnows

LEMMA ReconnectKnows ==
  ASSUME Consistent, Knowing, NEW t \in Tab, Reconnect(t)
  PROVE  Knowing'
<1> DEFINE rec == Connected(t)
<1>1. /\ FreeConns # {} /\ tab' = [tab EXCEPT ![t] = rec]
      /\ link' = [link EXCEPT ![NewConn] = "opening"] /\ srv' = srv /\ up' = up
  BY DEF Reconnect
<1>2. rec.sock = NewConn
  BY ConsistentParts DEF Connected, TabState
<1> HIDE DEF rec
<1> QED
  BY <1>1, <1>2, NewKnows

\* A connection opens: it is nobody's yet, and the key that was held is dropped.
LEMMA EstablishKnows ==
  ASSUME Consistent, Knowing, NEW t \in Tab, Establish(t)
  PROVE  Knowing'
<1> DEFINE c == tab[t].sock
           rec == [tab[t] EXCEPT !.steering = FALSE]
<1>1. /\ tab \in [Tab -> TabState] /\ tab[t] \in TabState /\ srv \in Table /\ OneBinding(srv)
      /\ OneSocket /\ up \in [Conn -> Seq(UpMessage)]
      /\ link \in [Conn -> {"free", "opening", "open", "gone"}]
      /\ \A u \in Tab : tab[u].sock \in Conn \cup {NoConn}
  BY ConsistentParts
<1>2. /\ c # NoConn /\ link[c] = "opening" /\ link' = [link EXCEPT ![c] = "open"]
      /\ srv' = [srv EXCEPT !.clients = srv.clients \cup {c}, !.open = srv.open \cup {c}]
      /\ up' = [up EXCEPT ![c] = <<Hello(t)>>] /\ tab' = [tab EXCEPT ![t].steering = FALSE]
  BY DEF Establish
<1>3. c \in Conn /\ tab' = [tab EXCEPT ![t] = rec]
  BY <1>1, <1>2
<1>4. rec.sock = c /\ ~rec.steering
  BY <1>1 DEF TabState
<1>5. /\ srv.open \subseteq srv.clients
      /\ \A d \in Conn : link[d] \in {"free", "opening"} => d \notin srv.clients
                                                            /\ srv.out[d] = <<>>
      /\ \A d \in Conn : link[d] = "open" => d \in srv.open \/ Closing(srv.out[d])
  BY DEF Knowing, Sides
<1>6. \A u \in Tab \ {t} : tab[u].sock # c
  BY <1>1, <1>2 DEF OneSocket
<1> HIDE DEF c, rec
<1>7. srv.player[c] = NoPlayer
  BY <1>1, <1>2, <1>3, <1>5 DEF OneBinding
<1>8. /\ srv'.player = srv.player /\ srv'.at = srv.at /\ srv'.room = srv.room
      /\ srv'.out = srv.out
      /\ srv'.open = srv.open \cup {c} /\ srv'.clients = srv.clients \cup {c}
  BY <1>1, <1>2 DEF Table
<1>9. /\ link'[c] = "open" /\ \A d \in Conn \ {c} : link'[d] = link[d] /\ up'[d] = up[d]
  BY <1>1, <1>2, <1>3
<1>10. Sides(srv', link')
  <2>1. srv'.open \subseteq srv'.clients
    BY <1>5, <1>8
  <2>2. ASSUME NEW d \in Conn, link'[d] \in {"free", "opening"}
        PROVE  d \notin srv'.clients /\ srv'.out[d] = <<>>
    BY <1>5, <1>8, <1>9, <2>2
  <2>3. ASSUME NEW d \in Conn, link'[d] = "open" PROVE d \in srv'.open \/ Closing(srv'.out[d])
    <3>1. CASE d = c
      BY <1>8, <3>1
    <3>2. CASE d # c
      BY <1>5, <1>8, <1>9, <2>3, <3>2
    <3> QED
      BY <3>1, <3>2
  <2> QED
    BY <2>1, <2>2, <2>3 DEF Sides
<1>11. ASSUME NEW u \in Tab PROVE Claim(srv', link', up', tab'[u])
  <2>1. CASE u = t
    <3>1. tab'[u] = rec
      BY <1>1, <1>3, <2>1
    <3>2. Right(srv', c, Page(rec))
      BY <1>7, <1>8 DEF Right
    <3> QED
      BY <1>4, <3>1, <3>2 DEF Claim
  <2>2. CASE u # t
    <3> DEFINE e == tab[u].sock
    <3>1. tab'[u] = tab[u] /\ Claim(srv, link, up, tab[u]) /\ e \in Conn \cup {NoConn}
      BY <1>1, <1>3, <2>2 DEF Knowing
    <3>2. ASSUME e # NoConn, link'[e] = "open", e \in srv'.open
          PROVE  link[e] = "open" /\ e \in srv.open /\ Kept(srv, srv', e) /\ up'[e] = up[e]
      <4>1. e \in Conn \ {c}
        BY <1>6, <2>2, <3>1, <3>2
      <4> QED
        BY <1>8, <1>9, <3>2, <4>1, SameTelling
    <3> HIDE DEF e
    <3> QED
      BY <3>1, <3>2, ClaimKept DEF e
  <2> QED
    BY <2>1, <2>2
<1> QED
  BY <1>10, <1>11 DEF Knowing

\* What a message that is no close makes of a page is what Hears says.
LEMMA ToldHears ==
  ASSUME Consistent, NEW t \in Tab, NEW msg \in Message, msg.kind \notin {"replaced", "cut"}
  PROVE  LET rec == Told(t, msg)
         IN  /\ rec.sock = tab[t].sock /\ Page(rec) = Hears(Page(tab[t]), msg)
             /\ rec.steering => tab[t].steering /\ msg.kind # "game_init"
<1> DEFINE rec == Told(t, msg)
           k == Page(tab[t])
<1>1. tab[t] \in TabState
  BY ConsistentParts
<1>2. /\ k.session = tab[t].session /\ k.token = tab[t].token
      /\ k.isHost = tab[t].isHost /\ k.isSpectator = (Mode(tab[t]) # tab[t].missed)
  BY DEF Page
<1>3. CASE msg.kind = "welcome"
  <2> DEFINE missed == tab[t].replay /\ msg.isSpectator # tab[t].savedMode
  <2>1. rec = [tab[t] EXCEPT !.session = msg.player, !.token = msg.player,
                             !.isHost = msg.isHost, !.isSpectator = msg.isSpectator,
                             !.missed = missed]
    BY <1>3 DEF Told
  <2>2. Hears(k, msg) = View(msg.player, msg.isHost, msg.isSpectator)
    BY <1>3 DEF Hears
  <2>b. msg.isSpectator \in BOOLEAN /\ tab[t].savedMode \in BOOLEAN /\ tab[t].replay \in BOOLEAN
    BY <1>1, <1>3 DEF TabState, Message
  <2>m. missed = (tab[t].replay /\ msg.isSpectator # tab[t].savedMode)
    OBVIOUS
  <2> HIDE DEF rec, k, missed
  <2>3. /\ rec.sock = tab[t].sock /\ rec.steering = tab[t].steering
        /\ rec.session = msg.player /\ rec.token = msg.player
        /\ rec.isHost = msg.isHost /\ rec.isSpectator = msg.isSpectator
        /\ rec.missed = missed /\ rec.replay = tab[t].replay
        /\ rec.savedMode = tab[t].savedMode
    BY <1>1, <2>1 DEF TabState
  <2>t. (Mode(rec) # rec.missed) = msg.isSpectator
    <3>1. CASE tab[t].replay
      BY <2>b, <2>m, <2>3, <3>1 DEF Mode
    <3>2. CASE ~tab[t].replay
      BY <2>b, <2>m, <2>3, <3>2 DEF Mode
    <3> QED
      BY <3>1, <3>2
  <2>4. Page(rec) = Hears(k, msg)
    BY <2>2, <2>3, <2>t DEF Page, View
  <2> QED
    BY <1>3, <2>3, <2>4 DEF rec, k
<1>4. CASE msg.kind = "lobby"
  <2> DEFINE host  == msg.host = tab[t].session
             match == msg.running /\ tab[t].view = "live"
             able  == IF match THEN tab[t].startable
                      ELSE host /\ msg.canStart /\ ~msg.running
             shown == ~match
  <2>1. rec = [tab[t] EXCEPT !.isHost = host, !.panel = shown, !.startable = able]
    BY <1>4 DEF Told
  <2>2. Hears(k, msg) = [k EXCEPT !.isHost = host]
    BY <1>2, <1>4 DEF Hears
  <2>k. k = Page(tab[t])
    OBVIOUS
  <2> HIDE DEF rec, k, host, match, able, shown
  <2>3. /\ rec.sock = tab[t].sock /\ rec.steering = tab[t].steering
        /\ rec.session = tab[t].session /\ rec.token = tab[t].token
        /\ rec.isHost = host /\ rec.isSpectator = tab[t].isSpectator
        /\ rec.missed = tab[t].missed /\ rec.replay = tab[t].replay
        /\ rec.savedMode = tab[t].savedMode
    BY <1>1, <2>1 DEF TabState
  <2>t. Mode(rec) = Mode(tab[t])
    BY <2>3 DEF Mode
  <2>4. Page(rec) = Hears(k, msg)
    BY <2>2, <2>3, <2>k, <2>t DEF Page
  <2> QED
    BY <1>4, <2>3, <2>4 DEF rec, k
<1>5. CASE msg.kind = "game_init"
  <2> DEFINE shut == ReplayClosed(tab[t])
  <2>1. rec = [shut EXCEPT !.view = "init", !.isSpectator = msg.isSpectator,
                           !.missed = FALSE, !.steering = FALSE, !.panel = FALSE]
    BY <1>5 DEF Told, Initialized
  <2>2. Hears(k, msg) = [k EXCEPT !.isSpectator = msg.isSpectator]
    BY <1>5 DEF Hears
  <2>k. k = Page(tab[t])
    OBVIOUS
  <2>s. /\ shut \in TabState /\ shut.sock = tab[t].sock /\ ~shut.replay
        /\ shut.session = tab[t].session /\ shut.token = tab[t].token
        /\ shut.isHost = tab[t].isHost
    BY <1>1, ReplayPages
  <2>b. msg.isSpectator \in BOOLEAN
    BY <1>5 DEF Message
  <2> HIDE DEF rec, k, shut
  <2>3. /\ rec.sock = tab[t].sock /\ ~rec.steering
        /\ rec.session = tab[t].session /\ rec.token = tab[t].token
        /\ rec.isHost = tab[t].isHost /\ rec.isSpectator = msg.isSpectator
        /\ ~rec.replay /\ rec.missed = FALSE
    BY <2>1, <2>s DEF TabState
  <2>t. (Mode(rec) # rec.missed) = msg.isSpectator
    BY <2>b, <2>3 DEF Mode
  <2>4. Page(rec) = Hears(k, msg)
    BY <2>2, <2>3, <2>k, <2>t DEF Page
  <2> QED
    BY <2>3, <2>4 DEF rec, k
<1>6. CASE msg.kind \in {"state", "game_over"}
  <2>1. rec = [tab[t] EXCEPT !.view = "live"] \/ rec = [tab[t] EXCEPT !.ended = TRUE]
    BY <1>6 DEF Told
  <2>2. Hears(k, msg) = k
    BY <1>6 DEF Hears
  <2>k. k = Page(tab[t])
    OBVIOUS
  <2> HIDE DEF rec, k
  <2>3. /\ rec.sock = tab[t].sock /\ rec.steering = tab[t].steering
        /\ rec.session = tab[t].session /\ rec.token = tab[t].token
        /\ rec.isHost = tab[t].isHost /\ rec.isSpectator = tab[t].isSpectator
        /\ rec.missed = tab[t].missed /\ rec.replay = tab[t].replay
        /\ rec.savedMode = tab[t].savedMode
    BY <1>1, <2>1 DEF TabState
  <2>t. Mode(rec) = Mode(tab[t])
    BY <2>3 DEF Mode
  <2>4. Page(rec) = Hears(k, msg)
    BY <2>2, <2>3, <2>k, <2>t DEF Page
  <2> QED
    BY <1>6, <2>3, <2>4 DEF rec, k
<1>7. msg.kind \in {"welcome", "lobby", "game_init", "state", "game_over", "replaced", "cut"}
  BY DEF Message
<1> QED
  BY <1>3, <1>4, <1>5, <1>6, <1>7

LEMMA DeliverKnows ==
  ASSUME Consistent, Knowing, NEW t \in Tab, Deliver(t)
  PROVE  Knowing'
<1> DEFINE c == tab[t].sock
           msg == Head(srv.out[c])
           rec == Told(t, msg)
           q == Tail(srv.out[c])
<1>1. /\ tab \in [Tab -> TabState] /\ srv \in Table /\ OneSocket /\ Typed
      /\ srv.out \in [Conn -> Seq(Message)]
      /\ \A u \in Tab : tab[u].sock \in Conn \cup {NoConn}
  BY ConsistentParts DEF Consistent
<1>2. /\ c # NoConn /\ link[c] = "open" /\ srv.out[c] # <<>> /\ tab' = [tab EXCEPT ![t] = rec]
      /\ IF msg.kind \in {"replaced", "cut"}
         THEN link' = Ended(c) /\ srv' = Undelivered(c)
         ELSE link' = link /\ srv' = [srv EXCEPT !.out[c] = q]
      /\ up' = up
  BY DEF Deliver, Linked
<1>3. c \in Conn
  BY <1>1, <1>2
<1>4. /\ srv.out[c] \in Seq(Message) /\ msg \in Message /\ msg = Head(srv.out[c])
      /\ q = Tail(srv.out[c])
  BY <1>1, <1>2, <1>3
<1> HIDE DEF msg, q
<1>5. CASE msg.kind \in {"replaced", "cut"}
  <2>1. rec = AfterClose(t, msg.kind)
    BY <1>5 DEF Told
  <2>2. tab[t].open
    BY <1>1, <1>2 DEF OneSocket
  <2>3. rec.sock = NoConn
    BY <1>1, <2>1, <2>2, AfterCloseType
  <2> HIDE DEF rec
  <2> QED
    BY <1>2, <1>5, <2>3, GoneKnows
<1>6. CASE msg.kind \notin {"replaced", "cut"}
  <2>1. /\ rec.sock = c /\ Page(rec) = Hears(Page(tab[t]), msg)
        /\ rec.steering => tab[t].steering /\ msg.kind # "game_init"
    BY <1>4, <1>6, ToldHears
  <2>2. \A u \in Tab \ {t} : tab[u].sock # c
    BY <1>1, <1>2 DEF OneSocket
  <2> HIDE DEF c, rec
  <2>3. link' = link /\ srv' = [srv EXCEPT !.out[c] = q]
    BY <1>2, <1>6
  <2>4. /\ srv'.player = srv.player /\ srv'.at = srv.at /\ srv'.room = srv.room
        /\ srv'.open = srv.open /\ srv'.clients = srv.clients
        /\ srv'.out[c] = q /\ \A d \in Conn \ {c} : srv'.out[d] = srv.out[d]
    BY <1>1, <1>3, <2>3 DEF Table
  <2>5. /\ srv.open \subseteq srv.clients
        /\ \A d \in Conn : link[d] \in {"free", "opening"} => d \notin srv.clients
                                                              /\ srv.out[d] = <<>>
        /\ \A d \in Conn : link[d] = "open" => d \in srv.open \/ Closing(srv.out[d])
    BY DEF Knowing, Sides
  <2>6. Sides(srv', link')
    <3>1. srv'.open \subseteq srv'.clients
      BY <2>4, <2>5
    <3>2. ASSUME NEW d \in Conn, link'[d] \in {"free", "opening"}
          PROVE  d \notin srv'.clients /\ srv'.out[d] = <<>>
      BY <1>2, <2>3, <2>4, <2>5, <3>2
    <3>3. ASSUME NEW d \in Conn, link'[d] = "open"
          PROVE  d \in srv'.open \/ Closing(srv'.out[d])
      <4>1. CASE d = c
        <5>1. Closing(srv.out[c]) => Closing(q)
          BY <1>4, <1>6, ClosingTail
        <5>2. c \in srv.open \/ Closing(srv.out[c])
          BY <1>2, <1>3, <2>5
        <5> QED
          BY <2>4, <4>1, <5>1, <5>2
      <4>2. CASE d # c
        <5>1. srv'.out[d] = srv.out[d]
          BY <2>4, <4>2
        <5> QED
          BY <2>3, <2>4, <2>5, <3>3, <5>1
      <4> QED
        BY <4>1, <4>2
    <3> QED
      BY <3>1, <3>2, <3>3 DEF Sides
  <2>7. Claim(srv', link', up', rec)
    <3> SUFFICES ASSUME c \in srv.open
                 PROVE  /\ Right(srv', c, Page(rec))
                        /\ rec.steering => ~Late(srv', c) \/ Holds(up[c], "input")
      BY <1>2, <2>1, <2>4 DEF Claim
    <3>1. /\ Right(srv, c, Page(tab[t]))
          /\ tab[t].steering => ~Late(srv, c) \/ Holds(up[c], "input")
      <4>1. Claim(srv, link, up, tab[t]) /\ tab[t].sock = c
        BY DEF Knowing, c
      <4> QED
        BY <1>2, <4>1 DEF Claim
    <3>2. Heard(Page(tab[t]), srv.out[c]) = Heard(Page(rec), q)
      BY <1>2, <1>4, <2>1, HeardHead
    <3>3. Right(srv', c, Page(rec))
      BY <2>4, <3>1, <3>2 DEF Right, Truth
    <3>4. msg.kind # "game_init" => (Late(srv', c) => Late(srv, c))
      <4>1. Holds(srv.out[c], "game_init") <=> msg.kind = "game_init" \/ Holds(q, "game_init")
        BY <1>2, <1>4, HoldsTail
      <4> QED
        BY <2>4, <4>1 DEF Late, Owing
    <3> QED
      BY <2>1, <3>1, <3>3, <3>4
  <2>8. ASSUME NEW u \in Tab PROVE Claim(srv', link', up', tab'[u])
    <3>1. CASE u = t
      <4>1. tab'[u] = rec
        BY <1>1, <1>2, <3>1
      <4> QED
        BY <2>7, <4>1
    <3>2. CASE u # t
      <4> DEFINE e == tab[u].sock
      <4>1. tab'[u] = tab[u] /\ Claim(srv, link, up, tab[u]) /\ e \in Conn \cup {NoConn}
        BY <1>1, <1>2, <3>2 DEF Knowing
      <4>2. ASSUME e # NoConn, link'[e] = "open", e \in srv'.open
            PROVE  link[e] = "open" /\ e \in srv.open /\ Kept(srv, srv', e) /\ up'[e] = up[e]
        <5>1. e \in Conn \ {c}
          BY <2>2, <3>2, <4>1, <4>2
        <5> QED
          BY <1>2, <2>3, <2>4, <4>2, <5>1, SameTelling
      <4> HIDE DEF e
      <4> QED
        BY <4>1, <4>2, ClaimKept DEF e
    <3> QED
      BY <3>1, <3>2
  <2> QED
    BY <2>6, <2>8 DEF Knowing
<1> QED
  BY <1>5, <1>6

-----------------------------------------------------------------------------
LEMMA InitKnows == Init => Knowing
<1> SUFFICES ASSUME Init PROVE Knowing
  OBVIOUS
<1>1. /\ srv = EmptyTable /\ link = [c \in Conn |-> "free"] /\ tab = [t \in Tab |-> NoTab]
  BY DEF Init
<1>2. srv.open = {} /\ srv.clients = {} /\ \A c \in Conn : srv.out[c] = <<>>
  BY <1>1 DEF EmptyTable
<1> QED
  BY <1>1, <1>2, NoTabType DEF Knowing, Sides, Claim

LEMMA StepKnows == Consistent /\ Knowing /\ [Next]_vars => Knowing'
<1> SUFFICES ASSUME Consistent, Knowing, [Next]_vars PROVE Knowing'
  OBVIOUS
<1>1. CASE Users
  <2>1. ASSUME NEW t \in Tab, NEW r \in Room, NEW w \in BOOLEAN, Save(t, r, w)
        PROVE  Knowing'
    BY <2>1, SaveKnows
  <2>2. ASSUME NEW t \in Tab, NEW w \in BOOLEAN, NEW a \in BOOLEAN, Start(t, w, a)
        PROVE  Knowing'
    BY <2>2, StartKnows
  <2>3. ASSUME NEW t \in Tab, OpenTab(t) \/ CloseTab(t) \/ Steer(t) \/ PlacePing(t)
        PROVE  Knowing'
    BY <2>3, OpenTabKnows, CloseTabKnows, SteerKnows, PlacePingKnows
  <2>4. ASSUME NEW t \in Tab, OpenReplay(t) \/ CloseReplay(t)
        PROVE  Knowing'
    BY <2>4, OpenReplayKnows, CloseReplayKnows
  <2> QED
    BY <1>1, <2>1, <2>2, <2>3, <2>4 DEF Users
<1>2. CASE Network
  BY <1>2, BreakKnows, CutKnows DEF Network
<1>3. CASE System
  <2>1. ASSUME NEW t \in Tab, Establish(t) \/ Reconnect(t) \/ Deliver(t)
        PROVE  Knowing'
    BY <2>1, EstablishKnows, ReconnectKnows, DeliverKnows
  <2>2. ASSUME NEW c \in Conn, Receive(c) \/ Notice(c)
        PROVE  Knowing'
    BY <2>2, ReceiveKnows, NoticeKnows
  <2>3. ASSUME NEW r \in Room, Tick(r)
        PROVE  Knowing'
    BY <2>3, TickKnows
  <2> QED
    BY <1>3, <2>1, <2>2, <2>3 DEF System
<1>4. CASE UNCHANGED vars
  BY <1>4 DEF vars, Knowing
<1> QED
  BY <1>1, <1>2, <1>3, <1>4 DEF Next

\* With nothing on its way to it, a tab knows what it will know.
LEMMA NothingUnderWay ==
  ASSUME Consistent, Knowing, NEW t \in Tab, Linked(t), srv.out[tab[t].sock] = <<>>,
         srv.player[tab[t].sock] # NoPlayer
  PROVE  /\ Page(tab[t]) = Truth(srv, tab[t].sock)
         /\ tab[t].steering => ~Owing(srv, tab[t].sock) \/ Holds(up[tab[t].sock], "input")
<1> DEFINE c == tab[t].sock
<1>1. c \in Conn /\ srv.out \in [Conn -> Seq(Message)] /\ Claim(srv, link, up, tab[t])
  BY ConsistentParts DEF Knowing, Linked
<1>2. link[c] = "open" /\ c # NoConn
  BY DEF Linked
<1>3. srv.out[c] = <<>>
  OBVIOUS
<1>4. c \in srv.open
  BY <1>1, <1>2, <1>3 DEF Knowing, Sides, Closing
<1>5. /\ Right(srv, c, Page(tab[t]))
      /\ tab[t].steering => ~Late(srv, c) \/ Holds(up[c], "input")
  BY <1>1, <1>2, <1>4 DEF Claim
<1>6. Heard(Page(tab[t]), srv.out[c]) = Page(tab[t])
  BY <1>1, <1>3, HeardNothing
<1>7. ~Holds(srv.out[c], "game_init")
  BY <1>3 DEF Holds
<1> QED
  BY <1>5, <1>6, <1>7 DEF Right, Late

LEMMA KnowingTells == Consistent /\ Knowing => TabKnowsItself /\ KeysArrive
<1> SUFFICES ASSUME Consistent, Knowing PROVE TabKnowsItself /\ KeysArrive
  OBVIOUS
<1>1. TabKnowsItself
  <2> SUFFICES ASSUME NEW t \in Tab, Linked(t), srv.out[tab[t].sock] = <<>>,
                      srv.player[tab[t].sock] # NoPlayer
               PROVE  LET c == tab[t].sock
                          m == srv.room[srv.at[c]]
                      IN  /\ tab[t].session = srv.player[c] /\ tab[t].token = srv.player[c]
                          /\ tab[t].isHost = (m.host = srv.player[c])
                          /\ (Mode(tab[t]) = (srv.player[c] \in m.spectator)) = ~tab[t].missed
    BY DEF TabKnowsItself
  <2> DEFINE c == tab[t].sock
             watches == srv.player[c] \in srv.room[srv.at[c]].spectator
  <2>1. Page(tab[t]) = Truth(srv, c)
    BY NothingUnderWay
  <2>2. /\ tab[t].session = srv.player[c] /\ tab[t].token = srv.player[c]
        /\ tab[t].isHost = (srv.room[srv.at[c]].host = srv.player[c])
        /\ (Mode(tab[t]) # tab[t].missed) = watches
    BY <2>1 DEF Page, Truth, View
  <2>3. Mode(tab[t]) \in BOOLEAN /\ tab[t].missed \in BOOLEAN /\ watches \in BOOLEAN
    BY ConsistentParts DEF Mode, TabState
  <2>4. (Mode(tab[t]) = watches) = ~tab[t].missed
    <3> HIDE DEF watches
    <3> QED  BY <2>2, <2>3
  <2> QED
    BY <2>2, <2>4
<1>2. KeysArrive
  <2> SUFFICES ASSUME NEW t \in Tab, Linked(t), srv.out[tab[t].sock] = <<>>,
                      up[tab[t].sock] = <<>>, srv.player[tab[t].sock] # NoPlayer,
                      tab[t].steering,
                      srv.player[tab[t].sock] \in srv.room[srv.at[tab[t].sock]].live
               PROVE  srv.player[tab[t].sock] \in srv.room[srv.at[tab[t].sock]].steered
    BY DEF KeysArrive
  <2>1. ~Owing(srv, tab[t].sock) \/ Holds(up[tab[t].sock], "input")
    BY NothingUnderWay
  <2>2. ~Holds(up[tab[t].sock], "input")
    BY DEF Holds
  <2> QED
    BY <2>1, <2>2 DEF Owing
<1> QED
  BY <1>1, <1>2

-----------------------------------------------------------------------------
\* Whatever tabs, network and server do, the state has its shape; above all,
\* each tab of main.ts has a socket or a timer for the next one and never both,
\* and no connection is the socket of two tabs.
THEOREM TypeCorrect == Spec => []TypeOK
<1>1. Init => Consistent
  BY InitConsistent
<1>2. Consistent /\ [Next]_vars => Consistent'
  BY StepConsistent
<1>3. Consistent => TypeOK
  BY ConsistentTypes
<1> QED
  BY <1>1, <1>2, <1>3, PTL DEF Spec

\* After every handler of the TypeScript server its records agree: contexts,
\* active connections and flags name the same connections, nobody is in two
\* rooms, each room has a host that is there, rooms go with their last
\* connection and match, and a match has the members of its room.
THEOREM RoomsCorrect == Spec => []RoomsAreApart
<1>1. Init => Consistent
  BY InitConsistent
<1>2. Consistent /\ [Next]_vars => Consistent'
  BY StepConsistent
<1>3. Consistent => RoomsAreApart
  BY ConsistentTypes
<1> QED
  BY <1>1, <1>2, <1>3, PTL DEF Spec

\* A tab of main.ts that has handled every message sent to it holds the id and
\* the token of the member it is for the server, and agrees with the server on
\* whether it is host and whether it watches, whatever other tabs, closes and
\* matches did in between.  Behind an open replay this is said of the mode that
\* closing it goes back to, and a mode is wrong exactly when a welcome changed it
\* behind a replay and neither a welcome nor a match came since.
THEOREM KnowsCorrect == Spec => []TabKnowsItself
<1>1. Init => Consistent /\ Knowing
  BY InitConsistent, InitKnows
<1>2. Consistent /\ Knowing /\ [Next]_vars => (Consistent /\ Knowing)'
  BY StepConsistent, StepKnows
<1>3. Consistent /\ Knowing => TabKnowsItself
  BY KnowingTells
<1> QED
  BY <1>1, <1>2, <1>3, PTL DEF Spec

\* The resets of currentDir in main.ts, on a new connection and at the start of
\* a match, lose no key: when nothing is under way either way, the seat of a
\* player who holds a direction has that direction.
THEOREM KeysCorrect == Spec => []KeysArrive
<1>1. Init => Consistent /\ Knowing
  BY InitConsistent, InitKnows
<1>2. Consistent /\ Knowing /\ [Next]_vars => (Consistent /\ Knowing)'
  BY StepConsistent, StepKnows
<1>3. Consistent /\ Knowing => KeysArrive
  BY KnowingTells
<1> QED
  BY <1>1, <1>2, <1>3, PTL DEF Spec
=============================================================================
