---------------------------- MODULE PingManager -----------------------------
(***************************************************************************)
(* The map pings of a match: a bounded list with a time to live, a cap per *)
(* owner and a sliding rate limit.  rust/server/src/ping_manager.rs and    *)
(* reference/ts-server/src/server/ping_manager.ts do the same.             *)
(*                                                                         *)
(* A ping is named by its id.  Ids only grow and the list is only appended *)
(* to, so the list is the set of its pings and its order is that of ids.   *)
(* Positions, kinds and names are left out.                                *)
(***************************************************************************)
EXTENDS Naturals, FiniteSets

CONSTANTS
  Owner,         \* the players
  Ttl,           \* ttl_ms
  MaxActive,     \* max_active_pings
  MaxPerPlayer,  \* max_per_player
  RateWindow,    \* rate_window_ms
  MaxPerWindow,  \* max_per_window
  MaxTime,       \* bound: last game time considered
  MaxPings       \* bound: pings ever placed

ASSUME OptionsAssumption ==
  /\ Ttl \in Nat \ {0} /\ RateWindow \in Nat
  /\ MaxActive \in Nat \ {0} /\ MaxPerPlayer \in Nat \ {0}
  /\ MaxPerWindow \in Nat
  /\ MaxTime \in Nat /\ MaxPings \in Nat

VARIABLES
  pings,    \* the list
  history,  \* per owner, the recent placements (history_by_owner)
  nextId,   \* NEXT_PING_ID
  now,      \* the game time the manager was last called at
  log       \* every placement accepted in this match; not in the code

vars == <<pings, history, nextId, now, log>>

Ping == [id : Nat, owner : Owner, expires : Nat]
Placement == [id : Nat, owner : Owner, at : Nat]

TypeOK ==
  /\ pings \in SUBSET Ping /\ IsFiniteSet(pings)
  /\ history \in [Owner -> SUBSET Placement]
  /\ nextId \in Nat
  /\ now \in Nat
  /\ log \in SUBSET Placement /\ IsFiniteSet(log)

Init ==
  /\ pings = {}
  /\ history = [o \in Owner |-> {}]
  /\ nextId = 1
  /\ now = 0
  /\ log = {}

-----------------------------------------------------------------------------
OwnedBy(S, o) == {p \in S : p.owner = o}

\* Mutants: one too many; the newest go instead of the oldest.
NewestAndOne(S, k) == {p \in S : Cardinality({q \in S : q.id > p.id}) <= k}
Oldest(S, k) == {p \in S : Cardinality({q \in S : q.id < p.id}) < k}

\* The k newest elements of S: what is left when the front of the list is
\* removed until k are left.
Newest(S, k) == {p \in S : Cardinality({q \in S : q.id > p.id}) < k}

Unexpired(S, t) == {p \in S : p.expires > t}

\* Mutant: a placement exactly one window ago is forgotten.
RecentOpen(S, t) == {h \in S : t - h.at < RateWindow}

Recent(S, t) == {h \in S : t - h.at <= RateWindow}

\* Mutant: owners without recent placements lose their entry for good.
PrunedOwners(t) ==
  [o \in {p \in DOMAIN history : Recent(history[p], t) # {}} |-> Recent(history[o], t)]

PrunedHistory(t) == [o \in Owner |-> Recent(history[o], t)]

\* trim_owner_pings: room for one more ping of o under its cap.
TrimOwner(S, o) == (S \ OwnedBy(S, o)) \cup Newest(OwnedBy(S, o), MaxPerPlayer - 1)

\* Room for one more ping under the cap of the list.
TrimAll(S) == Newest(S, MaxActive - 1)

-----------------------------------------------------------------------------
\* prune, by the tick loop and for the first state sent to a connection.
Snapshot ==
  /\ pings' = Unexpired(pings, now)
  /\ history' = PrunedHistory(now)
  /\ UNCHANGED <<nextId, now, log>>

Accept(o) ==
  LET placement == [id |-> nextId, owner |-> o, at |-> now]
      ping      == [id |-> nextId, owner |-> o, expires |-> now + Ttl]
  IN  /\ pings' = TrimAll(TrimOwner(Unexpired(pings, now), o)) \cup {ping}
      /\ history' = [PrunedHistory(now) EXCEPT ![o] = @ \cup {placement}]
      /\ log' = log \cup {placement}
      /\ nextId' = nextId + 1

Place(o, spectator) ==
  /\ nextId <= MaxPings
  /\ UNCHANGED now
  /\ IF ~spectator /\ Cardinality(PrunedHistory(now)[o]) < MaxPerWindow
     THEN Accept(o)
     ELSE /\ pings' = Unexpired(pings, now)
          /\ history' = PrunedHistory(now)
          /\ UNCHANGED <<nextId, log>>

\* clear, when a match starts and when it is over.
Clear ==
  /\ pings' = {}
  /\ history' = [o \in Owner |-> {}]
  /\ log' = {}
  /\ UNCHANGED <<nextId, now>>

\* The engine's clock moves on between the calls.
Elapse ==
  /\ now < MaxTime
  /\ now' = now + 1
  /\ UNCHANGED <<pings, history, nextId, log>>

Next ==
  \/ Snapshot
  \/ \E o \in Owner, spectator \in BOOLEAN : Place(o, spectator)
  \/ Clear
  \/ Elapse

Spec == Init /\ [][Next]_vars

-----------------------------------------------------------------------------
\* The payload of a snapshot is bounded: the caps of the list and of every
\* owner hold whatever mixture of expiry and eviction made room.
CapsHold ==
  /\ Cardinality(pings) <= MaxActive
  /\ \A o \in Owner : Cardinality(OwnedBy(pings, o)) <= MaxPerPlayer

\* The rate limit is a sliding one: no interval of RateWindow, wherever it
\* starts, holds more than MaxPerWindow accepted placements of an owner,
\* although the history that enforces it is pruned all the time.
RateLimited ==
  \A o \in Owner, start \in 0..MaxTime :
    Cardinality({e \in OwnedBy(log, o) : start <= e.at /\ e.at <= start + RateWindow})
      <= MaxPerWindow

\* A ping that has time left disappears only to make room for a newer one, of
\* its owner at the owner's cap or of anybody at the cap of the list, and then
\* no older one of those survives it.
EvictsOldest ==
  [][log' # {} =>
       \A p \in Unexpired(pings, now) \ pings' :
         \E new \in pings' \ pings :
           \/ /\ new.owner = p.owner
              /\ Cardinality(OwnedBy(Unexpired(pings, now), p.owner)) >= MaxPerPlayer
              /\ \A q \in OwnedBy(pings', p.owner) : q.id > p.id
           \/ /\ Cardinality(pings') = MaxActive
              /\ \A q \in pings' : q.id > p.id]_vars

=============================================================================
