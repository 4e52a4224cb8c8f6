----------------------------- MODULE Revocation -----------------------------
(***************************************************************************)
(* Revocation lists: the snapshots issuers sign and serve (ListRevoked in  *)
(* crates/aitp/src/transport/server.rs) and the RevocationFetcher that     *)
(* fetches, verifies and caches them for the handshakes of one process     *)
(* (transport/revocation_fetch.rs). A snapshot once served may be          *)
(* delivered late or again. A call reads the clock before it waits for the *)
(* issuer's slot, and holds the slot's async mutex over the fetch.         *)
(***************************************************************************)
EXTENDS Integers, Sequences

CONSTANTS
  Tasks,         \* handshakes in progress
  Issuers,       \* AIDs
  Producers,     \* issuers with a RevocationListProducer; only they revoke
  Advertises,    \* issuers whose Manifest advertises a list URL
  Tokens,        \* jtis
  IssuerOf,      \* who issued each
  Ahead,         \* offset of each issuer's clock
  FailModes,     \* policies to consider: open, closed, soft, unadvertised
  MaxStaleness,  \* policy: max_staleness
  CacheTtl,      \* policy: cache_ttl
  SnapshotTtl,   \* lifetime of a served snapshot
  Refresh,       \* DEFAULT_EMPTY_SNAPSHOT_REFRESH_SECS
  MaxTime,       \* bound of the model: last second of the clock
  None

Snapshot == [issuer : Issuers, published_at : Nat, expires_at : Nat, revoked : SUBSET Tokens]
Slot == [snap : Snapshot, cached_at : Nat]

ASSUME ConstantAssumption ==
  /\ Producers \subseteq Issuers /\ Advertises \subseteq Issuers
  /\ IssuerOf \in [Tokens -> Issuers] /\ Ahead \in [Issuers -> Nat]
  /\ FailModes \subseteq {"open", "closed", "soft", "unadvertised"}
  /\ {MaxStaleness, CacheTtl, SnapshotTtl, Refresh, MaxTime} \subseteq Nat
  /\ None \notin Issuers \cup Nat \cup Snapshot \cup Slot

VARIABLES
  revoked_at,  \* when its issuer revoked a token, or None
  empty,       \* SignedEmptySnapshot::cached of each issuer
  slot,        \* the fetcher's cache: a verified snapshot and its cached_at
  queue,       \* the slot's async mutex: its holder first, then who waits
  pc,          \* where each handshake is
  peer,        \* the issuer it asks about
  now,         \* its reading of the clock
  status,      \* PreparedRevocation::status, None for an error
  clock

issuerVars == <<revoked_at, empty>>
taskVars == <<pc, peer, now, status>>
vars == <<issuerVars, slot, queue, taskVars, clock>>

Init ==
  /\ revoked_at = [j \in Tokens |-> None]
  /\ empty = [i \in Issuers |-> None]
  /\ slot = [i \in Issuers |-> None]
  /\ queue = [i \in Issuers |-> << >>]
  /\ pc = [t \in Tasks |-> "idle"]
  /\ peer = [t \in Tasks |-> None]
  /\ now = [t \in Tasks |-> 0]
  /\ status = [t \in Tasks |-> None]
  /\ clock = 0

(***************************************************************************)
(* Issuers.                                                                *)
(***************************************************************************)
Signed(i, at, R) ==
  [issuer |-> i, published_at |-> at + Ahead[i], expires_at |-> at + Ahead[i] + SnapshotTtl,
   revoked |-> R]

Revoke(j) ==
  /\ IssuerOf[j] \in Producers /\ revoked_at[j] = None
  /\ revoked_at' = [revoked_at EXCEPT ![j] = clock]
  /\ UNCHANGED <<empty, slot, queue, taskVars, clock>>

\* What a producer may have answered so far: the list of each second, with
\* what was revoked before it and any of what was revoked during it.
Produced(i) ==
  LET before(at) == {j \in Tokens : IssuerOf[j] = i /\ revoked_at[j] \in 0..(at - 1)}
      during(at) == {j \in Tokens : IssuerOf[j] = i /\ revoked_at[j] = at}
  IN  UNION {{Signed(i, at, before(at) \cup R) : R \in SUBSET during(at)} : at \in 0..clock}

\* SignedEmptySnapshot::current: reused for Refresh seconds, then re-signed.
Reusable(i) ==
  empty[i] # None /\ clock + Ahead[i] - empty[i].published_at \in 0..(Refresh - 1)
ServeEmpty(i) ==
  /\ i \notin Producers
  /\ empty' = [empty EXCEPT ![i] = IF Reusable(i) THEN @ ELSE Signed(i, clock, {})]
  /\ UNCHANGED <<revoked_at, slot, queue, taskVars, clock>>

(***************************************************************************)
(* RevocationFetcher::prepare.                                             *)
(***************************************************************************)
Goto(t, to) == pc' = [pc EXCEPT ![t] = to]
Leave(t) == queue' = [queue EXCEPT ![peer[t]] = SelectSeq(@, LAMBDA u : u # t)]
Holds(t) == queue[peer[t]] # << >> /\ Head(queue[peer[t]]) = t

\* Without an advertised URL there is nothing to fetch.
Prepare(t, i) ==
  /\ pc[t] = "idle"
  /\ peer' = [peer EXCEPT ![t] = i]
  /\ now' = [now EXCEPT ![t] = clock]
  /\ IF i \in Advertises
     THEN Goto(t, "wait") /\ queue' = [queue EXCEPT ![i] = Append(@, t)]
     ELSE Goto(t, "decide") /\ UNCHANGED queue
  /\ UNCHANGED <<issuerVars, slot, status, clock>>

\* Mutant of Fresh: a snapshot stays cached until it expires.
FreshForever(c, at) == c.snap.expires_at >= at

Fresh(c, at) == at - c.cached_at <= CacheTtl /\ c.snap.expires_at >= at

\* The slot is ours: use what is cached, or fetch.
Enter(t) ==
  LET c == slot[peer[t]]
  IN  /\ pc[t] = "wait" /\ Holds(t)
      /\ IF c # None /\ Fresh(c, now[t])
         THEN /\ status' = [status EXCEPT ![t] = c.snap]
              /\ Goto(t, "decide")
              /\ Leave(t)
         ELSE Goto(t, "fetch") /\ UNCHANGED <<status, queue>>
      /\ UNCHANGED <<issuerVars, slot, peer, now, clock>>

\* verify_revocation_list: expiry and issuer; the signature is ideal.
ListVerified(s, i, at) == s.expires_at >= at /\ s.issuer = i

\* Mutant of SnapshotVerified: the list is taken from whoever signed it.
SnapshotOfAnyone(s, i, at) == s.expires_at >= at /\ at - s.published_at <= MaxStaleness

\* verify_snapshot: then max_staleness.
SnapshotVerified(s, i, at) == ListVerified(s, i, at) /\ at - s.published_at <= MaxStaleness

\* Some snapshot arrives, old or new, of this issuer or not.
Fetched(t, s) ==
  LET i == peer[t]
      ok == SnapshotVerified(s, i, now[t])
  IN  /\ pc[t] = "fetch"
      /\ slot' = IF ok THEN [slot EXCEPT ![i] = [snap |-> s, cached_at |-> now[t]]] ELSE slot
      /\ status' = [status EXCEPT ![t] = IF ok THEN s ELSE None]
      /\ Goto(t, "decide")
      /\ Leave(t)
      /\ UNCHANGED <<issuerVars, peer, now, clock>>

\* Mutant of FetchFailed: the slot stays locked after an error.
FetchFailedKeepsSlot(t) ==
  /\ pc[t] = "fetch"
  /\ Goto(t, "decide")
  /\ UNCHANGED <<issuerVars, slot, queue, peer, now, status, clock>>

\* Unreachable, refused, malformed, too large, or the timeout.
FetchFailed(t) ==
  /\ pc[t] = "fetch"
  /\ Goto(t, "decide")
  /\ Leave(t)
  /\ UNCHANGED <<issuerVars, slot, peer, now, status, clock>>

(***************************************************************************)
(* PreparedRevocation::decide.                                             *)
(***************************************************************************)
Unavailable(i, mode) ==
  IF mode = "open" \/ (mode = "unadvertised" /\ i \notin Advertises)
  THEN "clear"
  ELSE IF mode = "soft" THEN "safe" ELSE "unavailable"

\* What handshake t is told of token j under a policy's fail mode.
Outcome(t, j, mode) ==
  IF status[t] # None /\ IssuerOf[j] = peer[t]
  THEN IF j \in status[t].revoked THEN "revoked" ELSE "clear"
  ELSE Unavailable(peer[t], mode)

Finish(t) ==
  /\ Goto(t, "idle")
  /\ peer' = [peer EXCEPT ![t] = None]
  /\ now' = [now EXCEPT ![t] = 0]
  /\ status' = [status EXCEPT ![t] = None]

\* The synchronous handshake step, which asks for its outcome and ends.
Decide(t) ==
  /\ pc[t] = "decide"
  /\ Finish(t)
  /\ UNCHANGED <<issuerVars, slot, queue, clock>>

\* The handler is dropped with its client's connection, and its guard with it.
Dropped(t) ==
  /\ pc[t] \in {"wait", "fetch"}
  /\ Leave(t)
  /\ Finish(t)
  /\ UNCHANGED <<issuerVars, slot, clock>>

Tick ==
  /\ clock < MaxTime
  /\ clock' = clock + 1
  /\ UNCHANGED <<issuerVars, slot, queue, taskVars>>

Deliverable ==
  {empty[i] : i \in {k \in Issuers : empty[k] # None}} \cup UNION {Produced(i) : i \in Producers}
FetchEnds(t) == FetchFailed(t) \/ \E s \in Deliverable : Fetched(t, s)

Next ==
  \/ \E j \in Tokens : Revoke(j)
  \/ \E i \in Issuers : ServeEmpty(i)
  \/ \E t \in Tasks : Enter(t) \/ FetchEnds(t) \/ Dropped(t) \/ Decide(t)
  \/ \E t \in Tasks, i \in Issuers : Prepare(t, i)
  \/ Tick

\* A handshake that has the slot goes on, and a fetch ends: a request by its
\* timeout, the lookup of its host by the resolver's.
Spec == Init /\ [][Next]_vars /\ \A t \in Tasks : WF_vars(Enter(t)) /\ WF_vars(FetchEnds(t))

(***************************************************************************)
(* Properties.                                                             *)
(***************************************************************************)

Queued(t) == \E i \in Issuers : \E k \in DOMAIN queue[i] : queue[i][k] = t

\* Types, with exactly the calls in prepare queued for the slot, and only
\* its holder fetching.
TypeOK ==
  /\ revoked_at \in [Tokens -> Nat \cup {None}]
  /\ empty \in [Issuers -> Snapshot \cup {None}]
  /\ slot \in [Issuers -> Slot \cup {None}]
  /\ pc \in [Tasks -> {"idle", "wait", "fetch", "decide"}]
  /\ peer \in [Tasks -> Issuers \cup {None}]
  /\ now \in [Tasks -> 0..clock] /\ clock \in 0..MaxTime
  /\ status \in [Tasks -> Snapshot \cup {None}]
  /\ \A t \in Tasks : Queued(t) <=> pc[t] \in {"wait", "fetch"}
  /\ \A t \in Tasks : pc[t] = "fetch" => Holds(t)

\* When a token of i may not be accepted without a snapshot.
Strict(i, mode) ==
  mode \in {"closed", "soft"} \/ (mode = "unadvertised" /\ i \in Advertises)

\* A revocation takes effect in bounded time, whatever the network delivers
\* or loses and whoever filled the cache: under a strict policy no token is
\* found clear that was revoked longer ago than max_staleness and cache_ttl
\* together, give or take the issuer's clock.
RevocationTakesEffect ==
  \A t \in Tasks, j \in Tokens, mode \in FailModes :
     /\ pc[t] = "decide" /\ Strict(peer[t], mode)
     /\ Outcome(t, j, mode) = "clear" /\ revoked_at[j] # None
     => now[t] - revoked_at[j] <= MaxStaleness + CacheTtl + Ahead[IssuerOf[j]]

\* A decision rests on a snapshot of the very issuer, not past its expiry at
\* the time the deciding call read, though another call fetched it.
SnapshotFits ==
  \A t \in Tasks : status[t] # None =>
     status[t].issuer = peer[t] /\ status[t].expires_at >= now[t]

\* A snapshot keeps from no one a revocation that is older than it.
Honest(s) ==
  /\ s.published_at <= clock + Ahead[s.issuer]
  /\ \A j \in Tokens : IssuerOf[j] = s.issuer /\ j \notin s.revoked /\ revoked_at[j] # None =>
        s.published_at <= revoked_at[j] + Ahead[s.issuer]

\* What a cached snapshot was when its fetcher verified it.
CacheOK(i) ==
  slot[i] # None =>
    LET c == slot[i]
    IN  c.snap.issuer = i /\ Honest(c.snap) /\ c.cached_at - c.snap.published_at <= MaxStaleness

\* What a call holds, from the cache or from its own fetch.
StatusOK(t) ==
  status[t] # None =>
    /\ pc[t] = "decide" /\ Honest(status[t])
    /\ status[t].issuer = peer[t] /\ status[t].expires_at >= now[t]
    /\ now[t] - status[t].published_at <= MaxStaleness + CacheTtl

\* The inductive invariant of the fetcher.
FetcherInv ==
  /\ revoked_at \in [Tokens -> Nat \cup {None}]
  /\ empty \in [Issuers -> Snapshot \cup {None}]
  /\ slot \in [Issuers -> Slot \cup {None}]
  /\ pc \in [Tasks -> {"idle", "wait", "fetch", "decide"}]
  /\ peer \in [Tasks -> Issuers \cup {None}]
  /\ now \in [Tasks -> Nat] /\ clock \in Nat
  /\ status \in [Tasks -> Snapshot \cup {None}]
  /\ \A t \in Tasks : pc[t] = "idle" <=> peer[t] = None
  /\ \A i \in Issuers : empty[i] # None => i \notin Producers /\ empty[i].issuer = i /\ Honest(empty[i])
  /\ \A i \in Issuers : CacheOK(i)
  /\ \A t \in Tasks : StatusOK(t)
  /\ \A j \in Tokens : revoked_at[j] # None => IssuerOf[j] \in Producers /\ revoked_at[j] <= clock

\* "Snapshots older than [max_staleness] are treated as no-snapshot".
FreshWhenUsed ==
  \A t \in Tasks : status[t] # None => now[t] - status[t].published_at <= MaxStaleness

\* prepare returns ("never fails"), also to a call that waits behind others
\* whose fetches fail or whose clients go away.
PrepareReturns == \A t \in Tasks : pc[t] \in {"wait", "fetch"} ~> pc[t] \in {"decide", "idle"}
=============================================================================
