---------------------------- MODULE NonceLedger ----------------------------
(***************************************************************************)
(* What a nonce store promises (the NonceStore trait): the store is a set  *)
(* of outstanding nonces, each bound to the verifier that issued it and to *)
(* an expiry; at most Capacity are outstanding; a nonce leaves the set     *)
(* only because its own verifier consumed it, once and in time, or because *)
(* it expired. A consume is judged by a reading of the clock that may be   *)
(* old by then, and is answered with what it found: Consumed, Expired or   *)
(* Unknown. There are no shards, counters, heaps or half-done calls here:  *)
(* every operation is one step.                                            *)
(***************************************************************************)
EXTENDS Naturals, FiniteSets

CONSTANTS
  Callers,     \* those that may be inside the store at once
  Nonces,      \* the nonces that can be issued
  Verifiers,   \* the AIDs that issue and consume them
  Capacity,    \* bound on outstanding nonces
  NoRecord     \* value of a nonce that is not outstanding

VARIABLES
  live,        \* outstanding record of each nonce, or NoRecord
  issued,      \* how often each nonce was issued
  consumed,    \* how often each nonce was reported Consumed
  told,        \* what a consume that has not returned was told, or NoRecord
  clock        \* the time, in seconds

records == <<live, issued, consumed, clock>>
ledgerVars == <<records, told>>

Record == [verifier : Verifiers, expires_at : Nat]

Outstanding == {n \in Nonces : live[n] # NoRecord}
OutstandingFor(n, v) == live[n] # NoRecord /\ live[n].verifier = v
ExpiredBy(now) == {n \in Outstanding : live[n].expires_at < now}

LedgerInit ==
  /\ live = [n \in Nonces |-> NoRecord]
  /\ issued = [n \in Nonces |-> 0]
  /\ consumed = [n \in Nonces |-> 0]
  /\ told = [c \in Callers |-> NoRecord]
  /\ clock = 0

LedgerIssue(n) ==
  /\ live[n] = NoRecord
  /\ Cardinality(Outstanding) < Capacity
  /\ live'[n] \in Record
  /\ live' = [live EXCEPT ![n] = live'[n]]
  /\ issued' = [issued EXCEPT ![n] = @ + 1]
  /\ UNCHANGED <<consumed, told, clock>>

\* Consumed: v's own nonce, and v read the clock no later than its expiry.
Spend(n, v, now) ==
  /\ OutstandingFor(n, v) /\ now <= live[n].expires_at
  /\ live' = [live EXCEPT ![n] = NoRecord]
  /\ consumed' = [consumed EXCEPT ![n] = @ + 1]
  /\ UNCHANGED <<issued, clock>>

\* Expired: v's own, and v came too late; the nonce is gone all the same.
Lapse(n, v, now) ==
  /\ OutstandingFor(n, v) /\ n \in ExpiredBy(now)
  /\ live' = [live EXCEPT ![n] = NoRecord]
  /\ UNCHANGED <<issued, consumed, clock>>

\* Any set of expired nonces may go at once; a live one never does.
Drop(S, now) ==
  /\ S \subseteq ExpiredBy(now)
  /\ live' = [n \in Nonces |-> IF n \in S THEN NoRecord ELSE live[n]]
  /\ UNCHANGED <<issued, consumed, clock>>

\* c asks for n in v's name; its reading of the clock may be old by now.
LedgerConsume(c, n, v, now, outcome) ==
  /\ told' = [told EXCEPT ![c] = [nonce |-> n, verifier |-> v, now |-> now, outcome |-> outcome]]
  /\ now \in 0..clock
  /\ \/ outcome = "Consumed" /\ Spend(n, v, now)
     \/ outcome = "Expired" /\ Lapse(n, v, now)
     \/ outcome = "Unknown" /\ ~OutstandingFor(n, v) /\ \E S \in SUBSET Nonces : Drop(S, now)

LedgerReturn(c) ==
  /\ told' = [told EXCEPT ![c] = NoRecord]
  /\ UNCHANGED records

LedgerExpire(S) == Drop(S, clock) /\ UNCHANGED told

LedgerTick ==
  /\ clock' = clock + 1
  /\ UNCHANGED <<live, issued, consumed, told>>

LedgerNext ==
  \/ \E n \in Nonces : LedgerIssue(n)
  \/ \E c \in Callers, n \in Nonces, v \in Verifiers, now \in 0..clock,
        outcome \in {"Consumed", "Expired", "Unknown"} : LedgerConsume(c, n, v, now, outcome)
  \/ \E c \in Callers : LedgerReturn(c)
  \/ \E S \in SUBSET Nonces : LedgerExpire(S)
  \/ LedgerTick

LedgerSpec == LedgerInit /\ [][LedgerNext]_ledgerVars
=============================================================================
