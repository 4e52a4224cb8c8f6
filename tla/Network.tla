------------------------------ MODULE Network -------------------------------
(***************************************************************************)
(* What stands between the library and the network: the guard on outbound  *)
(* hosts, the TLS settings of the clients, the retry policy, and the       *)
(* source address of an inbound request. An IPv4 address is its four       *)
(* octets, an IPv6 address its eight 16-bit segments.                      *)
(***************************************************************************)
EXTENDS Checks

(***************************************************************************)
(* net_guard.rs.                                                           *)
(***************************************************************************)
IsCgnat(ip) == ip[1] = 100 /\ ip[2] \div 64 = 1

ClassifyV4(ip) ==
  CASE ip = <<0, 0, 0, 0>> -> "unspecified"
    [] ip = <<255, 255, 255, 255>> -> "broadcast"
    [] ip[1] \in 224..239 -> "multicast"
    [] ip[1] = 169 /\ ip[2] = 254 -> "link-local"
    [] ip[1] = 127 -> "loopback"
    [] \/ ip[1] = 10
       \/ ip[1] = 172 /\ ip[2] \in 16..31
       \/ ip[1] = 192 /\ ip[2] = 168 -> "rfc1918"
    [] IsCgnat(ip) -> "cgnat"
    [] OTHER -> "public"

ClassifyV6(ip) ==
  CASE SubSeq(ip, 1, 6) = <<0, 0, 0, 0, 0, 65535>> ->
         ClassifyV4(<<ip[7] \div 256, ip[7] % 256, ip[8] \div 256, ip[8] % 256>>)
    [] \A k \in 1..8 : ip[k] = 0 -> "unspecified"
    [] ip[1] \div 256 = 255 -> "multicast"
    [] ip[1] \div 64 = 1018 -> "link-local"
    [] (\A k \in 1..7 : ip[k] = 0) /\ ip[8] = 1 -> "loopback"
    [] ip[1] \div 512 = 126 -> "unique-local"
    [] OTHER -> "public"

Classify(ip) == IF Len(ip) = 4 THEN ClassifyV4(ip) ELSE ClassifyV6(ip)

Forbidden == {"unspecified", "broadcast", "multicast", "link-local"}

Permitted(mode, allow_loopback, ip) ==
  LET class == Classify(ip)
  IN  \/ class = "public"
      \/ class = "loopback" /\ allow_loopback
      \/ class \notin Forbidden /\ mode = "WarnPrivate"

\* resolve_checked_with: dns is the set of addresses the host has, or None
\* when its name does not resolve (the one error that is transient).
ResolveChecked(mode, allow_loopback, dns, none) ==
  Verdict(<<
    <<dns # none, "Network">>,
    <<dns # {}, "InsecureUrl">>,
    <<\/ dns = none \/ mode = "AllowAll"
      \/ \A ip \in dns : Permitted(mode, allow_loopback, ip), "InsecureUrl">> >>)

(***************************************************************************)
(* client_config.rs and tls_pinning.rs. A certificate has a root and an    *)
(* SPKI hash; a root that does not parse is skipped.                       *)
(***************************************************************************)
Roots(cfg) ==
  (IF cfg.use_only_extra_roots THEN {} ELSE cfg.built_in) \cup (cfg.extra_roots \ cfg.malformed)

\* Pins replace the roots, they are not checked as well.
IsPinned(pins, cert) == cert.parses /\ cert.spki \in pins
TlsAccepts(cfg, cert) ==
  IF cfg.spki_pins # {} THEN IsPinned(cfg.spki_pins, cert) ELSE cert.root \in Roots(cfg)

(***************************************************************************)
(* retry.rs: integers for nanoseconds, a multiplier and a jitter in        *)
(* percent.                                                                *)
(***************************************************************************)
RetryPolicy(max_attempts, base, cap, multiplier, jitter) ==
  [max_attempts |-> IF max_attempts = 0 THEN 1 ELSE max_attempts,
   base_delay |-> base, max_delay |-> cap,
   multiplier |-> IF multiplier < 1 THEN 1 ELSE multiplier,
   jitter |-> IF jitter > 100 THEN 100 ELSE jitter]

DelayBefore(p, attempt) ==
  IF attempt <= 1 THEN 0 ELSE Least(p.base_delay * p.multiplier ^ (attempt - 2), p.max_delay)

\* apply_jitter samples from this range.
Jittered(p, delay) ==
  (delay * (100 - p.jitter)) \div 100 .. (delay * (100 + p.jitter)) \div 100
JitteredDelayBefore(p, attempt) == Jittered(p, DelayBefore(p, attempt))

(***************************************************************************)
(* source_ip.rs. Addresses are canonical; xff is the list of hops of every *)
(* X-Forwarded-For header, in order, None for a hop that does not parse.   *)
(***************************************************************************)

\* Two addresses have their first bits in common.
PrefixEq(a, b, prefix) ==
  LET full == prefix \div 8
      rem == prefix % 8
  IN  /\ \A k \in 1..full : a[k] = b[k]
      /\ rem = 0 \/ a[full + 1] \div 2 ^ (8 - rem) = b[full + 1] \div 2 ^ (8 - rem)

Contains(proxy, ip) == Len(proxy.network) = Len(ip) /\ PrefixEq(proxy.network, ip, proxy.prefix)

\* Mutant of ResolveSourceIp: the hop furthest away is the client.
ResolveSourceIpFirst(peer, xff, real_ip, proxies, none) ==
  IF ~(\E p \in proxies : Contains(p, peer)) \/ xff = << >> \/ xff[1] = none THEN peer ELSE xff[1]

\* The nearest hop that no trusted proxy vouches for.
ResolveSourceIp(peer, xff, real_ip, proxies, none) ==
  LET trusted(ip) == \E p \in proxies : Contains(p, ip)
      walk[k \in 0..Len(xff)] ==     \* having looked at the hops after k
        IF k = Len(xff) THEN [ip |-> peer, on |-> TRUE]
        ELSE IF ~walk[k + 1].on \/ xff[k + 1] = none THEN [walk[k + 1] EXCEPT !.on = FALSE]
        ELSE [ip |-> xff[k + 1], on |-> trusted(xff[k + 1])]
  IN  IF ~trusted(peer) THEN peer
      ELSE IF xff # << >> THEN walk[0].ip
      ELSE IF real_ip # none THEN real_ip ELSE peer
=============================================================================
