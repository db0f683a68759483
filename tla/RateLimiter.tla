---------------------------- MODULE RateLimiter -----------------------------
(***************************************************************************)
(* The per-client rate limiter of internal/handler/ratelimit.go, with the  *)
(* address resolution that decides whose bucket a request is charged to.   *)
(*                                                                         *)
(* Allow holds the limiter's mutex throughout, so a call is one action.    *)
(* Tokens are counted in integer units: a request costs Cost of them and a *)
(* tick of the clock refills Rate (with ticks of a nanosecond, Cost is     *)
(* 10^9 and Rate is RATE_LIMIT_RPS).  The code keeps them in a float64;    *)
(* its rounding is left out.  A rate of zero switches the limiter off, and *)
(* is left out too.                                                        *)
(***************************************************************************)
EXTENDS Integers, Sequences

CONSTANTS
  Clients,   \* addresses requests come from
  Proxy,     \* address of the operator's own proxies
  NotAnIP,   \* a forwarded entry that does not parse
  Hops,      \* TRUSTED_PROXY_HOPS, as configured and as deployed
  Cost, Rate, Burst, TTL,
  MaxForged, \* bound: entries a client writes into X-Forwarded-For itself
  MaxTime,   \* bound: the last tick of the instance
  NoBucket

ASSUME PositiveUnits == Cost \in Nat \ {0} /\ Rate \in Nat \ {0} /\ Burst \in Nat
ASSUME PositiveTTL   == TTL \in Nat \ {0}
ASSUME Deployment    == Hops \in Nat /\ MaxForged \in Nat /\ MaxTime \in Nat
ASSUME AddressesApart == Proxy \notin Clients /\ NotAnIP \notin Clients \cup {Proxy}
ASSUME NullIsApart   == NoBucket \notin [tokens : 0..Burst, seen : 0..MaxTime]

(* A bucket refills completely within the time it is kept idle.  The       *)
(* defaults (20 a second, bursts of 40, ten minutes) satisfy it amply.     *)
ASSUME RefillsWithinTTL == Burst <= Rate * TTL

VARIABLES
  now,        \* the clock
  buckets,    \* the map, by address
  lastSweep,  \* when idle buckets were last dropped
  granted,    \* history: requests granted to each client
  last        \* history: who asked last, and the verdict

vars == <<now, buckets, lastSweep, granted, last>>

Addresses == Clients \cup {Proxy}
Bucket    == [tokens : 0..Burst, seen : 0..MaxTime]

Tracked(a) == buckets[a] # NoBucket

Lesser(m, n) == IF m < n THEN m ELSE n

-----------------------------------------------------------------------------
(* Whose bucket: ClientIP.                                                 *)

(* Mutated: the leftmost entry.                                            *)
ForwardedFor_Leftmost(chain) == chain[1]

(* The entry Hops from the right of the forwarded chain.                   *)
ForwardedFor(chain) == chain[Len(chain) - Hops + 1]

(* A chain too short, or an entry that is no address: the transport's.     *)
ClientIP(peer, chain) ==
  IF Hops > 0 /\ Len(chain) >= Hops /\ ForwardedFor(chain) # NotAnIP
  THEN ForwardedFor(chain) ELSE peer

(* Each proxy appends the address it was called from.                      *)
Appended(client) == [i \in 1..Hops |-> IF i = 1 THEN client ELSE Proxy]
Peer(client)     == IF Hops = 0 THEN client ELSE Proxy

Forged == UNION {[1..n -> Addresses \cup {NotAnIP}] : n \in 0..MaxForged}

-----------------------------------------------------------------------------
Init ==
  /\ now = 0
  /\ buckets = [a \in Addresses |-> NoBucket]
  /\ lastSweep = -TTL
  /\ granted = [c \in Clients |-> 0]
  /\ last = << >>

(* Mutated: drops every bucket a TTL has passed over, idle or not.         *)
Swept_All == [a \in Addresses |-> IF now - lastSweep >= TTL THEN NoBucket ELSE buckets[a]]

(* Mutated: the sweep never falls due.                                     *)
SweepDue_Never == FALSE

(* sweep: at most once per TTL, buckets untouched for longer than the TTL. *)
SweepDue == now - lastSweep >= TTL

Swept ==
  [a \in Addresses |->
     IF SweepDue /\ Tracked(a) /\ now - buckets[a].seen > TTL THEN NoBucket ELSE buckets[a]]

(* Mutated: the cap is forgotten.                                          *)
Refill_Uncapped(b) ==
  IF b = NoBucket THEN Burst ELSE b.tokens + (now - b.seen) * Rate

(* The bucket found or made, refilled for the time since it was seen.      *)
Refill(b) ==
  IF b = NoBucket THEN Burst ELSE Lesser(Burst, b.tokens + (now - b.seen) * Rate)

(* Allow, on behalf of a client.  A refused request is seen too.           *)
Allow(client, a) ==
  LET tokens == Refill(Swept[a])
      grants == tokens >= Cost
  IN  /\ lastSweep' = IF SweepDue THEN now ELSE lastSweep
      /\ buckets' = [Swept EXCEPT ![a] =
                       [tokens |-> IF grants THEN tokens - Cost ELSE tokens, seen |-> now]]
      /\ granted' = [granted EXCEPT ![client] = IF grants THEN @ + 1 ELSE @]
      /\ last' = <<client, IF grants THEN "granted" ELSE "refused">>
      /\ UNCHANGED now

(* A request, with whatever the client put in the header beforehand.       *)
Request(client, forged) ==
  Allow(client, ClientIP(Peer(client), forged \o Appended(client)))

Tick ==
  /\ now < MaxTime
  /\ now' = now + 1
  /\ UNCHANGED <<buckets, lastSweep, granted, last>>

Next == Tick \/ \E c \in Clients, forged \in Forged : Request(c, forged)

Spec == Init /\ [][Next]_vars

-----------------------------------------------------------------------------
(* Properties.                                                             *)

(* Every variable holds values the code can produce.                       *)
TypeOK ==
  /\ now \in 0..MaxTime
  /\ buckets \in [Addresses -> Bucket \cup {NoBucket}]
  /\ lastSweep \in {-TTL} \cup 0..now
  /\ granted \in [Clients -> Nat]
  /\ last \in {<< >>} \cup (Clients \X {"granted", "refused"})

(* What a client could spend right now.                                    *)
Level(c) == Refill(buckets[c])

(***************************************************************************)
(* Over any stretch of time a client is granted no more than its bucket    *)
(* held at the start and what refilled since, however the sweep falls: no  *)
(* step hands out units that time did not bring in.                        *)
(***************************************************************************)
NothingForFree ==
  [][\A c \in Clients :
       Cost * (granted'[c] - granted[c]) + (Level(c)' - Level(c)) <= Rate * (now' - now)]_vars

(***************************************************************************)
(* The map does not accumulate clients that left: of two buckets tracked   *)
(* at once, neither was idle for two TTLs when the other was last used.    *)
(***************************************************************************)
IdleBucketsGo ==
  \A a, b \in Addresses :
    Tracked(a) /\ Tracked(b) => buckets[a].seen - buckets[b].seen < 2 * TTL

(***************************************************************************)
(* Sweeping, making buckets on demand and resolving addresses are all      *)
(* invisible: every client has a bucket of its own that nobody else spends *)
(* and nothing resets, and is refused only when it is empty.               *)
(***************************************************************************)
Ideal == INSTANCE TokenBucket WITH level <- [c \in Clients |-> Level(c)]

ImplementsTokenBucket == Ideal!Spec
=============================================================================
