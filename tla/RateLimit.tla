------------------------------ MODULE RateLimit ------------------------------
(* The rate limiter (src/api/middleware/rate-limit.ts): a token bucket for each     *)
(* client address, filled as time passes, pruned when idle, and keyed by what the   *)
(* trusted proxies wrote into X-Forwarded-For.  The handler awaits nothing before   *)
(* it has its answer, so a request is one action.                                   *)
(* The code's tokens are floating-point numbers.  Here they are integers in units   *)
(* of 1/(Window * Grain) token: exact for what the refill should add, with Rounding *)
(* for what one refill may be off.  The clock does not go back.                     *)
EXTENDS Integers, Sequences, FiniteSets

CONSTANTS Addr,      \* the addresses of clients
          Proxy,     \* the address of every trusted proxy
          Proxies,   \* how many of them stand before this server
          Present,   \* header entries that a request may bring along
          Limit, Window, PruneEvery,
          Grain, Rounding,
          Unset, Invalid,  \* RATE_LIMIT_TRUSTED_PROXY_HOPS when it is not a number
          Environment,     \* the environments and options to start in
          Horizon, MaxAdmitted  \* bounds on the clock and on the admissions

ASSUME RateAssumption ==
  /\ Limit \in Nat \ {0} /\ Window \in Nat \ {0} /\ PruneEvery \in Nat /\ Horizon \in Nat /\ MaxAdmitted \in Nat
  /\ Grain \in Nat \ {0} /\ Rounding \in Nat
  /\ Proxies \in Nat /\ Proxy \notin Addr /\ {Unset, Invalid} \cap Nat = {}
  /\ Present \subseteq Seq(Addr \cup {Proxy})
  /\ Environment \subseteq [production : BOOLEAN, hops : {Unset, Invalid} \cup Nat, global : BOOLEAN]

VARIABLES config,    \* the environment: production, hops, and the limiter's option global
          serving,   \* createApp has been reached
          now,
          buckets,   \* key -> tokens and time of the last refill
          lastPrune,
          admitted,  \* history: account -> times of its admitted requests
          answer     \* the last answer, until the clock moves on

vars == <<config, serving, now, buckets, lastPrune, admitted, answer>>

Token == Window * Grain   \* one token
Cap == Limit * Token      \* a full bucket
Flow == Limit * Grain     \* what a tick of the clock adds: limit / windowMs of a token
Shared == "global"
Unknown == "unknown"
Key == Addr \cup {Proxy, Shared, Unknown}
NoAnswer == [who |-> Shared, ok |-> TRUE]

\* Of Handle's state: the buckets as a function from the keys they exist for.
Bucket == [tokens : 0..Cap, last : 0..Horizon]

------------------------------------------------------------------------------
(* Requests.  Each has passed some number of the proxies, counted from the server:  *)
(* none if its client reached the server directly, fewer than all if it entered     *)
(* behind the outer ones.  Whichever way it came, it may bring any header along;    *)
(* the proxies it passes append the client's address and those of the inner ones.   *)
(* Its socket may be gone when the handler asks for its peer.                       *)
Request == [from : Addr, passed : 0..Proxies, present : Present, closed : BOOLEAN]
Appended(r) == [i \in 1..r.passed |-> IF i = 1 THEN r.from ELSE Proxy]
Header(r) == r.present \o Appended(r)
Peer(r) == IF r.closed THEN Unknown ELSE IF r.passed = 0 THEN r.from ELSE Proxy

\* resolveClientIp: the entry that is hops from the right, or the socket's peer if
\* there are fewer.
ClientIp(r, hops) ==
  IF hops > 0 /\ Len(Header(r)) >= hops THEN Header(r)[Len(Header(r)) - hops + 1] ELSE Peer(r)

\* envTrustedProxyHops: an unset or invalid number counts as none.
Hops == IF config.hops \in {Unset, Invalid} THEN 0 ELSE config.hops
KeyOf(r) == IF config.global THEN Shared ELSE ClientIp(r, Hops)

------------------------------------------------------------------------------
(* The bucket.                                                                      *)
Full(t) == [tokens |-> Cap, last |-> t]
Least(a, b) == IF a <= b THEN a ELSE b
\* Mutant: prune drops every bucket that has had some time to refill.
StaleEarly(e) == now - e.last > 0
Stale(e) == now - e.last > 2 * Window
\* prune, at most once in PruneEvery.
PruneDue == now - lastPrune >= PruneEvery
Kept == IF PruneDue THEN {k \in DOMAIN buckets : ~Stale(buckets[k])} ELSE DOMAIN buckets
Current(k) == IF k \in Kept THEN buckets[k] ELSE Full(now)
\* The refill, which rounds when time has passed; floating-point addition does not
\* take away from what it adds to.
Rounded(e, gain) ==
  {Least(Cap, x) : x \in {y \in (e.tokens + gain - Rounding)..(e.tokens + gain + Rounding) : y >= e.tokens}}
\* Mutant: only whole tokens flow in, and what is left of the time is lost.
RefilledWhole(e) ==
  IF now = e.last THEN {e.tokens} ELSE Rounded(e, (((now - e.last) * Flow) \div Token) * Token)
Refilled(e) == IF now = e.last THEN {e.tokens} ELSE Rounded(e, (now - e.last) * Flow)

\* The request came in the way that the setting describes: through that many proxies,
\* or directly where there are none to pass or the header is too short to be theirs.
AsConfigured(r) ==
  IF r.passed = 0 THEN ~r.closed /\ (Hops = 0 \/ Len(r.present) < Hops) ELSE r.passed = Hops
\* The account a request should be charged to: that of its client if it came as
\* configured; of any other, that of the address the limiter can tell.
Account(r) == IF config.global THEN Shared ELSE IF AsConfigured(r) THEN r.from ELSE ClientIp(r, Hops)

\* How many requests were admitted, for the bound.
Admissions == Cardinality(UNION {{a} \X DOMAIN admitted[a] : a \in Key})

\* The handler of rateLimit: prune, find the bucket, refill it, take a token or answer 429.
Handle(r) ==
  /\ serving
  /\ \E t \in Refilled(Current(KeyOf(r))) :
        LET ok == t >= Token
            left == IF ok THEN t - Token ELSE t
        IN /\ ok => Admissions < MaxAdmitted
           /\ buckets' = [x \in Kept \cup {KeyOf(r)} |->
                            IF x = KeyOf(r) THEN [tokens |-> left, last |-> now] ELSE buckets[x]]
           /\ admitted' = IF ok THEN [admitted EXCEPT ![Account(r)] = Append(@, now)] ELSE admitted
           /\ answer' = [who |-> Account(r), ok |-> ok]
  /\ lastPrune' = IF PruneDue THEN now ELSE lastPrune
  /\ UNCHANGED <<config, serving, now>>

\* validateRateLimitConfig and createApp: production does not start without a valid number.
Acceptable == config.production => config.hops \notin {Unset, Invalid}
Start ==
  /\ ~serving /\ Acceptable
  /\ serving' = TRUE
  /\ UNCHANGED <<config, now, buckets, lastPrune, admitted, answer>>

Tick ==
  /\ serving /\ now < Horizon /\ now' = now + 1 /\ answer' = NoAnswer
  /\ UNCHANGED <<config, serving, buckets, lastPrune, admitted>>

Init ==
  /\ config \in Environment
  /\ serving = FALSE /\ now = 0 /\ lastPrune = 0
  /\ buckets = [k \in {} |-> Full(0)]
  /\ admitted = [a \in Key |-> <<>>]
  /\ answer = NoAnswer

Next == Start \/ Tick \/ \E r \in Request : Handle(r)

Spec == Init /\ [][Next]_vars

------------------------------------------------------------------------------
TypeOK ==
  /\ config \in Environment
  /\ serving \in BOOLEAN
  /\ now \in 0..Horizon /\ lastPrune \in 0..now
  /\ DOMAIN buckets \subseteq Key
  /\ \A k \in DOMAIN buckets : buckets[k] \in Bucket
  /\ admitted \in [Key -> Seq(0..Horizon)]
  /\ answer \in [who : Key, ok : BOOLEAN]

\* What "Limit per Window" means to a reference that keeps every admission: from any
\* admission to the last one there are no more than a full bucket and what flowed in.
Conforms(log, rate) ==
  \A i \in 1..Len(log) :
     (Len(log) - i + 1) * Token <= Cap + (log[Len(log)] - log[i]) * rate

\* No account gets more than the limit at once plus its rate since then (so up to twice
\* the limit in a window), whenever its bucket is pruned and however the refills of its
\* requests round: the code's rate is no more than one rounding error in each clock tick
\* above the rate that was asked for.
WithinRate == \A a \in Key : Conforms(admitted[a], Flow + Rounding)

\* And it is refused only if the reference, at a rate that is lower by the same error,
\* would refuse it too: no account pays for another, nor for the pruning.  At the very
\* moment that a token is due, the code's roundings may still refuse it.
RefusedIsDue == ~answer.ok => ~Conforms(Append(admitted[answer.who], now), Flow - Rounding)
==============================================================================
