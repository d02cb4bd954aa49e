--------------------------- MODULE RateLimitProofs ---------------------------
(* The token bucket is the reference: for any limit, window, pruning interval,    *)
(* number of proxies, setting and rounding, the bucket of an account always holds *)
(* what the history of its admissions leaves it, up to one rounding error for     *)
(* each tick of the clock, a pruned bucket included.                              *)
EXTENDS RateLimit, TLAPS

------------------------------------------------------------------------------
(* Arithmetic.                                                                    *)
LEMMA Monotone ==
  ASSUME NEW a \in Nat, NEW b \in Nat, NEW c \in Nat, a <= b
  PROVE  a * c <= b * c /\ a * c \in Nat
  BY SMT

LEMMA Shift ==
  ASSUME NEW a \in Int, NEW b \in Int, NEW d \in Int, NEW c \in Int
  PROVE  (a - b) * c + (b - d) * c = (a - d) * c
  BY SMT

LEMMA ProductIsInt ==
  ASSUME NEW a \in Int, NEW b \in Int
  PROVE  a * b \in Int
  BY SMT

LEMMA Carry ==
  ASSUME NEW a \in Int, NEW b \in Int, NEW x \in Int, NEW c \in Int, NEW f \in Int, NEW m \in Int
  PROVE  /\ a + b <= c + f /\ x <= b + m => a + x <= c + (m + f)
         /\ a + b >= c + f /\ x >= b + m => a + x >= c + (m + f)
  OBVIOUS

LEMMA Spread ==
  ASSUME NEW d \in Nat, NEW f \in Int, NEW r \in Int
  PROVE  d * (f + r) = d * f + d * r /\ d * (f - r) = d * f - d * r
  BY SMT

LEMMA UnitsAreNat ==
  /\ Cap \in Nat /\ Token \in Nat /\ Flow \in Nat /\ Rounding \in Nat
  /\ 0 < Token /\ Token <= Cap /\ Cap = Window * Flow /\ Window \in Nat /\ Limit \in Nat
  <1>1. /\ Limit \in Nat /\ Limit >= 1 /\ Window \in Nat /\ Window >= 1
        /\ Grain \in Nat /\ Grain >= 1 /\ Rounding \in Nat
    BY RateAssumption
  <1>2. 1 * Grain <= Window * Grain /\ Window * Grain \in Nat  BY <1>1, Monotone
  <1>3. Token \in Nat /\ Token >= 1  BY <1>1, <1>2 DEF Token
  <1>4. 1 * Token <= Limit * Token /\ Limit * Token \in Nat  BY <1>1, <1>3, Monotone
  <1>5. Limit * (Window * Grain) = Window * (Limit * Grain) /\ Limit * Grain \in Nat
    BY <1>1, SMT
  <1> QED  BY <1>1, <1>3, <1>4, <1>5 DEF Cap, Token, Flow

------------------------------------------------------------------------------
(* The history of an account's admissions against the level of its bucket at time *)
(* t: no admission is left uncounted (Within), and no more is charged than the    *)
(* admissions since some moment when the bucket was full (Tight), each at the     *)
(* rate that is one rounding error a tick to the safe side.                       *)
Fast == Flow + Rounding
Slow == Flow - Rounding
Within(log, level, t) ==
  \A i \in 1..Len(log) : (Len(log) - i + 1) * Token + level <= Cap + (t - log[i]) * Fast
Tight(log, level, t) ==
  \/ level = Cap
  \/ \E i \in 1..Len(log) : (Len(log) - i + 1) * Token + level >= Cap + (t - log[i]) * Slow
Exact(log, level, t) == Within(log, level, t) /\ Tight(log, level, t)

LEMMA RatesAreInt == Fast \in Nat /\ Slow \in Int
  BY UnitsAreNat DEF Fast, Slow

\* What may flow into a level between two times.
Fills(level, x, d) ==
  /\ level <= x /\ x <= level + d * Fast
  /\ x = Cap \/ x >= level + d * Slow

\* A refill rounds at most once, however long the bucket was left alone, and not at all
\* when no time has passed.
LEMMA RefillFills ==
  ASSUME NEW e, e \in [tokens : 0..Cap, last : 0..now], now \in Nat, NEW x \in Refilled(e)
  PROVE  x \in 0..Cap /\ Fills(e.tokens, x, now - e.last)
  <1> DEFINE d == now - e.last
  <1>1. e.tokens \in 0..Cap /\ e.last \in Nat /\ d \in Nat  OBVIOUS
  <1>2. Fast \in Nat /\ Slow \in Int /\ Cap \in Nat /\ Flow \in Nat /\ Rounding \in Nat
    BY UnitsAreNat, RatesAreInt
  <1>3. /\ d * Fast = d * Flow + d * Rounding /\ d * Slow = d * Flow - d * Rounding
        /\ d * Flow \in Nat /\ d * Rounding \in Nat
    <2>1. d * Flow \in Nat /\ d * Rounding \in Nat  BY <1>1, <1>2, Monotone
    <2> QED  BY <1>1, <1>2, <2>1, Spread DEF Fast, Slow
  <1>4. CASE d = 0
    <2>1. x = e.tokens  BY <1>1, <1>4 DEF Refilled
    <2>2. d * Fast = 0 /\ d * Slow = 0  BY <1>2, <1>4
    <2> QED  BY <1>1, <1>2, <2>1, <2>2 DEF Fills
  <1>5. CASE d # 0
    <2>1. x \in Rounded(e, d * Flow)  BY <1>1, <1>5 DEF Refilled
    <2>2. PICK y \in (e.tokens + d * Flow - Rounding)..(e.tokens + d * Flow + Rounding) :
             y >= e.tokens /\ x = Least(Cap, y)
      BY <2>1 DEF Rounded
    <2>3. y \in Int /\ y <= e.tokens + d * Flow + Rounding /\ y >= e.tokens + d * Flow - Rounding
      BY <1>1, <1>2, <1>3, <2>2
    <2>4. 1 * Rounding <= d * Rounding  BY <1>1, <1>2, <1>5, Monotone
    <2>5. x = IF Cap <= y THEN Cap ELSE y  BY <2>2 DEF Least
    <2> DEFINE g == d * Flow
               o == d * Rounding
    <2>6. d * Fast = g + o /\ d * Slow = g - o /\ g \in Nat /\ o \in Nat  BY <1>3
    <2>7. y \in Int /\ y <= e.tokens + g + o /\ y >= e.tokens + g - o
      BY <1>1, <1>2, <1>3, <2>3, <2>4
    <2>8. x \in 0..Cap /\ e.tokens <= x
      BY <1>1, <1>2, <2>2, <2>5, <2>7
    <2> HIDE DEF g, o
    <2>9. x <= e.tokens + (g + o) /\ (x = Cap \/ x >= e.tokens + (g - o))
      BY <1>1, <1>2, <2>5, <2>6, <2>7
    <2> QED  BY <2>6, <2>8, <2>9 DEF Fills
  <1> QED  BY <1>4, <1>5

\* Time passes: what flows in keeps the level exact.
LEMMA FillIsExact ==
  ASSUME NEW log \in Seq(Nat), NEW level \in 0..Cap, NEW x \in 0..Cap, NEW s \in Nat, NEW t \in Nat,
         s <= t, Fills(level, x, t - s), Exact(log, level, s)
  PROVE  Exact(log, x, t)
  <1> DEFINE taken(i) == (Len(log) - i + 1) * Token
             fast(u, i) == (u - log[i]) * Fast
             slow(u, i) == (u - log[i]) * Slow
             more == (t - s) * Fast
             less == (t - s) * Slow
  <1>1. /\ Cap \in Nat /\ Token \in Nat /\ Fast \in Nat /\ Slow \in Int
        /\ level \in Nat /\ level <= Cap /\ x \in Nat /\ x <= Cap /\ more \in Int /\ less \in Int
    BY UnitsAreNat, RatesAreInt
  <1>2. ASSUME NEW i \in 1..Len(log)
        PROVE  /\ taken(i) \in Int /\ fast(s, i) \in Int /\ slow(s, i) \in Int
               /\ fast(t, i) = more + fast(s, i)
               /\ slow(t, i) = less + slow(s, i)
    <2>1. log[i] \in Int /\ Len(log) \in Int /\ i \in Int /\ s \in Int /\ t \in Int  OBVIOUS
    <2>2. s - log[i] \in Int /\ Len(log) - i + 1 \in Int /\ Token \in Int /\ Fast \in Int
      BY <1>1, <2>1
    <2>3. more + fast(s, i) = fast(t, i)  BY <2>1, <2>2, Shift
    <2>4. less + slow(s, i) = slow(t, i)  BY <1>1, <2>1, Shift
    <2>5. taken(i) \in Int /\ fast(s, i) \in Int /\ slow(s, i) \in Int
      BY <1>1, <2>2, ProductIsInt
    <2> QED  BY <2>3, <2>4, <2>5
  <1>3. level <= x /\ x <= level + more /\ (x = Cap \/ x >= level + less)  BY DEF Fills
  <1>4. Within(log, x, t)
    <2> SUFFICES ASSUME NEW i \in 1..Len(log)
                 PROVE  taken(i) + x <= Cap + fast(t, i)
      BY DEF Within
    <2>1. taken(i) + level <= Cap + fast(s, i)  BY DEF Exact, Within
    <2>2. taken(i) \in Int /\ fast(s, i) \in Int /\ fast(t, i) = more + fast(s, i)  BY <1>2
    <2>3. level \in Int /\ x \in Int /\ Cap \in Int /\ more \in Int  BY <1>1
    <2> HIDE DEF taken, fast, slow, more, less
    <2>4. taken(i) + x <= Cap + (more + fast(s, i))  BY <1>3, <2>1, <2>2, <2>3, Carry
    <2> QED  BY <2>2, <2>4
  <1>5. Tight(log, x, t)
    <2>1. CASE x = Cap  BY <2>1 DEF Tight
    <2>2. CASE x # Cap
      <3>1. level # Cap /\ x >= level + less  BY <1>1, <1>3, <2>2
      <3>2. PICK i \in 1..Len(log) : taken(i) + level >= Cap + slow(s, i)
        BY <3>1 DEF Exact, Tight
      <3>3. taken(i) + x >= Cap + slow(t, i)
        <4>1. taken(i) \in Int /\ slow(s, i) \in Int /\ slow(t, i) = less + slow(s, i)  BY <1>2
        <4>2. level \in Int /\ x \in Int /\ Cap \in Int /\ less \in Int  BY <1>1
        <4> HIDE DEF taken, fast, slow, more, less
        <4>3. taken(i) + x >= Cap + (less + slow(s, i))  BY <3>1, <3>2, <4>1, <4>2, Carry
        <4> QED  BY <4>1, <4>3
      <3> QED  BY <3>3 DEF Tight
    <2> QED  BY <2>1, <2>2
  <1> QED  BY <1>4, <1>5 DEF Exact

\* A bucket that prune drops was as good as full.
LEMMA PrunedIsFull ==
  ASSUME NEW log \in Seq(Nat), NEW level \in 0..Cap, NEW s \in Nat, NEW t \in Nat,
         t - s > 2 * Window, Exact(log, level, s)
  PROVE  Exact(log, Cap, t)
  <1>1. /\ Window \in Nat /\ Cap \in Nat /\ Flow \in Nat /\ Rounding \in Nat /\ Cap = Window * Flow
        /\ level \in Nat /\ level <= Cap
    BY UnitsAreNat
  <1>2. Window <= t - s /\ t - s \in Nat /\ s <= t  BY <1>1
  <1>3. Cap <= (t - s) * Fast
    <2>1. Window * Flow <= (t - s) * Flow  BY <1>1, <1>2, Monotone
    <2>2. (t - s) * Fast = (t - s) * Flow + (t - s) * Rounding  BY <1>1, <1>2, Spread DEF Fast
    <2>3. (t - s) * Rounding \in Nat /\ (t - s) * Flow \in Nat  BY <1>1, <1>2, Monotone
    <2> QED  BY <1>1, <2>1, <2>2, <2>3
  <1>4. Fills(level, Cap, t - s)
    <2>1. (t - s) * Fast \in Nat  BY <1>2, RatesAreInt, Monotone
    <2> QED  BY <1>1, <1>3, <2>1 DEF Fills
  <1>5. Cap \in 0..Cap  BY <1>1
  <1> QED  BY <1>2, <1>4, <1>5, FillIsExact

\* An admission takes one token and is itself accounted for.
LEMMA TakeIsExact ==
  ASSUME NEW log \in Seq(Nat), NEW level \in 0..Cap, NEW t \in Nat, level >= Token,
         Exact(log, level, t)
  PROVE  Exact(Append(log, t), level - Token, t)
  <1> DEFINE n == Len(log)
             new == Append(log, t)
  <1>1. /\ n \in Nat /\ Len(new) = n + 1 /\ new[n + 1] = t
        /\ \A i \in 1..n : new[i] = log[i] /\ log[i] \in Nat
    OBVIOUS
  <1>2. /\ Fast \in Nat /\ Slow \in Int /\ Token \in Nat /\ Cap \in Nat
        /\ level \in Nat /\ level <= Cap
    BY UnitsAreNat, RatesAreInt
  <1>3. ASSUME NEW i \in 1..n
        PROVE  /\ (n + 1 - i + 1) * Token = (n - i + 1) * Token + Token
               /\ (n - i + 1) * Token \in Int
               /\ (t - log[i]) * Fast \in Int /\ (t - log[i]) * Slow \in Int
    <2>1. n \in Int /\ i \in Int /\ log[i] \in Int  BY <1>1
    <2> HIDE DEF n
    <2> QED  BY <1>2, <2>1
  <1>4. (n + 1 - (n + 1) + 1) * Token = Token /\ (t - t) * Fast = 0 /\ (t - t) * Slow = 0
    <2> HIDE DEF n
    <2> QED  BY <1>1, <1>2
  <1>5. Within(new, level - Token, t)
    <2> SUFFICES ASSUME NEW i \in 1..(n + 1)
                 PROVE  (n + 1 - i + 1) * Token + (level - Token) <= Cap + (t - new[i]) * Fast
      BY <1>1 DEF Within
    <2>1. CASE i = n + 1
      BY <2>1, <1>1, <1>2, <1>4
    <2>2. CASE i # n + 1
      <3>1. i \in 1..n  BY <2>2, <1>1
      <3>2. (n - i + 1) * Token + level <= Cap + (t - log[i]) * Fast
        BY <3>1 DEF Exact, Within
      <3> HIDE DEF n, new
      <3> QED  BY <3>1, <3>2, <1>1, <1>2, <1>3
    <2> QED  BY <2>1, <2>2
  <1>6. Tight(new, level - Token, t)
    <2>1. CASE level = Cap
      <3>1. (n + 1 - (n + 1) + 1) * Token + (level - Token) >= Cap + (t - new[n + 1]) * Slow
        BY <2>1, <1>1, <1>2, <1>4
      <3> QED  BY <3>1, <1>1 DEF Tight
    <2>2. CASE level # Cap
      <3> PICK i \in 1..n : (n - i + 1) * Token + level >= Cap + (t - log[i]) * Slow
        BY <2>2 DEF Exact, Tight
      <3>1. (n + 1 - i + 1) * Token + (level - Token) >= Cap + (t - new[i]) * Slow
        <4> HIDE DEF n, new
        <4> QED  BY <1>1, <1>2, <1>3
      <3>2. (Len(new) - i + 1) * Token + (level - Token) >= Cap + (t - new[i]) * Slow
        BY <3>1, <1>1
      <3>3. i \in 1..Len(new)  BY <1>1
      <3> HIDE DEF new
      <3> QED  BY <3>2, <3>3 DEF Tight
    <2> QED  BY <2>1, <2>2
  <1> QED  BY <1>5, <1>6 DEF Exact

\* So the reference admits it too, at the faster rate.
LEMMA TakeConforms ==
  ASSUME NEW log \in Seq(Nat), NEW level \in 0..Cap, NEW t \in Nat, level >= Token,
         Exact(log, level, t)
  PROVE  Conforms(Append(log, t), Fast)
  <1> DEFINE new == Append(log, t)
  <1>1. Within(new, level - Token, t)  BY TakeIsExact DEF Exact
  <1>2. new \in Seq(Nat) /\ Len(new) = Len(log) + 1 /\ new[Len(new)] = t  OBVIOUS
  <1> SUFFICES ASSUME NEW i \in 1..Len(new)
               PROVE  (Len(new) - i + 1) * Token <= Cap + (t - new[i]) * Fast
    BY <1>2 DEF Conforms
  <1>3. (Len(new) - i + 1) * Token + (level - Token) <= Cap + (t - new[i]) * Fast
    BY <1>1 DEF Within
  <1>4. /\ (Len(new) - i + 1) * Token \in Int /\ (t - new[i]) * Fast \in Int
        /\ Cap \in Int /\ level \in Int /\ Token \in Int
    <2>1. new[i] \in Nat /\ Len(new) \in Nat  BY <1>2
    <2> QED  BY <2>1, UnitsAreNat, RatesAreInt
  <1> HIDE DEF new
  <1> QED  BY <1>3, <1>4

\* A refusal is one of the reference, at the slower rate.
LEMMA RefusalIsDue ==
  ASSUME NEW log \in Seq(Nat), NEW level \in 0..Cap, NEW t \in Nat, level < Token,
         Exact(log, level, t)
  PROVE  ~Conforms(Append(log, t), Slow)
  <1> DEFINE n == Len(log)
             new == Append(log, t)
  <1>1. /\ n \in Nat /\ Len(new) = n + 1 /\ new[n + 1] = t
        /\ \A i \in 1..n : new[i] = log[i] /\ log[i] \in Nat
    OBVIOUS
  <1>2. Slow \in Int /\ Token \in Nat /\ Cap \in Nat /\ level \in Nat /\ level # Cap
    BY UnitsAreNat, RatesAreInt
  <1> PICK i \in 1..n : (n - i + 1) * Token + level >= Cap + (t - log[i]) * Slow
    BY <1>2 DEF Exact, Tight
  <1>3. ~((n + 1 - i + 1) * Token <= Cap + (t - log[i]) * Slow)
    <2>1. (n + 1 - i + 1) * Token = (n - i + 1) * Token + Token
      <3> HIDE DEF n
      <3> QED BY <1>1, <1>2
    <2>2. (n - i + 1) * Token \in Int /\ (t - log[i]) * Slow \in Int
      <3>1. n \in Int /\ log[i] \in Int  BY <1>1
      <3> HIDE DEF n
      <3> QED  BY <1>2, <3>1
    <2> HIDE DEF n
    <2> QED  BY <2>1, <2>2, <1>2
  <1>4. i \in 1..Len(new) /\ new[i] = log[i] /\ new[Len(new)] = t  BY <1>1
  <1> HIDE DEF n, new
  <1>5. ~((Len(new) - i + 1) * Token <= Cap + (new[Len(new)] - new[i]) * Slow)
    BY <1>1, <1>3, <1>4
  <1>6. ~Conforms(new, Slow)  BY <1>4, <1>5 DEF Conforms
  <1> QED  BY <1>6 DEF new

------------------------------------------------------------------------------
(* Types, and the bucket a request meets.                                         *)
\* No bucket was filled in the future.
TypeInv ==
  /\ TypeOK
  /\ \A k \in DOMAIN buckets : buckets[k].last <= now
  /\ \A a \in DOMAIN admitted : admitted[a] \in Seq(Nat)

\* The key under which the limiter finds the bucket of a request is the account it
\* should be charged to: the entry that is hops from the right is the client's own
\* if that many proxies have appended to the header, whatever it brought along.
LEMMA KeyIsAccount ==
  ASSUME config \in Environment, NEW r \in Request
  PROVE  KeyOf(r) = Account(r)
  <1>1. Hops \in Nat  BY RateAssumption DEF Hops
  <1>2. /\ r.from \in Addr /\ r.passed \in 0..Proxies /\ r.passed \in Nat
        /\ r.present \in Seq(Addr \cup {Proxy}) /\ r.closed \in BOOLEAN
    BY RateAssumption DEF Request
  <1>3. ASSUME AsConfigured(r) PROVE ClientIp(r, Hops) = r.from
    <2>1. CASE r.passed = 0
      <3>1. Appended(r) = <<>>  BY <2>1 DEF Appended
      <3>2. Len(Header(r)) = Len(r.present)  BY <1>2, <3>1 DEF Header
      <3>3. Peer(r) = r.from /\ ~(Hops > 0 /\ Len(Header(r)) >= Hops)
        BY <1>1, <1>2, <1>3, <2>1, <3>2 DEF AsConfigured, Peer
      <3> QED  BY <3>3 DEF ClientIp
    <2>2. CASE r.passed # 0
      <3>1. r.passed = Hops /\ Hops > 0  BY <1>1, <1>2, <1>3, <2>2 DEF AsConfigured
      <3>2. /\ Appended(r) \in Seq(Addr \cup {Proxy}) /\ Len(Appended(r)) = Hops
            /\ Appended(r)[1] = r.from
        BY <1>1, <1>2, <3>1 DEF Appended
      <3> HIDE DEF Appended
      <3>3. Len(Header(r)) = Len(r.present) + Hops /\ Header(r)[Len(r.present) + 1] = r.from
        BY <1>1, <1>2, <3>1, <3>2 DEF Header
      <3>4. Len(Header(r)) >= Hops /\ Len(Header(r)) - Hops + 1 = Len(r.present) + 1
        BY <1>1, <1>2, <3>3
      <3> QED  BY <3>1, <3>3, <3>4 DEF ClientIp
    <2> QED  BY <2>1, <2>2
  <1> QED  BY <1>3 DEF KeyOf, Account

LEMMA KeyIsKey ==
  ASSUME config \in Environment, NEW r \in Request
  PROVE  KeyOf(r) \in Key /\ Account(r) \in Key
  <1>1. Hops \in Nat  BY RateAssumption DEF Hops
  <1>2. /\ r.from \in Addr /\ r.passed \in Nat /\ r.present \in Seq(Addr \cup {Proxy})
    BY RateAssumption DEF Request
  <1>3. Header(r) \in Seq(Addr \cup {Proxy})
    <2>1. Appended(r) \in Seq(Addr \cup {Proxy})  BY <1>2 DEF Appended
    <2> QED  BY <1>2, <2>1 DEF Header
  <1>4. Peer(r) \in Addr \cup {Proxy, Unknown}  BY <1>2 DEF Peer
  <1>5. ASSUME Hops > 0, Len(Header(r)) >= Hops
        PROVE  Header(r)[Len(Header(r)) - Hops + 1] \in Addr \cup {Proxy}
    <2>1. Len(Header(r)) - Hops + 1 \in 1..Len(Header(r))  BY <1>1, <1>3, <1>5
    <2> QED  BY <1>3, <2>1
  <1>6. ClientIp(r, Hops) \in Addr \cup {Proxy, Unknown}  BY <1>4, <1>5 DEF ClientIp
  <1>7. KeyOf(r) \in Key  BY <1>6 DEF KeyOf, Key
  <1> QED  BY <1>7, KeyIsAccount

------------------------------------------------------------------------------
(* The invariant: types, and every account exact.                                 *)
\* An account without a bucket counts as one with a full bucket.
Balance(a) == IF a \in DOMAIN buckets THEN buckets[a] ELSE Full(now)
Ledger == \A a \in Key : Exact(admitted[a], Balance(a).tokens, Balance(a).last)
Inv == TypeInv /\ Ledger /\ WithinRate /\ RefusedIsDue

\* What holds of every balance, and of the bucket that the handler refills, whether prune
\* has just dropped it or not.
LEMMA BalanceType ==
  ASSUME TypeInv, NEW a
  PROVE  Balance(a) \in [tokens : 0..Cap, last : 0..now] /\ now \in Nat /\ Horizon \in Nat
  <1>1. now \in Nat /\ Horizon \in Nat  BY RateAssumption DEF TypeInv, TypeOK
  <1>2. Full(now) \in [tokens : 0..Cap, last : 0..now]  BY <1>1, UnitsAreNat DEF Full
  <1>3. ASSUME a \in DOMAIN buckets
        PROVE  buckets[a] \in [tokens : 0..Cap, last : 0..now]
    <2>1. buckets[a] \in [tokens : 0..Cap, last : 0..Horizon] /\ buckets[a].last <= now
      BY <1>3 DEF TypeInv, TypeOK, Bucket
    <2> QED  BY <2>1, <1>1
  <1> QED  BY <1>1, <1>2, <1>3 DEF Balance

LEMMA KeptIsExact ==
  ASSUME TypeInv, Ledger, NEW a \in Key
  PROVE  /\ Current(a) \in [tokens : 0..Cap, last : 0..now]
         /\ Exact(admitted[a], Current(a).tokens, Current(a).last)
  <1>1. Balance(a) \in [tokens : 0..Cap, last : 0..now] /\ now \in Nat  BY BalanceType
  <1>2. admitted[a] \in Seq(Nat)  BY DEF TypeInv, TypeOK
  <1>3. Exact(admitted[a], Balance(a).tokens, Balance(a).last)  BY DEF Ledger
  <1>4. CASE a \in Kept
    <2>1. a \in DOMAIN buckets  BY <1>4 DEF Kept
    <2> QED  BY <1>1, <1>3, <1>4, <2>1 DEF Balance, Current
  <1>5. CASE a \notin Kept
    <2>1. Current(a) = Full(now)  BY <1>5 DEF Current
    <2>2. Full(now) \in [tokens : 0..Cap, last : 0..now]  BY <1>1, UnitsAreNat DEF Full
    <2>3. Exact(admitted[a], Cap, now)
      <3>1. CASE a \notin DOMAIN buckets
        BY <1>3, <3>1 DEF Balance, Full
      <3>2. CASE a \in DOMAIN buckets
        <4>1. Balance(a) = buckets[a] /\ Stale(buckets[a])  BY <1>5, <3>2 DEF Balance, Kept
        <4>2. now - Balance(a).last > 2 * Window  BY <4>1 DEF Stale
        <4>3. Balance(a).tokens \in 0..Cap /\ Balance(a).last \in Nat  BY <1>1
        <4> QED  BY <1>1, <1>2, <1>3, <4>2, <4>3, PrunedIsFull
      <3> QED  BY <3>1, <3>2
    <2> QED  BY <2>1, <2>2, <2>3 DEF Full
  <1> QED  BY <1>4, <1>5

LEMMA InitInv == Init => Inv
  <1> SUFFICES ASSUME Init PROVE Inv
    OBVIOUS
  <1>1. TypeInv
    <2>1. now \in 0..Horizon /\ lastPrune \in 0..now /\ DOMAIN buckets = {}
      BY RateAssumption DEF Init
    <2>2. <<>> \in Seq(0..Horizon) /\ <<>> \in Seq(Nat)  OBVIOUS
    <2>3. answer \in [who : Key, ok : BOOLEAN]  BY DEF Init, NoAnswer, Key
    <2> QED  BY <2>1, <2>2, <2>3 DEF Init, TypeInv, TypeOK
  <1>2. \A a \in Key : admitted[a] = <<>> /\ Balance(a) = Full(now)
    BY DEF Init, Balance
  <1>3. Ledger
    BY <1>2 DEF Init, Ledger, Exact, Within, Tight, Full
  <1>4. WithinRate
    BY <1>2 DEF WithinRate, Conforms
  <1>5. RefusedIsDue
    BY DEF Init, RefusedIsDue, NoAnswer
  <1> QED  BY <1>1, <1>3, <1>4, <1>5 DEF Inv

LEMMA HandleInv ==
  ASSUME Inv, NEW r \in Request, Handle(r)
  PROVE  Inv'
  <1> DEFINE a == Account(r)
             e == Current(a)
  <1>0. KeyOf(r) = a /\ a \in Key /\ config \in Environment /\ Kept \subseteq DOMAIN buckets
    BY KeyIsKey, KeyIsAccount DEF Inv, TypeInv, TypeOK, Kept
  <1>1. PICK t \in Refilled(e) :
          LET ok == t >= Token
              left == IF ok THEN t - Token ELSE t
          IN /\ buckets' = [x \in Kept \cup {a} |->
                              IF x = a THEN [tokens |-> left, last |-> now] ELSE buckets[x]]
             /\ admitted' = IF ok THEN [admitted EXCEPT ![a] = Append(@, now)] ELSE admitted
             /\ answer' = [who |-> a, ok |-> ok]
    BY <1>0, Zenon DEF Handle
  <1> DEFINE ok == t >= Token
             left == IF ok THEN t - Token ELSE t
  <1>2. lastPrune' = (IF PruneDue THEN now ELSE lastPrune) /\ UNCHANGED <<config, serving, now>>
    BY DEF Handle
  <1>3. /\ now \in 0..Horizon /\ now \in Nat /\ Horizon \in Nat
        /\ DOMAIN admitted = Key /\ DOMAIN buckets \subseteq Key /\ admitted[a] \in Seq(Nat)
    BY <1>0, RateAssumption DEF Inv, TypeInv, TypeOK
  <1>4. e \in [tokens : 0..Cap, last : 0..now] /\ Exact(admitted[a], e.tokens, e.last)
    BY <1>0, KeptIsExact DEF Inv
  <1>5. t \in 0..Cap /\ Exact(admitted[a], t, now)
    <2>1. t \in 0..Cap /\ Fills(e.tokens, t, now - e.last)  BY <1>3, <1>4, RefillFills
    <2>2. e.tokens \in 0..Cap /\ e.last \in Nat /\ e.last <= now  BY <1>3, <1>4
    <2> QED  BY <1>3, <1>4, <2>1, <2>2, FillIsExact
  <1>6. left \in 0..Cap /\ ok \in BOOLEAN  BY <1>5, UnitsAreNat
  <1>7. /\ ok => Exact(Append(admitted[a], now), left, now) /\ Conforms(Append(admitted[a], now), Fast)
        /\ ~ok => Exact(admitted[a], left, now) /\ ~Conforms(Append(admitted[a], now), Slow)
    <2>1. CASE ok
      BY <1>3, <1>5, <2>1, TakeIsExact, TakeConforms
    <2>2. CASE ~ok
      <3>1. t < Token  BY <1>5, <2>2, UnitsAreNat
      <3> QED  BY <1>3, <1>5, <2>2, <3>1, RefusalIsDue
    <2> QED  BY <2>1, <2>2
  <1>8. /\ buckets' = [x \in Kept \cup {a} |->
                         IF x = a THEN [tokens |-> left, last |-> now] ELSE buckets[x]]
        /\ admitted' = IF ok THEN [admitted EXCEPT ![a] = Append(@, now)] ELSE admitted
        /\ answer' = [who |-> a, ok |-> ok]
    BY <1>1
  <1> HIDE DEF a, e, ok, left
  <1>9. TypeInv'
    <2>1. lastPrune' \in 0..now'  BY <1>2, <1>3 DEF Inv, TypeInv, TypeOK
    <2>2. DOMAIN buckets' \subseteq Key  BY <1>0, <1>3, <1>8
    <2>3. \A x \in DOMAIN buckets' : buckets'[x] \in Bucket /\ buckets'[x].last <= now
      <3> SUFFICES ASSUME NEW x \in DOMAIN buckets'
                   PROVE  buckets'[x] \in Bucket /\ buckets'[x].last <= now
        OBVIOUS
      <3>1. CASE x = a
        <4>1. buckets'[x] = [tokens |-> left, last |-> now]  BY <1>8, <3>1
        <4> QED  BY <4>1, <1>3, <1>6 DEF Bucket
      <3>2. CASE x # a
        <4>1. x \in DOMAIN buckets /\ buckets'[x] = buckets[x]  BY <1>0, <1>8, <3>2
        <4> QED  BY <4>1 DEF Inv, TypeInv, TypeOK
      <3> QED  BY <3>1, <3>2
    <2>4. /\ admitted' \in [Key -> Seq(0..Horizon)]
          /\ \A x \in DOMAIN admitted' : admitted'[x] \in Seq(Nat)
      <3>1. CASE ok
        <4>1. /\ admitted[a] \in Seq(0..Horizon) /\ admitted \in [Key -> Seq(0..Horizon)]
              /\ \A x \in DOMAIN admitted : admitted[x] \in Seq(Nat)
          BY <1>0 DEF Inv, TypeInv, TypeOK
        <4>2. Append(admitted[a], now) \in Seq(0..Horizon) /\ Append(admitted[a], now) \in Seq(Nat)
          BY <1>3, <4>1
        <4> QED  BY <1>0, <1>8, <3>1, <4>1, <4>2
      <3>2. CASE ~ok
        BY <1>8, <3>2 DEF Inv, TypeInv, TypeOK
      <3> QED  BY <3>1, <3>2
    <2>5. answer' \in [who : Key, ok : BOOLEAN]  BY <1>0, <1>6, <1>8
    <2> QED  BY <1>2, <1>3, <2>1, <2>2, <2>3, <2>4, <2>5 DEF Inv, TypeInv, TypeOK
  <1>10. Ledger'
    <2> SUFFICES ASSUME NEW x \in Key
                 PROVE  Exact(admitted'[x], Balance(x)'.tokens, Balance(x)'.last)
      BY DEF Ledger
    <2>1. CASE x = a
      <3>1. Balance(x)' = [tokens |-> left, last |-> now]  BY <1>8, <2>1 DEF Balance
      <3>2. admitted'[x] = IF ok THEN Append(admitted[a], now) ELSE admitted[a]
        BY <1>0, <1>3, <1>8, <2>1
      <3> QED  BY <1>7, <3>1, <3>2
    <2>2. CASE x # a
      <3>1. admitted'[x] = admitted[x]  BY <1>3, <1>8, <2>2
      <3>2. Exact(admitted[x], Current(x).tokens, Current(x).last)
        BY KeptIsExact DEF Inv
      <3>3. Balance(x)' = Current(x)
        BY <1>2, <1>8, <2>2 DEF Balance, Current, Full
      <3> QED  BY <3>1, <3>2, <3>3
    <2> QED  BY <2>1, <2>2
  <1>11. WithinRate'
    <2> SUFFICES ASSUME NEW x \in Key
                 PROVE  Conforms(admitted'[x], Fast)
      BY DEF WithinRate, Fast
    <2>1. CASE ok /\ x = a
      BY <1>3, <1>7, <1>8, <2>1
    <2>2. CASE ~(ok /\ x = a)
      <3>1. admitted'[x] = admitted[x]  BY <1>3, <1>8, <2>2
      <3> QED  BY <3>1 DEF Inv, WithinRate, Fast
    <2> QED  BY <2>1, <2>2
  <1>12. RefusedIsDue'
    <2> SUFFICES ASSUME ~ok
                 PROVE  ~Conforms(Append(admitted'[a], now), Slow)
      BY <1>2, <1>8 DEF RefusedIsDue, Slow
    <2> QED  BY <1>7, <1>8
  <1> QED  BY <1>9, <1>10, <1>11, <1>12 DEF Inv

LEMMA TickInv == Inv /\ Tick => Inv'
  <1> SUFFICES ASSUME Inv, Tick PROVE Inv'
    OBVIOUS
  <1>1. /\ now' = now + 1 /\ now < Horizon /\ answer' = NoAnswer /\ now \in Nat /\ Horizon \in Nat
        /\ UNCHANGED <<config, serving, buckets, lastPrune, admitted>>
    BY RateAssumption DEF Tick, Inv, TypeInv, TypeOK
  <1>2. TypeInv'
    <2>1. now' \in 0..Horizon /\ lastPrune' \in 0..now'  BY <1>1 DEF Inv, TypeInv, TypeOK
    <2>2. \A k \in DOMAIN buckets' : buckets'[k] \in Bucket /\ buckets'[k].last <= now'
      <3>1. \A k \in DOMAIN buckets : buckets[k] \in Bucket /\ buckets[k].last <= now
        BY DEF Inv, TypeInv, TypeOK
      <3> QED  BY <1>1, <3>1 DEF Bucket
    <2>3. answer' \in [who : Key, ok : BOOLEAN]  BY <1>1 DEF NoAnswer, Key
    <2> QED  BY <1>1, <2>1, <2>2, <2>3 DEF Inv, TypeInv, TypeOK
  <1>3. Ledger'
    <2> SUFFICES ASSUME NEW a \in Key
                 PROVE  Exact(admitted[a], Balance(a)'.tokens, Balance(a)'.last)
      BY <1>1 DEF Ledger
    <2>1. Exact(admitted[a], Balance(a).tokens, Balance(a).last) /\ admitted[a] \in Seq(Nat)
      BY DEF Inv, Ledger, TypeInv, TypeOK
    <2>2. CASE a \in DOMAIN buckets
      BY <1>1, <2>1, <2>2 DEF Balance
    <2>3. CASE a \notin DOMAIN buckets
      <3>1. Exact(admitted[a], Cap, now)  BY <2>1, <2>3 DEF Balance, Full
      <3>2. Cap \in 0..Cap /\ now + 1 \in Nat /\ now <= now + 1 /\ now + 1 - now = 1
        BY <1>1, UnitsAreNat
      <3>3. Fills(Cap, Cap, 1)  BY UnitsAreNat, RatesAreInt DEF Fills
      <3>4. Exact(admitted[a], Cap, now + 1)
        BY <1>1, <2>1, <3>1, <3>2, <3>3, FillIsExact
      <3> QED  BY <1>1, <2>3, <3>4 DEF Balance, Full
    <2> QED  BY <2>2, <2>3
  <1>4. WithinRate'  BY <1>1 DEF Inv, WithinRate
  <1>5. RefusedIsDue'  BY <1>1 DEF RefusedIsDue, NoAnswer
  <1> QED  BY <1>2, <1>3, <1>4, <1>5 DEF Inv

LEMMA NextInv == Inv /\ [Next]_vars => Inv'
  <1> SUFFICES ASSUME Inv, [Next]_vars PROVE Inv'
    OBVIOUS
  <1>1. CASE Start
    <2>1. TypeInv'  BY <1>1 DEF Inv, TypeInv, TypeOK, Start
    <2>2. Ledger'  BY <1>1 DEF Inv, Ledger, Start, Balance
    <2>3. WithinRate' /\ RefusedIsDue'  BY <1>1 DEF Inv, WithinRate, RefusedIsDue, Start
    <2> QED  BY <2>1, <2>2, <2>3 DEF Inv
  <1>2. CASE Tick
    BY <1>2, TickInv
  <1>3. ASSUME NEW r \in Request, Handle(r) PROVE Inv'
    BY <1>3, HandleInv
  <1>4. CASE UNCHANGED vars
    BY <1>4 DEF vars, Inv, TypeInv, TypeOK, Ledger, Balance, WithinRate, RefusedIsDue
  <1> QED  BY <1>1, <1>2, <1>3, <1>4 DEF Next

------------------------------------------------------------------------------
LEMMA InvHolds == Spec => []Inv
  BY InitInv, NextInv, PTL DEF Spec

\* An account is never admitted more than a full bucket and what has flowed in since, up
\* to one rounding error a tick, whatever the limit, the window, the pruning, the number
\* of proxies and its setting, and the headers.
THEOREM WithinRateHolds == Spec => []WithinRate
  BY InvHolds, PTL DEF Inv

\* It is never refused a request that this rate, less one rounding error a tick, admits.
THEOREM RefusedIsDueHolds == Spec => []RefusedIsDue
  BY InvHolds, PTL DEF Inv
==============================================================================
