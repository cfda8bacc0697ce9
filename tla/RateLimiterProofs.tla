------------------------- MODULE RateLimiterProofs --------------------------
(***************************************************************************)
(* Proofs about RateLimiter, for any number of addresses and requests and  *)
(* every burst and timeout that LimiterAssumption allows: a request always *)
(* finds the limiter it was given in the map, and the map with its cleanup *)
(* implements TokenBucket, the buckets that are never thrown away.         *)
(***************************************************************************)
EXTENDS RateLimiter, TLAPS

\* Allow runs at most MaxStall after the request that was seen last.
UsedInTime ==
    \A ip \in IPs : visitors[ip].present =>
        /\ visitors[ip].last <= now
        /\ visitors[ip].lastSeen <= now
        /\ visitors[ip].last <= visitors[ip].lastSeen + MaxStall

\* A request that waits has its entry in the map, seen since it began to wait.
WaitsInTime ==
    \A r \in Requests : waiting[r].ip # NoIP =>
        /\ waiting[r].since <= now
        /\ now <= waiting[r].since + MaxStall
        /\ visitors[waiting[r].ip].present
        /\ waiting[r].since <= visitors[waiting[r].ip].lastSeen

\* The inductive invariant.
LInv == LimiterTypeOK /\ UsedInTime /\ WaitsInTime

-----------------------------------------------------------------------------
\* The types of the entries, for the steps below.
LEMMA EntryTypes ==
    ASSUME LimiterTypeOK
    PROVE  /\ \A ip \in IPs : /\ visitors[ip] \in Visitor
                              /\ visitors[ip].present \in BOOLEAN
                              /\ visitors[ip].tokens \in 0 .. Burst
                              /\ visitors[ip].last \in Nat
                              /\ visitors[ip].lastSeen \in Nat
           /\ \A r \in Requests : /\ waiting[r].ip \in IPs \cup {NoIP}
                                  /\ waiting[r].since \in Nat
           /\ now \in Nat
BY DEF LimiterTypeOK, Visitor

\* The constants are natural numbers.
LEMMA ConstantTypes == Burst \in Nat /\ IdleTimeout \in Nat /\ MaxStall \in Nat
BY LimiterAssumption

\* advance: the tokens of an entry that is in the map are at most Burst.
LEMMA TokensBounded ==
    ASSUME LInv, NEW ip \in IPs, visitors[ip].present
    PROVE  Tokens(visitors[ip]) \in 0 .. Burst
<1>1. visitors[ip].tokens \in 0 .. Burst /\ visitors[ip].last \in Nat /\ now \in Nat
  BY EntryTypes DEF LInv
<1>2. visitors[ip].last <= now
  BY DEF LInv, UsedInTime
<1> QED
  BY <1>1, <1>2, ConstantTypes DEF Tokens

\* getLimiter keeps an entry, or makes one with a full bucket.
LEMMA SeenIsVisitor ==
    ASSUME LimiterTypeOK, NEW ip \in IPs
    PROVE  /\ Seen(visitors[ip]) \in Visitor
           /\ Seen(visitors[ip]).present
           /\ Seen(visitors[ip]).lastSeen = now
           /\ visitors[ip].present =>
                 /\ Seen(visitors[ip]).tokens = visitors[ip].tokens
                 /\ Seen(visitors[ip]).last = visitors[ip].last
           /\ ~visitors[ip].present =>
                 /\ Seen(visitors[ip]).tokens = Burst
                 /\ Seen(visitors[ip]).last = now
<1>1. visitors[ip] \in Visitor /\ now \in Nat
  BY EntryTypes
<1>2. CASE visitors[ip].present
  BY <1>1, <1>2 DEF Seen, Visitor
<1>3. CASE ~visitors[ip].present
  BY <1>1, <1>3, ConstantTypes DEF Seen, Visitor
<1> QED
  BY <1>2, <1>3

-----------------------------------------------------------------------------
LEMMA InitLInv == LimiterInit => LInv
BY ConstantTypes
   DEF LimiterInit, LInv, LimiterTypeOK, UsedInTime, WaitsInTime, Visitor,
       NoVisitor, NotWaiting

LEMMA GetLimiterStep ==
    ASSUME LInv, NEW r \in Requests, NEW ip \in IPs, GetLimiter(r, ip)
    PROVE  LInv'
<1>0. LimiterTypeOK
  BY DEF LInv
<1>1. /\ visitors' = [visitors EXCEPT ![ip] = Seen(visitors[ip])]
      /\ waiting' = [waiting EXCEPT ![r] = [ip |-> ip, since |-> now]]
      /\ now' = now /\ asked' = asked + 1 /\ served' = served /\ refused' = refused
  BY DEF GetLimiter
<1>2. LimiterTypeOK'
  BY <1>0, <1>1, SeenIsVisitor DEF LimiterTypeOK
<1>3. UsedInTime'
  <2> SUFFICES ASSUME NEW j \in IPs, visitors'[j].present
               PROVE  /\ visitors'[j].last <= now
                      /\ visitors'[j].lastSeen <= now
                      /\ visitors'[j].last <= visitors'[j].lastSeen + MaxStall
    BY <1>1 DEF UsedInTime
  <2>1. CASE j = ip
    <3>1. visitors'[j] = Seen(visitors[ip])
      BY <1>0, <1>1, <2>1 DEF LimiterTypeOK
    <3>2. now \in Nat /\ visitors[ip].present \in BOOLEAN /\ visitors[ip].last \in Nat
      BY <1>0, EntryTypes
    <3>3. CASE visitors[ip].present
      <4>1. visitors[ip].last <= now
        BY <3>3 DEF LInv, UsedInTime
      <4>2. Seen(visitors[ip]).last = visitors[ip].last /\ Seen(visitors[ip]).lastSeen = now
        BY <1>0, <3>3, SeenIsVisitor
      <4> QED
        BY <3>1, <3>2, <4>1, <4>2, ConstantTypes
    <3>4. CASE ~visitors[ip].present
      <4>1. Seen(visitors[ip]).last = now /\ Seen(visitors[ip]).lastSeen = now
        BY <1>0, <3>4, SeenIsVisitor
      <4> QED
        BY <3>1, <3>2, <4>1, ConstantTypes
    <3> QED
      BY <3>3, <3>4
  <2>2. CASE j # ip
    <3>1. visitors'[j] = visitors[j]
      BY <1>0, <1>1, <2>2 DEF LimiterTypeOK
    <3> QED
      BY <3>1 DEF LInv, UsedInTime
  <2> QED
    BY <2>1, <2>2
<1>4. WaitsInTime'
  <2> SUFFICES ASSUME NEW q \in Requests, waiting'[q].ip # NoIP
               PROVE  /\ waiting'[q].since <= now
                      /\ now <= waiting'[q].since + MaxStall
                      /\ visitors'[waiting'[q].ip].present
                      /\ waiting'[q].since <= visitors'[waiting'[q].ip].lastSeen
    BY <1>1 DEF WaitsInTime
  <2>0. now \in Nat
    BY <1>0, EntryTypes
  <2>1. CASE q = r
    <3>1. waiting'[q] = [ip |-> ip, since |-> now]
      BY <1>0, <1>1, <2>1 DEF LimiterTypeOK
    <3>2. visitors'[ip] = Seen(visitors[ip])
      BY <1>0, <1>1 DEF LimiterTypeOK
    <3> QED
      BY <1>0, <2>0, <3>1, <3>2, SeenIsVisitor, ConstantTypes
  <2>2. CASE q # r
    <3>1. waiting'[q] = waiting[q]
      BY <1>0, <1>1, <2>2 DEF LimiterTypeOK
    <3>2. /\ waiting[q].since <= now
          /\ now <= waiting[q].since + MaxStall
          /\ visitors[waiting[q].ip].present
          /\ waiting[q].since <= visitors[waiting[q].ip].lastSeen
      BY <3>1 DEF LInv, WaitsInTime
    <3>3. CASE waiting[q].ip = ip
      <4>1. visitors'[ip] = Seen(visitors[ip])
        BY <1>0, <1>1 DEF LimiterTypeOK
      <4> QED
        BY <1>0, <3>1, <3>2, <3>3, <4>1, SeenIsVisitor
    <3>4. CASE waiting[q].ip # ip
      <4>1. waiting[q].ip \in IPs
        BY <1>0, <3>1, EntryTypes
      <4>2. visitors'[waiting[q].ip] = visitors[waiting[q].ip]
        BY <1>0, <1>1, <3>4, <4>1 DEF LimiterTypeOK
      <4> QED
        BY <3>1, <3>2, <4>2
    <3> QED
      BY <3>3, <3>4
  <2> QED
    BY <2>1, <2>2
<1> QED
  BY <1>2, <1>3, <1>4 DEF LInv

\* What Allow finds: the entry of the address, in time.
LEMMA AllowedInTime ==
    ASSUME LInv, NEW r \in Requests, waiting[r].ip # NoIP
    PROVE  /\ waiting[r].ip \in IPs
           /\ visitors[waiting[r].ip] \in Visitor
           /\ visitors[waiting[r].ip].present
           /\ Tokens(visitors[waiting[r].ip]) \in 0 .. Burst
           /\ visitors[waiting[r].ip].lastSeen <= now
           /\ now <= visitors[waiting[r].ip].lastSeen + MaxStall
<1>1. waiting[r].ip \in IPs /\ waiting[r].since \in Nat /\ now \in Nat
  BY EntryTypes DEF LInv
<1>2. /\ visitors[waiting[r].ip] \in Visitor
      /\ visitors[waiting[r].ip].lastSeen \in Nat
  BY <1>1, EntryTypes DEF LInv
<1>3. /\ now <= waiting[r].since + MaxStall
      /\ visitors[waiting[r].ip].present
      /\ waiting[r].since <= visitors[waiting[r].ip].lastSeen
  BY DEF LInv, WaitsInTime
<1>4. visitors[waiting[r].ip].lastSeen <= now
  BY <1>1, <1>3 DEF LInv, UsedInTime
<1>5. Tokens(visitors[waiting[r].ip]) \in 0 .. Burst
  BY <1>1, <1>3, TokensBounded
<1> QED
  BY <1>1, <1>2, <1>3, <1>4, <1>5, ConstantTypes

LEMMA MiddlewareStep ==
    ASSUME LInv, NEW r \in Requests, Middleware(r)
    PROVE  LInv'
<1> DEFINE ip == waiting[r].ip
           v == visitors[ip]
<1>0. LimiterTypeOK
  BY DEF LInv
<1>1. /\ ip # NoIP
      /\ waiting' = [waiting EXCEPT ![r] = NotWaiting]
      /\ now' = now /\ asked' = asked
  BY DEF Middleware
<1>2. /\ ip \in IPs /\ v \in Visitor /\ v.present
      /\ Tokens(v) \in 0 .. Burst
      /\ v.lastSeen <= now /\ now <= v.lastSeen + MaxStall
  BY <1>1, AllowedInTime
<1>3. now \in Nat /\ v.lastSeen \in Nat
  BY <1>0, <1>2, EntryTypes
<1>4. \A q \in Requests : waiting'[q].ip # NoIP => q # r /\ waiting'[q] = waiting[q]
  BY <1>0, <1>1 DEF LimiterTypeOK, NotWaiting
<1>5. waiting' \in [Requests -> [ip : IPs \cup {NoIP}, since : Nat]]
  BY <1>0, <1>1 DEF LimiterTypeOK, NotWaiting
<1>6. CASE Allow(v)
  <2>1. /\ visitors' = [visitors EXCEPT ![ip] =
                          [v EXCEPT !.tokens = Tokens(v) - 1, !.last = now]]
        /\ served' = [served EXCEPT ![ip] = served[ip] + 1]
        /\ refused' = refused
    BY <1>6 DEF Middleware
  <2> DEFINE w == [v EXCEPT !.tokens = Tokens(v) - 1, !.last = now]
  <2>2. Tokens(v) - 1 \in 0 .. Burst
    BY <1>2, <1>6, ConstantTypes DEF Allow
  <2>3. /\ w \in Visitor /\ w.present /\ w.last = now /\ w.lastSeen = v.lastSeen
    BY <1>2, <1>3, <2>2 DEF Visitor
  <2> HIDE DEF w
  <2>4. visitors' = [visitors EXCEPT ![ip] = w]
    BY <2>1 DEF w
  <2>5. LimiterTypeOK'
    BY <1>0, <1>1, <1>2, <1>5, <2>1, <2>3, <2>4 DEF LimiterTypeOK
  <2>6. visitors'[ip] = w /\ \A j \in IPs : j # ip => visitors'[j] = visitors[j]
    BY <1>0, <1>2, <2>4 DEF LimiterTypeOK
  <2>7. UsedInTime'
    <3> SUFFICES ASSUME NEW j \in IPs, visitors'[j].present
                 PROVE  /\ visitors'[j].last <= now
                        /\ visitors'[j].lastSeen <= now
                        /\ visitors'[j].last <= visitors'[j].lastSeen + MaxStall
      BY <1>1 DEF UsedInTime
    <3>1. CASE j = ip
      BY <1>2, <1>3, <2>3, <2>6, <3>1
    <3>2. CASE j # ip
      <4>1. visitors'[j] = visitors[j]
        BY <2>6, <3>2
      <4> QED
        BY <4>1 DEF LInv, UsedInTime
    <3> QED
      BY <3>1, <3>2
  <2>8. WaitsInTime'
    <3> SUFFICES ASSUME NEW q \in Requests, waiting'[q].ip # NoIP
                 PROVE  /\ waiting'[q].since <= now
                        /\ now <= waiting'[q].since + MaxStall
                        /\ visitors'[waiting'[q].ip].present
                        /\ waiting'[q].since <= visitors'[waiting'[q].ip].lastSeen
      BY <1>1 DEF WaitsInTime
    <3>1. waiting'[q] = waiting[q]
      BY <1>4
    <3>2. /\ waiting[q].since <= now
          /\ now <= waiting[q].since + MaxStall
          /\ visitors[waiting[q].ip].present
          /\ waiting[q].since <= visitors[waiting[q].ip].lastSeen
      BY <3>1 DEF LInv, WaitsInTime
    <3>3. waiting[q].ip \in IPs
      BY <1>0, <3>1, EntryTypes
    <3>4. CASE waiting[q].ip = ip
      BY <2>3, <2>6, <3>1, <3>2, <3>4
    <3>5. CASE waiting[q].ip # ip
      <4>1. visitors'[waiting[q].ip] = visitors[waiting[q].ip]
        BY <2>6, <3>3, <3>5
      <4> QED
        BY <3>1, <3>2, <4>1
    <3> QED
      BY <3>4, <3>5
  <2> QED
    BY <2>5, <2>7, <2>8 DEF LInv
<1>7. CASE ~Allow(v)
  <2>1. /\ visitors' = visitors
        /\ served' = served
        /\ refused' = [refused EXCEPT ![ip] = refused[ip] + 1]
    BY <1>7 DEF Middleware
  <2>2. LimiterTypeOK'
    BY <1>0, <1>1, <1>2, <1>5, <2>1 DEF LimiterTypeOK
  <2>3. UsedInTime'
    BY <1>1, <2>1 DEF LInv, UsedInTime
  <2>4. WaitsInTime'
    BY <1>1, <1>4, <2>1 DEF LInv, WaitsInTime
  <2> QED
    BY <2>2, <2>3, <2>4 DEF LInv
<1> QED
  BY <1>6, <1>7

\* What cleanupLoop deletes has a full bucket, and nobody waits for it.
LEMMA StaleIsFull ==
    ASSUME LInv, NEW ip \in IPs, visitors[ip].present, Stale(visitors[ip])
    PROVE  /\ Tokens(visitors[ip]) = Burst
           /\ \A r \in Requests : waiting[r].ip # ip
<1>1. /\ visitors[ip].tokens \in 0 .. Burst /\ visitors[ip].last \in Nat
      /\ visitors[ip].lastSeen \in Nat /\ now \in Nat
  BY EntryTypes DEF LInv
<1>2. /\ visitors[ip].last <= now
      /\ visitors[ip].lastSeen <= now
      /\ visitors[ip].last <= visitors[ip].lastSeen + MaxStall
  BY DEF LInv, UsedInTime
<1>3. now > visitors[ip].lastSeen + IdleTimeout
  BY <1>1, <1>2, ConstantTypes DEF Stale
<1>4. MaxStall + Burst <= IdleTimeout
  BY LimiterAssumption
<1>5. Tokens(visitors[ip]) = Burst
  BY <1>1, <1>2, <1>3, <1>4, ConstantTypes DEF Tokens
<1>6. ASSUME NEW r \in Requests, waiting[r].ip = ip
      PROVE  FALSE
  <2>1. waiting[r].ip # NoIP /\ waiting[r].since \in Nat
    BY <1>6, LimiterAssumption, EntryTypes DEF LInv
  <2>2. now <= waiting[r].since + MaxStall /\ waiting[r].since <= visitors[ip].lastSeen
    BY <1>6, <2>1 DEF LInv, WaitsInTime
  <2> QED
    BY <1>1, <1>3, <1>4, <2>1, <2>2, ConstantTypes
<1> QED
  BY <1>5, <1>6

LEMMA CleanupStep ==
    ASSUME LInv, Cleanup
    PROVE  LInv'
<1>0. LimiterTypeOK
  BY DEF LInv
<1>1. /\ visitors' = [ip \in IPs |-> IF visitors[ip].present /\ Stale(visitors[ip])
                                      THEN NoVisitor ELSE visitors[ip]]
      /\ waiting' = waiting /\ now' = now
      /\ asked' = asked /\ served' = served /\ refused' = refused
  BY DEF Cleanup
<1>2. NoVisitor \in Visitor /\ NoVisitor.present = FALSE
  BY ConstantTypes DEF NoVisitor, Visitor
<1>3. LimiterTypeOK'
  BY <1>0, <1>1, <1>2 DEF LimiterTypeOK
<1>4. \A ip \in IPs : visitors'[ip].present => visitors'[ip] = visitors[ip]
  BY <1>1, <1>2
<1>5. UsedInTime'
  BY <1>1, <1>4 DEF LInv, UsedInTime
<1>6. ASSUME NEW r \in Requests, waiting[r].ip # NoIP
      PROVE  visitors'[waiting[r].ip] = visitors[waiting[r].ip]
  <2>1. waiting[r].ip \in IPs
    BY <1>0, <1>6, EntryTypes
  <2>2. ~(visitors[waiting[r].ip].present /\ Stale(visitors[waiting[r].ip]))
    BY <2>1, StaleIsFull
  <2> QED
    BY <1>1, <2>1, <2>2
<1>7. WaitsInTime'
  BY <1>1, <1>6 DEF LInv, WaitsInTime
<1> QED
  BY <1>3, <1>5, <1>7 DEF LInv

LEMMA TickStep ==
    ASSUME LInv, Tick
    PROVE  LInv'
<1>1. /\ now' = now + 1
      /\ visitors' = visitors /\ waiting' = waiting
      /\ asked' = asked /\ served' = served /\ refused' = refused
      /\ \A r \in Requests : waiting[r].ip # NoIP => now < waiting[r].since + MaxStall
  BY DEF Tick
<1>2. /\ now \in Nat
      /\ \A ip \in IPs : visitors[ip].last \in Nat /\ visitors[ip].lastSeen \in Nat
      /\ \A r \in Requests : waiting[r].since \in Nat
  BY EntryTypes DEF LInv
<1>3. LimiterTypeOK'
  BY <1>1, <1>2 DEF LInv, LimiterTypeOK
<1>4. UsedInTime'
  BY <1>1, <1>2 DEF LInv, UsedInTime
<1>5. WaitsInTime'
  BY <1>1, <1>2, ConstantTypes DEF LInv, WaitsInTime
<1> QED
  BY <1>3, <1>4, <1>5 DEF LInv

LEMMA NextLInv == LInv /\ [LimiterNext]_limiterVars => LInv'
<1> SUFFICES ASSUME LInv, [LimiterNext]_limiterVars
             PROVE  LInv'
  OBVIOUS
<1>1. CASE \E r \in Requests : Middleware(r)
  BY <1>1, MiddlewareStep
<1>2. CASE \E r \in Requests, ip \in IPs : GetLimiter(r, ip)
  BY <1>2, GetLimiterStep
<1>3. CASE Cleanup
  BY <1>3, CleanupStep
<1>4. CASE Tick
  BY <1>4, TickStep
<1>5. CASE UNCHANGED limiterVars
  BY <1>5 DEF limiterVars, LInv, LimiterTypeOK, UsedInTime, WaitsInTime
<1> QED
  BY <1>1, <1>2, <1>3, <1>4, <1>5 DEF LimiterNext

(***************************************************************************)
(* The inductive invariant of the limiter, between getLimiter, Allow and   *)
(* cleanupLoop, holds in every reachable state.                            *)
(***************************************************************************)
THEOREM LimiterInvariant == LimiterSpec => []LInv
BY InitLInv, NextLInv, PTL DEF LimiterSpec

\* Type correctness of the limiter: among the rest, no bucket has more than Burst
\* tokens or fewer than none.
THEOREM LimiterTypeCorrect == LimiterSpec => []LimiterTypeOK
<1>1. LInv => LimiterTypeOK
  BY DEF LInv
<1> QED
  BY <1>1, LimiterInvariant, PTL

\* The limiter that getLimiter gave a request is in the map when Allow is called.
THEOREM NoneOrphaned == LimiterSpec => []NeverOrphaned
<1>1. LInv => NeverOrphaned
  BY DEF LInv, WaitsInTime, NeverOrphaned
<1> QED
  BY <1>1, LimiterInvariant, PTL

-----------------------------------------------------------------------------
\* The refinement: Level, the tokens an address has or would be given, moves as
\* the level of a bucket that is kept for ever.

LEMMA LevelIsFunction ==
    ASSUME NEW ip \in IPs
    PROVE  /\ Level[ip] = IF visitors[ip].present THEN Tokens(visitors[ip]) ELSE Burst
           /\ Level'[ip] = IF visitors'[ip].present THEN Tokens(visitors[ip])' ELSE Burst
BY DEF Level

\* Two levels with equal values are equal.
LEMMA SameLevel ==
    ASSUME \A ip \in IPs : Level'[ip] = Level[ip]
    PROVE  Level' = Level
<1>1. Level = [ip \in IPs |-> Level[ip]] /\ Level' = [ip \in IPs |-> Level'[ip]]
  BY DEF Level
<1> QED
  BY <1>1

\* An entry that a step leaves alone, while the clock stands still, keeps its
\* level.
LEMMA SameEntry ==
    ASSUME NEW ip \in IPs, visitors'[ip] = visitors[ip], now' = now
    PROVE  Level'[ip] = Level[ip]
BY LevelIsFunction DEF Tokens

LEMMA GetLimiterStutters ==
    ASSUME LInv, NEW r \in Requests, NEW ip \in IPs, GetLimiter(r, ip)
    PROVE  UNCHANGED <<Level, served, refused>>
<1>0. LimiterTypeOK
  BY DEF LInv
<1>1. /\ visitors' = [visitors EXCEPT ![ip] = Seen(visitors[ip])]
      /\ now' = now /\ served' = served /\ refused' = refused
  BY DEF GetLimiter
<1>2. ASSUME NEW j \in IPs
      PROVE  Level'[j] = Level[j]
  <2>1. CASE j # ip
    <3>1. visitors'[j] = visitors[j]
      BY <1>0, <1>1, <2>1 DEF LimiterTypeOK
    <3> QED
      BY <1>1, <3>1, SameEntry
  <2>2. CASE j = ip
    <3>1. visitors'[j] = Seen(visitors[j])
      BY <1>0, <1>1, <2>2 DEF LimiterTypeOK
    <3>2. now \in Nat
      BY <1>0, EntryTypes
    <3>3. CASE visitors[j].present
      <4>1. /\ visitors'[j].present
            /\ visitors'[j].tokens = visitors[j].tokens
            /\ visitors'[j].last = visitors[j].last
        BY <1>0, <3>1, <3>3, SeenIsVisitor
      <4> QED
        BY <1>1, <3>3, <4>1, LevelIsFunction DEF Tokens
    <3>4. CASE ~visitors[j].present
      <4>1. /\ visitors'[j].present
            /\ visitors'[j].tokens = Burst
            /\ visitors'[j].last = now
        BY <1>0, <3>1, <3>4, SeenIsVisitor
      <4>2. Tokens(visitors[j])' = Burst
        BY <1>1, <3>2, <4>1, ConstantTypes DEF Tokens
      <4> QED
        BY <3>4, <4>1, <4>2, LevelIsFunction
    <3> QED
      BY <3>3, <3>4
  <2> QED
    BY <2>1, <2>2
<1> QED
  BY <1>1, <1>2, SameLevel

LEMMA MiddlewareServesOrRefuses ==
    ASSUME LInv, NEW r \in Requests, Middleware(r)
    PROVE  Bucket!Next
<1>0. LimiterTypeOK /\ waiting[r].ip # NoIP /\ now' = now
  BY DEF LInv, Middleware
<1>1. PICK ip \in IPs : ip = waiting[r].ip
  BY <1>0, AllowedInTime
<1> DEFINE t == Tokens(visitors[ip])
<1>2. visitors[ip] \in Visitor /\ visitors[ip].present /\ t \in 0 .. Burst
  BY <1>0, <1>1, AllowedInTime
<1>3. now \in Nat
  BY <1>0, EntryTypes
<1>4. Level[ip] = t
  BY <1>2, LevelIsFunction
<1>5. Level = [j \in IPs |-> Level[j]] /\ Level' = [j \in IPs |-> Level'[j]]
  BY DEF Level
<1>6. CASE Allow(visitors[ip])
  <2>1. /\ visitors' = [visitors EXCEPT ![ip] =
                          [visitors[ip] EXCEPT !.tokens = t - 1, !.last = now]]
        /\ served' = [served EXCEPT ![ip] = served[ip] + 1]
        /\ refused' = refused
    BY <1>1, <1>6 DEF Middleware
  <2>2. t > 0
    BY <1>6 DEF Allow
  <2>3. /\ visitors'[ip] = [visitors[ip] EXCEPT !.tokens = t - 1, !.last = now]
        /\ \A j \in IPs : j # ip => visitors'[j] = visitors[j]
    BY <1>0, <2>1 DEF LimiterTypeOK
  <2>4. /\ visitors'[ip].present
        /\ visitors'[ip].tokens = t - 1
        /\ visitors'[ip].last = now
    BY <1>2, <2>3 DEF Visitor
  <2>5. Level'[ip] = t - 1
    <3> HIDE DEF t
    <3>1. Tokens(visitors[ip])' = t - 1
      BY <1>0, <1>2, <1>3, <2>2, <2>4, ConstantTypes DEF Tokens
    <3> QED
      BY <2>4, <3>1, LevelIsFunction
  <2>6. \A j \in IPs : j # ip => Level'[j] = Level[j]
    BY <1>0, <2>3, SameEntry
  <2>7. Level' = [Level EXCEPT ![ip] = Level[ip] - 1]
    <3> HIDE DEF t
    <3> QED
      BY <1>4, <1>5, <2>5, <2>6
  <2>8. Bucket!Serve(ip)
    BY <1>4, <2>1, <2>2, <2>7 DEF Bucket!Serve
  <2> QED
    BY <2>8 DEF Bucket!Next
<1>7. CASE ~Allow(visitors[ip])
  <2>1. /\ visitors' = visitors /\ served' = served
        /\ refused' = [refused EXCEPT ![ip] = refused[ip] + 1]
    BY <1>1, <1>7 DEF Middleware
  <2>2. t = 0
    BY <1>2, <1>7, ConstantTypes DEF Allow
  <2>3. Level' = Level
    BY <1>0, <2>1, SameEntry, SameLevel
  <2>4. Bucket!Refuse(ip)
    BY <1>4, <2>1, <2>2, <2>3 DEF Bucket!Refuse
  <2> QED
    BY <2>4 DEF Bucket!Next
<1> QED
  BY <1>6, <1>7

LEMMA CleanupStutters ==
    ASSUME LInv, Cleanup
    PROVE  UNCHANGED <<Level, served, refused>>
<1>1. /\ visitors' = [ip \in IPs |-> IF visitors[ip].present /\ Stale(visitors[ip])
                                      THEN NoVisitor ELSE visitors[ip]]
      /\ now' = now /\ served' = served /\ refused' = refused
  BY DEF Cleanup
<1>2. ASSUME NEW j \in IPs
      PROVE  Level'[j] = Level[j]
  <2>1. CASE visitors[j].present /\ Stale(visitors[j])
    <3>1. ~visitors'[j].present
      BY <1>1, <2>1 DEF NoVisitor
    <3>2. Tokens(visitors[j]) = Burst
      BY <2>1, StaleIsFull
    <3> QED
      BY <2>1, <3>1, <3>2, LevelIsFunction
  <2>2. CASE ~(visitors[j].present /\ Stale(visitors[j]))
    <3>1. visitors'[j] = visitors[j]
      BY <1>1, <2>2
    <3> QED
      BY <1>1, <3>1, SameEntry
  <2> QED
    BY <2>1, <2>2
<1> QED
  BY <1>1, <1>2, SameLevel

LEMMA TickRefills ==
    ASSUME LInv, Tick
    PROVE  Bucket!Next
<1>1. now' = now + 1 /\ visitors' = visitors /\ served' = served /\ refused' = refused
  BY DEF Tick
<1>2. ASSUME NEW j \in IPs
      PROVE  Level'[j] = IF Level[j] < Burst THEN Level[j] + 1 ELSE Burst
  <2>1. CASE visitors[j].present
    <3>1. /\ visitors[j].tokens \in 0 .. Burst /\ visitors[j].last \in Nat
          /\ now \in Nat /\ visitors[j].last <= now
      BY <2>1, EntryTypes DEF LInv, UsedInTime
    <3>2. /\ Level[j] = Tokens(visitors[j])
          /\ Level'[j] = Tokens(visitors[j])'
      BY <1>1, <2>1, LevelIsFunction
    <3>3. Tokens(visitors[j])' = IF Tokens(visitors[j]) < Burst
                                 THEN Tokens(visitors[j]) + 1 ELSE Burst
      BY <1>1, <3>1, ConstantTypes DEF Tokens
    <3> QED
      BY <3>2, <3>3
  <2>2. CASE ~visitors[j].present
    <3>1. Level[j] = Burst /\ Level'[j] = Burst
      BY <1>1, <2>2, LevelIsFunction
    <3> QED
      BY <3>1, ConstantTypes
  <2> QED
    BY <2>1, <2>2
<1>3. Level' = [j \in IPs |-> Level'[j]]
  BY DEF Level
<1>4. Bucket!Refill
  BY <1>1, <1>2, <1>3 DEF Bucket!Refill
<1> QED
  BY <1>4 DEF Bucket!Next

LEMMA InitRefines == LimiterInit => Bucket!Init
<1> SUFFICES ASSUME LimiterInit
             PROVE  Bucket!Init
  OBVIOUS
<1>1. \A ip \in IPs : ~visitors[ip].present
  BY DEF LimiterInit, NoVisitor
<1>2. Level = [ip \in IPs |-> Burst]
  BY <1>1 DEF Level
<1> QED
  BY <1>2 DEF LimiterInit, Bucket!Init

LEMMA StepRefines == LInv /\ [LimiterNext]_limiterVars => [Bucket!Next]_(Bucket!bucketVars)
<1> SUFFICES ASSUME LInv, [LimiterNext]_limiterVars
             PROVE  Bucket!Next \/ UNCHANGED <<Level, served, refused>>
  BY DEF Bucket!bucketVars
<1>1. CASE \E r \in Requests : Middleware(r)
  BY <1>1, MiddlewareServesOrRefuses
<1>2. CASE \E r \in Requests, ip \in IPs : GetLimiter(r, ip)
  BY <1>2, GetLimiterStutters
<1>3. CASE Cleanup
  BY <1>3, CleanupStutters
<1>4. CASE Tick
  BY <1>4, TickRefills
<1>5. CASE UNCHANGED limiterVars
  BY <1>5, SameEntry, SameLevel DEF limiterVars
<1> QED
  BY <1>1, <1>2, <1>3, <1>4, <1>5 DEF LimiterNext

(***************************************************************************)
(* ratelimit.go implements TokenBucket: for every burst, number of         *)
(* addresses and of concurrent requests, and every idle timeout that lets  *)
(* a bucket fill up, the deletions of cleanupLoop cannot be told from the  *)
(* answers that clients get.                                               *)
(***************************************************************************)
THEOREM LimiterImplementsBucket == LimiterSpec => ImplementsBucket
BY InitRefines, StepRefines, LimiterInvariant, PTL
   DEF LimiterSpec, ImplementsBucket, Bucket!Spec
=============================================================================
