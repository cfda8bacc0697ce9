---------------------------- MODULE RateLimiter -----------------------------
(***************************************************************************)
(* middlware/ratelimit.go: a token bucket per client address, kept in a    *)
(* map from which cleanupLoop deletes the addresses not seen for a while.  *)
(*                                                                         *)
(* A request runs getLimiter under the mutex and then, without it, Allow   *)
(* on the limiter it was given.  In between the clock goes on, other       *)
(* requests come and the cleanup runs.                                     *)
(*                                                                         *)
(* The clock counts in the time in which one token is refilled (100 ms).   *)
(***************************************************************************)
EXTENDS Naturals

CONSTANTS IPs,          \* client addresses
          Requests,     \* concurrent requests
          Burst,        \* burst: 30
          IdleTimeout,  \* what cleanupLoop allows since lastSeen: 10 minutes
          MaxStall,     \* from getLimiter to Allow it takes no longer than this
          NoIP,
          MaxTime,      \* bound on the clock
          MaxAsked      \* bound on requests

\* An idle bucket has filled up before it is deleted.
ASSUME LimiterAssumption ==
    /\ NoIP \notin IPs
    /\ {Burst, IdleTimeout, MaxStall, MaxTime, MaxAsked} \subseteq Nat
    /\ MaxStall + Burst <= IdleTimeout

VARIABLES visitors,   \* visitors[ip]: the entry of the map
          waiting,    \* waiting[r]: the request is between getLimiter and Allow
          now,        \* the clock
          asked,      \* how many requests there were
          served, refused  \* history: the answers, for each address

limiterVars == <<visitors, waiting, now, asked, served, refused>>

\* An entry: the limiter's tokens as of the time last, and lastSeen.
Visitor == [present : BOOLEAN, tokens : 0 .. Burst, last : Nat, lastSeen : Nat]

LimiterTypeOK ==
    /\ visitors \in [IPs -> Visitor]
    /\ waiting \in [Requests -> [ip : IPs \cup {NoIP}, since : Nat]]
    /\ now \in Nat
    /\ asked \in Nat
    /\ served \in [IPs -> Nat]
    /\ refused \in [IPs -> Nat]

NoVisitor == [present |-> FALSE, tokens |-> 0, last |-> 0, lastSeen |-> 0]
NotWaiting == [ip |-> NoIP, since |-> 0]

LimiterInit ==
    /\ visitors = [ip \in IPs |-> NoVisitor]
    /\ waiting = [r \in Requests |-> NotWaiting]
    /\ now = 0
    /\ asked = 0
    /\ served = [ip \in IPs |-> 0]
    /\ refused = [ip \in IPs |-> 0]

\* Mutant: lastSeen is set only when the entry is made.
SeenOnce(v) ==
    IF v.present THEN v
    ELSE [present |-> TRUE, tokens |-> Burst, last |-> now, lastSeen |-> now]

\* The entry after getLimiter: a new one has a full bucket (rate.NewLimiter).
Seen(v) ==
    IF v.present THEN [v EXCEPT !.lastSeen = now]
    ELSE [present |-> TRUE, tokens |-> Burst, last |-> now, lastSeen |-> now]

GetLimiter(r, ip) ==
    /\ waiting[r] = NotWaiting
    /\ asked < MaxAsked
    /\ asked' = asked + 1
    /\ visitors' = [visitors EXCEPT ![ip] = Seen(@)]
    /\ waiting' = [waiting EXCEPT ![r] = [ip |-> ip, since |-> now]]
    /\ UNCHANGED <<now, served, refused>>

\* The tokens of a limiter now (rate.Limiter.advance).
Tokens(v) == LET t == v.tokens + (now - v.last) IN IF t < Burst THEN t ELSE Burst

\* limiter.Allow.
Allow(v) == Tokens(v) > 0

\* The rest of the middleware: the request goes on to the handlers, and a token
\* is taken, or it is answered with status 429.
Middleware(r) ==
    LET ip == waiting[r].ip
        v == visitors[ip] IN
    /\ ip # NoIP
    /\ waiting' = [waiting EXCEPT ![r] = NotWaiting]
    /\ IF Allow(v)
       THEN /\ visitors' = [visitors EXCEPT ![ip] =
                              [@ EXCEPT !.tokens = Tokens(v) - 1, !.last = now]]
            /\ served' = [served EXCEPT ![ip] = @ + 1]
            /\ UNCHANGED refused
       ELSE /\ refused' = [refused EXCEPT ![ip] = @ + 1]
            /\ UNCHANGED <<visitors, served>>
    /\ UNCHANGED <<now, asked>>

\* Mutant: an entry goes as soon as it has been idle for a tick.
StaleEarly(v) == now - v.lastSeen > 0

Stale(v) == now - v.lastSeen > IdleTimeout

\* One round of cleanupLoop, under the mutex.
Cleanup ==
    /\ \E ip \in IPs : visitors[ip].present /\ Stale(visitors[ip])
    /\ visitors' = [ip \in IPs |-> IF visitors[ip].present /\ Stale(visitors[ip])
                                   THEN NoVisitor ELSE visitors[ip]]
    /\ UNCHANGED <<waiting, now, asked, served, refused>>

\* Time passes; no goroutine is held up for longer than MaxStall.
Tick ==
    /\ now < MaxTime
    /\ \A r \in Requests : waiting[r].ip # NoIP => now < waiting[r].since + MaxStall
    /\ now' = now + 1
    /\ UNCHANGED <<visitors, waiting, asked, served, refused>>

LimiterNext ==
    \/ \E r \in Requests : Middleware(r) \/ \E ip \in IPs : GetLimiter(r, ip)
    \/ Cleanup
    \/ Tick

LimiterSpec == LimiterInit /\ [][LimiterNext]_limiterVars

-----------------------------------------------------------------------------
\* Properties.

(***************************************************************************)
(* NeverOrphaned: the limiter that a request was given by getLimiter is    *)
(* still the one in the map when Allow is called: no token is taken from a *)
(* bucket that the cleanup has replaced.                                   *)
(***************************************************************************)
NeverOrphaned ==
    \A r \in Requests : waiting[r].ip # NoIP => visitors[waiting[r].ip].present

\* The bucket an address has, or would be given.
Level == [ip \in IPs |-> IF visitors[ip].present THEN Tokens(visitors[ip]) ELSE Burst]

Bucket == INSTANCE TokenBucket WITH level <- Level

(***************************************************************************)
(* ImplementsBucket: the map with its cleanup behaves like buckets that    *)
(* are kept for ever: deleting an entry and making it anew never gives a   *)
(* client tokens it had not earned, nor takes any away, although Allow     *)
(* runs after the mutex is released and a bucket is used again later than  *)
(* lastSeen says.                                                          *)
(***************************************************************************)
ImplementsBucket == Bucket!Spec
=============================================================================
