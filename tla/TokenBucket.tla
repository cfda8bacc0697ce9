---------------------------- MODULE TokenBucket -----------------------------
(***************************************************************************)
(* What the rate limiter promises: every client address has a bucket of    *)
(* its own that is never thrown away.  It holds at most Burst tokens, one  *)
(* is added each tick of the clock, one is taken for each request that is  *)
(* served, and a request is refused only when the bucket is empty.         *)
(***************************************************************************)
EXTENDS Naturals

CONSTANTS IPs,      \* client addresses
          Burst     \* the size of a bucket

VARIABLES level,    \* level[ip]: the tokens in the bucket
          served,   \* served[ip]: how many requests were served
          refused   \* refused[ip]: how many requests were refused

bucketVars == <<level, served, refused>>

Init ==
    /\ level = [ip \in IPs |-> Burst]
    /\ served = [ip \in IPs |-> 0]
    /\ refused = [ip \in IPs |-> 0]

Refill ==
    /\ level' = [ip \in IPs |-> IF level[ip] < Burst THEN level[ip] + 1 ELSE Burst]
    /\ UNCHANGED <<served, refused>>

Serve(ip) ==
    /\ level[ip] > 0
    /\ level' = [level EXCEPT ![ip] = @ - 1]
    /\ served' = [served EXCEPT ![ip] = @ + 1]
    /\ UNCHANGED refused

Refuse(ip) ==
    /\ level[ip] = 0
    /\ refused' = [refused EXCEPT ![ip] = @ + 1]
    /\ UNCHANGED <<level, served>>

Next == Refill \/ \E ip \in IPs : Serve(ip) \/ Refuse(ip)

Spec == Init /\ [][Next]_bucketVars
=============================================================================
