---------------------------- MODULE RateLimiter ----------------------------
(***************************************************************************)
(* The token buckets of internal/middleware/ratelimit.go, one per client   *)
(* address, refilled when a request looks at them and forgotten when none  *)
(* has for a while.  A mutex makes Allow and cleanup atomic.               *)
(*                                                                         *)
(* Beside each bucket runs the exact one, which gains Rate tokens in every *)
(* Interval without ever rounding.  It is history: what the program does   *)
(* never depends on it.                                                    *)
(***************************************************************************)
EXTENDS Integers, FiniteSets

CONSTANTS
    Clients,        \* the identifiers requests come with
    Rate,           \* tokens gained per interval
    Interval,       \* its length, in ticks of the clock
    MaxBurst,       \* what a full bucket holds
    CleanupAge,     \* how long an unused bucket is kept
    MaxTime,        \* bound: the clock stops here
    NoBucket        \* what the map of buckets has for an unknown client

ASSUME LimiterAssumption ==
    /\ Rate \in Nat \ {0}
    /\ Interval \in Nat \ {0}
    /\ MaxBurst \in Nat \ {0}
    /\ CleanupAge \in Nat
    /\ MaxTime \in Nat

VARIABLES
    now,        \* the monotonic clock
    buckets,    \* the limiter's map
    exact       \* history: the exact buckets, in 1/Interval of a token

vars == <<now, buckets, exact>>

Bucket == [tokens : Int, lastSeen : 0..MaxTime]

ASSUME BucketAssumption == NoBucket \notin Bucket

Capacity == MaxBurst * Interval

Smaller(a, b) == IF a < b THEN a ELSE b

\* A bucket holds no less than nothing and no more than a burst, and was last
\* looked at in the past.
TypeOK ==
    /\ now \in 0..MaxTime
    /\ buckets \in [Clients -> Bucket \cup {NoBucket}]
    /\ exact \in [Clients -> Int]
    /\ \A c \in Clients : buckets[c] # NoBucket =>
        /\ buckets[c].tokens \in 0..MaxBurst
        /\ buckets[c].lastSeen <= now

Init ==
    /\ now = 0
    /\ buckets = [c \in Clients |-> NoBucket]
    /\ exact = [c \in Clients |-> Capacity]
-----------------------------------------------------------------------------
Tick ==
    /\ now < MaxTime
    /\ now' = now + 1
    /\ exact' = [c \in Clients |-> Smaller(exact[c] + Rate, Capacity)]
    /\ UNCHANGED buckets

\* Mutant: the fraction of a token counts as a token.
RoundedUp(elapsed) == (elapsed * Rate + Interval - 1) \div Interval

\* The int() around the quotient drops the fraction of a token.
TokensToAdd(elapsed) == (elapsed * Rate) \div Interval

\* Mutant: the burst does not bound what a bucket collects.
UnboundedRefill(b) == b.tokens + TokensToAdd(now - b.lastSeen)

Refilled(b) == Smaller(b.tokens + TokensToAdd(now - b.lastSeen), MaxBurst)

\* Allow for a client without a bucket: a full one, less this request
AllowNew(c) ==
    /\ buckets[c] = NoBucket
    /\ buckets' = [buckets EXCEPT ![c] = [tokens |-> MaxBurst - 1,
                                          lastSeen |-> now]]
    /\ exact' = [exact EXCEPT ![c] = @ - Interval]
    /\ UNCHANGED now

AllowKnown(c) ==
    /\ buckets[c] # NoBucket
    /\ Refilled(buckets[c]) > 0
    /\ buckets' = [buckets EXCEPT ![c] = [tokens |-> Refilled(@) - 1,
                                          lastSeen |-> now]]
    /\ exact' = [exact EXCEPT ![c] = @ - Interval]
    /\ UNCHANGED now

\* Too many requests.  The bucket counts as seen all the same, and the part of
\* a token that had come together is gone.
Deny(c) ==
    /\ buckets[c] # NoBucket
    /\ Refilled(buckets[c]) <= 0
    /\ buckets' = [buckets EXCEPT ![c] = [tokens |-> Refilled(@),
                                          lastSeen |-> now]]
    /\ UNCHANGED <<now, exact>>

\* Mutant: a bucket is dropped as soon as it has not been used for a tick.
Unused(b) == b.lastSeen < now

Stale(b) == b.lastSeen < now - CleanupAge

\* The cleanup goroutine; its ticker says when, and any time will do here.
Cleanup ==
    /\ buckets' = [c \in Clients |->
            IF buckets[c] # NoBucket /\ Stale(buckets[c]) THEN NoBucket
            ELSE buckets[c]]
    /\ UNCHANGED <<now, exact>>

Next ==
    \/ Tick
    \/ \E c \in Clients : AllowNew(c) \/ AllowKnown(c) \/ Deny(c)
    \/ Cleanup

Spec == Init /\ [][Next]_vars
-----------------------------------------------------------------------------
\* The limiter never lets through more than the exact bucket would: rounding,
\* forgetting and starting again full never add up to an extra request.
NeverOverAdmits == \A c \in Clients : exact[c] >= 0

\* A bucket that is forgotten would be full again: forgetting it changes
\* nothing for its client.
ForgottenAreFull ==
    [][\A c \in Clients :
        (buckets[c] # NoBucket /\ buckets'[c] = NoBucket)
        => Refilled(buckets[c]) = MaxBurst]_vars

\* "rate: requests per interval", "token bucket": a client is not turned away
\* when a whole burst of tokens has come together for him.
EarnedBurstPasses ==
    [][\A c \in Clients : Deny(c) => exact[c] < Capacity]_vars
=============================================================================
