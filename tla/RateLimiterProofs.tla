------------------------- MODULE RateLimiterProofs -------------------------
(***************************************************************************)
(* The rate limiter admits no more than an exact token bucket, for every   *)
(* rate, interval and burst, as long as buckets are kept for the time one  *)
(* takes to fill.                                                          *)
(***************************************************************************)
EXTENDS RateLimiter, TLAPS

\* Integer arithmetic the solver needs help with
LEMMA TimesMonotone ==
    ASSUME NEW a \in Int, NEW b \in Int, NEW k \in Nat, a <= b
    PROVE  a * k <= b * k
    OBVIOUS

\* A product distributes over a sum.
LEMMA TimesPlus ==
    ASSUME NEW a \in Int, NEW b \in Int, NEW k \in Int
    PROVE  (a + b) * k = a * k + b * k
    OBVIOUS

\* A product of naturals is one.
LEMMA TimesType ==
    ASSUME NEW a \in Nat, NEW b \in Nat
    PROVE  a * b \in Nat
    OBVIOUS

\* A quotient rounds down.
LEMMA QuotientRoundsDown ==
    ASSUME NEW a \in Nat, NEW k \in Nat \ {0}
    PROVE  /\ a \div k \in Nat
           /\ (a \div k) * k <= a
           /\ a < (a \div k) * k + k
    OBVIOUS
-----------------------------------------------------------------------------
(* Type correctness *)

\* A full bucket holds at least one token.
LEMMA CapacityType == Capacity \in Nat /\ Capacity >= Interval
<1>1. Capacity \in Nat
    BY LimiterAssumption, TimesType DEF Capacity
<1>2. 1 * Interval <= MaxBurst * Interval
    BY LimiterAssumption, TimesMonotone
<1> QED BY <1>1, <1>2, LimiterAssumption DEF Capacity

\* What a request finds in its bucket: no more than a burst, no less than
\* before, and no more than what was there with what came together since.
LEMMA RefilledBounds ==
    ASSUME TypeOK, NEW c \in Clients, buckets[c] # NoBucket
    PROVE  /\ Refilled(buckets[c]) \in 0..MaxBurst
           /\ Refilled(buckets[c]) * Interval
                <= buckets[c].tokens * Interval + (now - buckets[c].lastSeen) * Rate
<1> DEFINE b == buckets[c]
           elapsed == now - b.lastSeen
           add == TokensToAdd(elapsed)
<1>1. /\ b.tokens \in 0..MaxBurst
      /\ elapsed \in Nat
    BY LimiterAssumption DEF TypeOK, Bucket
<1>2. elapsed * Rate \in Nat
    BY <1>1, LimiterAssumption, TimesType
<1>3. add \in Nat /\ add * Interval <= elapsed * Rate
    BY <1>2, LimiterAssumption, QuotientRoundsDown DEF TokensToAdd
<1>4. /\ Refilled(b) \in 0..MaxBurst
      /\ Refilled(b) <= b.tokens + add
    BY <1>1, <1>3, LimiterAssumption DEF Refilled, Smaller
<1>5. Refilled(b) * Interval <= (b.tokens + add) * Interval
    BY <1>1, <1>3, <1>4, LimiterAssumption, TimesMonotone
<1>6. (b.tokens + add) * Interval = b.tokens * Interval + add * Interval
    BY <1>1, <1>3, LimiterAssumption, TimesPlus
<1>7. /\ b.tokens * Interval \in Int /\ add * Interval \in Int
      /\ Refilled(b) * Interval \in Int
    BY <1>1, <1>3, <1>4, LimiterAssumption
<1> QED BY <1>2, <1>3, <1>4, <1>5, <1>6, <1>7

\* The types hold when the limiter starts.
LEMMA LimiterTypeInit == Init => TypeOK
    BY LimiterAssumption, CapacityType DEF Init, TypeOK

\* Every step of the limiter keeps the types.
LEMMA LimiterTypeNext == TypeOK /\ [Next]_vars => TypeOK'
<1> SUFFICES ASSUME TypeOK, [Next]_vars PROVE TypeOK'
    OBVIOUS
<1> USE LimiterAssumption DEF TypeOK
<1>1. CASE Tick
  <2>1. \A c \in Clients : Smaller(exact[c] + Rate, Capacity) \in Int
    BY CapacityType DEF Smaller
  <2>2. exact' \in [Clients -> Int]
    BY <1>1, <2>1 DEF Tick
  <2>3. now' \in 0..MaxTime /\ now <= now' /\ buckets' = buckets
    BY <1>1 DEF Tick
  <2> QED BY <2>2, <2>3 DEF Bucket
<1>2. ASSUME NEW c \in Clients, AllowNew(c) PROVE TypeOK'
    BY <1>2 DEF AllowNew, Bucket
<1>3. ASSUME NEW c \in Clients, AllowKnown(c) PROVE TypeOK'
  <2>1. Refilled(buckets[c]) - 1 \in 0..MaxBurst
    BY <1>3, RefilledBounds DEF AllowKnown
  <2> QED BY <1>3, <2>1 DEF AllowKnown, Bucket
<1>4. ASSUME NEW c \in Clients, Deny(c) PROVE TypeOK'
  <2>1. Refilled(buckets[c]) \in 0..MaxBurst
    BY <1>4, RefilledBounds DEF Deny
  <2> QED BY <1>4, <2>1 DEF Deny, Bucket
<1>5. CASE Cleanup
    BY <1>5 DEF Cleanup
<1>6. CASE UNCHANGED vars
    BY <1>6 DEF vars
<1> QED BY <1>1, <1>2, <1>3, <1>4, <1>5, <1>6 DEF Next

\* A bucket always holds between nothing and a burst, and its clock is never
\* ahead: no refill is negative.
THEOREM LimiterTypeCorrect == Spec => []TypeOK
<1> QED BY LimiterTypeInit, LimiterTypeNext, PTL DEF Spec
-----------------------------------------------------------------------------
(* The exact bucket is never behind: it holds at least what the bucket of    *)
(* the program holds, with what came together since, up to a full one.       *)

\* The time a bucket takes to fill is no longer than it is kept unused.
KeptLongEnough == (CleanupAge + 1) * Rate >= Capacity

Level(b) == b.tokens * Interval + (now - b.lastSeen) * Rate

ExactIsAhead ==
    \A c \in Clients :
        /\ buckets[c] = NoBucket => exact[c] = Capacity
        /\ buckets[c] # NoBucket => exact[c] >= Smaller(Capacity, Level(buckets[c]))
        /\ exact[c] <= Capacity

LimiterInv == TypeOK /\ ExactIsAhead

\* What a bucket is worth is a number.
LEMMA LevelType ==
    ASSUME TypeOK, NEW c \in Clients, buckets[c] # NoBucket
    PROVE  Level(buckets[c]) \in Nat
<1>1. buckets[c].tokens * Interval \in Nat /\ (now - buckets[c].lastSeen) * Rate \in Nat
    BY LimiterAssumption, TimesType DEF TypeOK, Bucket
<1> QED BY <1>1 DEF Level

\* What a bucket is worth grows by Rate with every tick.
LEMMA LevelGrows ==
    ASSUME TypeOK, NEW c \in Clients, buckets[c] # NoBucket, Tick
    PROVE  Level(buckets[c])' = Level(buckets[c]) + Rate
<1> DEFINE b == buckets[c]
<1>1. /\ b.tokens \in Int /\ now - b.lastSeen \in Int
      /\ now' - b.lastSeen = (now - b.lastSeen) + 1
      /\ buckets' = buckets
    BY LimiterAssumption DEF TypeOK, Bucket, Tick
<1>2. ((now - b.lastSeen) + 1) * Rate = (now - b.lastSeen) * Rate + 1 * Rate
    BY <1>1, LimiterAssumption, TimesPlus
<1>3. b.tokens * Interval \in Int /\ (now - b.lastSeen) * Rate \in Int
    BY <1>1, LimiterAssumption
<1> QED BY <1>1, <1>2, <1>3, LimiterAssumption DEF Level

\* Admitting a request takes a token from both.
LEMMA AdmissionKeepsAhead ==
    ASSUME TypeOK, TypeOK', NEW c \in Clients, NEW before \in 1..MaxBurst,
           exact[c] >= before * Interval, exact[c] <= Capacity,
           buckets' = [buckets EXCEPT ![c] = [tokens |-> before - 1,
                                              lastSeen |-> now]],
           exact' = [exact EXCEPT ![c] = @ - Interval],
           now' = now,
           ExactIsAhead
    PROVE  ExactIsAhead'
<1>1. \A o \in Clients \ {c} : buckets'[o] = buckets[o] /\ exact'[o] = exact[o]
    BY DEF TypeOK
<1>2. /\ buckets'[c] = [tokens |-> before - 1, lastSeen |-> now]
      /\ exact'[c] = exact[c] - Interval
    BY DEF TypeOK
<1>3. buckets'[c] # NoBucket
    BY <1>2, LimiterAssumption, BucketAssumption DEF TypeOK, Bucket
<1>4. (before - 1) * Interval = before * Interval - Interval
  <2>1. (before + (-1)) * Interval = before * Interval + (-1) * Interval
    BY LimiterAssumption, TimesPlus
  <2> QED BY <2>1, LimiterAssumption
<1>5. Level(buckets[c])' = before * Interval - Interval
  <2>1. (now - now) * Rate = 0
    BY LimiterAssumption DEF TypeOK
  <2>2. before * Interval \in Int
    BY LimiterAssumption
  <2> QED BY <1>2, <1>4, <2>1, <2>2, LimiterAssumption DEF Level
<1>6. /\ exact'[c] <= Capacity
      /\ exact'[c] >= Smaller(Capacity, Level(buckets[c])')
  <2>1. before * Interval \in Int
    BY LimiterAssumption
  <2> QED BY <1>2, <1>5, <2>1, CapacityType, LimiterAssumption DEF TypeOK, Smaller
<1>7. \A o \in Clients \ {c} : Level(buckets[o])' = Level(buckets[o])
    BY <1>1 DEF Level
<1>8. Capacity' = Capacity
    BY DEF Capacity
<1>9. ASSUME NEW o \in Clients
      PROVE  /\ buckets'[o] = NoBucket => exact'[o] = Capacity
             /\ buckets'[o] # NoBucket =>
                    exact'[o] >= Smaller(Capacity, Level(buckets[o])')
             /\ exact'[o] <= Capacity
  <2>1. CASE o = c
    BY <1>3, <1>6, <2>1
  <2>2. CASE o # c
    BY <1>1, <1>7, <2>2 DEF ExactIsAhead
  <2> QED BY <2>1, <2>2
<1> QED BY <1>8, <1>9 DEF ExactIsAhead, Smaller

\* A bucket unused for so long is full.
LEMMA StaleIsFull ==
    ASSUME KeptLongEnough, TypeOK, NEW c \in Clients, buckets[c] # NoBucket,
           Stale(buckets[c])
    PROVE  /\ Refilled(buckets[c]) = MaxBurst
           /\ Level(buckets[c]) >= Capacity
<1> DEFINE b == buckets[c]
           elapsed == now - b.lastSeen
           add == TokensToAdd(elapsed)
<1>1. b.tokens \in 0..MaxBurst /\ elapsed \in Nat /\ CleanupAge + 1 <= elapsed
    BY LimiterAssumption DEF TypeOK, Bucket, Stale
<1>2. (CleanupAge + 1) * Rate <= elapsed * Rate
    BY <1>1, LimiterAssumption, TimesMonotone
<1>3. (CleanupAge + 1) * Rate \in Nat /\ elapsed * Rate \in Nat
    BY <1>1, LimiterAssumption, TimesType
<1>4. Capacity <= elapsed * Rate
    BY <1>2, <1>3, CapacityType DEF KeptLongEnough
<1>5. add \in Nat /\ elapsed * Rate < add * Interval + Interval
    BY <1>3, LimiterAssumption, QuotientRoundsDown DEF TokensToAdd
<1>6. add >= MaxBurst
  <2> SUFFICES ASSUME add + 1 <= MaxBurst PROVE FALSE
    BY <1>5, LimiterAssumption
  <2>1. (add + 1) * Interval <= Capacity
    BY <1>5, LimiterAssumption, TimesMonotone DEF Capacity
  <2>2. (add + 1) * Interval = add * Interval + 1 * Interval
    BY <1>5, LimiterAssumption, TimesPlus
  <2>3. add * Interval \in Int
    BY <1>5, LimiterAssumption
  <2> QED BY <1>3, <1>4, <1>5, <2>1, <2>2, <2>3, CapacityType, LimiterAssumption
<1>7. Refilled(b) = MaxBurst
    BY <1>1, <1>5, <1>6, LimiterAssumption DEF Refilled, Smaller
<1>8. b.tokens * Interval \in Nat
    BY <1>1, LimiterAssumption, TimesType
<1>9. Level(b) >= Capacity
    BY <1>3, <1>4, <1>8, CapacityType DEF Level
<1> QED BY <1>7, <1>9

\* Every step keeps the exact bucket ahead of the limiter's.
LEMMA LimiterInvNext ==
    ASSUME KeptLongEnough, LimiterInv, [Next]_vars
    PROVE  LimiterInv'
<1> USE DEF LimiterInv
<1>0. TypeOK' /\ Capacity' = Capacity
    BY LimiterTypeNext DEF Capacity
<1>1. CASE Tick
  <2> SUFFICES ASSUME NEW c \in Clients
               PROVE  /\ buckets'[c] = NoBucket => exact'[c] = Capacity
                      /\ buckets'[c] # NoBucket =>
                            exact'[c] >= Smaller(Capacity, Level(buckets[c])')
                      /\ exact'[c] <= Capacity
    BY <1>0 DEF ExactIsAhead, Smaller
  <2>1. exact[c] \in Int /\ exact[c] <= Capacity
    BY DEF ExactIsAhead, TypeOK
  <2>2. exact'[c] = Smaller(exact[c] + Rate, Capacity) /\ buckets' = buckets
    BY <1>1 DEF Tick
  <2>3. CASE buckets[c] = NoBucket
    BY <2>1, <2>2, <2>3, CapacityType, LimiterAssumption DEF ExactIsAhead, Smaller
  <2>4. CASE buckets[c] # NoBucket
    <3>1. Level(buckets[c]) \in Nat
      BY <2>4, LevelType
    <3>2. Level(buckets[c])' = Level(buckets[c]) + Rate
      BY <1>1, <2>4, LevelGrows
    <3>3. exact[c] >= Smaller(Capacity, Level(buckets[c]))
      BY <2>4 DEF ExactIsAhead
    <3>4. exact'[c] >= Smaller(Capacity, Level(buckets[c]) + Rate)
      BY <2>1, <2>2, <3>1, <3>3, CapacityType, LimiterAssumption DEF Smaller
    <3>5. exact'[c] <= Capacity
      BY <2>1, <2>2, CapacityType, LimiterAssumption DEF Smaller
    <3> QED BY <2>2, <2>4, <3>2, <3>4, <3>5
  <2> QED BY <2>3, <2>4
<1>2. ASSUME NEW c \in Clients, AllowNew(c) PROVE LimiterInv'
  <2>1. exact[c] = MaxBurst * Interval
    BY <1>2 DEF AllowNew, ExactIsAhead, Capacity
  <2>2. exact[c] >= MaxBurst * Interval /\ exact[c] <= Capacity
    BY <2>1, CapacityType DEF Capacity
  <2>3. MaxBurst \in 1..MaxBurst
    BY LimiterAssumption
  <2>4. ExactIsAhead'
    BY <1>0, <1>2, <2>2, <2>3, AdmissionKeepsAhead DEF AllowNew
  <2> QED BY <1>0, <2>4
<1>3. ASSUME NEW c \in Clients, AllowKnown(c) PROVE LimiterInv'
  <2> DEFINE before == Refilled(buckets[c])
  <2>1. before \in 1..MaxBurst /\ before * Interval <= Level(buckets[c])
    BY <1>3, RefilledBounds, LimiterAssumption DEF AllowKnown, Level
  <2>2. before * Interval <= Capacity
    BY <2>1, LimiterAssumption, TimesMonotone DEF Capacity
  <2>3. before * Interval \in Int /\ Level(buckets[c]) \in Nat
    BY <1>3, <2>1, LimiterAssumption, LevelType DEF AllowKnown
  <2>4. exact[c] >= before * Interval /\ exact[c] <= Capacity
    BY <1>3, <2>1, <2>2, <2>3, CapacityType
       DEF AllowKnown, ExactIsAhead, Smaller, TypeOK
  <2> QED BY <1>0, <1>3, <2>1, <2>4, AdmissionKeepsAhead DEF AllowKnown
<1>4. ASSUME NEW c \in Clients, Deny(c) PROVE LimiterInv'
  <2>1. /\ buckets'[c] = [tokens |-> Refilled(buckets[c]), lastSeen |-> now]
        /\ \A o \in Clients \ {c} : buckets'[o] = buckets[o]
        /\ exact' = exact /\ now' = now
    BY <1>4 DEF Deny, TypeOK
  <2>2. Refilled(buckets[c]) * Interval <= Level(buckets[c])
    BY <1>4, RefilledBounds DEF Deny, Level
  <2>3. Level(buckets[c])' = Refilled(buckets[c]) * Interval
    <3>1. (now - now) * Rate = 0
      BY LimiterAssumption DEF TypeOK
    <3>2. Refilled(buckets[c]) * Interval \in Int
      BY <1>4, RefilledBounds, LimiterAssumption DEF Deny
    <3> QED BY <2>1, <3>1, <3>2, LimiterAssumption DEF Level
  <2>4. /\ Level(buckets[c])' <= Level(buckets[c])
        /\ Level(buckets[c]) \in Nat
        /\ Level(buckets[c])' \in Int
    BY <1>4, <2>2, <2>3, RefilledBounds, LevelType, LimiterAssumption DEF Deny
  <2>5. \A o \in Clients \ {c} : Level(buckets[o])' = Level(buckets[o])
    BY <2>1 DEF Level
  <2>6. exact[c] >= Smaller(Capacity, Level(buckets[c])')
    BY <1>4, <2>4, CapacityType DEF Deny, ExactIsAhead, Smaller, TypeOK
  <2>7. buckets'[c] # NoBucket
    BY <1>4, <2>1, RefilledBounds, BucketAssumption DEF Deny, Bucket, TypeOK
  <2>8. ASSUME NEW o \in Clients
        PROVE  /\ buckets'[o] = NoBucket => exact'[o] = Capacity
               /\ buckets'[o] # NoBucket =>
                      exact'[o] >= Smaller(Capacity, Level(buckets[o])')
               /\ exact'[o] <= Capacity
    <3>1. CASE o = c
      BY <2>1, <2>6, <2>7, <3>1 DEF ExactIsAhead
    <3>2. CASE o # c
      BY <2>1, <2>5, <3>2 DEF ExactIsAhead
    <3> QED BY <3>1, <3>2
  <2> QED BY <1>0, <2>8 DEF ExactIsAhead, Smaller
<1>5. CASE Cleanup
  <2>1. exact' = exact /\ now' = now
    BY <1>5 DEF Cleanup
  <2>2. ASSUME NEW c \in Clients
        PROVE  /\ buckets'[c] = NoBucket => exact'[c] = Capacity
               /\ buckets'[c] # NoBucket =>
                      exact'[c] >= Smaller(Capacity, Level(buckets[c])')
               /\ exact'[c] <= Capacity
    <3>1. CASE buckets[c] # NoBucket /\ Stale(buckets[c])
      <4>1. buckets'[c] = NoBucket
        BY <1>5, <3>1 DEF Cleanup
      <4>2. Level(buckets[c]) >= Capacity /\ Level(buckets[c]) \in Nat
        BY <3>1, StaleIsFull, LevelType
      <4>3. exact[c] = Capacity
        BY <3>1, <4>2, CapacityType DEF ExactIsAhead, Smaller, TypeOK
      <4> QED BY <2>1, <4>1, <4>3, CapacityType
    <3>2. CASE ~(buckets[c] # NoBucket /\ Stale(buckets[c]))
      <4>1. buckets'[c] = buckets[c]
        BY <1>5, <3>2 DEF Cleanup
      <4> QED BY <2>1, <4>1 DEF ExactIsAhead, Level
    <3> QED BY <3>1, <3>2
  <2> QED BY <1>0, <2>2 DEF ExactIsAhead, Smaller
<1>6. CASE UNCHANGED vars
    BY <1>0, <1>6 DEF vars, ExactIsAhead, Level, Smaller
<1> QED BY <1>1, <1>2, <1>3, <1>4, <1>5, <1>6, <1>0 DEF Next

\* At first every exact bucket is full.
LEMMA LimiterInvInit == Init => LimiterInv
    BY LimiterTypeInit, CapacityType DEF Init, LimiterInv, ExactIsAhead

\* An exact bucket that holds no less than the limiter's is never overdrawn.
LEMMA LimiterInvBounds == LimiterInv => NeverOverAdmits
<1> SUFFICES ASSUME LimiterInv, NEW c \in Clients PROVE exact[c] >= 0
    BY DEF NeverOverAdmits
<1>1. CASE buckets[c] = NoBucket
    BY <1>1, CapacityType DEF LimiterInv, ExactIsAhead
<1>2. CASE buckets[c] # NoBucket
    BY <1>2, CapacityType, LevelType DEF LimiterInv, ExactIsAhead, TypeOK, Smaller
<1> QED BY <1>1, <1>2

\* Where a bucket is kept for at least the time it takes to fill, the limiter
\* never admits more than a burst and what the rate gives, over any stretch of
\* time, however often it forgets a client and starts it again full.
THEOREM LimiterNeverOverAdmits ==
    ASSUME KeptLongEnough
    PROVE  Spec => []NeverOverAdmits
<1>1. LimiterInv /\ [Next]_vars => LimiterInv'
    BY LimiterInvNext
<1> QED BY <1>1, LimiterInvInit, LimiterInvBounds, PTL DEF Spec

\* Under the same condition nobody gains or loses by being forgotten.
THEOREM LimiterForgetsOnlyFull ==
    ASSUME KeptLongEnough
    PROVE  Spec => ForgottenAreFull
<1> DEFINE FullOnes ==
            \A c \in Clients :
                (buckets[c] # NoBucket /\ buckets'[c] = NoBucket)
                => Refilled(buckets[c]) = MaxBurst
<1>1. ASSUME TypeOK, [Next]_vars
      PROVE  [FullOnes]_vars
  <2> SUFFICES ASSUME NEW c \in Clients, buckets[c] # NoBucket, buckets'[c] = NoBucket
               PROVE  Refilled(buckets[c]) = MaxBurst
    OBVIOUS
  <2>1. CASE Cleanup
    BY <1>1, <2>1, StaleIsFull DEF Cleanup
  <2>2. ASSUME NEW o \in Clients, AllowNew(o) PROVE FALSE
    <3>1. [tokens |-> MaxBurst - 1, lastSeen |-> now] # NoBucket
      BY <1>1, LimiterAssumption, BucketAssumption DEF TypeOK, Bucket
    <3> QED BY <1>1, <2>2, <3>1 DEF AllowNew, TypeOK
  <2>3. ASSUME NEW o \in Clients, AllowKnown(o) \/ Deny(o) PROVE FALSE
    <3>1. Refilled(buckets[o]) \in 0..MaxBurst
      BY <1>1, <2>3, RefilledBounds DEF AllowKnown, Deny
    <3>2. /\ [tokens |-> Refilled(buckets[o]), lastSeen |-> now] # NoBucket
          /\ [tokens |-> Refilled(buckets[o]) - 1, lastSeen |-> now] # NoBucket
      BY <1>1, <3>1, LimiterAssumption, BucketAssumption DEF TypeOK, Bucket
    <3> QED BY <1>1, <2>3, <3>2 DEF AllowKnown, Deny, TypeOK
  <2> QED BY <1>1, <2>1, <2>2, <2>3 DEF Next, Tick, vars
<1>2. TypeOK /\ [Next]_vars => [FullOnes]_vars
    BY <1>1
<1> QED BY <1>2, LimiterTypeCorrect, PTL DEF Spec, ForgottenAreFull
-----------------------------------------------------------------------------
(* Who waits is admitted. *)

\* However many tokens a client had and however its fractions were dropped, it
\* is turned away only if less than one token has come together since it was
\* last seen.  That is what is left of the promise that a full burst passes:
\* one request passes, where the client lets the limiter alone before it.
THEOREM LimiterAdmitsWhoWaits ==
    Spec => [][\A c \in Clients :
                Deny(c) => (now - buckets[c].lastSeen) * Rate < Interval]_vars
<1> DEFINE WaitedTooShort ==
            \A c \in Clients :
                Deny(c) => (now - buckets[c].lastSeen) * Rate < Interval
<1>1. ASSUME TypeOK PROVE WaitedTooShort
  <2> SUFFICES ASSUME NEW c \in Clients, Deny(c)
               PROVE  (now - buckets[c].lastSeen) * Rate < Interval
    OBVIOUS
  <2> DEFINE b == buckets[c]
             elapsed == now - b.lastSeen
             add == TokensToAdd(elapsed)
  <2>1. /\ b.tokens \in 0..MaxBurst
        /\ elapsed \in Nat
        /\ Refilled(b) <= 0
    BY <1>1, LimiterAssumption DEF Deny, TypeOK, Bucket
  <2>2. elapsed * Rate \in Nat
    BY <2>1, LimiterAssumption, TimesType
  <2>3. add \in Nat /\ elapsed * Rate < add * Interval + Interval
    BY <2>2, LimiterAssumption, QuotientRoundsDown DEF TokensToAdd
  <2>4. add = 0
    BY <2>1, <2>3, LimiterAssumption DEF Refilled, Smaller
  <2> HIDE DEF add, elapsed
  <2>5. add * Interval = 0
    BY <2>4, LimiterAssumption
  <2>6. elapsed * Rate < Interval
    BY <2>2, <2>3, <2>5, LimiterAssumption
  <2> QED BY <2>6 DEF elapsed
<1>2. TypeOK => [WaitedTooShort]_vars
    BY <1>1
<1> QED BY <1>2, LimiterTypeCorrect, PTL DEF Spec
=============================================================================
