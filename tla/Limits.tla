------------------------------- MODULE Limits -------------------------------
(***************************************************************************)
(* security/rate_limit.rs: a token bucket per limited command and the      *)
(* single-flight flag of index initialization.  Both are parts other       *)
(* modules extend: this one has no next-state relation of its own.         *)
(*                                                                         *)
(* Time is in seconds.  A token is 60 units, so that a bucket of p calls   *)
(* per minute gains p units a second and no fraction appears; the code     *)
(* computes the same quantity in f64.                                      *)
(***************************************************************************)
EXTENDS Integers, Sequences

CONSTANTS
  Limited,     \* commands with a policy; all others pass unchecked
  Burst,       \* Burst[c]: capacity of the bucket, in tokens
  PerMinute,   \* PerMinute[c]: sustained rate
  Ticks,       \* seconds the clock may advance by at once
  MaxTime      \* bound: the clock

ASSUME PolicyAssumption ==
  /\ Burst \in [Limited -> Nat \ {0}]
  /\ PerMinute \in [Limited -> Nat]
ASSUME ClockAssumption == Ticks \subseteq Nat /\ MaxTime \in Nat

VARIABLES
  now,        \* Instant::now(), monotonic
  bucket,     \* bucket[c]: tokens in units and the time of the last refill
  grants,     \* grants[c]: when the calls let through were made (history)
  inFlight    \* the single-flight flag

Token == 60
Capacity(c) == Burst[c] * Token

LimitsInit ==
  /\ now = 0
  /\ bucket = [c \in Limited |-> [tokens |-> Capacity(c), last |-> 0]]
  /\ grants = [c \in Limited |-> <<>>]
  /\ inFlight = FALSE

Lesser(a, b) == IF a <= b THEN a ELSE b

\* Tokens after the refill for the time since the last one.
Refilled(c) ==
  Lesser(bucket[c].tokens + PerMinute[c] * (now - bucket[c].last), Capacity(c))

\* Mutant: part of a token is enough.
AllowPartial(c) ==
  /\ Refilled(c) > 0
  /\ bucket' = [bucket EXCEPT ![c] = [tokens |-> Refilled(c) - Token, last |-> now]]
  /\ grants' = [grants EXCEPT ![c] = Append(@, now)]

\* try_consume finds a token.
Allow(c) ==
  /\ Refilled(c) >= Token
  /\ bucket' = [bucket EXCEPT ![c] = [tokens |-> Refilled(c) - Token, last |-> now]]
  /\ grants' = [grants EXCEPT ![c] = Append(@, now)]

\* Mutant: a refused call keeps its refill but not the time of it.
ThrottleKeepingTime(c) ==
  /\ Refilled(c) < Token
  /\ bucket' = [bucket EXCEPT ![c].tokens = Refilled(c)]
  /\ UNCHANGED grants

\* try_consume finds none; the refill and its time are kept.
Throttle(c) ==
  /\ Refilled(c) < Token
  /\ bucket' = [bucket EXCEPT ![c] = [tokens |-> Refilled(c), last |-> now]]
  /\ UNCHANGED grants

Elapse(seconds) ==
  /\ now + seconds <= MaxTime
  /\ now' = now + seconds
  /\ UNCHANGED <<bucket, grants, inFlight>>

LimitsTypeOK ==
  /\ now \in 0..MaxTime
  /\ bucket \in [Limited -> [tokens: Nat, last: Nat]]
  /\ \A c \in Limited : bucket[c].tokens <= Capacity(c) /\ bucket[c].last <= now
  /\ grants \in [Limited -> Seq(Nat)]
  /\ inFlight \in BOOLEAN

\* In every window that starts with a call let through, no more calls pass than
\* the burst and the rate allow: refused calls and idle time earn nothing extra.
RateHolds ==
  \A c \in Limited : \A i, j \in DOMAIN grants[c] :
    i <= j => (j - i + 1) * Token <= Capacity(c) + PerMinute[c] * (grants[c][j] - grants[c][i])
=============================================================================
