----------------------------- MODULE RateLimit ------------------------------
(***************************************************************************)
(* RateLimitService.enforce for one bucket and one caller: fixed windows   *)
(* counted in Redis by a script, shared by all API replicas, whose clocks  *)
(* agree.  A request computes its window first and reaches Redis later.    *)
(***************************************************************************)
EXTENDS Naturals, FiniteSets

CONSTANTS
  Callers,          \* requests of the caller in flight at once
  Limit,            \* limits[bucket]
  WindowSeconds,
  MaxSeconds        \* bound: the clock stops here

ASSUME RateLimitAssumption ==
  Limit \in Nat \ {0} /\ WindowSeconds \in Nat \ {0} /\ MaxSeconds \in Nat

VARIABLES
  second,       \* Date.now() / 1000
  counter,      \* resilience:rate:<bucket>:<window>:<digest>
  caller,       \* each request
  admitted      \* history: requests admitted in each window while it lasted

rateVars == <<second, counter, caller, admitted>>

Window(s) == s \div WindowSeconds
Windows == 0..Window(MaxSeconds)
NoCounter == [count |-> 0, expires |-> 0]
NoCaller == [at |-> "idle"]

RateLimitInit ==
  /\ second = 0
  /\ counter = [w \in Windows |-> NoCounter]
  /\ caller = [c \in Callers |-> NoCaller]
  /\ admitted = [w \in Windows |-> 0]

ArriveCall(c) ==
  /\ caller[c].at = "idle"
  /\ caller' = [caller EXCEPT ![c] = [at |-> "asked", window |-> Window(second)]]
  /\ UNCHANGED <<second, counter, admitted>>

ExpiryOf(w) == second + WindowSeconds

\* Bound: nothing tells counts beyond the limit apart.
MaxCount == Limit + 1

\* The script: INCR, and EXPIRE when the key is new.
Consumed(w) ==
  IF counter[w].count = 0
    THEN [count |-> 1, expires |-> ExpiryOf(w)]
    ELSE [counter[w] EXCEPT !.count = IF @ < MaxCount THEN @ + 1 ELSE @]

\* fault: the request that finds the limit reached is still let in
WithinLimitInclusive(count) == count <= Limit + 1

WithinLimit(count) == count <= Limit

\* `count` and `ttl` come back; within the limit the request goes on, else it
\* answers 429 with Retry-After: ttl.  A failing Redis answers 503, counted or not.
Consume(c) ==
  /\ caller[c].at = "asked"
  /\ LET w == caller[c].window
         k == Consumed(w)
     IN  /\ counter' = [counter EXCEPT ![w] = k]
         /\ \/ /\ WithinLimit(k.count)
               /\ caller' = [caller EXCEPT ![c] = NoCaller]
               /\ admitted' = IF w = Window(second)
                                THEN [admitted EXCEPT ![w] = @ + 1] ELSE admitted
            \/ /\ ~WithinLimit(k.count)
               /\ caller' = [caller EXCEPT ![c] =
                    [at |-> "refused", window |-> w, retryAt |-> k.expires]]
               /\ UNCHANGED admitted
            \/ /\ caller' = [caller EXCEPT ![c] = NoCaller]
               /\ UNCHANGED admitted
  /\ UNCHANGED second

\* Admission fails closed (503), or the refused caller gives up.
Unavailable(c) ==
  /\ caller[c].at # "idle"
  /\ caller' = [caller EXCEPT ![c] = NoCaller]
  /\ UNCHANGED <<second, counter, admitted>>

SecondPasses ==
  /\ second < MaxSeconds
  /\ second' = second + 1
  /\ counter' = [w \in Windows |->
       IF counter[w].expires = second + 1 THEN NoCounter ELSE counter[w]]
  /\ UNCHANGED <<caller, admitted>>

RateLimitNext ==
  \/ \E c \in Callers : ArriveCall(c) \/ Consume(c) \/ Unavailable(c)
  \/ SecondPasses

RateLimitSpec == RateLimitInit /\ [][RateLimitNext]_rateVars

-----------------------------------------------------------------------------
(* Properties.                                                             *)

\* No more than Limit requests are admitted in a window, although its counter
\* is created at any moment of it and requests reach Redis late.
WindowBound == \A w \in Windows : admitted[w] <= Limit
=============================================================================
