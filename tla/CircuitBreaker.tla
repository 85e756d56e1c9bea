--------------------------- MODULE CircuitBreaker ---------------------------
(***************************************************************************)
(* The CircuitBreaker around the Redis and the OIDC provider calls of one  *)
(* API process.  Its three fields are shared by all the execute() calls in *)
(* flight; JavaScript runs each of them without interruption from the call *)
(* to its await (Begin) and from the settled await to the end (Succeed,    *)
(* FailCall).  Any number of calls may settle in any order in between.     *)
(*                                                                         *)
(* Abstractions: openedAt with the clock is "no" (undefined), "recent" or  *)
(* "elapsed" (resetAfterMs ago or more); failures stops counting at the    *)
(* threshold, the only number it is compared with; a timeout is a failure. *)
(***************************************************************************)
EXTENDS Naturals

CONSTANTS
  Calls,        \* callers that may have a call in flight at the same time
  Threshold     \* failureThreshold

ASSUME ThresholdAssumption == Threshold \in Nat \ {0}

VARIABLES
  failures,        \* this.failures, at most Threshold
  opened,          \* this.openedAt against the clock
  probeInFlight,   \* this.probeInFlight
  call             \* per caller: no call, an ordinary call or the probe

breakerVars == <<failures, opened, probeInFlight, call>>

Openings  == {"no", "recent", "elapsed"}
CallModes == {"none", "ordinary", "probing"}

BreakerInit ==
  /\ failures = 0
  /\ opened = "no"
  /\ probeInFlight = FALSE
  /\ call = [c \in Calls |-> "none"]

-----------------------------------------------------------------------------
State == CASE opened = "no"      -> "closed"
           [] opened = "recent"  -> "open"
           [] opened = "elapsed" -> "half-open"

\* fault: every call of a half-open circuit is let through
AdmitsManyProbes == State # "open"

Admits == State # "open" /\ ~(State = "half-open" /\ probeInFlight)

\* A call that is not admitted throws CircuitOpenError and changes nothing.
Begin(c) ==
  /\ call[c] = "none"
  /\ Admits
  /\ IF State = "half-open"
       THEN /\ call' = [call EXCEPT ![c] = "probing"]
            /\ probeInFlight' = TRUE
       ELSE /\ call' = [call EXCEPT ![c] = "ordinary"]
            /\ UNCHANGED probeInFlight
  /\ UNCHANGED <<failures, opened>>

\* fault: the flag is cleared only on the way out of a success
FinallyOnSuccess(c) ==
  /\ probeInFlight' = (probeInFlight /\ (call[c] # "probing" \/ opened' # "no"))
  /\ call' = [call EXCEPT ![c] = "none"]

Finally(c) ==
  /\ probeInFlight' = (probeInFlight /\ call[c] # "probing")
  /\ call' = [call EXCEPT ![c] = "none"]

Succeed(c) ==
  /\ call[c] # "none"
  /\ failures' = 0
  /\ opened' = "no"
  /\ Finally(c)

CountFailure == IF failures < Threshold THEN failures + 1 ELSE Threshold

Trips(c) == call[c] = "probing" \/ failures + 1 >= Threshold

\* The operation rejects or its timeout fires.
FailCall(c) ==
  /\ call[c] # "none"
  /\ failures' = CountFailure
  /\ opened' = IF Trips(c) THEN "recent" ELSE opened
  /\ Finally(c)

ResetElapses ==
  /\ opened = "recent"
  /\ opened' = "elapsed"
  /\ UNCHANGED <<failures, probeInFlight, call>>

BreakerNext ==
  \/ \E c \in Calls : Begin(c) \/ Succeed(c) \/ FailCall(c)
  \/ ResetElapses

BreakerSpec == BreakerInit /\ [][BreakerNext]_breakerVars

\* Every call settles, by its timeout at the latest; time passes; and callers
\* keep coming (sessions and rate limits need Redis on every request).
BreakerFairSpec ==
  /\ BreakerSpec
  /\ \A c \in Calls : WF_breakerVars(Succeed(c) \/ FailCall(c))
  /\ WF_breakerVars(\E c \in Calls : Begin(c))
  /\ WF_breakerVars(ResetElapses)

-----------------------------------------------------------------------------
BreakerTypeOK ==
  /\ failures \in 0..Threshold
  /\ opened \in Openings
  /\ probeInFlight \in BOOLEAN
  /\ call \in [Calls -> CallModes]

\* Recovery is tried by one call at a time, and the flag tells whether one is
\* trying: also when calls from before the opening settle around the probe.
SingleProbe ==
  /\ \A c, d \in Calls : call[c] = "probing" /\ call[d] = "probing" => c = d
  /\ probeInFlight <=> \E c \in Calls : call[c] = "probing"

\* A closed circuit has seen fewer than Threshold failures since the last
\* success, whichever call succeeded, and an open one has seen at least one.  (Not
\* always Threshold of them: a late success may close the circuit around a probe
\* that then fails and opens it again at once.)
OpenAfterFailures ==
  /\ opened = "no" => failures < Threshold
  /\ opened # "no" => failures > 0

\* Unless calls keep failing, the circuit always closes again: no order of late
\* answers and probes leaves it rejecting everything for good.
RecoversUnlessFailing ==
  []<>(opened = "no") \/ []<><<\E c \in Calls : FailCall(c)>>_breakerVars

=============================================================================
