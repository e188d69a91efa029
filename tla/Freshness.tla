------------------------------ MODULE Freshness ------------------------------
(***************************************************************************)
(* ADR 3's freshness policy and the derivation the server's sweep and its  *)
(* ingest boundary share (packages/contracts deriveFreshness, packages/    *)
(* server freshnessPolicy).  Times are in an arbitrary unit; only the      *)
(* order of the thresholds matters.                                        *)
(***************************************************************************)
EXTENDS Integers

CONSTANTS
    LiveThreshold,      \* liveThresholdMs: greatest age still "live"
    StaleThreshold,     \* staleThresholdMs: greatest age still "stale"
    SweepInterval,      \* sweepIntervalMs: nominal time between sweep ticks
    LateTickTolerance,  \* lateTickToleranceMs: scheduler drift not reported
    Null                \* the code's null: never reported, no counter, ...

(* What parseFreshnessPolicy refuses to start the server without. *)
ASSUME PolicyAssumption ==
    /\ LiveThreshold \in Nat \ {0}
    /\ StaleThreshold \in Nat \ {0}
    /\ SweepInterval \in Nat \ {0}
    /\ LateTickTolerance \in Nat
    /\ LiveThreshold < StaleThreshold
    /\ SweepInterval <= LiveThreshold

ASSUME NullAssumption == Null \notin Int

FreshnessState == {"unknown", "live", "stale", "unreachable"}

(* A receipt time in the future is clamped to age zero. *)
Age(receivedAt, now) == IF now < receivedAt THEN 0 ELSE now - receivedAt

(* Mutants: the live threshold excluded, the stale one read one too far.   *)
DeriveExclusive(receivedAt, now) ==
    CASE receivedAt = Null                       -> "unknown"
      [] Age(receivedAt, now) < LiveThreshold    -> "live"
      [] Age(receivedAt, now) < StaleThreshold   -> "stale"
      [] OTHER                                   -> "unreachable"

DeriveLate(receivedAt, now) ==
    CASE receivedAt = Null                           -> "unknown"
      [] Age(receivedAt, now) <= LiveThreshold + 1   -> "live"
      [] Age(receivedAt, now) <= StaleThreshold + 1  -> "stale"
      [] OTHER                                       -> "unreachable"

DeriveFreshness(receivedAt, now) ==
    CASE receivedAt = Null                        -> "unknown"
      [] /\ receivedAt # Null
         /\ Age(receivedAt, now) <= LiveThreshold -> "live"
      [] /\ receivedAt # Null
         /\ Age(receivedAt, now) > LiveThreshold
         /\ Age(receivedAt, now) <= StaleThreshold -> "stale"
      [] OTHER                                    -> "unreachable"

(* The longest a tick may come after the last one without being reported.  *)
TickBudget == SweepInterval + LateTickTolerance
==============================================================================
