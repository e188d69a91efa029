--------------------------- MODULE StreamLifecycle ---------------------------
(***************************************************************************)
(* The console stream's state matrix (web/src/shared/lib/streamLifecycle): *)
(* what each event does to the phase, the attempt count and the terminal   *)
(* cause, and what the console publishes of it.                            *)
(***************************************************************************)
EXTENDS Naturals

CONSTANT Null    \* the code's null

StreamPhase == {"idle", "connecting", "connected", "reconnecting", "failed"}

TerminalCause == {"handshake-exhausted", "contract", "session-mismatch"}

(* Null is no number, no phase, no cause and no sentence of the banner. *)
ASSUME NullAssumption ==
    /\ Null \notin Nat
    /\ Null \notin StreamPhase \cup TerminalCause \cup {"disconnected"}

(* everConnected stands for lastConnectedAt # null. *)
StreamState == [phase         : StreamPhase,
                attempt       : Nat,
                everConnected : BOOLEAN,
                cause         : TerminalCause \cup {Null}]

InitialStreamState == [phase         |-> "idle",
                       attempt       |-> 0,
                       everConnected |-> FALSE,
                       cause         |-> Null]

InitialProbeAttemptLimit == 3

(* Never connected means never reconnecting. *)
TryingPhase(s) == IF s.everConnected THEN "reconnecting" ELSE "connecting"

(* nextStreamState, one operator per event. *)
AfterConnect(s) ==
    IF s.phase = "connected" THEN s
    ELSE [s EXCEPT !.phase = TryingPhase(s), !.attempt = @ + 1, !.cause = Null]

(* Mutant: an open already counts as success. *)
AfterOpenResets(s) ==
    [s EXCEPT !.phase = "connected", !.everConnected = TRUE, !.attempt = 0]

AfterOpen(s) == [s EXCEPT !.phase = "connected", !.everConnected = TRUE]

AfterJoined(s) == [s EXCEPT !.attempt = 0]

AfterClose(s) == [s EXCEPT !.phase = TryingPhase(s)]

AfterGiveUp(s, cause) == [s EXCEPT !.phase = "failed", !.cause = cause]

(* The four values ConnectionContext carries. *)
Published(s) ==
    CASE s.phase \in {"idle", "failed"} -> "disconnected"
      [] OTHER                          -> s.phase

(* The banner's sentence, Null while it is empty, and the attempt it names. *)
Banner(s) ==
    LET trying == Published(s) \in {"connecting", "reconnecting"}
    IN  [sentence |->
           CASE Published(s) = "connected" -> Null
             [] trying -> Published(s)
             [] OTHER -> IF s.cause \in {"handshake-exhausted", "session-mismatch"}
                         THEN s.cause ELSE "disconnected",
         attempt |-> IF trying /\ s.attempt >= 1 THEN s.attempt ELSE Null]
==============================================================================
