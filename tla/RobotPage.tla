------------------------------- MODULE RobotPage -------------------------------
(***************************************************************************)
(* The robot detail page (web/src/features/robot, entities/robot): a       *)
(* detail hook whose two requests must both settle, the battery history    *)
(* section that lives only under a ready detail and has a hook of its own, *)
(* and the row the stream feeds, laid over what was fetched.               *)
(*                                                                         *)
(* A robot's state is its version, as in MirroredFleet; that the stream    *)
(* brings real versions and only forward is what FleetStream shows.  The   *)
(* server runs throughout.                                                 *)
(***************************************************************************)
EXTENDS ResourceHook, FiniteSets, Functions

CONSTANTS
    Registered,   \* the robots the manifest names
    MaxVersion,   \* bound: states a robot goes through; 0 = registered only
    MaxVisits,    \* bound: addresses the operator opens
    MaxRetries,   \* bound: retries the operator asks for
    MaxFaults     \* bound: requests that fail

ASSUME PageAssumption ==
    /\ Registered \subseteq Robot /\ Null \notin Robot \cup Hook
    /\ Null \notin (Robot \X Nat) \cup Loaded
    /\ MaxVersion \in Nat /\ MaxVisits \in Nat
    /\ MaxRetries \in Nat /\ MaxFaults \in Nat

VARIABLES
    detail,      \* useRobotDetail's hook, or Null when the page is not open
    history,     \* useRobotHistory's hook, or Null when it is not mounted
    requests,    \* GET /robots/:id and /health under way, by number
    readings,    \* GET /robots/:id/history under way, by number
    issued,      \* the last number given
    newest,      \* per robot: the version the server has
    rows,        \* per robot: the version of its fleet row; Null before a snapshot
    visits, retries, faults

page == <<detail, history>>
server == <<newest, rows>>
bounds == <<visits, retries, faults>>
vars == <<page, requests, readings, issued, server, bounds>>

(* A request's halves wait for the server, then carry its answer.          *)
Waiting == [status |-> "loading"]

Init ==
    /\ detail = Null /\ history = Null
    /\ requests = <<>> /\ readings = <<>>
    /\ issued = 0
    /\ newest = [r \in Robot |-> 0]
    /\ rows = [r \in Robot |-> Null]
    /\ visits = 0 /\ retries = 0 /\ faults = 0

With(f, x, v) == [y \in DOMAIN f \cup {x} |-> IF y = x THEN v ELSE f[y]]
Without(f, x) == [y \in DOMAIN f \ {x} |-> f[y]]

Ready(h) == h # Null /\ Shown(h).status = "ready"

(* The history section is mounted afresh when the body appears, and gone   *)
(* with it; its signal with it.                                            *)
SectionFollows ==
    history' = IF ~Ready(detail') THEN Null
               ELSE IF history # Null THEN history
               ELSE Mounted(Shown(detail').robot)

(* Mutant: the row is looked at only when nothing was fetched. *)
OverlayFetched(fetched, row) == fetched

(* reconcileDetailWithRow: the row's core values over the fetched ones.    *)
Overlay(fetched, row) ==
    IF row = Null THEN fetched ELSE [fetched EXCEPT !.version = row]

(* What the page shows. *)
Body == Overlay(Shown(detail), rows[detail.id])
-----------------------------------------------------------------------------
(* The operator. *)
Visit(id) ==
    /\ visits < MaxVisits /\ visits' = visits + 1
    /\ detail # Null => detail.id # id
    /\ detail' = IF detail = Null THEN Mounted(id)
                 ELSE [detail EXCEPT !.id = id]
    /\ UNCHANGED <<requests, readings, issued, server, retries, faults>>
    /\ SectionFollows

Leave ==
    /\ detail # Null
    /\ detail' = Null
    /\ UNCHANGED <<requests, readings, issued, server, bounds>>
    /\ SectionFollows

Retry ==
    /\ detail # Null /\ Shown(detail).status = "recoverable"
    /\ retries < MaxRetries /\ retries' = retries + 1
    /\ detail' = RetryClicked(detail)
    /\ UNCHANGED <<history, requests, readings, issued, server, visits, faults>>

RetryHistory ==
    /\ history # Null /\ Shown(history).status = "recoverable"
    /\ retries < MaxRetries /\ retries' = retries + 1
    /\ history' = RetryClicked(history)
    /\ UNCHANGED <<detail, requests, readings, issued, server, visits, faults>>
-----------------------------------------------------------------------------
(* The effects run some time after the render they are due to.             *)
FetchDetail ==
    /\ detail # Null /\ EffectDue(detail)
    /\ issued' = issued + 1
    /\ detail' = EffectRuns(detail, issued')
    /\ requests' = With(requests, issued',
                        [robot |-> detail.id, detail |-> Waiting, health |-> Null])
    /\ UNCHANGED <<history, readings, server, bounds>>

FetchHistory ==
    /\ history # Null /\ EffectDue(history)
    /\ issued' = issued + 1
    /\ history' = EffectRuns(history, issued')
    /\ readings' = With(readings, issued',
                        [robot |-> history.id, answer |-> Waiting])
    /\ UNCHANGED <<detail, requests, server, bounds>>
-----------------------------------------------------------------------------
(* The server and the network. *)
Found(r) == IF r \in Registered
            THEN [status |-> "ready", robot |-> r, version |-> newest[r]]
            ELSE [status |-> "not-found"]

(* The history endpoint's 404 is an error worth a retry. *)
FoundHistory(r) == IF r \in Registered THEN Found(r)
                   ELSE [status |-> "recoverable"]

(* A failed request is recoverable, a body that does not decode is not.    *)
Failed == [status : {"recoverable", "terminal"}]

Fault == faults < MaxFaults /\ faults' = faults + 1

(* The robot's own request is answered, or fails. *)
DetailAnswered(n) ==
    /\ requests[n].detail = Waiting
    /\ \E value \in {Found(requests[n].robot)} \cup Failed :
          /\ requests' = [requests EXCEPT ![n].detail = value]
          /\ IF value \in Failed THEN Fault ELSE UNCHANGED faults
    /\ UNCHANGED <<page, readings, issued, server, visits, retries>>

(* So is the health request: its failure costs one field. *)
HealthAnswered(n) ==
    /\ requests[n].health = Null
    /\ \E ok \in BOOLEAN :
          /\ requests' = [requests EXCEPT ![n].health = ok]
          /\ IF ok THEN UNCHANGED faults ELSE Fault
    /\ UNCHANGED <<page, readings, issued, server, visits, retries>>

HistoryAnswered(n) ==
    /\ readings[n].answer = Waiting
    /\ \E value \in {FoundHistory(readings[n].robot)} \cup Failed :
          /\ readings' = [readings EXCEPT ![n].answer = value]
          /\ IF value \in Failed /\ value # FoundHistory(readings[n].robot)
             THEN Fault ELSE UNCHANGED faults
    /\ UNCHANGED <<page, requests, issued, server, visits, retries>>

(* Both halves are in. *)
DetailLands(n) ==
    /\ requests[n].detail # Waiting /\ requests[n].health # Null
    /\ detail' = IF detail = Null THEN Null
                 ELSE Lands(detail, n, requests[n].robot, requests[n].detail)
    /\ requests' = Without(requests, n)
    /\ UNCHANGED <<readings, issued, server, bounds>>
    /\ SectionFollows

HistoryLands(n) ==
    /\ readings[n].answer # Waiting
    /\ history' = IF history = Null THEN Null
                  ELSE Lands(history, n, readings[n].robot, readings[n].answer)
    /\ readings' = Without(readings, n)
    /\ UNCHANGED <<detail, requests, issued, server, bounds>>

(* The fleet goes on: a robot reports, its row follows. *)
Report(r) ==
    /\ newest[r] < MaxVersion
    /\ newest' = [newest EXCEPT ![r] = @ + 1]
    /\ UNCHANGED <<page, requests, readings, issued, rows, bounds>>

Streams(r) ==
    /\ rows[r] # newest[r]
    /\ \E v \in (IF rows[r] = Null THEN 0 ELSE rows[r] + 1)..newest[r] :
          rows' = [rows EXCEPT ![r] = v]
    /\ UNCHANGED <<page, requests, readings, issued, newest, bounds>>

Next ==
    \/ \E id \in Robot : Visit(id)
    \/ Leave \/ Retry \/ RetryHistory
    \/ FetchDetail \/ FetchHistory
    \/ \E n \in DOMAIN requests :
          DetailAnswered(n) \/ HealthAnswered(n) \/ DetailLands(n)
    \/ \E n \in DOMAIN readings : HistoryAnswered(n) \/ HistoryLands(n)
    \/ \E r \in Registered : Report(r) \/ Streams(r)

Spec == Init /\ [][Next]_vars

(* Effects run, answers that came are processed, and the stream brings     *)
(* what is new.                                                            *)
Runs ==
    /\ WF_vars(FetchDetail) /\ WF_vars(FetchHistory)
    /\ WF_vars(\E n \in DOMAIN requests : DetailLands(n))
    /\ WF_vars(\E n \in DOMAIN readings : HistoryLands(n))
    /\ WF_vars(\E r \in Registered : Streams(r))

(* Every request settles: of the network, the code sets no timeout. *)
FairSpec ==
    /\ Spec /\ Runs
    /\ WF_vars(\E n \in DOMAIN requests : DetailAnswered(n))
    /\ WF_vars(\E n \in DOMAIN requests : HealthAnswered(n))
    /\ WF_vars(\E n \in DOMAIN readings : HistoryAnswered(n))
-----------------------------------------------------------------------------
(* What is shown is an answer for the robot in the address, in the body    *)
(* and in its history section, whatever is still under way for another.    *)
ShowsAskedRobot ==
    detail # Null =>
        /\ Ready(detail) => Shown(detail).robot = detail.id
        /\ history # Null => history.id = detail.id
        /\ Ready(history) => Shown(history).robot = detail.id

(* A request that was superseded never puts back an older answer: while    *)
(* the page stays open, a robot's fetched detail only gets newer, through  *)
(* navigation there and back and retries.                                  *)
DetailNeverGoesBack ==
    [][Ready(detail) /\ Ready(detail')
          /\ detail'.loaded.forId = detail.loaded.forId
          => detail'.loaded.value.version >= detail.loaded.value.version]_vars

(* With requests that settle, no page and no section waits for ever.       *)
LoadingEnds ==
    \A id \in Robot :
        /\ (detail # Null /\ detail.id = id)
              ~> (detail = Null \/ detail.id # id
                    \/ Shown(detail).status # "loading")
        /\ history # Null ~> (history = Null \/ Shown(history).status # "loading")

(* Live by overlay: once the fleet is quiet, an open page shows its robot  *)
(* as the server has it, whenever and in whichever order detail, snapshot  *)
(* and frames came.                                                        *)
PageCatchesUp ==
    <>[](Ready(detail) => Body.version = newest[detail.id])
==============================================================================
