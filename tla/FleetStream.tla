----------------------------- MODULE FleetStream -----------------------------
(***************************************************************************)
(* The console of FleetTransport composed with the server it talks to:     *)
(* current state, per-console coalescing sets and the process-wide flush   *)
(* counter (server/src/fanout, runServer), the snapshot endpoint, frames   *)
(* and responses in flight, and a process that restarts with nothing.      *)
(*                                                                         *)
(* A robot's state is the number of the change that produced it; ingest    *)
(* and the sweep, which FleetState models, are one action here: they mark. *)
(* Numbers run on across restarts so that old and new rows can be told     *)
(* apart; the code's states carry no such number.                          *)
(***************************************************************************)
EXTENDS FleetTransport

CONSTANTS
    MaxChanges,    \* bound: changes of the fleet
    MaxElsewhere,  \* bound: flushes that carry nothing for this console
    MaxDrops,      \* bound: healthy sockets and fetches that fail
    MaxRejected    \* bound: frames the console cannot decode

(* The bounds of FleetTransport must never stop this module's actions: a   *)
(* session flushes at most once per change and once per MaxElsewhere.      *)
ASSUME StreamAssumption ==
    /\ MaxChanges \in Nat /\ MaxElsewhere \in Nat
    /\ MaxDrops \in Nat /\ MaxRejected \in Nat
    /\ Session \subseteq Nat /\ 1 \in Session

VARIABLES
    session,     \* serverSessionId of the running process
    stored,      \* CurrentStateStore: the version of each robot, or Null
    newest,      \* per robot: changes ever made, across restarts
    sequence,    \* FlushSequence
    pending,     \* per registered console socket: its PendingDeltaSet
    wire,        \* per accepted socket: frames sent and not yet delivered
    replies,     \* per fetch: the snapshot on its way back
    drops,       \* healthy sockets and fetches that failed
    rejected     \* frames dropped by decodeFrameText

serverVars == <<session, stored, newest, sequence, pending>>
streamVars == <<vars, serverVars, wire, replies, drops, rejected>>

Unmarked == [r \in Robot |-> Null]

(* The function without x, and with x mapped to v. *)
Without(f, x) == [y \in DOMAIN f \ {x} |-> f[y]]
With(f, x, v) == [y \in DOMAIN f \cup {x} |-> IF y = x THEN v ELSE f[y]]

StreamTypeOK ==
    /\ TypeOK
    /\ session \in Session
    /\ stored \in Rows
    /\ newest \in [Robot -> Nat]
    /\ sequence \in Nat
    /\ DOMAIN pending \subseteq Nat
    /\ \A s \in DOMAIN pending : pending[s] \in Rows
    /\ DOMAIN wire \subseteq Sockets
    /\ \A s \in DOMAIN wire : wire[s] \in Seq(Message)
    /\ DOMAIN replies \subseteq client.fetches
    /\ \A a \in DOMAIN replies : replies[a] \in Message
    /\ drops \in Nat
    /\ rejected \in Nat

StreamInit ==
    /\ Init
    /\ session = 1
    /\ stored = Unmarked
    /\ newest = [r \in Robot |-> 0]
    /\ sequence = 0
    /\ pending = <<>>
    /\ wire = <<>>
    /\ replies = <<>>
    /\ drops = 0
    /\ rejected = 0
-----------------------------------------------------------------------------
(* The server. *)

(* An accepted reading or a freshness transition: stored, then marked for  *)
(* every registered console, replacing what it had pending.                *)
Change(r) ==
    /\ SumFunctionOnSet(newest, Robot) < MaxChanges
    /\ newest' = [newest EXCEPT ![r] = @ + 1]
    /\ stored' = [stored EXCEPT ![r] = newest'[r]]
    /\ pending' = [s \in DOMAIN pending |->
                     [pending[s] EXCEPT ![r] = newest'[r]]]
    /\ UNCHANGED <<vars, session, sequence, wire, replies, drops, rejected>>

Sending == {s \in DOMAIN pending : pending[s] # Unmarked}

(* Mutant: frames are stamped with the previous flush's number. *)
FrameUnstamped(s) ==
    [session |-> session, seq |-> sequence, rows |-> pending[s]]

Frame(s) == [session |-> session, seq |-> sequence', rows |-> pending[s]]

(* One frame to every console with something pending, all under the next   *)
(* number.  Consoles other than this one have sets of their own: the       *)
(* counter may advance with nothing for this one.  A frame sent to a       *)
(* console that has gone is lost.                                          *)
Flush ==
    /\ Sending = {} => sequence < MaxElsewhere
    /\ sequence' = sequence + 1
    /\ wire' = [s \in DOMAIN wire |->
                  IF s \in Sending
                  THEN Append(wire[s], Frame(s)) ELSE wire[s]]
    /\ pending' = [s \in DOMAIN pending |-> Unmarked]
    /\ UNCHANGED <<vars, session, stored, newest, replies, drops, rejected>>

(* The upgrade is accepted: the console is registered with an empty set.   *)
Accept(s) ==
    /\ s \in (client.opening \cup client.closing) \ DOMAIN wire
    /\ pending' = With(pending, s, Unmarked)
    /\ wire' = With(wire, s, <<>>)
    /\ UNCHANGED <<vars, session, stored, newest, sequence, replies, drops,
                   rejected>>

(* The server's own close event for a console that has gone. *)
Deregister(s) ==
    /\ s \in DOMAIN pending \ (client.opening \cup client.open)
    /\ pending' = Without(pending, s)
    /\ UNCHANGED <<vars, session, stored, newest, sequence, wire, replies,
                   drops, rejected>>

(* Mutant: the snapshot claims the flush that has not happened yet. *)
ReadFleetAhead(a) ==
    /\ a \in client.fetches \ DOMAIN replies
    /\ replies' = With(replies, a, [session |-> session, seq |-> sequence + 1,
                                    rows |-> stored])
    /\ UNCHANGED <<vars, serverVars, wire, drops, rejected>>

(* GET /api/fleet: the store and the counter, read in one callback. *)
ReadFleet(a) ==
    /\ a \in client.fetches \ DOMAIN replies
    /\ replies' = With(replies, a, [session |-> session, seq |-> sequence,
                                    rows |-> stored])
    /\ UNCHANGED <<vars, serverVars, wire, drops, rejected>>

(* The process ends and another starts: nothing is kept (ADR 6).  Frames   *)
(* and responses already sent may still arrive.                            *)
Restart ==
    /\ session + 1 \in Session
    /\ session' = session + 1
    /\ stored' = Unmarked
    /\ sequence' = 0
    /\ pending' = <<>>
    /\ UNCHANGED <<vars, newest, wire, replies, drops, rejected>>
-----------------------------------------------------------------------------
(* The network between them: each is a step of FleetTransport that the     *)
(* server's side makes possible.                                           *)
Opens(s) ==
    /\ s \in DOMAIN wire
    /\ SocketOpens(s)
    /\ UNCHANGED <<serverVars, wire, replies, drops, rejected>>

(* Frames of one socket arrive in the order they were sent. *)
Delivers(s) ==
    /\ s \in DOMAIN wire /\ wire[s] # <<>>
    /\ FrameArrives(s, Head(wire[s]))
    /\ wire' = [wire EXCEPT ![s] = Tail(@)]
    /\ UNCHANGED <<serverVars, replies, drops, rejected>>

(* A frame that fails to decode is counted and dropped. *)
Rejects(s) ==
    /\ s \in DOMAIN wire /\ wire[s] # <<>>
    /\ s \in client.open /\ rejected < MaxRejected
    /\ rejected' = rejected + 1
    /\ wire' = [wire EXCEPT ![s] = Tail(@)]
    /\ UNCHANGED <<vars, serverVars, replies, drops>>

(* The process that accepted s has gone. *)
Orphaned(s) == s \in DOMAIN wire \ DOMAIN pending

Drop(healthy) ==
    /\ healthy => drops < MaxDrops
    /\ drops' = IF healthy THEN drops + 1 ELSE drops

(* A socket closes: told to, orphaned, or failing. What it had not         *)
(* delivered is lost.                                                      *)
Closes(s) ==
    /\ SocketCloses(s)
    /\ Drop(s \notin client.closing /\ ~Orphaned(s))
    /\ wire' = Without(wire, s)
    /\ UNCHANGED <<serverVars, replies, rejected>>

Responds(a) ==
    /\ a \in DOMAIN replies
    /\ FetchArrives(a, replies[a])
    /\ replies' = Without(replies, a)
    /\ UNCHANGED <<serverVars, wire, drops, rejected>>

FetchLost(a) ==
    /\ FetchFails(a)
    /\ Drop(Live(a))
    /\ replies' = Without(replies, a)
    /\ UNCHANGED <<serverVars, wire, rejected>>

Page ==
    /\ Mount \/ Unmount \/ ManualRetry
    /\ UNCHANGED <<serverVars, wire, replies, drops, rejected>>

Timer ==
    /\ RetryTimer
    /\ UNCHANGED <<serverVars, wire, replies, drops, rejected>>

StreamNext ==
    \/ \E r \in Robot : Change(r)
    \/ Flush
    \/ Restart
    \/ Page
    \/ Timer
    \/ \E s \in Sockets :
          Accept(s) \/ Opens(s) \/ Delivers(s) \/ Rejects(s) \/ Closes(s)
    \/ \E s \in DOMAIN pending : Deregister(s)
    \/ \E a \in client.fetches : ReadFleet(a) \/ Responds(a) \/ FetchLost(a)

StreamSpec == StreamInit /\ [][StreamNext]_streamVars

(* The flush interval and the retry timer run; a server that is up accepts *)
(* upgrades and answers requests; the network carries what it accepted and *)
(* reports the sockets of a process that has gone.                         *)
FairStreamSpec ==
    /\ StreamSpec
    /\ WF_streamVars(Timer)
    /\ WF_streamVars(Sending # {} /\ Flush)
    /\ WF_streamVars(\E s \in client.opening : Accept(s))
    /\ WF_streamVars(\E s \in Sockets : Opens(s) \/ Delivers(s))
    /\ WF_streamVars(\E s \in Sockets : Orphaned(s) /\ Closes(s))
    /\ WF_streamVars(\E a \in client.fetches : ReadFleet(a) \/ Responds(a))
-----------------------------------------------------------------------------
Mirror == INSTANCE MirroredFleet WITH rows <- client.store.rows

(* The rows a console ends up with when nothing more is lost: base, then   *)
(* what it buffered, what is on the wire and what is pending, each frame   *)
(* only if the epoch's reconciliation lets it in.                          *)
Outcome(base, epoch, s) ==
    LET coming == client.buffered \o wire[s]
                  \o <<[session |-> session, seq |-> sequence + 1,
                        rows |-> pending[s]]>>
    IN  Overlay(base, coming, Replay(epoch, coming))

(* No lost update: a joined console on a live socket of the running server *)
(* is only ever missing what is already on its way -- whatever interleaving *)
(* of changes, flushes, handshake, snapshot and buffer brought it there.   *)
JoinedCatchesUp ==
    LET s == client.socket
    IN  rejected = 0 /\ Joined /\ s \in DOMAIN pending
          /\ client.epoch.session = session
          => Outcome(client.store.rows, client.epoch, s) = stored

(* The same of a join about to happen: the snapshot in flight and the      *)
(* frames around it together describe the whole fleet, nothing between the *)
(* registration and the snapshot is missing.                               *)
JoiningCatchesUp ==
    LET s == client.socket
    IN  rejected = 0 /\ s \in DOMAIN pending /\ s \in DOMAIN replies
          /\ replies[s].session = session
          => Outcome(replies[s].rows, replies[s], s) = stored

(* No update is lost, before the join or after it: the promise the two     *)
(* make together, through attempts and servers that overlap.               *)
NoUpdateLost == JoinedCatchesUp /\ JoiningCatchesUp

(* Eventual currency: once the fleet goes quiet, a console that stays up   *)
(* and has not stopped for a stated cause shows every robot as the server  *)
(* has it, through restarts, failed attempts and any interleaving.         *)
EventuallyCurrent ==
    <>[](mounted /\ client.stream.phase # "failed"
           => client.store.rows = stored)

(* Rows shown are real states of the server and only move forward.         *)
MirrorsFleet == Mirror!Spec
==============================================================================
