-------------------------------- MODULE HttpServer --------------------------------
(***************************************************************************)
(* The process of server.ts and the requests in it. A request that the     *)
(* limiter lets pass runs in a slot. Its handler may answer, or reject: a  *)
(* rejected promise of a controller reaches no error handler, so nothing   *)
(* is answered and the connection stays open until the client closes it.   *)
(* A client may also leave while the handler runs.                         *)
(***************************************************************************)
EXTENDS RequestLimits

CONSTANTS
  Slot,        \* requests that may be in flight at the same time
  MaxRestarts, \* bound: starts of the process after the first
  Focus,       \* bound: the kinds of events that may meet in one behaviour
  MaxCalls,    \* bound: requests that pass the limiter, for each member of Focus
  ClockEnd     \* bound: when the clock stops, for each member of Focus

Kind == {"tenant", "key", "charge", "repeat", "time", "fault"}

ASSUME ServerAssumption ==
  /\ MaxRestarts \in Nat
  /\ Focus \subseteq SUBSET Kind
  /\ MaxCalls \in [Focus -> Nat] /\ ClockEnd \in [Focus -> 0..MaxNow]

VARIABLES
  call,      \* what the request in each slot waits for
  waiting,   \* the slots whose client waits for an answer
  calls,     \* how many requests passed the limiter
  phase,     \* of the process
  exitCode,  \* of the last process that ended
  restarts,  \* how many processes were started after the first
  focus      \* the kinds of events of this behaviour

serverVars == <<call, waiting, calls, phase, exitCode, restarts, focus>>

Idle == [op |-> "idle"]

\* The handler rejected.
Rejected == [op |-> "rejected"]

ServerTypeOK(Pending) ==
  /\ call \in [Slot -> {Idle, Rejected} \cup Pending]
  /\ waiting \subseteq Slot
  /\ calls \in 0..MaxCalls[focus]
  /\ phase \in {"up", "closing", "exited"}
  /\ exitCode \in {0, 1}
  /\ restarts \in 0..MaxRestarts
  /\ focus \in Focus

ServerInit ==
  /\ call = [r \in Slot |-> Idle]
  /\ waiting = {}
  /\ calls = 0
  /\ phase = "up" /\ exitCode = 0 /\ restarts = 0
  /\ focus \in Focus

Running == phase # "exited"

\* A request of a kind from address a passes the limiter and goes on as q.
Arrive(r, a, kind, q) ==
  /\ kind \in focus
  /\ phase = "up"
  /\ call[r] = Idle /\ r \notin waiting
  /\ calls < MaxCalls[focus]
  /\ Pass(a)
  /\ call'    = [call EXCEPT ![r] = q]
  /\ waiting' = waiting \cup {r}
  /\ calls'   = calls + 1
  /\ UNCHANGED <<phase, exitCode, restarts, focus>>

\* The handler goes on with its next await.
GoOn(r, q) ==
  /\ Running
  /\ call' = [call EXCEPT ![r] = q]
  /\ UNCHANGED <<waiting, calls, phase, exitCode, restarts, focus>>

\* The response is sent, by the handler or by the error handler for a middleware.
Respond(r) ==
  /\ Running
  /\ call'    = [call EXCEPT ![r] = Idle]
  /\ waiting' = waiting \ {r}
  /\ UNCHANGED <<calls, phase, exitCode, restarts, focus>>

\* The promise of the controller rejects: unhandledRejection logs it.
Reject(r) == GoOn(r, IF r \in waiting THEN Rejected ELSE Idle)

\* The client closes the connection; a handler that runs is not told.
ClientLeaves(r) ==
  /\ "fault" \in focus
  /\ Running
  /\ r \in waiting
  /\ waiting' = waiting \ {r}
  /\ call' = [call EXCEPT ![r] = IF @ = Rejected THEN Idle ELSE @]
  /\ UNCHANGED <<calls, phase, exitCode, restarts, focus>>

\* SIGTERM or SIGINT: server.close, idle connections end.
Signal ==
  /\ "fault" \in focus
  /\ phase = "up"
  /\ phase' = "closing"
  /\ UNCHANGED <<call, waiting, calls, exitCode, restarts, focus>>

ProcessEnds(code) ==
  /\ phase'    = "exited"
  /\ exitCode' = code
  /\ call'     = [r \in Slot |-> Idle]
  /\ waiting'  = {}
  /\ UNCHANGED <<calls, restarts, focus>>

\* The last connection has ended: $disconnect, exit(0), or exit(1) if that fails.
CleanExit ==
  /\ phase = "closing"
  /\ waiting = {}
  /\ ProcessEnds(0) \/ ProcessEnds(1)

\* The timer of gracefulShutdown fires before that.
ForcedExit ==
  /\ phase = "closing"
  /\ ProcessEnds(1)

\* uncaughtException, or the process is killed.
Crash ==
  /\ "fault" \in focus
  /\ Running
  /\ ProcessEnds(1)

\* restart: always. The counters start again.
Restart ==
  /\ phase = "exited"
  /\ restarts < MaxRestarts
  /\ restarts' = restarts + 1
  /\ phase' = "up"
  /\ bucket'    = [a \in Address |-> NoWindow]
  /\ keyWindow' = [k \in KeyId |-> NoWindow]
  /\ passes'    = [a \in Address |-> << >>]
  /\ keyPasses' = [k \in KeyId |-> << >>]
  /\ UNCHANGED <<now, call, waiting, calls, exitCode, focus>>
=============================================================================
