------------------------------ MODULE Lifecycle ------------------------------
(* One process of `goba serve`: app.Run starts the components in order, runs  *)
(* the HTTP server until the signal or an error of its own, and stops what it *)
(* started in reverse, while handlers are still using it.                     *)
(*                                                                            *)
(* A handler is the calls it makes on the components: a database call takes   *)
(* the pool from the Component, a connection from the pool, and gives it      *)
(* back; a call on any other component is one step.                           *)
EXTENDS Integers, FiniteSets

CONSTANTS
  Handlers,     \* requests at once
  N,            \* components: 1 is PostgreSQL, 2 is Redis, 3 the file store if it is on
  MaxConns,     \* connections of the pool
  MaxCalls      \* bound: calls a handler makes

ASSUME LifecycleAssumption == N \in Nat /\ N >= 2 /\ MaxConns \in Nat \ {0} /\ MaxCalls \in Nat

VARIABLES
  main,         \* where Run is
  up,           \* components that are to be stopped: `started` of Run, then the loop of stopComponents
  comp,         \* new, started or stopped
  signal,       \* the context of Run is cancelled
  serve,        \* the goroutine of http.Server.Serve
  errCh,        \* what it has put in the channel of size one
  locked,       \* database.Component.mu is held for writing
  handler,
  cut           \* history: requests were not waited for

vars == <<main, up, comp, signal, serve, errCh, locked, handler, cut>>
server == <<serve, errCh>>

Components == 1 .. N
DB == 1
Quiet == [pc |-> "none", calls |-> 0, cancelled |-> FALSE]

Init ==
  /\ main = "start" /\ up = 0
  /\ comp = [i \in Components |-> "new"]
  /\ signal = FALSE
  /\ serve = "off" /\ errCh = "empty"
  /\ locked = FALSE
  /\ handler = [h \in Handlers |-> Quiet]
  /\ cut = FALSE

\* Ctrl-C or SIGTERM (signal.NotifyContext).
Signal ==
  /\ ~signal /\ signal' = TRUE
  /\ UNCHANGED <<main, up, comp, server, locked, handler, cut>>

(* ------------------------------ app.Run ------------------------------ *)

\* mutant: the components are started from the last one on.
NextUpBackwards == N - up
\* startComponents
NextUp == up + 1

StartNext ==
  /\ main = "start" /\ up < N
  /\ \/ /\ comp' = [comp EXCEPT ![NextUp] = "started"]
        /\ up' = up + 1
        /\ UNCHANGED main
     \/ /\ main' = "stop"           \* it failed, and is not stopped
        /\ UNCHANGED <<comp, up>>
  /\ UNCHANGED <<signal, server, locked, handler, cut>>

Listen ==
  /\ main = "start" /\ up = N
  /\ \/ main' = "select" /\ serve' = "on"
     \/ main' = "stop" /\ UNCHANGED serve
  /\ UNCHANGED <<up, comp, signal, errCh, locked, handler, cut>>

\* select takes either channel when both are ready.
TakeServeError ==
  /\ main = "select" /\ errCh # "empty"
  /\ main' = "stop" /\ errCh' = "empty"
  /\ cut' = TRUE
  /\ UNCHANGED <<up, comp, signal, serve, locked, handler>>

\* http.Server.Shutdown closes the listener and then waits.
Shutdown ==
  /\ main = "select" /\ signal
  /\ main' = "shutdown"
  /\ serve' = IF serve = "on" THEN "closing" ELSE serve
  /\ UNCHANGED <<up, comp, signal, errCh, locked, handler, cut>>

Active == {h \in Handlers : handler[h].pc # "none"}

\* mutant: Shutdown only closes the listener.
WaitedForNobody == TRUE
Waited == Active = {}

ShutdownDone ==
  /\ main = "shutdown" /\ Waited
  /\ main' = "drain"
  /\ UNCHANGED <<up, comp, signal, server, locked, handler, cut>>

\* The timeout, and Close: every connection is closed, which cancels its request.
ShutdownTimeout ==
  /\ main = "shutdown" /\ Active # {}
  /\ main' = "drain"
  /\ cut' = TRUE
  /\ handler' = [h \in Handlers |-> IF h \in Active THEN [handler[h] EXCEPT !.cancelled = TRUE]
                                                    ELSE handler[h]]
  /\ UNCHANGED <<up, comp, signal, server, locked>>

\* <-errCh
Drain ==
  /\ main = "drain" /\ errCh # "empty"
  /\ main' = "stop" /\ errCh' = "empty"
  /\ UNCHANGED <<up, comp, signal, serve, locked, handler, cut>>

\* stopComponents, from the last that was started.
StopNext ==
  /\ main = "stop" /\ up > DB
  /\ comp' = [comp EXCEPT ![up] = "stopped"]
  /\ up' = up - 1
  /\ UNCHANGED <<main, signal, server, locked, handler, cut>>

\* database.Component.Stop closes the pool under the lock, and the pool waits for every
\* connection that is out.
LockToStop ==
  /\ main = "stop" /\ up = DB /\ ~locked
  /\ locked' = TRUE
  /\ UNCHANGED <<main, up, comp, signal, server, handler, cut>>

Busy == {h \in Handlers : handler[h].pc = "tx"}

ClosePool ==
  /\ locked /\ Busy = {}
  /\ locked' = FALSE
  /\ comp' = [comp EXCEPT ![DB] = "stopped"]
  /\ up' = 0
  /\ UNCHANGED <<main, signal, server, handler, cut>>

Return ==
  /\ main = "stop" /\ up = 0
  /\ main' = "returned"
  /\ UNCHANGED <<up, comp, signal, server, locked, handler, cut>>

(* ------------------------- the serving goroutine ------------------------- *)

AcceptFails ==
  /\ serve = "on"
  /\ serve' = "done" /\ errCh' = "failed"
  /\ UNCHANGED <<main, up, comp, signal, locked, handler, cut>>

ServeCloses ==
  /\ serve = "closing"
  /\ serve' = "done" /\ errCh' = "closed"
  /\ UNCHANGED <<main, up, comp, signal, locked, handler, cut>>

(* ------------------------------ handlers ------------------------------ *)

Accept(h) ==
  /\ serve = "on" /\ handler[h].pc = "none"
  /\ \E n \in 0 .. MaxCalls :
       handler' = [handler EXCEPT ![h] = [pc |-> "run", calls |-> n, cancelled |-> FALSE]]
  /\ UNCHANGED <<main, up, comp, signal, server, locked, cut>>

Moves(h, pc) == handler' = [handler EXCEPT ![h].pc = pc]
\* What comes back, with or without an error, is the end of one call.
Ends(h) == handler' = [handler EXCEPT ![h].pc = "run", ![h].calls = @ - 1]

CallStore(h) ==
  /\ handler[h].pc = "run" /\ handler[h].calls > 0
  /\ Ends(h)
  /\ UNCHANGED <<main, up, comp, signal, server, locked, cut>>

\* currentPool waits for the lock and has no deadline.
CurrentPool(h) ==
  /\ handler[h].pc = "run" /\ handler[h].calls > 0 /\ ~locked
  /\ IF comp[DB] = "started" THEN Moves(h, "acquire") ELSE Ends(h)
  /\ UNCHANGED <<main, up, comp, signal, server, locked, cut>>

\* mutant: the setting does not reach the pool, which keeps the default of the library.
PoolSizeDefault == 4
\* newPoolConfig
PoolSize == MaxConns
Free == Cardinality(Busy) < PoolSize

\* A connection is free, or the wait ends: the pool is closing or the request's deadline.
Acquire(h) ==
  /\ handler[h].pc = "acquire"
  /\ \/ /\ comp[DB] = "started" /\ ~locked /\ Free /\ ~handler[h].cancelled
        /\ Moves(h, "tx")
     \/ Ends(h)
  /\ UNCHANGED <<main, up, comp, signal, server, locked, cut>>

\* mutant: a statement inside the transaction asks the Component for the pool again.
ReleaseNested(h) ==
  /\ handler[h].pc = "tx" /\ ~locked /\ Ends(h)
  /\ UNCHANGED <<main, up, comp, signal, server, locked, cut>>
\* The statements of a transaction use its own connection; it ends with an answer of the
\* database or with the request's deadline, and the connection goes back.
Release(h) ==
  /\ handler[h].pc = "tx" /\ Ends(h)
  /\ UNCHANGED <<main, up, comp, signal, server, locked, cut>>

Reply(h) ==
  /\ handler[h].pc = "run" /\ handler[h].calls = 0
  /\ handler' = [handler EXCEPT ![h] = Quiet]
  /\ UNCHANGED <<main, up, comp, signal, server, locked, cut>>

HandlerStep(h) == CallStore(h) \/ CurrentPool(h) \/ Acquire(h) \/ Release(h) \/ Reply(h)

MainStep == \/ StartNext \/ Listen \/ TakeServeError \/ Shutdown \/ ShutdownDone
            \/ ShutdownTimeout \/ Drain \/ StopNext \/ LockToStop \/ ClosePool \/ Return
ServeStep == AcceptFails \/ ServeCloses

Next ==
  \/ Signal \/ MainStep \/ ServeStep
  \/ \E h \in Handlers : Accept(h) \/ HandlerStep(h)

Spec == Init /\ [][Next]_vars

\* Run goes on when it can; Serve returns after Shutdown; a handler goes on, because a
\* call on a component answers or meets the deadline that timeoutMiddleware gave its
\* context. No request has to be accepted and no signal has to come.
FairSpec == Spec /\ WF_vars(MainStep) /\ WF_vars(ServeCloses)
                 /\ \A h \in Handlers : WF_vars(HandlerStep(h))

(* ----------------------------- properties ----------------------------- *)

\* Run, the server and the handlers are well typed, and the pool is never overdrawn.
TypeOK ==
  /\ main \in {"start", "select", "shutdown", "drain", "stop", "returned"}
  /\ up \in 0 .. N
  /\ comp \in [Components -> {"new", "started", "stopped"}]
  /\ signal \in BOOLEAN /\ locked \in BOOLEAN /\ cut \in BOOLEAN
  /\ serve \in {"off", "on", "closing", "done"}
  /\ errCh \in {"empty", "failed", "closed"}
  /\ handler \in [Handlers -> [pc : {"none", "run", "acquire", "tx"},
                               calls : Nat, cancelled : BOOLEAN]]
  /\ Cardinality(Busy) <= MaxConns

\* PostgreSQL, Redis, file store: a component runs only while those before it run, so the
\* stop is the reverse of the start even when a start fails half way; when Run has
\* returned nothing runs (startComponents, stopComponents).
OrderedLifecycle ==
  /\ \A i, j \in Components : i < j /\ comp[j] = "started" => comp[i] = "started"
  /\ main = "returned" => \A i \in Components : comp[i] # "started"

\* Unless the graceful shutdown ran out of time or Serve failed by itself, every request
\* that is under way has all its components up: nothing is stopped under a request that
\* was to be waited for.
InFlightIsServed ==
  \A h \in Handlers : handler[h].pc # "none" /\ ~cut =>
    ~locked /\ \A i \in Components : comp[i] = "started"

\* After the signal Run returns, whatever the handlers are doing: Stop waits for their
\* connections while it holds the lock that currentPool needs, and neither waits for the
\* other for ever.
RunReturns == signal ~> main = "returned"
=============================================================================
