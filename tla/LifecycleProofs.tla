--------------------------- MODULE LifecycleProofs ---------------------------
(* Theorems about Lifecycle, for any number of components, requests and       *)
(* connections: the components stop in the reverse of the order they started, *)
(* nothing stops under a request that is waited for, and the pool is never    *)
(* overdrawn.                                                                 *)
EXTENDS Lifecycle, FiniteSetTheorems, TLAPS

\* Run never loses count: the components that are started are the first `up`.
StartedAreFirst == \A i \in Components : comp[i] = "started" <=> i <= up

\* What has happened to the components when Run is at a place.
Phase ==
  /\ main \in {"select", "shutdown", "drain"} => up = N
  /\ main = "returned" => up = 0
  /\ locked => main = "stop" /\ up = DB

\* The server accepts only while Run waits at its select, and Serve answers only once.
Listening ==
  /\ main = "start" => serve = "off"
  /\ serve = "on" => main = "select"
  /\ errCh # "empty" => serve = "done"

\* A request that is to be waited for is waited for.
WaitedFor == \A h \in Handlers : handler[h].pc # "none" /\ ~cut => main \in {"select", "shutdown"}

\* A handler inside a call has counted it.
CallCounted == \A h \in Handlers : handler[h].pc \in {"acquire", "tx"} => handler[h].calls > 0

MainTyped ==
  /\ main \in {"start", "select", "shutdown", "drain", "stop", "returned"}
  /\ up \in 0 .. N
  /\ comp \in [Components -> {"new", "started", "stopped"}]
  /\ signal \in BOOLEAN /\ locked \in BOOLEAN /\ cut \in BOOLEAN
  /\ serve \in {"off", "on", "closing", "done"}
  /\ errCh \in {"empty", "failed", "closed"}

States == [pc : {"none", "run", "acquire", "tx"}, calls : Nat, cancelled : BOOLEAN]

HandlersTyped == handler \in [Handlers -> States]

PoolBounded == IsFiniteSet(Busy) /\ Cardinality(Busy) <= MaxConns

IInv ==
  /\ MainTyped
  /\ HandlersTyped
  /\ PoolBounded
  /\ StartedAreFirst
  /\ Phase
  /\ Listening
  /\ WaitedFor
  /\ CallCounted

----------------------------------------------------------------------------
LEMMA InitInv == Init => IInv
  <1> SUFFICES ASSUME Init PROVE IInv
    OBVIOUS
  <1>1. MainTyped /\ HandlersTyped
    <2>1. Quiet \in States
      BY DEF Quiet, States
    <2>2. HandlersTyped
      BY <2>1 DEF Init, HandlersTyped
    <2>3. MainTyped
      <3>1. comp \in [Components -> {"new", "started", "stopped"}]
        BY DEF Init
      <3>2. up \in 0 .. N
        BY LifecycleAssumption DEF Init
      <3>3. signal \in BOOLEAN /\ locked \in BOOLEAN /\ cut \in BOOLEAN
        BY Zenon DEF Init
      <3>4. main = "start" /\ serve = "off" /\ errCh = "empty"
        BY DEF Init
      <3> QED BY <3>1, <3>2, <3>3, <3>4 DEF MainTyped
    <2> QED BY <2>2, <2>3
  <1>2. PoolBounded
    <2>1. Busy = {}
      BY DEF Init, Busy, Quiet
    <2> QED BY <2>1, FS_EmptySet, LifecycleAssumption DEF PoolBounded
  <1>3. StartedAreFirst /\ Phase /\ Listening /\ WaitedFor /\ CallCounted
    BY LifecycleAssumption DEF Init, StartedAreFirst, Phase, Listening, WaitedFor, CallCounted,
                               Components, Quiet
  <1> QED BY <1>1, <1>2, <1>3 DEF IInv

\* A step of Run, of Serve or of the signal that leaves the handlers alone.
LEMMA QuietHandlers ==
  ASSUME HandlersTyped, PoolBounded, CallCounted, handler' = handler
  PROVE  HandlersTyped' /\ PoolBounded' /\ CallCounted'
  <1>1. Busy' = Busy
    BY DEF Busy
  <1> QED BY <1>1 DEF HandlersTyped, PoolBounded, CallCounted

LEMMA MainInv == ASSUME IInv, Signal \/ MainStep \/ ServeStep PROVE IInv'
  <1> USE DEF DB
  <1>0. /\ N \in Nat /\ N >= 2 /\ up \in 0 .. N
        /\ MainTyped /\ HandlersTyped /\ PoolBounded /\ CallCounted
    BY LifecycleAssumption DEF IInv, MainTyped
  <1> DEFINE Main == MainTyped' /\ StartedAreFirst' /\ Phase' /\ Listening' /\ WaitedFor'
  <1>1. ASSUME handler' = handler, Main PROVE IInv'
    BY <1>0, <1>1, QuietHandlers DEF IInv
  <1>2. CASE Signal
    <2>1. Main
      BY <1>0, <1>2 DEF IInv, Signal, server, MainTyped, StartedAreFirst, Phase, Listening, WaitedFor
    <2> QED BY <2>1, <1>1, <1>2 DEF Signal
  <1>3. CASE StartNext
    <2>1. Main
      BY <1>0, <1>3 DEF IInv, StartNext, NextUp, server, Components, MainTyped, StartedAreFirst,
                        Phase, Listening, WaitedFor
    <2> QED BY <2>1, <1>1, <1>3 DEF StartNext
  <1>4. CASE Listen
    <2>1. Main
      BY <1>0, <1>4 DEF IInv, Listen, MainTyped, StartedAreFirst, Phase, Listening, WaitedFor
    <2> QED BY <2>1, <1>1, <1>4 DEF Listen
  <1>5. CASE TakeServeError
    <2>1. Main
      BY <1>0, <1>5 DEF IInv, TakeServeError, MainTyped, StartedAreFirst, Phase, Listening, WaitedFor
    <2> QED BY <2>1, <1>1, <1>5 DEF TakeServeError
  <1>6. CASE Shutdown
    <2>1. Main
      BY <1>0, <1>6 DEF IInv, Shutdown, MainTyped, StartedAreFirst, Phase, Listening, WaitedFor
    <2> QED BY <2>1, <1>1, <1>6 DEF Shutdown
  <1>7. CASE ShutdownDone
    <2>1. \A h \in Handlers : handler[h].pc = "none"
      BY <1>7 DEF ShutdownDone, Waited, Active
    <2>2. Main
      BY <1>0, <1>7, <2>1 DEF IInv, ShutdownDone, server, MainTyped, StartedAreFirst, Phase,
                              Listening, WaitedFor
    <2> QED BY <2>2, <1>1, <1>7 DEF ShutdownDone
  <1>8. CASE ShutdownTimeout
    <2>1. MainTyped' /\ StartedAreFirst' /\ Phase' /\ Listening' /\ WaitedFor'
      BY <1>0, <1>8 DEF IInv, ShutdownTimeout, server, MainTyped, StartedAreFirst, Phase, Listening,
                        WaitedFor
    <2>2. \A h \in Handlers : /\ handler'[h] \in States
                              /\ handler'[h].pc = handler[h].pc
                              /\ handler'[h].calls = handler[h].calls
      BY <1>0, <1>8 DEF ShutdownTimeout, HandlersTyped, States
    <2>3. HandlersTyped'
      BY <1>8, <2>2 DEF ShutdownTimeout, HandlersTyped
    <2>4. CallCounted' /\ Busy' = Busy
      BY <1>0, <2>2 DEF CallCounted, Busy
    <2> QED BY <1>0, <2>1, <2>3, <2>4 DEF IInv, PoolBounded
  <1>9. CASE Drain
    <2>1. Main
      BY <1>0, <1>9 DEF IInv, Drain, MainTyped, StartedAreFirst, Phase, Listening, WaitedFor
    <2> QED BY <2>1, <1>1, <1>9 DEF Drain
  <1>10. CASE StopNext
    <2>1. Main
      BY <1>0, <1>10 DEF IInv, StopNext, server, Components, MainTyped, StartedAreFirst, Phase,
                         Listening, WaitedFor
    <2> QED BY <2>1, <1>1, <1>10 DEF StopNext
  <1>11. CASE LockToStop
    <2>1. Main
      BY <1>0, <1>11 DEF IInv, LockToStop, server, MainTyped, StartedAreFirst, Phase, Listening, WaitedFor
    <2> QED BY <2>1, <1>1, <1>11 DEF LockToStop
  <1>12. CASE ClosePool
    <2>1. main = "stop" /\ up = 1
      BY <1>12 DEF IInv, Phase, ClosePool
    <2>2. MainTyped' /\ StartedAreFirst'
      <3>1. /\ comp' = [comp EXCEPT ![1] = "stopped"] /\ 1 \in Components /\ up' = 0
            /\ comp \in [Components -> {"new", "started", "stopped"}]
        BY <1>0, <1>12 DEF ClosePool, Components, MainTyped
      <3>2. \A i \in Components : i \in Nat /\ i >= 1 /\ (comp[i] = "started" <=> i <= 1)
        BY <1>0, <2>1 DEF Components, IInv, StartedAreFirst
      <3>3. StartedAreFirst'
        BY <3>1, <3>2 DEF StartedAreFirst
      <3>4. MainTyped'
        <4>1. comp' \in [Components -> {"new", "started", "stopped"}] /\ up' \in 0 .. N
          BY <1>0, <3>1
        <4>2. /\ main' = main /\ signal' = signal /\ serve' = serve /\ errCh' = errCh
              /\ cut' = cut /\ locked' = FALSE
          BY <1>12 DEF ClosePool, server
        <4> QED BY <1>0, <4>1, <4>2 DEF MainTyped
      <3> QED BY <3>3, <3>4
    <2>3. Phase' /\ Listening' /\ WaitedFor'
      BY <1>0, <1>12, <2>1 DEF IInv, ClosePool, server, Phase, Listening, WaitedFor
    <2> QED BY <2>2, <2>3, <1>1, <1>12 DEF ClosePool
  <1>13. CASE Return
    <2>1. ~locked
      BY <1>0, <1>13 DEF IInv, Phase, Return
    <2>2. Main
      BY <1>0, <1>13, <2>1 DEF IInv, Return, server, MainTyped, StartedAreFirst, Phase, Listening,
                               WaitedFor
    <2> QED BY <2>2, <1>1, <1>13 DEF Return
  <1>14. CASE AcceptFails
    <2>1. Main
      BY <1>0, <1>14 DEF IInv, AcceptFails, MainTyped, StartedAreFirst, Phase, Listening, WaitedFor
    <2> QED BY <2>1, <1>1, <1>14 DEF AcceptFails
  <1>15. CASE ServeCloses
    <2>1. Main
      BY <1>0, <1>15 DEF IInv, ServeCloses, MainTyped, StartedAreFirst, Phase, Listening, WaitedFor
    <2> QED BY <2>1, <1>1, <1>15 DEF ServeCloses
  <1> QED BY <1>2, <1>3, <1>4, <1>5, <1>6, <1>7, <1>8, <1>9, <1>10, <1>11, <1>12, <1>13, <1>14,
             <1>15 DEF MainStep, ServeStep

\* A step of one handler, from its old record to s: the pool is not overdrawn if s holds
\* no connection that the old record did not hold.
LEMMA HandlerMoves ==
  ASSUME IInv, NEW h \in Handlers, NEW s \in States, handler' = [handler EXCEPT ![h] = s],
         UNCHANGED <<main, up, comp, signal, server, locked, cut>>,
         handler[h].pc = "none" => s.pc = "none" \/ main = "select",
         s.pc \in {"acquire", "tx"} => s.calls > 0,
         s.pc = "tx" => Free
  PROVE  IInv'
  <1>1. MainTyped' /\ StartedAreFirst' /\ Phase' /\ Listening'
    BY DEF IInv, server, MainTyped, StartedAreFirst, Phase, Listening
  <1>2. /\ handler \in [Handlers -> States] /\ handler' \in [Handlers -> States]
        /\ \A g \in Handlers : handler'[g] = IF g = h THEN s ELSE handler[g]
    BY DEF IInv, HandlersTyped
  <1>3. WaitedFor' /\ CallCounted'
    BY <1>2 DEF IInv, WaitedFor, CallCounted
  <1>4. PoolBounded'
    <2>0. PoolBounded /\ MaxConns \in Nat
      BY LifecycleAssumption DEF IInv
    <2>1. CASE s.pc = "tx"
      <3>1. Busy' = Busy \cup {h}
        BY <1>2, <2>1 DEF Busy
      <3>2. IsFiniteSet(Busy') /\ Cardinality(Busy') <= Cardinality(Busy) + 1
        <4>1. IsFiniteSet(Busy) /\ Cardinality(Busy) \in Nat
          BY <2>0, FS_CardinalityType DEF PoolBounded
        <4> DEFINE B == Busy
        <4> HIDE DEF B
        <4>2. IsFiniteSet(B) /\ Cardinality(B) \in Nat
          BY <4>1 DEF B
        <4>3. /\ IsFiniteSet(B \cup {h})
              /\ Cardinality(B \cup {h}) = IF h \in B THEN Cardinality(B) ELSE Cardinality(B) + 1
          BY <4>2, FS_AddElement
        <4>4. IsFiniteSet(B \cup {h}) /\ Cardinality(B \cup {h}) <= Cardinality(B) + 1
          BY <4>2, <4>3
        <4> QED BY <3>1, <4>4 DEF B
      <3>3. Cardinality(Busy) \in Nat /\ Cardinality(Busy) < MaxConns
        BY <2>0, <2>1, FS_CardinalityType DEF PoolBounded, Free, PoolSize
      <3>4. Cardinality(Busy') \in Nat
        BY <3>2, FS_CardinalityType
      <3> HIDE DEF Busy
      <3> QED BY <2>0, <3>2, <3>3, <3>4 DEF PoolBounded
    <2>2. CASE s.pc # "tx"
      <3>1. Busy' \subseteq Busy
        BY <1>2, <2>2 DEF Busy
      <3>2. IsFiniteSet(Busy') /\ Cardinality(Busy') <= Cardinality(Busy)
        BY <2>0, <3>1, FS_Subset DEF PoolBounded
      <3>3. Cardinality(Busy) \in Nat /\ Cardinality(Busy') \in Nat
        BY <2>0, <3>2, FS_CardinalityType DEF PoolBounded
      <3> QED BY <2>0, <3>2, <3>3 DEF PoolBounded
    <2> QED BY <2>1, <2>2
  <1> QED BY <1>1, <1>2, <1>3, <1>4 DEF IInv, HandlersTyped

LEMMA HandlerInv ==
  ASSUME IInv, NEW h \in Handlers, Accept(h) \/ HandlerStep(h)
  PROVE  IInv'
  <1>0. /\ handler \in [Handlers -> States] /\ handler[h] \in States
        /\ handler[h].pc \in {"acquire", "tx"} => handler[h].calls > 0
        /\ MaxCalls \in Nat
    BY LifecycleAssumption DEF IInv, HandlersTyped, CallCounted
  \* the end of a call
  <1>1. ASSUME Ends(h), handler[h].calls > 0, handler[h].pc # "none",
               UNCHANGED <<main, up, comp, signal, server, locked, cut>>
        PROVE  IInv'
    <2> DEFINE s == [handler[h] EXCEPT !.pc = "run", !.calls = @ - 1]
    <2>1. s \in States /\ s.pc = "run"
      <3>1. handler[h].calls - 1 \in Nat
        BY <1>0, <1>1 DEF States
      <3> QED BY <1>0, <3>1 DEF States
    <2>2. handler' = [handler EXCEPT ![h] = s]
      BY <1>0, <1>1 DEF Ends
    <2> HIDE DEF s
    <2> QED BY <1>1, <2>1, <2>2, HandlerMoves
  \* a move to another place of the same call
  <1>2. ASSUME NEW pc \in {"acquire", "tx"}, Moves(h, pc), handler[h].calls > 0,
               handler[h].pc # "none", pc = "tx" => Free,
               UNCHANGED <<main, up, comp, signal, server, locked, cut>>
        PROVE  IInv'
    <2> DEFINE s == [handler[h] EXCEPT !.pc = pc]
    <2>1. s \in States /\ s.pc = pc /\ s.calls = handler[h].calls
      BY <1>0 DEF States
    <2>2. handler' = [handler EXCEPT ![h] = s]
      BY <1>0, <1>2 DEF Moves
    <2> HIDE DEF s
    <2> QED BY <1>2, <2>1, <2>2, HandlerMoves
  <1>3. CASE Accept(h)
    <2>1. PICK n \in 0 .. MaxCalls :
            handler' = [handler EXCEPT ![h] = [pc |-> "run", calls |-> n, cancelled |-> FALSE]]
      BY <1>3 DEF Accept
    <2> DEFINE s == [pc |-> "run", calls |-> n, cancelled |-> FALSE]
    <2>2. s \in States /\ s.pc = "run"
      BY <1>0 DEF States
    <2>3. main = "select" /\ UNCHANGED <<main, up, comp, signal, server, locked, cut>>
      BY <1>3 DEF Accept, IInv, Listening
    <2>4. handler' = [handler EXCEPT ![h] = s]
      BY <2>1
    <2> HIDE DEF s
    <2> QED BY <2>2, <2>3, <2>4, HandlerMoves
  <1>4. CASE CallStore(h)
    BY <1>1, <1>4 DEF CallStore
  <1>5. CASE CurrentPool(h)
    BY <1>1, <1>2, <1>5 DEF CurrentPool
  <1>6. CASE Acquire(h)
    BY <1>0, <1>1, <1>2, <1>6 DEF Acquire
  <1>7. CASE Release(h)
    BY <1>0, <1>1, <1>7 DEF Release
  <1>8. CASE Reply(h)
    <2>1. Quiet \in States /\ Quiet.pc = "none"
      BY DEF Quiet, States
    <2> QED BY <1>8, <2>1, HandlerMoves DEF Reply
  <1> QED BY <1>3, <1>4, <1>5, <1>6, <1>7, <1>8 DEF HandlerStep

LEMMA NextInv == IInv /\ [Next]_vars => IInv'
  <1> SUFFICES ASSUME IInv, [Next]_vars PROVE IInv'
    OBVIOUS
  <1>1. CASE Signal \/ MainStep \/ ServeStep
    BY <1>1, MainInv
  <1>2. ASSUME NEW h \in Handlers, Accept(h) \/ HandlerStep(h) PROVE IInv'
    BY <1>2, HandlerInv
  <1>3. CASE UNCHANGED vars
    <2>1. Busy' = Busy
      BY <1>3 DEF vars, Busy
    <2> QED BY <1>3, <2>1 DEF vars, server, IInv, MainTyped, HandlersTyped, PoolBounded,
                            StartedAreFirst, Phase, Listening, WaitedFor, CallCounted
  <1> QED BY <1>1, <1>2, <1>3 DEF Next

\* The inductive invariant of the process: the started components are the first ones, Run
\* knows how many, and a request that is waited for keeps Run where all of them are up.
THEOREM LifecycleInvariant == Spec => []IInv
  BY InitInv, NextInv, PTL DEF Spec

\* Run, the server and the handlers are well typed, and never are more connections out
\* than the pool has.
THEOREM LifecycleTyped == Spec => []TypeOK
  <1>1. IInv => TypeOK
    BY DEF IInv, MainTyped, HandlersTyped, PoolBounded, States, TypeOK
  <1> QED BY <1>1, LifecycleInvariant, PTL

\* The stop is the reverse of the start, also when a start failed half way, and nothing
\* runs when Run has returned (startComponents, stopComponents).
THEOREM LifecycleOrdered == Spec => []OrderedLifecycle
  <1>1. IInv => OrderedLifecycle
    BY LifecycleAssumption DEF IInv, MainTyped, StartedAreFirst, Phase, OrderedLifecycle, Components
  <1> QED BY <1>1, LifecycleInvariant, PTL

\* Nothing is stopped under a request that the graceful shutdown waits for (Server.Run).
THEOREM LifecycleServesInFlight == Spec => []InFlightIsServed
  <1>1. IInv => InFlightIsServed
    BY LifecycleAssumption DEF IInv, MainTyped, StartedAreFirst, Phase, WaitedFor, InFlightIsServed,
                               Components
  <1> QED BY <1>1, LifecycleInvariant, PTL
=============================================================================
