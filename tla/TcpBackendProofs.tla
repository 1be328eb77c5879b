-------------------------- MODULE TcpBackendProofs --------------------------
(***************************************************************************)
(* Proofs about TcpBackend for every set of backends, connections and      *)
(* addresses and every cap.                                                *)
(***************************************************************************)
EXTENDS TcpBackend, FiniteSetTheorems, TLAPS

(* Where handleConn is tells which connection it works on.                 *)
LoopShape ==
    \A b \in Backends :
        /\ loop[b] \in {"off", "accept"} => cur[b] = NoConn
        /\ loop[b] \notin {"off", "accept"} => cur[b] \in Conns /\ at[cur[b]] = b

(* A backend that has not started, or has stopped, runs nothing.           *)
LifeShape ==
    \A b \in Backends :
        /\ life[b] \in {"new", "bind", "down"} => loop[b] = "off"
        /\ life[b] \in {"new", "down"} => ~flusher[b]
        /\ listener[b] => life[b] \in {"up", "close"}
        /\ ctxDone[b] <=> life[b] \in {"close", "drain", "force", "wait", "down"}

(* The two copy goroutines of a connection and its once-function keep in   *)
(* step, and handleConn has let go of a connection that is being copied.   *)
ConnShape ==
    \A c \in Conns :
        /\ (pipe[c]["client"] = "none") <=> (pipe[c]["backend"] = "none")
        /\ ~(pipe[c]["client"] = "done" /\ pipe[c]["backend"] = "done")
        /\ once[c] # "no" => pipe[c]["client"] # "none"
        /\ at[c] = NoBackend => pipe[c]["client"] = "none"
        /\ pipe[c]["client"] # "none" => \A b \in Backends : cur[b] # c
        /\ pipe[c]["client"] = "none" =>
             \A b \in Backends : at[c] = b => cur[b] = c
        /\ \A side \in Sides : pipe[c][side] = "done" => once[c] = "done"

Shape == LoopShape /\ LifeShape /\ ConnShape

(* Finite sets stay finite.                                                *)
LEMMA RunningFinite == \A b : IsFiniteSet(Running(b)) /\ Cardinality(Running(b)) \in Nat
<1>1. IsFiniteSet(Sides)
  <2>1. Sides = {"client"} \union {"backend"}
    BY DEF Sides
  <2>2. IsFiniteSet({"client"})
    BY FS_Singleton
  <2>3. QED
    BY <2>1, <2>2, FS_AddElement
<1>2. IsFiniteSet(Sockets)
  BY <1>1, ConnsAssumption, FS_Product DEF Sockets
<1>3. QED
  BY <1>2, FS_Subset, FS_CardinalityType DEF Running

(* Every step keeps the types of the state.                                 *)
LEMMA TypesStep ==
    StateTypes /\ Shape /\ [Next]_vars => StateTypes'
<1> SUFFICES ASSUME StateTypes, Shape, [Next]_vars
             PROVE  StateTypes'
  OBVIOUS
<1> USE DEF LifeStates, LoopStates, PipeStates, OnceStates, NoPipes, Sockets,
            Client, Upstream, Both, CurIp, Sides, StateTypes, connVars, lifeVars,
            Shape, LoopShape
<1>1. ASSUME NEW b \in Backends, StartFlusher(b) PROVE StateTypes'
  BY <1>1, IpAssumption, ConnsAssumption DEF StartFlusher
<1>2. ASSUME NEW b \in Backends, BindOK(b) PROVE StateTypes'
  BY <1>2, IpAssumption, ConnsAssumption DEF BindOK
<1>3. ASSUME NEW b \in Backends, BindFail(b) PROVE StateTypes'
  BY <1>3, IpAssumption, ConnsAssumption DEF BindFail
<1>4. ASSUME NEW b \in Backends, Cancel(b) PROVE StateTypes'
  BY <1>4, IpAssumption, ConnsAssumption DEF Cancel
<1>5. ASSUME NEW b \in Backends, CloseListener(b) PROVE StateTypes'
  BY <1>5, IpAssumption, ConnsAssumption DEF CloseListener
<1>6. ASSUME NEW b \in Backends, Settled(b) PROVE StateTypes'
  BY <1>6, IpAssumption, ConnsAssumption DEF Settled
<1>7. ASSUME NEW b \in Backends, GraceExpired(b) PROVE StateTypes'
  BY <1>7, IpAssumption, ConnsAssumption DEF GraceExpired
<1>8. ASSUME NEW b \in Backends, forceCloseConns(b) PROVE StateTypes'
  BY <1>8, IpAssumption, ConnsAssumption DEF forceCloseConns, ForceClose
<1>9. ASSUME NEW b \in Backends, WaitReturns(b) PROVE StateTypes'
  <2>1. CASE goal[b] = "restart"
    BY <2>1, <1>9
       DEF WaitReturns, StateTypes, LifeStates, LoopStates, PipeStates, OnceStates,
           connVars, lifeVars
  <2>2. CASE goal[b] # "restart"
    BY <2>2, <1>9
       DEF WaitReturns, StateTypes, LifeStates, LoopStates, PipeStates, OnceStates,
           connVars, lifeVars
  <2>3. QED
    BY <2>1, <2>2
<1>10. ASSUME NEW b \in Backends, FlusherExit(b) PROVE StateTypes'
  BY <1>10, IpAssumption, ConnsAssumption DEF FlusherExit
<1>11. ASSUME NEW b \in Backends, AcceptLoopExit(b) PROVE StateTypes'
  BY <1>11, IpAssumption, ConnsAssumption DEF AcceptLoopExit, LoopReturns
<1>12. ASSUME NEW b \in Backends, Banned(b) PROVE StateTypes'
  BY <1>12, IpAssumption, ConnsAssumption DEF Banned, GiveUp, Abandon
<1>13. ASSUME NEW b \in Backends, CheckCap(b) PROVE StateTypes'
  <2>1. CASE GiveUp(b, cur[b])
    BY <2>1, ConnsAssumption
       DEF GiveUp, Abandon, Both, Client, Upstream, Sockets,
           StateTypes, LifeStates, LoopStates, PipeStates, OnceStates,
           connVars, lifeVars
  <2>2. CASE StepTo(b, "dial")
    BY <2>2
       DEF StepTo, StateTypes, LifeStates, LoopStates, PipeStates, OnceStates,
           connVars, lifeVars
  <2>3. QED
    BY <2>1, <2>2, <1>13 DEF CheckCap
<1>14. ASSUME NEW b \in Backends, DialOK(b) PROVE StateTypes'
  <2>1. Upstream(cur[b]) \in Sockets
    BY <1>14 DEF DialOK, Shape, LoopShape, Upstream, Sockets, Sides
  <2>2. open' \in SUBSET Sockets
    BY <2>1, <1>14 DEF DialOK, StateTypes
  <2>3. QED
    BY <2>2, <1>14
       DEF DialOK, StateTypes, LifeStates, LoopStates, PipeStates, OnceStates,
           connVars, lifeVars
<1>15. ASSUME NEW b \in Backends, DialFail(b) PROVE StateTypes'
  BY <1>15, IpAssumption, ConnsAssumption DEF DialFail, GiveUp, Abandon
<1>16. ASSUME NEW b \in Backends, PreambleOK(b) PROVE StateTypes'
  BY <1>16, IpAssumption, ConnsAssumption DEF PreambleOK
<1>17. ASSUME NEW b \in Backends, PreambleFail(b) PROVE StateTypes'
  BY <1>17, IpAssumption, ConnsAssumption DEF PreambleFail, GiveUp, Abandon
<1>18. ASSUME NEW b \in Backends, inc(b) PROVE StateTypes'
  BY <1>18, IpAssumption, ConnsAssumption DEF inc
<1>19. ASSUME NEW b \in Backends, TrackClient(b) PROVE StateTypes'
  <2>1. Client(cur[b]) \in Sockets
    BY <1>19 DEF TrackClient, Shape, LoopShape, Client, Sockets, Sides
  <2>2. conns' \in [Backends -> SUBSET Sockets]
    BY <2>1, <1>19 DEF TrackClient, StateTypes
  <2>3. QED
    BY <2>2, <1>19
       DEF TrackClient, StateTypes, LifeStates, LoopStates, PipeStates, OnceStates,
           connVars, lifeVars
<1>20. ASSUME NEW b \in Backends, TrackAndSpawn(b) PROVE StateTypes'
  <2>1. Upstream(cur[b]) \in Sockets
    BY <1>20 DEF TrackAndSpawn, SpawnCounted, Shape, LoopShape, Upstream, Sockets, Sides
  <2>2. conns' \in [Backends -> SUBSET Sockets]
    BY <2>1, <1>20 DEF TrackAndSpawn, SpawnCounted, StateTypes
  <2>3. pipe' \in [Conns -> [Sides -> PipeStates]]
    BY <1>20 DEF TrackAndSpawn, SpawnCounted, StateTypes, PipeStates
  <2>4. QED
    BY <2>2, <2>3, <1>20
       DEF TrackAndSpawn, SpawnCounted, StateTypes, LifeStates, LoopStates, PipeStates, OnceStates,
           connVars, lifeVars
<1>21. ASSUME NEW b \in Backends, NEW c \in Conns, Accept(b, c) PROVE StateTypes'
  BY <1>21, IpAssumption, ConnsAssumption DEF Accept
<1>22. ASSUME NEW c \in Conns, closeBoth(c) PROVE StateTypes'
  BY <1>22, IpAssumption, ConnsAssumption DEF closeBoth, CloseOnce
<1>23. ASSUME NEW c \in Conns, untrackConn(c) PROVE StateTypes'
  BY <1>23, IpAssumption, ConnsAssumption DEF untrackConn
<1>24. ASSUME NEW c \in Conns, dec(c) PROVE StateTypes'
  <2>1. live[Ip[c]] \in Nat
    BY IpAssumption DEF StateTypes
  <2>2. (IF live[Ip[c]] > 0 THEN live[Ip[c]] - 1 ELSE 0) \in Nat
    BY <2>1
  <2>3. live' \in [IPs -> Nat]
    BY <2>2, <1>24 DEF dec, StateTypes
  <2>4. QED
    BY <2>3, <1>24
       DEF dec, StateTypes, LifeStates, LoopStates, PipeStates, OnceStates,
           connVars, lifeVars
<1>25. ASSUME NEW c \in Conns, Deactivate(c) PROVE StateTypes'
  <2>1. active' \in [Backends -> Int]
    <3>1. CASE at[c] \in Backends
      BY <3>1, <1>25 DEF Deactivate, StateTypes
    <3>2. CASE at[c] \notin Backends
      BY <3>2, <1>25 DEF Deactivate, StateTypes
    <3>3. QED
      BY <3>1, <3>2
  <2>2. QED
    BY <2>1, <1>25
       DEF Deactivate, StateTypes, LifeStates, LoopStates, PipeStates, OnceStates,
           connVars, lifeVars
<1>26. ASSUME NEW c \in Conns, NEW side \in Sides,
              ReadFails(c, side)
       PROVE  StateTypes'
  BY <1>26, IpAssumption, ConnsAssumption DEF ReadFails, PipeReturns
<1>27. ASSUME NEW c \in Conns, NEW side \in Sides, TimesOut(c, side) PROVE StateTypes'
  BY <1>27, IpAssumption, ConnsAssumption DEF TimesOut, PipeReturns
<1>28. ASSUME NEW c \in Conns, NEW side \in Sides, PipeDone(c, side) PROVE StateTypes'
  <2>1. wg' \in [Backends -> Int]
    <3>1. CASE at[c] \in Backends
      BY <3>1, <1>28 DEF PipeDone, StateTypes
    <3>2. CASE at[c] \notin Backends
      BY <3>2, <1>28 DEF PipeDone, StateTypes
    <3>3. QED
      BY <3>1, <3>2
  <2>2. /\ pipe' \in [Conns -> [Sides -> PipeStates]]
        /\ once' \in [Conns -> OnceStates]
        /\ at' \in [Conns -> Backends \union {NoBackend}]
    <3>1. CASE LastPipe(c, side)
      <4>1. /\ pipe' = [pipe EXCEPT ![c] = NoPipes]
            /\ once' = [once EXCEPT ![c] = "no"]
            /\ at' = [at EXCEPT ![c] = NoBackend]
        BY <3>1, <1>28 DEF PipeDone
      <4>2. NoPipes \in [Sides -> PipeStates]
        BY DEF NoPipes, PipeStates
      <4>3. QED
        BY <4>1, <4>2 DEF StateTypes, OnceStates
    <3>2. CASE ~ LastPipe(c, side)
      <4>1. pipe' = [pipe EXCEPT ![c][side] = "done"] /\ once' = once /\ at' = at
        BY <3>2, <1>28 DEF PipeDone
      <4>2. QED
        BY <4>1 DEF StateTypes, PipeStates
    <3>3. QED
      BY <3>1, <3>2
  <2>3. QED
    BY <2>1, <2>2, <1>28
       DEF PipeDone, StateTypes, LifeStates, LoopStates, PipeStates, OnceStates,
           connVars, lifeVars
<1>29. ASSUME NEW s, HangUp(s) PROVE StateTypes'
  BY <1>29, IpAssumption, ConnsAssumption DEF HangUp
<1>30. CASE UNCHANGED vars
  BY <1>30 DEF vars
<1> HIDE DEF LifeStates, LoopStates, PipeStates, OnceStates, NoPipes, Sockets,
            Client, Upstream, Both, CurIp, Sides, StateTypes, connVars, lifeVars,
            Shape, LoopShape
<1>31. QED
  BY <1>1, <1>2, <1>3, <1>4, <1>5, <1>6, <1>7, <1>8, <1>9, <1>10, <1>11, <1>12,
     <1>13, <1>14, <1>15, <1>16, <1>17, <1>18, <1>19, <1>20, <1>21, <1>22, <1>23,
     <1>24, <1>25, <1>26, <1>27, <1>28, <1>29, <1>30
     DEF Next, Start, Shutdown, acceptLoop, handleConn, Once, Pipe

(* Every step keeps the shape of handleConn and of the life cycle; that a  *)
(* stopped backend runs nothing is what WgExact gives when wg.Wait returns. *)
LEMMA LoopStep ==
    StateTypes /\ Shape /\ WgExact /\ [Next]_vars => LoopShape' /\ LifeShape'
<1> SUFFICES ASSUME StateTypes, Shape, WgExact, [Next]_vars
             PROVE  LoopShape' /\ LifeShape'
  OBVIOUS
<1> USE DEF StateTypes, Shape, LoopShape, ConnShape, LifeShape, connVars, lifeVars
<1>1. ASSUME NEW b \in Backends, StartFlusher(b) PROVE LoopShape' /\ LifeShape'
  BY <1>1, NoBackendAssumption, ConnsAssumption DEF StartFlusher
<1>2. ASSUME NEW b \in Backends, BindOK(b) PROVE LoopShape' /\ LifeShape'
  BY <1>2, NoBackendAssumption, ConnsAssumption DEF BindOK
<1>3. ASSUME NEW b \in Backends, BindFail(b) PROVE LoopShape' /\ LifeShape'
  BY <1>3, NoBackendAssumption, ConnsAssumption DEF BindFail
<1>4. ASSUME NEW b \in Backends, Cancel(b) PROVE LoopShape' /\ LifeShape'
  BY <1>4, NoBackendAssumption, ConnsAssumption DEF Cancel
<1>5. ASSUME NEW b \in Backends, CloseListener(b) PROVE LoopShape' /\ LifeShape'
  BY <1>5, NoBackendAssumption, ConnsAssumption DEF CloseListener
<1>6. ASSUME NEW b \in Backends, Settled(b) PROVE LoopShape' /\ LifeShape'
  BY <1>6, NoBackendAssumption, ConnsAssumption DEF Settled
<1>7. ASSUME NEW b \in Backends, GraceExpired(b) PROVE LoopShape' /\ LifeShape'
  BY <1>7, NoBackendAssumption, ConnsAssumption DEF GraceExpired
<1>8. ASSUME NEW b \in Backends, forceCloseConns(b) PROVE LoopShape' /\ LifeShape'
  BY <1>8, NoBackendAssumption, ConnsAssumption DEF forceCloseConns, ForceClose
<1>9. ASSUME NEW b \in Backends, WaitReturns(b) PROVE LoopShape' /\ LifeShape'
  <2>1. ~flusher[b] /\ loop[b] = "off"
    BY RunningFinite, <1>9 DEF WaitReturns, WgExact, StateTypes
  <2>2. CASE goal[b] = "restart"
    BY <2>1, <2>2, <1>9
       DEF WaitReturns, StateTypes, Shape, LoopShape, LifeShape, connVars
  <2>3. CASE goal[b] # "restart"
    BY <2>1, <2>3, <1>9
       DEF WaitReturns, StateTypes, Shape, LoopShape, LifeShape, connVars
  <2>4. QED
    BY <2>2, <2>3
<1>10. ASSUME NEW b \in Backends, FlusherExit(b) PROVE LoopShape' /\ LifeShape'
  BY <1>10, NoBackendAssumption, ConnsAssumption DEF FlusherExit
<1>11. ASSUME NEW b \in Backends, AcceptLoopExit(b) PROVE LoopShape' /\ LifeShape'
  BY <1>11, NoBackendAssumption, ConnsAssumption DEF AcceptLoopExit, LoopReturns
<1>12. ASSUME NEW b \in Backends, Banned(b) PROVE LoopShape' /\ LifeShape'
  BY <1>12, NoBackendAssumption, ConnsAssumption DEF Banned, GiveUp, Abandon
<1>13. ASSUME NEW b \in Backends, CheckCap(b) PROVE LoopShape' /\ LifeShape'
  <2>1. CASE GiveUp(b, cur[b])
    BY <2>1, NoBackendAssumption, <1>13
       DEF CheckCap, GiveUp, Abandon, StateTypes, Shape, LoopShape, LifeShape, lifeVars
  <2>2. CASE StepTo(b, "dial")
    BY <2>2, <1>13
       DEF CheckCap, StepTo, StateTypes, Shape, LoopShape, LifeShape, lifeVars,
           connVars
  <2>3. QED
    BY <2>1, <2>2, <1>13 DEF CheckCap
<1>14. ASSUME NEW b \in Backends, DialOK(b) PROVE LoopShape' /\ LifeShape'
  BY <1>14, NoBackendAssumption, ConnsAssumption DEF DialOK
<1>15. ASSUME NEW b \in Backends, DialFail(b) PROVE LoopShape' /\ LifeShape'
  BY <1>15, NoBackendAssumption, ConnsAssumption DEF DialFail, GiveUp, Abandon
<1>16. ASSUME NEW b \in Backends, PreambleOK(b) PROVE LoopShape' /\ LifeShape'
  BY <1>16, NoBackendAssumption, ConnsAssumption DEF PreambleOK
<1>17. ASSUME NEW b \in Backends, PreambleFail(b) PROVE LoopShape' /\ LifeShape'
  BY <1>17, NoBackendAssumption, ConnsAssumption DEF PreambleFail, GiveUp, Abandon
<1>18. ASSUME NEW b \in Backends, inc(b) PROVE LoopShape' /\ LifeShape'
  BY <1>18, NoBackendAssumption, ConnsAssumption DEF inc
<1>19. ASSUME NEW b \in Backends, TrackClient(b) PROVE LoopShape' /\ LifeShape'
  BY <1>19, NoBackendAssumption, ConnsAssumption DEF TrackClient
<1>20. ASSUME NEW b \in Backends, TrackAndSpawn(b) PROVE LoopShape' /\ LifeShape'
  BY <1>20, NoBackendAssumption, ConnsAssumption DEF TrackAndSpawn, SpawnCounted
<1>21. ASSUME NEW b \in Backends, NEW c \in Conns,
              Accept(b, c)
       PROVE  LoopShape' /\ LifeShape'
  BY <1>21, NoBackendAssumption, ConnsAssumption DEF Accept
<1>22. ASSUME NEW c \in Conns, closeBoth(c) PROVE LoopShape' /\ LifeShape'
  BY <1>22, NoBackendAssumption, ConnsAssumption DEF closeBoth, CloseOnce
<1>23. ASSUME NEW c \in Conns, untrackConn(c) PROVE LoopShape' /\ LifeShape'
  BY <1>23, NoBackendAssumption, ConnsAssumption DEF untrackConn
<1>24. ASSUME NEW c \in Conns, dec(c) PROVE LoopShape' /\ LifeShape'
  BY <1>24, NoBackendAssumption, ConnsAssumption DEF dec
<1>25. ASSUME NEW c \in Conns, Deactivate(c) PROVE LoopShape' /\ LifeShape'
  BY <1>25, NoBackendAssumption, ConnsAssumption DEF Deactivate
<1>26. ASSUME NEW c \in Conns, NEW side \in Sides,
              ReadFails(c, side)
       PROVE  LoopShape' /\ LifeShape'
  BY <1>26, NoBackendAssumption, ConnsAssumption DEF ReadFails, PipeReturns
<1>27. ASSUME NEW c \in Conns, NEW side \in Sides,
              TimesOut(c, side)
       PROVE  LoopShape' /\ LifeShape'
  BY <1>27, NoBackendAssumption, ConnsAssumption DEF TimesOut, PipeReturns
<1>28. ASSUME NEW c \in Conns, NEW side \in Sides,
              PipeDone(c, side)
       PROVE  LoopShape' /\ LifeShape'
  BY <1>28, NoBackendAssumption, ConnsAssumption DEF PipeDone
<1>29. ASSUME NEW s, HangUp(s) PROVE LoopShape' /\ LifeShape'
  BY <1>29, NoBackendAssumption, ConnsAssumption DEF HangUp
<1>30. CASE UNCHANGED vars
  BY <1>30 DEF vars
<1> HIDE DEF StateTypes, Shape, LoopShape, ConnShape, LifeShape, connVars, lifeVars
<1>31. QED
  BY <1>1, <1>2, <1>3, <1>4, <1>5, <1>6, <1>7, <1>8, <1>9, <1>10, <1>11, <1>12,
     <1>13, <1>14, <1>15, <1>16, <1>17, <1>18, <1>19, <1>20, <1>21, <1>22, <1>23,
     <1>24, <1>25, <1>26, <1>27, <1>28, <1>29, <1>30
     DEF Next, Start, Shutdown, acceptLoop, handleConn, Once, Pipe

(* Every step keeps the shape of the connections.                           *)
LEMMA ConnStep ==
    StateTypes /\ Shape /\ [Next]_vars => ConnShape'
<1> SUFFICES ASSUME StateTypes, Shape, [Next]_vars
             PROVE  ConnShape'
  OBVIOUS
<1> USE DEF StateTypes, Shape, LoopShape, ConnShape, connVars, lifeVars, NoPipes,
            Sides
<1>1. ASSUME NEW b \in Backends, StartFlusher(b) PROVE ConnShape'
  BY <1>1, NoBackendAssumption, ConnsAssumption DEF StartFlusher
<1>2. ASSUME NEW b \in Backends, BindOK(b) PROVE ConnShape'
  BY <1>2, NoBackendAssumption, ConnsAssumption DEF BindOK
<1>3. ASSUME NEW b \in Backends, BindFail(b) PROVE ConnShape'
  BY <1>3, NoBackendAssumption, ConnsAssumption DEF BindFail
<1>4. ASSUME NEW b \in Backends, Cancel(b) PROVE ConnShape'
  BY <1>4, NoBackendAssumption, ConnsAssumption DEF Cancel
<1>5. ASSUME NEW b \in Backends, CloseListener(b) PROVE ConnShape'
  BY <1>5, NoBackendAssumption, ConnsAssumption DEF CloseListener
<1>6. ASSUME NEW b \in Backends, Settled(b) PROVE ConnShape'
  BY <1>6, NoBackendAssumption, ConnsAssumption DEF Settled
<1>7. ASSUME NEW b \in Backends, GraceExpired(b) PROVE ConnShape'
  BY <1>7, NoBackendAssumption, ConnsAssumption DEF GraceExpired
<1>8. ASSUME NEW b \in Backends, forceCloseConns(b) PROVE ConnShape'
  BY <1>8, NoBackendAssumption, ConnsAssumption DEF forceCloseConns, ForceClose
<1>9. ASSUME NEW b \in Backends, WaitReturns(b) PROVE ConnShape'
  BY <1>9, NoBackendAssumption, ConnsAssumption DEF WaitReturns
<1>10. ASSUME NEW b \in Backends, FlusherExit(b) PROVE ConnShape'
  BY <1>10, NoBackendAssumption, ConnsAssumption DEF FlusherExit
<1>11. ASSUME NEW b \in Backends, AcceptLoopExit(b) PROVE ConnShape'
  BY <1>11, NoBackendAssumption, ConnsAssumption DEF AcceptLoopExit, LoopReturns
<1>12. ASSUME NEW b \in Backends, Banned(b) PROVE ConnShape'
  BY <1>12, NoBackendAssumption, ConnsAssumption DEF Banned, GiveUp, Abandon
<1>13. ASSUME NEW b \in Backends, CheckCap(b) PROVE ConnShape'
  BY <1>13, NoBackendAssumption, ConnsAssumption DEF CheckCap, GiveUp, Abandon, StepTo
<1>14. ASSUME NEW b \in Backends, DialOK(b) PROVE ConnShape'
  BY <1>14, NoBackendAssumption, ConnsAssumption DEF DialOK
<1>15. ASSUME NEW b \in Backends, DialFail(b) PROVE ConnShape'
  BY <1>15, NoBackendAssumption, ConnsAssumption DEF DialFail, GiveUp, Abandon
<1>16. ASSUME NEW b \in Backends, PreambleOK(b) PROVE ConnShape'
  BY <1>16, NoBackendAssumption, ConnsAssumption DEF PreambleOK
<1>17. ASSUME NEW b \in Backends, PreambleFail(b) PROVE ConnShape'
  BY <1>17, NoBackendAssumption, ConnsAssumption DEF PreambleFail, GiveUp, Abandon
<1>18. ASSUME NEW b \in Backends, inc(b) PROVE ConnShape'
  BY <1>18, NoBackendAssumption, ConnsAssumption DEF inc
<1>19. ASSUME NEW b \in Backends, TrackClient(b) PROVE ConnShape'
  BY <1>19, NoBackendAssumption, ConnsAssumption DEF TrackClient
<1>20. ASSUME NEW b \in Backends, TrackAndSpawn(b) PROVE ConnShape'
  BY <1>20, NoBackendAssumption, ConnsAssumption DEF TrackAndSpawn, SpawnCounted
<1>21. ASSUME NEW b \in Backends, NEW c \in Conns, Accept(b, c) PROVE ConnShape'
  BY <1>21, NoBackendAssumption, ConnsAssumption DEF Accept
<1>22. ASSUME NEW c \in Conns, closeBoth(c) PROVE ConnShape'
  BY <1>22, NoBackendAssumption, ConnsAssumption DEF closeBoth, CloseOnce
<1>23. ASSUME NEW c \in Conns, untrackConn(c) PROVE ConnShape'
  BY <1>23, NoBackendAssumption, ConnsAssumption DEF untrackConn
<1>24. ASSUME NEW c \in Conns, dec(c) PROVE ConnShape'
  BY <1>24, NoBackendAssumption, ConnsAssumption DEF dec
<1>25. ASSUME NEW c \in Conns, Deactivate(c) PROVE ConnShape'
  BY <1>25, NoBackendAssumption, ConnsAssumption DEF Deactivate
<1>26. ASSUME NEW c \in Conns, NEW side \in Sides, ReadFails(c, side) PROVE ConnShape'
  BY <1>26, NoBackendAssumption, ConnsAssumption DEF ReadFails, PipeReturns
<1>27. ASSUME NEW c \in Conns, NEW side \in Sides, TimesOut(c, side) PROVE ConnShape'
  BY <1>27, NoBackendAssumption, ConnsAssumption DEF TimesOut, PipeReturns
<1>28. ASSUME NEW c \in Conns, NEW side \in Sides, PipeDone(c, side) PROVE ConnShape'
  <2>1. CASE LastPipe(c, side)
    <3>1. /\ pipe' = [pipe EXCEPT ![c] = NoPipes]
          /\ once' = [once EXCEPT ![c] = "no"]
          /\ at' = [at EXCEPT ![c] = NoBackend]
          /\ cur' = cur
      BY <2>1, <1>28 DEF PipeDone
    <3>2. QED
      BY <3>1, NoBackendAssumption
         DEF StateTypes, Shape, ConnShape, NoPipes, Sides
  <2>2. CASE ~ LastPipe(c, side)
    <3>1. /\ pipe' = [pipe EXCEPT ![c][side] = "done"]
          /\ once' = once /\ at' = at /\ cur' = cur
      BY <2>2, <1>28 DEF PipeDone
    <3>2. once[c] = "done" /\ pipe[c][side] = "closing"
      BY <1>28 DEF PipeDone
    <3>3. \E other \in Sides \ {side} : pipe[c][other] # "done"
      BY <2>2 DEF LastPipe
    <3>4. QED
      BY <3>1, <3>2, <3>3 DEF StateTypes, Shape, ConnShape, Sides
  <2>3. QED
    BY <2>1, <2>2
<1>29. ASSUME NEW s, HangUp(s) PROVE ConnShape'
  BY <1>29, NoBackendAssumption, ConnsAssumption DEF HangUp
<1>30. CASE UNCHANGED vars
  BY <1>30 DEF vars
<1> HIDE DEF StateTypes, Shape, LoopShape, ConnShape, connVars, lifeVars, NoPipes,
            Sides
<1>31. QED
  BY <1>1, <1>2, <1>3, <1>4, <1>5, <1>6, <1>7, <1>8, <1>9, <1>10, <1>11, <1>12,
     <1>13, <1>14, <1>15, <1>16, <1>17, <1>18, <1>19, <1>20, <1>21, <1>22, <1>23,
     <1>24, <1>25, <1>26, <1>27, <1>28, <1>29, <1>30
     DEF Next, Start, Shutdown, acceptLoop, handleConn, Once, Pipe

(* Every step keeps the WaitGroup exact: it is enough to follow the set of  *)
(* copy goroutines that still run.                                          *)
LEMMA WgStep ==
    StateTypes /\ Shape /\ WgExact /\ [Next]_vars => WgExact'
<1> SUFFICES ASSUME StateTypes, Shape, WgExact, [Next]_vars
             PROVE  WgExact'
  OBVIOUS
<1>1. ASSUME NEW b \in Backends,
              BindFail(b) \/ Cancel(b) \/ CloseListener(b) \/ Settled(b)
               \/ GraceExpired(b) \/ forceCloseConns(b) \/ WaitReturns(b)
               \/ DialOK(b) \/ PreambleOK(b) \/ inc(b) \/ TrackClient(b)
       PROVE  WgExact'
  <2>1. \A x \in Backends : Running(x)' = Running(x)
    BY <1>1 DEF BindFail, Cancel, CloseListener, Settled, GraceExpired, forceCloseConns, ForceClose,
           WaitReturns, DialOK, PreambleOK, inc, TrackClient, Running, connVars,
           lifeVars
  <2>2. QED
    BY <2>1, <1>1
       DEF BindFail, Cancel, CloseListener, Settled, GraceExpired, forceCloseConns, ForceClose,
           WaitReturns, DialOK, PreambleOK, inc, TrackClient, lifeVars, WgExact,
           StateTypes
<1>2. ASSUME NEW b \in Backends, StartFlusher(b) PROVE WgExact'
  <2>1. \A x \in Backends : Running(x)' = Running(x)
    BY <1>2 DEF StartFlusher, connVars, Running
  <2>2. QED
    BY <2>1, <1>2, RunningFinite
       DEF StartFlusher, lifeVars, WgExact, StateTypes, Shape, LifeShape
<1>3. ASSUME NEW b \in Backends, BindOK(b) PROVE WgExact'
  <2>1. \A x \in Backends : Running(x)' = Running(x)
    BY <1>3 DEF BindOK, connVars, Running
  <2>2. QED
    BY <2>1, <1>3, RunningFinite
       DEF BindOK, lifeVars, WgExact, StateTypes, Shape, LifeShape
<1>4. ASSUME NEW b \in Backends, FlusherExit(b) PROVE WgExact'
  <2>1. \A x \in Backends : Running(x)' = Running(x)
    BY <1>4 DEF FlusherExit, connVars, Running
  <2>2. QED
    BY <2>1, <1>4, RunningFinite
       DEF FlusherExit, lifeVars, WgExact, StateTypes, Shape, LifeShape
<1>5. ASSUME NEW b \in Backends, AcceptLoopExit(b) PROVE WgExact'
  <2>1. \A x \in Backends : Running(x)' = Running(x)
    BY <1>5 DEF AcceptLoopExit, LoopReturns, connVars, Running
  <2>2. QED
    BY <2>1, <1>5, RunningFinite
       DEF AcceptLoopExit, LoopReturns, lifeVars, WgExact, StateTypes, Shape, LifeShape
<1>6. ASSUME NEW b \in Backends, NEW c \in Conns, Accept(b, c) PROVE WgExact'
  <2>1. pipe[c] = [side \in Sides |-> "none"]
    BY <1>6 DEF Accept, StateTypes, Shape, ConnShape, Sides
  <2>2. \A x \in Backends : Running(x)' = Running(x)
    BY <2>1, <1>6, NoBackendAssumption DEF Accept, StateTypes, Running, Sockets
  <2>3. QED
    BY <2>2, <1>6 DEF Accept, WgExact, StateTypes
<1>7. ASSUME NEW b \in Backends, Banned(b) PROVE WgExact'
  <2>1. CASE GiveUp(b, cur[b])
    <3>1. cur[b] \in Conns /\ at[cur[b]] = b
      BY <1>7 DEF Banned, Shape, LoopShape
    <3>2. pipe[cur[b]] = [side \in Sides |-> "none"]
      BY <3>1 DEF StateTypes, Shape, ConnShape, Sides
    <3>3. \A x \in Backends : Running(x)' = Running(x)
      BY <2>1, <3>1, <3>2, NoBackendAssumption
         DEF GiveUp, Abandon, StateTypes, Running, Sockets
    <3>4. QED
      BY <2>1, <3>3, <1>7 DEF Banned, GiveUp, Abandon, WgExact, StateTypes
  <2>2. QED
    BY <2>1, <1>7 DEF Banned
<1>8. ASSUME NEW b \in Backends, CheckCap(b) PROVE WgExact'
  <2>1. CASE GiveUp(b, cur[b])
    <3>1. cur[b] \in Conns /\ at[cur[b]] = b
      BY <1>8 DEF CheckCap, Shape, LoopShape
    <3>2. pipe[cur[b]] = [side \in Sides |-> "none"]
      BY <3>1 DEF StateTypes, Shape, ConnShape, Sides
    <3>3. \A x \in Backends : Running(x)' = Running(x)
      BY <2>1, <3>1, <3>2, NoBackendAssumption
         DEF GiveUp, Abandon, StateTypes, Running, Sockets
    <3>4. QED
      BY <2>1, <3>3, <1>8 DEF CheckCap, GiveUp, Abandon, WgExact, StateTypes
  <2>2. CASE StepTo(b, "dial")
    <3>1. \A x \in Backends : Running(x)' = Running(x)
      BY <2>2 DEF StepTo, connVars, Running
    <3>2. QED
      BY <2>2, <3>1, <1>8 DEF CheckCap, StepTo, WgExact, StateTypes
  <2>3. QED
    BY <2>1, <2>2, <1>8 DEF CheckCap
<1>9. ASSUME NEW b \in Backends, DialFail(b) PROVE WgExact'
  <2>1. CASE GiveUp(b, cur[b])
    <3>1. cur[b] \in Conns /\ at[cur[b]] = b
      BY <1>9 DEF DialFail, Shape, LoopShape
    <3>2. pipe[cur[b]] = [side \in Sides |-> "none"]
      BY <3>1 DEF StateTypes, Shape, ConnShape, Sides
    <3>3. \A x \in Backends : Running(x)' = Running(x)
      BY <2>1, <3>1, <3>2, NoBackendAssumption
         DEF GiveUp, Abandon, StateTypes, Running, Sockets
    <3>4. QED
      BY <2>1, <3>3, <1>9 DEF DialFail, GiveUp, Abandon, WgExact, StateTypes
  <2>2. QED
    BY <2>1, <1>9 DEF DialFail
<1>10. ASSUME NEW b \in Backends, PreambleFail(b) PROVE WgExact'
  <2>1. CASE GiveUp(b, cur[b])
    <3>1. cur[b] \in Conns /\ at[cur[b]] = b
      BY <1>10 DEF PreambleFail, Shape, LoopShape
    <3>2. pipe[cur[b]] = [side \in Sides |-> "none"]
      BY <3>1 DEF StateTypes, Shape, ConnShape, Sides
    <3>3. \A x \in Backends : Running(x)' = Running(x)
      BY <2>1, <3>1, <3>2, NoBackendAssumption
         DEF GiveUp, Abandon, StateTypes, Running, Sockets
    <3>4. QED
      BY <2>1, <3>3, <1>10 DEF PreambleFail, GiveUp, Abandon, WgExact, StateTypes
  <2>2. QED
    BY <2>1, <1>10 DEF PreambleFail
<1>11. ASSUME NEW b \in Backends, TrackAndSpawn(b) PROVE WgExact'
  <2> DEFINE c == cur[b]
  <2>1. c \in Conns /\ at[c] = b /\ loop[b] # "off"
    BY <1>11 DEF TrackAndSpawn, SpawnCounted, Shape, LoopShape
  <2>2. \A side \in Sides : pipe[c][side] = "none"
    BY <2>1 DEF StateTypes, Shape, ConnShape, Sides
  <2>3. /\ wg' = [wg EXCEPT ![b] = @ + 2] /\ flusher' = flusher
        /\ loop' = [loop EXCEPT ![b] = "accept"] /\ at' = at
        /\ pipe' = [pipe EXCEPT ![c] = [side \in Sides |-> "copy"]]
    BY <1>11 DEF TrackAndSpawn, SpawnCounted
  <2>4. \A x \in Backends \ {b} : Running(x)' = Running(x)
    BY <2>1, <2>3 DEF StateTypes, Running, Sockets
  <2>5. Running(b)' = (Running(b) \union {Client(c)}) \union {Upstream(c)}
    BY <2>1, <2>3 DEF StateTypes, Running, Sockets, Sides, Client, Upstream
  <2>6. Client(c) \notin Running(b) /\ Upstream(c) \notin Running(b) \union {Client(c)}
    BY <2>2 DEF Running, Client, Upstream, Sides
  <2>7. Cardinality(Running(b)') = Cardinality(Running(b)) + 2
    <3> DEFINE R == Running(b) \union {Client(c)}
    <3>1. IsFiniteSet(R) /\ Cardinality(R) = Cardinality(Running(b)) + 1
      BY <2>6, RunningFinite, FS_AddElement
    <3> HIDE DEF R
    <3>2. Cardinality(R \union {Upstream(c)}) = Cardinality(R) + 1
      BY <2>6, <3>1, FS_AddElement DEF R
    <3>3. QED
      BY <2>5, <3>1, <3>2, RunningFinite DEF R
  <2> HIDE DEF c
  <2>8. QED
    BY <2>1, <2>3, <2>4, <2>7, RunningFinite DEF WgExact, StateTypes
<1>12. ASSUME NEW c \in Conns,
              closeBoth(c) \/ untrackConn(c) \/ dec(c) \/ Deactivate(c)
       PROVE  WgExact'
  <2>1. \A x \in Backends : Running(x)' = Running(x)
    BY <1>12 DEF closeBoth, CloseOnce, untrackConn, dec, Deactivate, Running
  <2>2. QED
    BY <2>1, <1>12
       DEF closeBoth, CloseOnce, untrackConn, dec, Deactivate, WgExact
<1>13. ASSUME NEW c \in Conns, NEW side \in Sides,
              ReadFails(c, side) \/ TimesOut(c, side)
       PROVE  WgExact'
  <2>1. PipeReturns(c, side)
    BY <1>13 DEF ReadFails, TimesOut
  <2>2. \A x \in Backends : Running(x)' = Running(x)
    BY <2>1 DEF PipeReturns, StateTypes, Running, Sockets
  <2>3. QED
    BY <2>1, <2>2 DEF PipeReturns, WgExact
<1>14. ASSUME NEW c \in Conns, NEW side \in Sides, PipeDone(c, side) PROVE WgExact'
  <2>1. PICK b \in Backends : at[c] = b
    BY <1>14 DEF PipeDone, StateTypes, Shape, ConnShape, Sides
  <2>2. /\ wg' = [wg EXCEPT ![b] = @ - 1] /\ flusher' = flusher /\ loop' = loop
        /\ pipe[c][side] = "closing"
    BY <2>1, <1>14 DEF PipeDone
  <2>3. /\ \A x \in Backends \ {b} : Running(x)' = Running(x)
        /\ Running(b)' = Running(b) \ {<<c, side>>}
    <3>1. CASE LastPipe(c, side)
      <4>1. /\ pipe' = [pipe EXCEPT ![c] = NoPipes]
            /\ at' = [at EXCEPT ![c] = NoBackend]
        BY <3>1, <1>14 DEF PipeDone
      <4>2. \A s \in Sockets : s[1] = c => s = <<c, side>> \/ pipe[c][s[2]] = "done"
        BY <3>1 DEF LastPipe, Sockets
      <4>3. \A x \in Backends, s \in Sockets :
              s \in Running(x)' <=> s \in Running(x) /\ s[1] # c
        BY <4>1, NoBackendAssumption DEF StateTypes, Running, Sockets
      <4>4. \A x \in Backends \ {b} : \A s \in Running(x) : s[1] # c
        BY <2>1 DEF Running
      <4>5. \A s \in Running(b) : s[1] = c <=> s = <<c, side>>
        BY <4>2 DEF Running
      <4>6. \A x : Running(x) \subseteq Sockets /\ Running(x)' \subseteq Sockets
        BY DEF Running
      <4>7. QED
        BY <4>3, <4>4, <4>5, <4>6
    <3>2. CASE ~ LastPipe(c, side)
      <4>1. pipe' = [pipe EXCEPT ![c][side] = "done"] /\ at' = at
        BY <3>2, <1>14 DEF PipeDone
      <4>2. QED
        BY <2>1, <4>1 DEF StateTypes, Running, Sockets
    <3>3. QED
      BY <3>1, <3>2
  <2>4. <<c, side>> \in Running(b)
    BY <2>1, <2>2 DEF Running, Sockets
  <2>5. Cardinality(Running(b)') = Cardinality(Running(b)) - 1
    BY <2>3, <2>4, RunningFinite, FS_RemoveElement
  <2>6. \A x \in Backends \ {b} : Cardinality(Running(x)') = Cardinality(Running(x))
    BY <2>3
  <2>7. QED
    BY <2>2, <2>5, <2>6, RunningFinite DEF WgExact, StateTypes
<1>15. ASSUME NEW s, HangUp(s) PROVE WgExact'
  <2>1. \A x \in Backends : Running(x)' = Running(x)
    BY <1>15 DEF HangUp, Running
  <2>2. QED
    BY <2>1, <1>15 DEF HangUp, WgExact
<1>16. CASE UNCHANGED vars
  BY <1>16 DEF vars, WgExact, Running
<1>17. QED
  BY <1>1, <1>2, <1>3, <1>4, <1>5, <1>6, <1>7, <1>8, <1>9, <1>10, <1>11, <1>12,
     <1>13, <1>14, <1>15, <1>16
     DEF Next, Start, Shutdown, acceptLoop, handleConn, Once, Pipe

(* The inductive invariant of the goroutines, and its invariance.          *)
GoroutineInv == StateTypes /\ Shape /\ WgExact

LEMMA GoroutineInvariant == Spec => []GoroutineInv
<1>1. Init => GoroutineInv
  <2> SUFFICES ASSUME Init PROVE GoroutineInv
    OBVIOUS
  <2>1. StateTypes
    BY DEF Init, StateTypes, LifeStates, LoopStates, PipeStates, OnceStates,
           NoPipes, Sockets
  <2>2. Shape
    BY NoBackendAssumption, ConnsAssumption
       DEF Init, Shape, LoopShape, LifeShape, ConnShape, NoPipes, Sides
  <2>3. \A b \in Backends : Running(b) = {}
    BY NoBackendAssumption DEF Init, Running, Sockets
  <2>4. WgExact
    BY <2>3, FS_EmptySet DEF Init, WgExact
  <2>5. QED
    BY <2>1, <2>2, <2>4 DEF GoroutineInv
<1>2. GoroutineInv /\ [Next]_vars => GoroutineInv'
  BY TypesStep, LoopStep, ConnStep, WgStep DEF GoroutineInv, Shape
<1>3. QED
  BY <1>1, <1>2, PTL DEF Spec

(* The WaitGroup of a backend counts the goroutines that still run.        *)
THEOREM WgExactness == Spec => []WgExact
<1>1. GoroutineInv => WgExact
  BY DEF GoroutineInv
<1>2. QED
  BY <1>1, GoroutineInvariant, PTL

-----------------------------------------------------------------------------
(* The per-IP tracker.                                                     *)

LEMMA CountedFinite ==
    \A i : IsFiniteSet(CountedOf(i)) /\ Cardinality(CountedOf(i)) \in Nat
BY ConnsAssumption, FS_Subset, FS_CardinalityType DEF CountedOf

LEMMA TrackerFrame ==
    ASSUME TrackerExact, live' = live, \A x \in Conns : Counted(x)' <=> Counted(x)
    PROVE  TrackerExact'
<1>1. \A i : CountedOf(i)' = CountedOf(i)
  BY DEF CountedOf
<1>2. QED
  BY <1>1 DEF TrackerExact

(* Only inc adds a connection to the counted ones, and only dec removes     *)
(* one, which is there to be removed.                                       *)
LEMMA TrackerStep ==
    StateTypes /\ Shape /\ TrackerExact /\ [Next]_vars => TrackerExact'
<1> SUFFICES ASSUME StateTypes, Shape, TrackerExact, [Next]_vars
             PROVE  TrackerExact'
  OBVIOUS
<1> USE DEF Counted, Spawned, Shape, LoopShape, ConnShape, LifeShape, StateTypes,
            connVars, lifeVars
<1>1. ASSUME NEW b \in Backends,
              StartFlusher(b) \/ BindFail(b) \/ Cancel(b)
               \/ CloseListener(b) \/ Settled(b) \/ GraceExpired(b)
               \/ forceCloseConns(b) \/ WaitReturns(b) \/ FlusherExit(b)
       PROVE  TrackerExact'
  <2>1. live' = live /\ \A x \in Conns : Counted(x)' <=> Counted(x)
    BY <1>1
       DEF StartFlusher, BindFail, Cancel, CloseListener, Settled, GraceExpired,
           forceCloseConns, ForceClose, WaitReturns, FlusherExit
  <2>2. QED
    BY <2>1, TrackerFrame
<1>2. ASSUME NEW b \in Backends, BindOK(b) PROVE TrackerExact'
  <2>1. live' = live /\ \A x \in Conns : Counted(x)' <=> Counted(x)
    BY <1>2 DEF BindOK
  <2>2. QED
    BY <2>1, TrackerFrame
<1>3. ASSUME NEW b \in Backends, AcceptLoopExit(b) PROVE TrackerExact'
  <2>1. live' = live /\ \A x \in Conns : Counted(x)' <=> Counted(x)
    BY <1>3 DEF AcceptLoopExit, LoopReturns
  <2>2. QED
    BY <2>1, TrackerFrame
<1>4. ASSUME NEW b \in Backends, DialOK(b) PROVE TrackerExact'
  <2>1. live' = live /\ \A x \in Conns : Counted(x)' <=> Counted(x)
    BY <1>4 DEF DialOK
  <2>2. QED
    BY <2>1, TrackerFrame
<1>5. ASSUME NEW b \in Backends, PreambleOK(b) PROVE TrackerExact'
  <2>1. live' = live /\ \A x \in Conns : Counted(x)' <=> Counted(x)
    BY <1>5 DEF PreambleOK
  <2>2. QED
    BY <2>1, TrackerFrame
<1>6. ASSUME NEW b \in Backends, TrackClient(b) PROVE TrackerExact'
  <2>1. live' = live /\ \A x \in Conns : Counted(x)' <=> Counted(x)
    BY <1>6 DEF TrackClient
  <2>2. QED
    BY <2>1, TrackerFrame
<1>7. ASSUME NEW b \in Backends, NEW c \in Conns, Accept(b, c) PROVE TrackerExact'
  <2>1. live' = live /\ \A x \in Conns : Counted(x)' <=> Counted(x)
    BY <1>7, NoBackendAssumption, ConnsAssumption DEF Accept
  <2>2. QED
    BY <2>1, TrackerFrame
<1>8. ASSUME NEW b \in Backends, Banned(b) PROVE TrackerExact'
  <2>1. live' = live /\ \A x \in Conns : Counted(x)' <=> Counted(x)
    BY <1>8, ConnsAssumption DEF Banned, GiveUp, Abandon
  <2>2. QED
    BY <2>1, TrackerFrame
<1>9. ASSUME NEW b \in Backends, CheckCap(b) PROVE TrackerExact'
  <2>1. live' = live /\ \A x \in Conns : Counted(x)' <=> Counted(x)
    <3>1. CASE GiveUp(b, cur[b])
      BY <3>1, <1>9, ConnsAssumption
         DEF CheckCap, GiveUp, Abandon, Counted, Spawned, StateTypes, Shape, LoopShape
    <3>2. CASE StepTo(b, "dial")
      BY <3>2, <1>9 DEF CheckCap, StepTo, Counted, Spawned, StateTypes, connVars
    <3>3. QED
      BY <3>1, <3>2, <1>9 DEF CheckCap
  <2>2. QED
    BY <2>1, TrackerFrame
<1>10. ASSUME NEW b \in Backends, DialFail(b) PROVE TrackerExact'
  <2>1. live' = live /\ \A x \in Conns : Counted(x)' <=> Counted(x)
    BY <1>10, ConnsAssumption DEF DialFail, GiveUp, Abandon
  <2>2. QED
    BY <2>1, TrackerFrame
<1>11. ASSUME NEW b \in Backends, PreambleFail(b) PROVE TrackerExact'
  <2>1. live' = live /\ \A x \in Conns : Counted(x)' <=> Counted(x)
    BY <1>11, ConnsAssumption DEF PreambleFail, GiveUp, Abandon
  <2>2. QED
    BY <2>1, TrackerFrame
<1>12. ASSUME NEW b \in Backends, inc(b) PROVE TrackerExact'
  <2> HIDE DEF Counted, Spawned, Shape, LoopShape, ConnShape, LifeShape,
               StateTypes, connVars, lifeVars
  <2>1. PICK c \in Conns : cur[b] = c /\ at[c] = b /\ Ip[c] \in IPs
    BY <1>12, IpAssumption DEF inc, Shape, LoopShape
  <2>2. /\ live' = [live EXCEPT ![Ip[c]] = @ + 1]
        /\ loop' = [loop EXCEPT ![b] = "track"] /\ loop[b] = "count"
        /\ cur' = cur /\ pipe' = pipe /\ once' = once
    BY <2>1, <1>12 DEF inc, CurIp, connVars
  <2>3. ~Counted(c) /\ Counted(c)'
    BY <2>1, <2>2, NoBackendAssumption, ConnsAssumption
       DEF Counted, Spawned, StateTypes, Shape, LoopShape, ConnShape
  <2>4. \A x \in Conns \ {c} : Counted(x)' <=> Counted(x)
    BY <2>1, <2>2 DEF Counted, Spawned, StateTypes
  <2>5. \A i \in IPs \ {Ip[c]} : CountedOf(i)' = CountedOf(i)
    BY <2>4 DEF CountedOf
  <2>6. CountedOf(Ip[c])' = CountedOf(Ip[c]) \union {c} /\ c \notin CountedOf(Ip[c])
    BY <2>1, <2>3, <2>4 DEF CountedOf
  <2>7. Cardinality(CountedOf(Ip[c])') = Cardinality(CountedOf(Ip[c])) + 1
    BY <2>6, CountedFinite, FS_AddElement
  <2>8. QED
    BY <2>1, <2>2, <2>5, <2>7 DEF TrackerExact, StateTypes
<1>13. ASSUME NEW b \in Backends, TrackAndSpawn(b) PROVE TrackerExact'
  <2>1. live' = live /\ \A x \in Conns : Counted(x)' <=> Counted(x)
    BY <1>13, ConnsAssumption DEF TrackAndSpawn, SpawnCounted, Sides
  <2>2. QED
    BY <2>1, TrackerFrame
<1>14. ASSUME NEW c \in Conns, closeBoth(c) PROVE TrackerExact'
  <2>1. live' = live /\ \A x \in Conns : Counted(x)' <=> Counted(x)
    BY <1>14 DEF closeBoth, CloseOnce, Sides
  <2>2. QED
    BY <2>1, TrackerFrame
<1>15. ASSUME NEW c \in Conns, untrackConn(c) PROVE TrackerExact'
  <2>1. live' = live /\ \A x \in Conns : Counted(x)' <=> Counted(x)
    BY <1>15 DEF untrackConn, Sides
  <2>2. QED
    BY <2>1, TrackerFrame
<1>16. ASSUME NEW c \in Conns, dec(c) PROVE TrackerExact'
  <2> HIDE DEF Counted, Spawned, Shape, LoopShape, ConnShape, LifeShape,
               StateTypes, connVars, lifeVars
  <2>1. Ip[c] \in IPs
    BY IpAssumption
  <2>2. /\ live' = [live EXCEPT ![Ip[c]] = IF @ > 0 THEN @ - 1 ELSE 0]
        /\ once[c] = "dec" /\ once' = [once EXCEPT ![c] = "active"]
        /\ cur' = cur /\ pipe' = pipe /\ loop' = loop
    BY <1>16 DEF dec
  <2>3. Counted(c) /\ ~Counted(c)'
    BY <2>2 DEF Counted, Spawned, StateTypes, Shape, ConnShape
  <2>4. \A x \in Conns \ {c} : Counted(x)' <=> Counted(x)
    BY <2>2 DEF Counted, Spawned, StateTypes
  <2>5. \A i \in IPs \ {Ip[c]} : CountedOf(i)' = CountedOf(i)
    BY <2>4 DEF CountedOf
  <2>6. CountedOf(Ip[c])' = CountedOf(Ip[c]) \ {c} /\ c \in CountedOf(Ip[c])
    BY <2>1, <2>3, <2>4 DEF CountedOf
  <2>7. /\ Cardinality(CountedOf(Ip[c])') = Cardinality(CountedOf(Ip[c])) - 1
        /\ Cardinality(CountedOf(Ip[c])) # 0
    BY <2>6, CountedFinite, FS_RemoveElement, FS_EmptySet
  <2>8. live'[Ip[c]] = live[Ip[c]] - 1
    BY <2>1, <2>2, <2>7 DEF TrackerExact, StateTypes
  <2>9. QED
    BY <2>1, <2>2, <2>5, <2>7, <2>8 DEF TrackerExact, StateTypes
<1>17. ASSUME NEW c \in Conns, Deactivate(c) PROVE TrackerExact'
  <2>1. live' = live /\ \A x \in Conns : Counted(x)' <=> Counted(x)
    BY <1>17 DEF Deactivate, Sides
  <2>2. QED
    BY <2>1, TrackerFrame
<1>18. ASSUME NEW c \in Conns, NEW side \in Sides,
              ReadFails(c, side) \/ TimesOut(c, side)
       PROVE  TrackerExact'
  <2>1. PipeReturns(c, side)
    BY <1>18 DEF ReadFails, TimesOut
  <2>2. live' = live /\ \A x \in Conns : Counted(x)' <=> Counted(x)
    BY <2>1 DEF PipeReturns, Counted, Spawned, StateTypes, Sides
  <2>3. QED
    BY <2>2, TrackerFrame
<1>19. ASSUME NEW c \in Conns, NEW side \in Sides,
              PipeDone(c, side)
       PROVE  TrackerExact'
  <2>1. live' = live /\ \A x \in Conns : Counted(x)' <=> Counted(x)
    <3>1. /\ live' = live /\ cur' = cur /\ loop' = loop
          /\ once[c] = "done" /\ pipe[c]["client"] # "none"
      BY <1>19 DEF PipeDone, Shape, ConnShape, Sides
    <3>2. CASE LastPipe(c, side)
      <4>1. /\ pipe' = [pipe EXCEPT ![c] = NoPipes]
            /\ once' = [once EXCEPT ![c] = "no"]
        BY <3>2, <1>19 DEF PipeDone
      <4>2. QED
        BY <3>1, <4>1 DEF Counted, Spawned, NoPipes, StateTypes, Sides
    <3>3. CASE ~ LastPipe(c, side)
      <4>1. pipe' = [pipe EXCEPT ![c][side] = "done"] /\ once' = once
        BY <3>3, <1>19 DEF PipeDone
      <4>2. QED
        BY <3>1, <4>1 DEF Counted, Spawned, StateTypes, Sides
    <3>4. QED
      BY <3>2, <3>3
  <2>2. QED
    BY <2>1, TrackerFrame
<1>20. ASSUME NEW s, HangUp(s) PROVE TrackerExact'
  <2>1. live' = live /\ \A x \in Conns : Counted(x)' <=> Counted(x)
    BY <1>20 DEF HangUp
  <2>2. QED
    BY <2>1, TrackerFrame
<1>21. CASE UNCHANGED vars
  BY <1>21 DEF vars, TrackerExact, CountedOf, Counted, Spawned
<1> HIDE DEF Counted, Spawned, Shape, LoopShape, ConnShape, LifeShape, StateTypes,
            connVars, lifeVars
<1>22. QED
  BY <1>1, <1>2, <1>3, <1>4, <1>5, <1>6, <1>7, <1>8, <1>9, <1>10, <1>11, <1>12,
     <1>13, <1>14, <1>15, <1>16, <1>17, <1>18, <1>19, <1>20, <1>21
     DEF Next, Start, Shutdown, acceptLoop, handleConn, Once, Pipe

(* The live per-IP count is exact in every reachable state.                *)
THEOREM TrackerExactness == Spec => []TrackerExact
<1>1. Init => TrackerExact
  <2> SUFFICES ASSUME Init PROVE TrackerExact
    OBVIOUS
  <2>1. \A i \in IPs : CountedOf(i) = {}
    BY ConnsAssumption DEF Init, CountedOf, Counted, Spawned, NoPipes, Sides
  <2>2. QED
    BY <2>1, FS_EmptySet DEF Init, TrackerExact
<1>2. GoroutineInv /\ TrackerExact /\ [Next]_vars => TrackerExact'
  BY TrackerStep DEF GoroutineInv
<1>3. QED
  BY <1>1, <1>2, GoroutineInvariant, PTL DEF Spec

-----------------------------------------------------------------------------
(* The count of active connections that a drain waits for.                 *)

LEMMA ActiveFinite ==
    \A b : IsFiniteSet(ActiveAt(b)) /\ Cardinality(ActiveAt(b)) \in Nat
BY ConnsAssumption, FS_Subset, FS_CardinalityType DEF ActiveAt

LEMMA ActiveFrame ==
    ASSUME ActiveExact, active' = active,
           \A x \in Conns : /\ Active(x)' <=> Active(x)
                            /\ Active(x) => at'[x] = at[x]
    PROVE  ActiveExact'
<1>1. \A b \in Backends : ActiveAt(b)' = ActiveAt(b)
  BY DEF ActiveAt
<1>2. QED
  BY <1>1 DEF ActiveExact

(* Only the end of the preamble makes a connection active, and only the     *)
(* last step of closeBoth ends that.                                        *)
LEMMA ActiveStep ==
    StateTypes /\ Shape /\ ActiveExact /\ [Next]_vars => ActiveExact'
<1> SUFFICES ASSUME StateTypes, Shape, ActiveExact, [Next]_vars
             PROVE  ActiveExact'
  OBVIOUS
<1> USE DEF Active, Spawned, Shape, LoopShape, ConnShape, LifeShape, StateTypes,
            connVars, lifeVars
<1>1. ASSUME NEW b \in Backends,
              StartFlusher(b) \/ BindFail(b) \/ Cancel(b)
               \/ CloseListener(b) \/ Settled(b) \/ GraceExpired(b)
               \/ forceCloseConns(b) \/ WaitReturns(b) \/ FlusherExit(b)
       PROVE  ActiveExact'
  <2>1. /\ active' = active
        /\ \A x \in Conns : /\ Active(x)' <=> Active(x)
                            /\ Active(x) => at'[x] = at[x]
    BY <1>1
       DEF StartFlusher, BindFail, Cancel, CloseListener, Settled, GraceExpired,
           forceCloseConns, ForceClose, WaitReturns, FlusherExit
  <2>2. QED
    BY <2>1, ActiveFrame
<1>2. ASSUME NEW b \in Backends, BindOK(b) PROVE ActiveExact'
  <2>1. /\ active' = active
        /\ \A x \in Conns : /\ Active(x)' <=> Active(x)
                            /\ Active(x) => at'[x] = at[x]
    BY <1>2 DEF BindOK
  <2>2. QED
    BY <2>1, ActiveFrame
<1>3. ASSUME NEW b \in Backends, AcceptLoopExit(b) PROVE ActiveExact'
  <2>1. /\ active' = active
        /\ \A x \in Conns : /\ Active(x)' <=> Active(x)
                            /\ Active(x) => at'[x] = at[x]
    BY <1>3 DEF AcceptLoopExit, LoopReturns
  <2>2. QED
    BY <2>1, ActiveFrame
<1>4. ASSUME NEW b \in Backends, DialOK(b) PROVE ActiveExact'
  <2>1. /\ active' = active
        /\ \A x \in Conns : /\ Active(x)' <=> Active(x)
                            /\ Active(x) => at'[x] = at[x]
    BY <1>4 DEF DialOK
  <2>2. QED
    BY <2>1, ActiveFrame
<1>5. ASSUME NEW b \in Backends, inc(b) PROVE ActiveExact'
  <2>1. /\ active' = active
        /\ \A x \in Conns : /\ Active(x)' <=> Active(x)
                            /\ Active(x) => at'[x] = at[x]
    BY <1>5 DEF inc
  <2>2. QED
    BY <2>1, ActiveFrame
<1>6. ASSUME NEW b \in Backends, TrackClient(b) PROVE ActiveExact'
  <2>1. /\ active' = active
        /\ \A x \in Conns : /\ Active(x)' <=> Active(x)
                            /\ Active(x) => at'[x] = at[x]
    BY <1>6 DEF TrackClient
  <2>2. QED
    BY <2>1, ActiveFrame
<1>7. ASSUME NEW b \in Backends, NEW c \in Conns, Accept(b, c) PROVE ActiveExact'
  <2>1. /\ active' = active
        /\ \A x \in Conns : /\ Active(x)' <=> Active(x)
                            /\ Active(x) => at'[x] = at[x]
    BY <1>7, NoBackendAssumption, ConnsAssumption DEF Accept
  <2>2. QED
    BY <2>1, ActiveFrame
<1>8. ASSUME NEW b \in Backends, Banned(b) PROVE ActiveExact'
  <2>1. /\ active' = active
        /\ \A x \in Conns : /\ Active(x)' <=> Active(x)
                            /\ Active(x) => at'[x] = at[x]
    BY <1>8, ConnsAssumption DEF Banned, GiveUp, Abandon
  <2>2. QED
    BY <2>1, ActiveFrame
<1>9. ASSUME NEW b \in Backends, CheckCap(b) PROVE ActiveExact'
  <2>1. /\ active' = active
        /\ \A x \in Conns : /\ Active(x)' <=> Active(x)
                            /\ Active(x) => at'[x] = at[x]
    <3>1. CASE GiveUp(b, cur[b])
      BY <3>1, <1>9, ConnsAssumption
         DEF CheckCap, GiveUp, Abandon, Active, Spawned, StateTypes, Shape, LoopShape,
             ConnShape
    <3>2. CASE StepTo(b, "dial")
      BY <3>2, <1>9 DEF CheckCap, StepTo, Active, Spawned, StateTypes, connVars
    <3>3. QED
      BY <3>1, <3>2, <1>9 DEF CheckCap
  <2>2. QED
    BY <2>1, ActiveFrame
<1>10. ASSUME NEW b \in Backends, DialFail(b) PROVE ActiveExact'
  <2>1. /\ active' = active
        /\ \A x \in Conns : /\ Active(x)' <=> Active(x)
                            /\ Active(x) => at'[x] = at[x]
    BY <1>10, ConnsAssumption DEF DialFail, GiveUp, Abandon
  <2>2. QED
    BY <2>1, ActiveFrame
<1>11. ASSUME NEW b \in Backends, PreambleOK(b) PROVE ActiveExact'
  <2> HIDE DEF Active, Spawned, Shape, LoopShape, ConnShape, LifeShape,
               StateTypes, connVars, lifeVars
  <2>1. PICK c \in Conns : cur[b] = c /\ at[c] = b
    BY <1>11 DEF PreambleOK, Shape, LoopShape
  <2>2. /\ active' = [active EXCEPT ![b] = @ + 1]
        /\ loop' = [loop EXCEPT ![b] = "count"] /\ loop[b] = "preamble"
        /\ cur' = cur /\ pipe' = pipe /\ once' = once /\ at' = at
    BY <1>11 DEF PreambleOK, connVars
  <2>3. ~Active(c) /\ Active(c)'
    BY <2>1, <2>2, NoBackendAssumption, ConnsAssumption
       DEF Active, Spawned, StateTypes, Shape, LoopShape, ConnShape
  <2>4. \A x \in Conns \ {c} : Active(x)' <=> Active(x)
    BY <2>1, <2>2 DEF Active, Spawned, StateTypes
  <2>5. \A y \in Backends \ {b} : ActiveAt(y)' = ActiveAt(y)
    BY <2>1, <2>2, <2>4 DEF ActiveAt
  <2>6. ActiveAt(b)' = ActiveAt(b) \union {c} /\ c \notin ActiveAt(b)
    BY <2>1, <2>2, <2>3, <2>4 DEF ActiveAt
  <2>7. Cardinality(ActiveAt(b)') = Cardinality(ActiveAt(b)) + 1
    BY <2>6, ActiveFinite, FS_AddElement
  <2>8. QED
    BY <2>2, <2>5, <2>7 DEF ActiveExact, StateTypes
<1>12. ASSUME NEW b \in Backends, PreambleFail(b) PROVE ActiveExact'
  <2>1. /\ active' = active
        /\ \A x \in Conns : /\ Active(x)' <=> Active(x)
                            /\ Active(x) => at'[x] = at[x]
    BY <1>12, ConnsAssumption DEF PreambleFail, GiveUp, Abandon
  <2>2. QED
    BY <2>1, ActiveFrame
<1>13. ASSUME NEW b \in Backends, TrackAndSpawn(b) PROVE ActiveExact'
  <2>1. /\ active' = active
        /\ \A x \in Conns : /\ Active(x)' <=> Active(x)
                            /\ Active(x) => at'[x] = at[x]
    BY <1>13, ConnsAssumption DEF TrackAndSpawn, SpawnCounted, Sides
  <2>2. QED
    BY <2>1, ActiveFrame
<1>14. ASSUME NEW c \in Conns, closeBoth(c) PROVE ActiveExact'
  <2>1. /\ active' = active
        /\ \A x \in Conns : /\ Active(x)' <=> Active(x)
                            /\ Active(x) => at'[x] = at[x]
    BY <1>14 DEF closeBoth, CloseOnce, Sides
  <2>2. QED
    BY <2>1, ActiveFrame
<1>15. ASSUME NEW c \in Conns, untrackConn(c) PROVE ActiveExact'
  <2>1. /\ active' = active
        /\ \A x \in Conns : /\ Active(x)' <=> Active(x)
                            /\ Active(x) => at'[x] = at[x]
    BY <1>15 DEF untrackConn, Sides
  <2>2. QED
    BY <2>1, ActiveFrame
<1>16. ASSUME NEW c \in Conns, dec(c) PROVE ActiveExact'
  <2>1. /\ active' = active
        /\ \A x \in Conns : /\ Active(x)' <=> Active(x)
                            /\ Active(x) => at'[x] = at[x]
    BY <1>16 DEF dec, Sides
  <2>2. QED
    BY <2>1, ActiveFrame
<1>17. ASSUME NEW c \in Conns, Deactivate(c) PROVE ActiveExact'
  <2> HIDE DEF Active, Spawned, Shape, LoopShape, ConnShape, LifeShape,
               StateTypes, connVars, lifeVars
  <2>1. PICK b \in Backends : at[c] = b
    BY <1>17 DEF Deactivate, StateTypes, Shape, ConnShape
  <2>2. /\ active' = [active EXCEPT ![b] = @ - 1]
        /\ once[c] = "active" /\ once' = [once EXCEPT ![c] = "done"]
        /\ cur' = cur /\ pipe' = pipe /\ loop' = loop /\ at' = at
    BY <2>1, <1>17 DEF Deactivate
  <2>3. Active(c) /\ ~Active(c)'
    BY <2>2 DEF Active, Spawned, StateTypes, Shape, ConnShape
  <2>4. \A x \in Conns \ {c} : Active(x)' <=> Active(x)
    BY <2>2 DEF Active, Spawned, StateTypes
  <2>5. \A y \in Backends \ {b} : ActiveAt(y)' = ActiveAt(y)
    BY <2>1, <2>2, <2>4 DEF ActiveAt
  <2>6. ActiveAt(b)' = ActiveAt(b) \ {c} /\ c \in ActiveAt(b)
    BY <2>1, <2>2, <2>3, <2>4 DEF ActiveAt
  <2>7. Cardinality(ActiveAt(b)') = Cardinality(ActiveAt(b)) - 1
    BY <2>6, ActiveFinite, FS_RemoveElement
  <2>8. QED
    BY <2>2, <2>5, <2>7 DEF ActiveExact, StateTypes
<1>18. ASSUME NEW c \in Conns, NEW side \in Sides,
              ReadFails(c, side) \/ TimesOut(c, side)
       PROVE  ActiveExact'
  <2>1. /\ active' = active
        /\ \A x \in Conns : /\ Active(x)' <=> Active(x)
                            /\ Active(x) => at'[x] = at[x]
    <3>1. PipeReturns(c, side)
      BY <1>18 DEF ReadFails, TimesOut
    <3>2. QED
      BY <3>1 DEF PipeReturns, Active, Spawned, StateTypes, Sides
  <2>2. QED
    BY <2>1, ActiveFrame
<1>19. ASSUME NEW c \in Conns, NEW side \in Sides,
              PipeDone(c, side)
       PROVE  ActiveExact'
  <2>1. /\ active' = active
        /\ \A x \in Conns : /\ Active(x)' <=> Active(x)
                            /\ Active(x) => at'[x] = at[x]
    <3>1. /\ active' = active /\ cur' = cur /\ loop' = loop
          /\ once[c] = "done" /\ pipe[c]["client"] # "none"
          /\ \A b \in Backends : cur[b] # c
      BY <1>19 DEF PipeDone, Shape, ConnShape, Sides
    <3>2. CASE LastPipe(c, side)
      <4>1. /\ pipe' = [pipe EXCEPT ![c] = NoPipes]
            /\ once' = [once EXCEPT ![c] = "no"]
            /\ at' = [at EXCEPT ![c] = NoBackend]
        BY <3>2, <1>19 DEF PipeDone
      <4>2. QED
        BY <3>1, <4>1 DEF Active, Spawned, NoPipes, StateTypes, Sides
    <3>3. CASE ~ LastPipe(c, side)
      <4>1. pipe' = [pipe EXCEPT ![c][side] = "done"] /\ once' = once /\ at' = at
        BY <3>3, <1>19 DEF PipeDone
      <4>2. QED
        BY <3>1, <4>1 DEF Active, Spawned, StateTypes, Sides
    <3>4. QED
      BY <3>2, <3>3
  <2>2. QED
    BY <2>1, ActiveFrame
<1>20. ASSUME NEW s, HangUp(s) PROVE ActiveExact'
  <2>1. /\ active' = active
        /\ \A x \in Conns : /\ Active(x)' <=> Active(x)
                            /\ Active(x) => at'[x] = at[x]
    BY <1>20 DEF HangUp
  <2>2. QED
    BY <2>1, ActiveFrame
<1>21. CASE UNCHANGED vars
  BY <1>21 DEF vars, ActiveExact, ActiveAt, Active, Spawned
<1> HIDE DEF Active, Spawned, Shape, LoopShape, ConnShape, LifeShape, StateTypes,
            connVars, lifeVars
<1>22. QED
  BY <1>1, <1>2, <1>3, <1>4, <1>5, <1>6, <1>7, <1>8, <1>9, <1>10, <1>11, <1>12,
     <1>13, <1>14, <1>15, <1>16, <1>17, <1>18, <1>19, <1>20, <1>21
     DEF Next, Start, Shutdown, acceptLoop, handleConn, Once, Pipe

(* b.active is exact in every reachable state.                             *)
THEOREM ActiveExactness == Spec => []ActiveExact
<1>1. Init => ActiveExact
  <2> SUFFICES ASSUME Init PROVE ActiveExact
    OBVIOUS
  <2>1. \A b \in Backends : ActiveAt(b) = {}
    BY NoBackendAssumption DEF Init, ActiveAt
  <2>2. QED
    BY <2>1, FS_EmptySet DEF Init, ActiveExact
<1>2. GoroutineInv /\ ActiveExact /\ [Next]_vars => ActiveExact'
  BY ActiveStep DEF GoroutineInv
<1>3. QED
  BY <1>1, <1>2, GoroutineInvariant, PTL DEF Spec

(* Type correctness: the state has its types, and neither the WaitGroup    *)
(* nor the count of active connections ever goes negative.                 *)
THEOREM TypeCorrectness == Spec => []TypeOK
<1>1. GoroutineInv /\ ActiveExact => TypeOK
  BY RunningFinite, ActiveFinite
     DEF GoroutineInv, StateTypes, WgExact, ActiveExact, TypeOK
<1>2. QED
  BY <1>1, GoroutineInvariant, ActiveExactness, PTL

(* The WaitGroup, the count shutdown drains by and the shared count per     *)
(* address are exact, through any number of connections, restarts and       *)
(* forced closes, and none of them becomes negative.                        *)
THEOREM CountersStayExact == Spec => []Inv
<1>1. TypeOK /\ TrackerExact /\ ActiveExact /\ WgExact => Inv
  BY DEF Inv
<1>2. QED
  BY <1>1, TypeCorrectness, TrackerExactness, ActiveExactness, WgExactness, PTL

-----------------------------------------------------------------------------
(* The per-IP cap.                                                         *)

(* The backends whose accept loop has passed the cap check with a client   *)
(* of address i and has not counted it yet.                                *)
Pending(i) == {b \in Backends : loop[b] \in {"dial", "preamble", "count"} /\ CurIp(b) = i}

(* A slot that is used or about to be used: CapBound alone is not          *)
(* inductive, for it does not say how many incs are still to come.         *)
CapInv ==
    MaxPerIP > 0 =>
        \A i \in IPs :
            live[i] + Cardinality(Pending(i)) <= MaxPerIP + Cardinality(Backends) - 1

LEMMA PendingFinite ==
    \A i : /\ IsFiniteSet(Pending(i)) /\ Cardinality(Pending(i)) \in Nat
           /\ Cardinality(Pending(i)) <= Cardinality(Backends)
BY BackendsAssumption, FS_Subset, FS_CardinalityType DEF Pending

LEMMA BackendsCard == Cardinality(Backends) \in Nat /\ Cardinality(Backends) > 0
BY BackendsAssumption, FS_CardinalityType, FS_EmptySet

(* A step that frees slots, or leaves them alone, keeps the bound.         *)
LEMMA CapShrinks ==
    ASSUME StateTypes, StateTypes', CapInv,
           \A i \in IPs : Pending(i)' \subseteq Pending(i) /\ live'[i] <= live[i]
    PROVE  CapInv'
<1> SUFFICES ASSUME MaxPerIP > 0, NEW i \in IPs
             PROVE  live'[i] + Cardinality(Pending(i)')
                        <= MaxPerIP + Cardinality(Backends) - 1
  BY DEF CapInv
<1>1. Cardinality(Pending(i)') <= Cardinality(Pending(i))
  BY PendingFinite, FS_Subset
<1>2. Cardinality(Pending(i)') \in Nat
  BY PendingFinite, FS_Subset, FS_CardinalityType
<1>3. live[i] \in Nat /\ live'[i] \in Nat
  BY DEF StateTypes
<1>4. QED
  BY <1>1, <1>2, <1>3, PendingFinite, BackendsCard, MaxAssumption DEF CapInv

(* Passing the check makes a slot pending while fewer than MaxPerIP are in   *)
(* use; inc turns a pending slot into a used one.                           *)
LEMMA CapStep ==
    StateTypes /\ Shape /\ CapInv /\ [Next]_vars => CapInv'
<1> SUFFICES ASSUME StateTypes, Shape, CapInv, [Next]_vars
             PROVE  CapInv'
  OBVIOUS
<1>0. StateTypes /\ StateTypes'
  BY TypesStep
<1> USE DEF Pending, CurIp, StateTypes
<1>1. ASSUME NEW b \in Backends,
              StartFlusher(b) \/ BindFail(b) \/ Cancel(b)
               \/ CloseListener(b) \/ Settled(b) \/ GraceExpired(b)
               \/ forceCloseConns(b) \/ WaitReturns(b) \/ FlusherExit(b)
       PROVE  CapInv'
  <2>1. \A i \in IPs : Pending(i)' \subseteq Pending(i) /\ live'[i] <= live[i]
    BY <1>1
       DEF StartFlusher, BindFail, Cancel, CloseListener, Settled, GraceExpired,
           forceCloseConns, ForceClose, WaitReturns, FlusherExit, connVars, lifeVars
  <2>2. QED
    BY <2>1, <1>0, CapShrinks
<1>2. ASSUME NEW b \in Backends, BindOK(b) PROVE CapInv'
  <2>1. \A i \in IPs : Pending(i)' \subseteq Pending(i) /\ live'[i] <= live[i]
    BY <1>2 DEF BindOK
  <2>2. QED
    BY <2>1, <1>0, CapShrinks
<1>3. ASSUME NEW b \in Backends, AcceptLoopExit(b) PROVE CapInv'
  <2>1. \A i \in IPs : Pending(i)' \subseteq Pending(i) /\ live'[i] <= live[i]
    BY <1>3 DEF AcceptLoopExit, LoopReturns
  <2>2. QED
    BY <2>1, <1>0, CapShrinks
<1>4. ASSUME NEW b \in Backends, Banned(b) PROVE CapInv'
  <2>1. \A i \in IPs : Pending(i)' \subseteq Pending(i) /\ live'[i] <= live[i]
    BY <1>4 DEF Banned, GiveUp, Abandon
  <2>2. QED
    BY <2>1, <1>0, CapShrinks
<1>5. ASSUME NEW b \in Backends, DialOK(b) PROVE CapInv'
  <2>1. \A i \in IPs : Pending(i)' \subseteq Pending(i) /\ live'[i] <= live[i]
    BY <1>5 DEF DialOK
  <2>2. QED
    BY <2>1, <1>0, CapShrinks
<1>6. ASSUME NEW b \in Backends, DialFail(b) PROVE CapInv'
  <2>1. \A i \in IPs : Pending(i)' \subseteq Pending(i) /\ live'[i] <= live[i]
    BY <1>6 DEF DialFail, GiveUp, Abandon
  <2>2. QED
    BY <2>1, <1>0, CapShrinks
<1>7. ASSUME NEW b \in Backends, PreambleOK(b) PROVE CapInv'
  <2>1. \A i \in IPs : Pending(i)' \subseteq Pending(i) /\ live'[i] <= live[i]
    BY <1>7 DEF PreambleOK
  <2>2. QED
    BY <2>1, <1>0, CapShrinks
<1>8. ASSUME NEW b \in Backends, PreambleFail(b) PROVE CapInv'
  <2>1. \A i \in IPs : Pending(i)' \subseteq Pending(i) /\ live'[i] <= live[i]
    BY <1>8 DEF PreambleFail, GiveUp, Abandon
  <2>2. QED
    BY <2>1, <1>0, CapShrinks
<1>9. ASSUME NEW b \in Backends, TrackClient(b) PROVE CapInv'
  <2>1. \A i \in IPs : Pending(i)' \subseteq Pending(i) /\ live'[i] <= live[i]
    BY <1>9 DEF TrackClient
  <2>2. QED
    BY <2>1, <1>0, CapShrinks
<1>10. ASSUME NEW b \in Backends, TrackAndSpawn(b) PROVE CapInv'
  <2>1. \A i \in IPs : Pending(i)' \subseteq Pending(i) /\ live'[i] <= live[i]
    BY <1>10 DEF TrackAndSpawn, SpawnCounted
  <2>2. QED
    BY <2>1, <1>0, CapShrinks
<1>11. ASSUME NEW b \in Backends, NEW c \in Conns, Accept(b, c) PROVE CapInv'
  <2>1. \A i \in IPs : Pending(i)' \subseteq Pending(i) /\ live'[i] <= live[i]
    BY <1>11 DEF Accept
  <2>2. QED
    BY <2>1, <1>0, CapShrinks
<1>12. ASSUME NEW b \in Backends, CheckCap(b) PROVE CapInv'
  <2>1. CASE AtCap(b)
    <3>1. \A i \in IPs : Pending(i)' \subseteq Pending(i) /\ live'[i] <= live[i]
      BY <2>1, <1>12 DEF CheckCap, GiveUp, Abandon, Pending, CurIp, StateTypes
    <3>2. QED
      BY <3>1, <1>0, CapShrinks
  <2>2. CASE ~AtCap(b)
    <3>1. /\ live' = live /\ cur' = cur /\ loop' = [loop EXCEPT ![b] = "dial"]
          /\ loop[b] = "check"
      BY <2>2, <1>12 DEF CheckCap, StepTo
    <3>2. SUFFICES ASSUME MaxPerIP > 0, NEW i \in IPs
                   PROVE  live[i] + Cardinality(Pending(i)')
                              <= MaxPerIP + Cardinality(Backends) - 1
      BY <3>1 DEF CapInv
    <3>3. live[i] \in Nat
      BY DEF StateTypes
    <3>4. CASE CurIp(b) = i
      <4>1. live[i] < MaxPerIP
        BY <2>2, <3>2, <3>3, <3>4, MaxAssumption DEF AtCap
      <4>2. Pending(i)' \subseteq Backends
        BY DEF Pending
      <4>3. /\ Cardinality(Pending(i)') \in Nat
            /\ Cardinality(Pending(i)') <= Cardinality(Backends)
        BY <4>2, BackendsAssumption, FS_Subset, FS_CardinalityType
      <4>4. QED
        BY <3>3, <4>1, <4>3, MaxAssumption, BackendsCard
    <3>5. CASE CurIp(b) # i
      <4>1. Pending(i)' = Pending(i)
        BY <3>1, <3>5 DEF Pending, CurIp, StateTypes
      <4>2. QED
        BY <3>2, <4>1 DEF CapInv
    <3>6. QED
      BY <3>4, <3>5
  <2>3. QED
    BY <2>1, <2>2
<1>13. ASSUME NEW b \in Backends, inc(b) PROVE CapInv'
  <2> HIDE DEF Pending, CurIp, StateTypes
  <2>1. PICK c \in Conns : cur[b] = c /\ Ip[c] \in IPs
    BY <1>13, IpAssumption DEF inc, Shape, LoopShape
  <2>2. /\ live' = [live EXCEPT ![Ip[c]] = @ + 1] /\ cur' = cur
        /\ loop' = [loop EXCEPT ![b] = "track"] /\ loop[b] = "count"
    BY <2>1, <1>13 DEF inc, CurIp
  <2>3. \A i \in IPs \ {Ip[c]} : Pending(i)' = Pending(i) /\ live'[i] = live[i]
    BY <2>1, <2>2 DEF Pending, CurIp, StateTypes
  <2>4. /\ Pending(Ip[c])' = Pending(Ip[c]) \ {b} /\ b \in Pending(Ip[c])
        /\ live'[Ip[c]] = live[Ip[c]] + 1
    BY <2>1, <2>2 DEF Pending, CurIp, StateTypes
  <2>5. Cardinality(Pending(Ip[c])') = Cardinality(Pending(Ip[c])) - 1
    BY <2>4, PendingFinite, FS_RemoveElement
  <2>6. live[Ip[c]] \in Nat
    BY <2>1 DEF StateTypes
  <2>7. MaxPerIP > 0 => live'[Ip[c]] + Cardinality(Pending(Ip[c])')
                            <= MaxPerIP + Cardinality(Backends) - 1
    BY <2>1, <2>4, <2>5, <2>6, PendingFinite, BackendsCard, MaxAssumption DEF CapInv
  <2>8. QED
    BY <2>3, <2>7 DEF CapInv
<1>14. ASSUME NEW c \in Conns,
              closeBoth(c) \/ untrackConn(c) \/ Deactivate(c)
       PROVE  CapInv'
  <2>1. \A i \in IPs : Pending(i)' \subseteq Pending(i) /\ live'[i] <= live[i]
    BY <1>14 DEF closeBoth, CloseOnce, untrackConn, Deactivate
  <2>2. QED
    BY <2>1, <1>0, CapShrinks
<1>15. ASSUME NEW c \in Conns, dec(c) PROVE CapInv'
  <2>1. live[Ip[c]] \in Nat
    BY IpAssumption DEF StateTypes
  <2>2. \A i \in IPs : Pending(i)' \subseteq Pending(i) /\ live'[i] <= live[i]
    BY <2>1, <1>15 DEF dec, Pending, CurIp, StateTypes
  <2>3. QED
    BY <2>2, <1>0, CapShrinks
<1>16. ASSUME NEW c \in Conns, NEW side \in Sides,
              ReadFails(c, side) \/ TimesOut(c, side)
               \/ PipeDone(c, side)
       PROVE  CapInv'
  <2>1. \A i \in IPs : Pending(i)' \subseteq Pending(i) /\ live'[i] <= live[i]
    BY <1>16 DEF ReadFails, PipeReturns, TimesOut, PipeDone
  <2>2. QED
    BY <2>1, <1>0, CapShrinks
<1>17. ASSUME NEW s, HangUp(s) PROVE CapInv'
  <2>1. \A i \in IPs : Pending(i)' \subseteq Pending(i) /\ live'[i] <= live[i]
    BY <1>17 DEF HangUp
  <2>2. QED
    BY <2>1, <1>0, CapShrinks
<1>18. CASE UNCHANGED vars
  BY <1>18 DEF vars, CapInv, Pending, CurIp
<1> HIDE DEF Pending, CurIp, StateTypes
<1>19. QED
  BY <1>1, <1>2, <1>3, <1>4, <1>5, <1>6, <1>7, <1>8, <1>9, <1>10, <1>11, <1>12,
     <1>13, <1>14, <1>15, <1>16, <1>17, <1>18
     DEF Next, Start, Shutdown, acceptLoop, handleConn, Once, Pipe

LEMMA SlotsInvariant == Spec => []CapInv
<1>1. Init => CapInv
  <2> SUFFICES ASSUME Init, MaxPerIP > 0, NEW i \in IPs
               PROVE  live[i] + Cardinality(Pending(i))
                          <= MaxPerIP + Cardinality(Backends) - 1
    BY DEF CapInv
  <2>1. Pending(i) = {} /\ live[i] = 0
    BY DEF Init, Pending
  <2>2. QED
    BY <2>1, FS_EmptySet, MaxAssumption, BackendsCard
<1>2. GoroutineInv /\ CapInv /\ [Next]_vars => CapInv'
  BY CapStep DEF GoroutineInv
<1> QED
  BY <1>1, <1>2, GoroutineInvariant, PTL DEF Spec

(* An address exceeds its cap by at most one connection for each backend   *)
(* other than the one that used its last slot.                             *)
THEOREM CapIsBounded == Spec => []CapBound
<1>1. GoroutineInv /\ CapInv => CapBound
  <2> SUFFICES ASSUME GoroutineInv, CapInv, MaxPerIP > 0, NEW i \in IPs
               PROVE  live[i] <= MaxPerIP + Cardinality(Backends) - 1
    BY DEF CapBound
  <2>1. live[i] \in Nat
    BY DEF GoroutineInv, StateTypes
  <2>2. QED
    BY <2>1, PendingFinite, BackendsCard, MaxAssumption DEF CapInv
<1> QED
  BY <1>1, GoroutineInvariant, SlotsInvariant, PTL

-----------------------------------------------------------------------------
(* Sockets: which are open and tracked, what a shutdown leaves behind and  *)
(* how much can slip past it.                                              *)

(* A connection that no backend has holds no socket, nor does one whose    *)
(* once-function has closed them.                                          *)
OpenHeld ==
    \A c \in Conns :
        at[c] = NoBackend \/ once[c] # "no" =>
            \A side \in Sides : <<c, side>> \notin open

(* The force-close set of a backend holds only sockets of connections that *)
(* the backend has and that closeBoth has not taken out of it yet.         *)
TrackedHeld ==
    \A b \in Backends : \A s \in conns[b] :
        /\ at[s[1]] = b
        /\ \/ loop[b] = "spawn" /\ cur[b] = s[1]
           \/ Spawned(s[1]) /\ once[s[1]] \in {"no", "untrack"}

(* Until forceCloseConns has run, every open socket of a connection that   *)
(* is being copied is in the force-close set ...                           *)
CopiedTracked ==
    \A b \in Backends : life[b] # "wait" =>
        \A c \in Conns :
            at[c] = b /\ Spawned(c) =>
                \A side \in Sides : <<c, side>> \in open => <<c, side>> \in conns[b]

(* ... and so is the accepted socket between the two calls of trackConn.   *)
AcceptedTracked ==
    \A b \in Backends : life[b] # "wait" =>
        (loop[b] = "spawn" /\ Client(cur[b]) \in open => Client(cur[b]) \in conns[b])

(* A connection that is being copied on two open sockets after             *)
(* forceCloseConns had run is the last one handleConn worked on.           *)
LastEscapes ==
    \A b \in Backends : life[b] = "wait" =>
        \A c \in Conns :
            at[c] = b /\ Spawned(c) /\ Both(c) \subseteq open => cur[b] = NoConn

(* A backend that has not started, or has stopped, has no connection.      *)
NoneLeft ==
    \A b \in Backends : life[b] \in {"new", "down"} => \A c \in Conns : at[c] # b

(* The inductive part that the goroutine invariant does not say.           *)
SocketInv == OpenHeld /\ TrackedHeld /\ CopiedTracked /\ AcceptedTracked /\ LastEscapes
             /\ AtMostOneEscapes /\ NoneLeft

-----------------------------------------------------------------------------
(* Sockets are closed before their connection is given up.                 *)
LEMMA OpenHeldStep ==
    StateTypes /\ Shape /\ OpenHeld /\ [Next]_vars => OpenHeld'
<1> SUFFICES ASSUME StateTypes, Shape, OpenHeld, [Next]_vars,
                    NEW d \in Conns, NEW end \in Sides,
                    at'[d] = NoBackend \/ once'[d] # "no"
             PROVE  <<d, end>> \notin open'
  BY DEF OpenHeld
<1>0. (at[d] # NoBackend /\ once[d] = "no") \/ <<d, end>> \notin open
  BY DEF OpenHeld
<1> USE DEF StateTypes, Shape, LoopShape, ConnShape, connVars, lifeVars, NoPipes,
            Sides, Client, Upstream, Both
<1>1. ASSUME NEW b \in Backends, forceCloseConns(b) PROVE <<d, end>> \notin open'
  BY <1>1, <1>0, NoBackendAssumption, ConnsAssumption DEF forceCloseConns, ForceClose
<1>2. ASSUME NEW b \in Backends, NEW c \in Conns, Accept(b, c) PROVE <<d, end>> \notin open'
  BY <1>2, <1>0, NoBackendAssumption, ConnsAssumption DEF Accept
<1>3. ASSUME NEW b \in Backends, Banned(b) PROVE <<d, end>> \notin open'
  BY <1>3, <1>0, NoBackendAssumption, ConnsAssumption DEF Banned, GiveUp, Abandon
<1>4. ASSUME NEW b \in Backends, CheckCap(b) PROVE <<d, end>> \notin open'
  <2>1. CASE GiveUp(b, cur[b])
    BY <2>1, <1>0, NoBackendAssumption, ConnsAssumption DEF GiveUp, Abandon
  <2>2. CASE StepTo(b, "dial")
    BY <2>2, <1>0, NoBackendAssumption, ConnsAssumption DEF StepTo
  <2>3. QED
    BY <1>4, <2>1, <2>2 DEF CheckCap
<1>5. ASSUME NEW b \in Backends, DialOK(b) PROVE <<d, end>> \notin open'
  BY <1>5, <1>0, NoBackendAssumption, ConnsAssumption DEF DialOK
<1>6. ASSUME NEW b \in Backends, DialFail(b) PROVE <<d, end>> \notin open'
  BY <1>6, <1>0, NoBackendAssumption, ConnsAssumption DEF DialFail, GiveUp, Abandon
<1>7. ASSUME NEW b \in Backends, PreambleFail(b) PROVE <<d, end>> \notin open'
  BY <1>7, <1>0, NoBackendAssumption, ConnsAssumption DEF PreambleFail, GiveUp, Abandon
<1>8. ASSUME NEW c \in Conns, closeBoth(c) PROVE <<d, end>> \notin open'
  BY <1>8, <1>0, NoBackendAssumption, ConnsAssumption DEF closeBoth, CloseOnce
<1>9. ASSUME NEW c \in Conns, untrackConn(c) PROVE <<d, end>> \notin open'
  BY <1>9, <1>0, NoBackendAssumption, ConnsAssumption DEF untrackConn
<1>10. ASSUME NEW c \in Conns, dec(c) PROVE <<d, end>> \notin open'
  BY <1>10, <1>0, NoBackendAssumption, ConnsAssumption DEF dec
<1>11. ASSUME NEW c \in Conns, Deactivate(c) PROVE <<d, end>> \notin open'
  BY <1>11, <1>0, NoBackendAssumption, ConnsAssumption DEF Deactivate
<1>12. ASSUME NEW c \in Conns, NEW side \in Sides, PipeDone(c, side) PROVE <<d, end>> \notin open'
  BY <1>12, <1>0, NoBackendAssumption, ConnsAssumption DEF PipeDone
<1>13. CASE UNCHANGED <<at, once, open>>
  BY <1>0, <1>13
<1> HIDE DEF StateTypes, Shape, LoopShape, ConnShape, connVars, lifeVars, NoPipes,
             Sides, Client, Upstream, Both
<1>14. QED
  BY <1>1, <1>2, <1>3, <1>4, <1>5, <1>6, <1>7, <1>8, <1>9, <1>10, <1>11, <1>12,
     <1>13
     DEF Next, Start, Shutdown, acceptLoop, handleConn, Once, Pipe,
         StartFlusher, BindOK, BindFail, Cancel, CloseListener, Settled,
         GraceExpired, WaitReturns, FlusherExit, AcceptLoopExit, LoopReturns,
         PreambleOK, inc, TrackClient, TrackAndSpawn, SpawnCounted, ReadFails,
         PipeReturns, TimesOut, HangUp, lifeVars, connVars, vars

(* trackConn and untrackConn pair up.                                       *)
LEMMA TrackedStep ==
    StateTypes /\ Shape /\ TrackedHeld /\ [Next]_vars => TrackedHeld'
<1> SUFFICES ASSUME StateTypes, Shape, TrackedHeld, [Next]_vars
             PROVE  TrackedHeld'
  OBVIOUS
<1> USE DEF StateTypes, Shape, LoopShape, ConnShape, LifeShape, connVars, lifeVars,
            NoPipes, Spawned, Sockets, Sides, Client, Upstream, Both, TrackedHeld
<1>1. ASSUME NEW b \in Backends, BindOK(b) PROVE TrackedHeld'
  BY <1>1, NoBackendAssumption, ConnsAssumption DEF BindOK
<1>2. ASSUME NEW b \in Backends, forceCloseConns(b) PROVE TrackedHeld'
  BY <1>2, NoBackendAssumption, ConnsAssumption DEF forceCloseConns, ForceClose
<1>3. ASSUME NEW b \in Backends, NEW c \in Conns, Accept(b, c) PROVE TrackedHeld'
  BY <1>3, NoBackendAssumption, ConnsAssumption DEF Accept
<1>4. ASSUME NEW b \in Backends, AcceptLoopExit(b) PROVE TrackedHeld'
  BY <1>4, NoBackendAssumption, ConnsAssumption DEF AcceptLoopExit, LoopReturns
<1>5. ASSUME NEW b \in Backends, Banned(b) PROVE TrackedHeld'
  BY <1>5, NoBackendAssumption, ConnsAssumption DEF Banned, GiveUp, Abandon
<1>6. ASSUME NEW b \in Backends, CheckCap(b) PROVE TrackedHeld'
  BY <1>6, NoBackendAssumption, ConnsAssumption DEF CheckCap, GiveUp, Abandon, StepTo
<1>7. ASSUME NEW b \in Backends, DialOK(b) PROVE TrackedHeld'
  BY <1>7, NoBackendAssumption, ConnsAssumption DEF DialOK
<1>8. ASSUME NEW b \in Backends, DialFail(b) PROVE TrackedHeld'
  BY <1>8, NoBackendAssumption, ConnsAssumption DEF DialFail, GiveUp, Abandon
<1>9. ASSUME NEW b \in Backends, PreambleOK(b) PROVE TrackedHeld'
  BY <1>9, NoBackendAssumption, ConnsAssumption DEF PreambleOK
<1>10. ASSUME NEW b \in Backends, PreambleFail(b) PROVE TrackedHeld'
  BY <1>10, NoBackendAssumption, ConnsAssumption DEF PreambleFail, GiveUp, Abandon
<1>11. ASSUME NEW b \in Backends, inc(b) PROVE TrackedHeld'
  BY <1>11, NoBackendAssumption, ConnsAssumption DEF inc
<1>12. ASSUME NEW b \in Backends, TrackClient(b) PROVE TrackedHeld'
  BY <1>12, NoBackendAssumption, ConnsAssumption DEF TrackClient
<1>13. ASSUME NEW b \in Backends, TrackAndSpawn(b) PROVE TrackedHeld'
  BY <1>13, NoBackendAssumption, ConnsAssumption DEF TrackAndSpawn, SpawnCounted
<1>14. ASSUME NEW c \in Conns, closeBoth(c) PROVE TrackedHeld'
  BY <1>14, NoBackendAssumption, ConnsAssumption DEF closeBoth, CloseOnce
<1>15. ASSUME NEW c \in Conns, untrackConn(c) PROVE TrackedHeld'
  BY <1>15, NoBackendAssumption, ConnsAssumption DEF untrackConn
<1>16. ASSUME NEW c \in Conns, dec(c) PROVE TrackedHeld'
  BY <1>16, NoBackendAssumption, ConnsAssumption DEF dec
<1>17. ASSUME NEW c \in Conns, Deactivate(c) PROVE TrackedHeld'
  BY <1>17, NoBackendAssumption, ConnsAssumption DEF Deactivate
<1>18. ASSUME NEW c \in Conns, NEW side \in Sides, ReadFails(c, side) PROVE TrackedHeld'
  BY <1>18, NoBackendAssumption, ConnsAssumption DEF ReadFails, PipeReturns
<1>19. ASSUME NEW c \in Conns, NEW side \in Sides, TimesOut(c, side) PROVE TrackedHeld'
  BY <1>19, NoBackendAssumption, ConnsAssumption DEF TimesOut, PipeReturns
<1>20. ASSUME NEW c \in Conns, NEW side \in Sides, PipeDone(c, side) PROVE TrackedHeld'
  BY <1>20, NoBackendAssumption, ConnsAssumption DEF PipeDone
<1>21. CASE UNCHANGED <<cur, loop, at, pipe, once, conns>>
  BY <1>21
<1> HIDE DEF StateTypes, Shape, LoopShape, ConnShape, LifeShape, connVars, lifeVars,
             NoPipes, Spawned, Sockets, Sides, Client, Upstream, Both, TrackedHeld
<1>22. QED
  BY <1>1, <1>2, <1>3, <1>4, <1>5, <1>6, <1>7, <1>8, <1>9, <1>10, <1>11, <1>12,
     <1>13, <1>14, <1>15, <1>16, <1>17, <1>18, <1>19, <1>20, <1>21
     DEF Next, Start, Shutdown, acceptLoop, handleConn, Once, Pipe,
         StartFlusher, BindFail, Cancel, CloseListener, Settled, GraceExpired,
         WaitReturns, FlusherExit, HangUp, lifeVars, connVars, vars

(* Nothing that is copied on an open socket is out of forceCloseConns'      *)
(* reach before it has run.                                                 *)
LEMMA CopiedTrackedStep ==
    StateTypes /\ Shape /\ OpenHeld /\ NoneLeft' /\ CopiedTracked /\ AcceptedTracked
        /\ [Next]_vars => CopiedTracked'
<1> SUFFICES ASSUME StateTypes, Shape, OpenHeld, NoneLeft', CopiedTracked,
                    AcceptedTracked, [Next]_vars,
                    NEW a \in Backends, life'[a] # "wait", NEW d \in Conns, NEW end \in Sides,
                    at'[d] = a, Spawned(d)', <<d, end>> \in open'
             PROVE  <<d, end>> \in conns'[a]
  BY DEF CopiedTracked
<1>0. life[a] # "wait" /\ at[d] = a /\ Spawned(d) /\ <<d, end>> \in open
         => <<d, end>> \in conns[a]
  BY DEF CopiedTracked
<1> USE DEF StateTypes, Shape, LoopShape, ConnShape, connVars, lifeVars, NoPipes,
            Sides, Client, Upstream, Both, Spawned
<1>1. ASSUME NEW b \in Backends, StartFlusher(b) PROVE <<d, end>> \in conns'[a]
  BY <1>1, <1>0, NoBackendAssumption, ConnsAssumption DEF StartFlusher
<1>2. ASSUME NEW b \in Backends, BindOK(b) PROVE <<d, end>> \in conns'[a]
  BY <1>2, <1>0, NoBackendAssumption, ConnsAssumption DEF BindOK
<1>3. ASSUME NEW b \in Backends, BindFail(b) PROVE <<d, end>> \in conns'[a]
  BY <1>3, <1>0, NoBackendAssumption, ConnsAssumption DEF BindFail
<1>4. ASSUME NEW b \in Backends, Cancel(b) PROVE <<d, end>> \in conns'[a]
  BY <1>4, <1>0, NoBackendAssumption, ConnsAssumption DEF Cancel
<1>5. ASSUME NEW b \in Backends, CloseListener(b) PROVE <<d, end>> \in conns'[a]
  BY <1>5, <1>0, NoBackendAssumption, ConnsAssumption DEF CloseListener
<1>6. ASSUME NEW b \in Backends, Settled(b) PROVE <<d, end>> \in conns'[a]
  BY <1>6, <1>0, NoBackendAssumption, ConnsAssumption DEF Settled
<1>7. ASSUME NEW b \in Backends, GraceExpired(b) PROVE <<d, end>> \in conns'[a]
  BY <1>7, <1>0, NoBackendAssumption, ConnsAssumption DEF GraceExpired
<1>8. ASSUME NEW b \in Backends, forceCloseConns(b) PROVE <<d, end>> \in conns'[a]
  BY <1>8, <1>0, NoBackendAssumption, ConnsAssumption DEF forceCloseConns, ForceClose
<1>9. ASSUME NEW b \in Backends, WaitReturns(b) PROVE <<d, end>> \in conns'[a]
  <2>1. /\ life[b] = "wait" /\ life'[b] \in {"new", "down"}
        /\ \A x \in Backends \ {b} : life'[x] = life[x]
    BY <1>9 DEF WaitReturns
  <2>2. UNCHANGED <<loop, at, pipe, open, conns, cur>>
    BY <1>9 DEF WaitReturns, connVars
  <2>3. QED
    BY <2>1, <2>2, <1>0 DEF NoneLeft
<1>10. ASSUME NEW b \in Backends, NEW c \in Conns, Accept(b, c) PROVE <<d, end>> \in conns'[a]
  BY <1>10, <1>0, NoBackendAssumption, ConnsAssumption DEF Accept
<1>11. ASSUME NEW b \in Backends, Banned(b) PROVE <<d, end>> \in conns'[a]
  BY <1>11, <1>0, NoBackendAssumption, ConnsAssumption DEF Banned, GiveUp, Abandon
<1>12. ASSUME NEW b \in Backends, CheckCap(b) PROVE <<d, end>> \in conns'[a]
  <2>1. CASE GiveUp(b, cur[b])
    BY <2>1, <1>0, NoBackendAssumption, ConnsAssumption DEF GiveUp, Abandon
  <2>2. CASE StepTo(b, "dial")
    BY <2>2, <1>0, NoBackendAssumption, ConnsAssumption DEF StepTo
  <2>3. QED
    BY <1>12, <2>1, <2>2 DEF CheckCap
<1>13. ASSUME NEW b \in Backends, DialOK(b) PROVE <<d, end>> \in conns'[a]
  BY <1>13, <1>0, NoBackendAssumption, ConnsAssumption DEF DialOK
<1>14. ASSUME NEW b \in Backends, DialFail(b) PROVE <<d, end>> \in conns'[a]
  BY <1>14, <1>0, NoBackendAssumption, ConnsAssumption DEF DialFail, GiveUp, Abandon
<1>15. ASSUME NEW b \in Backends, PreambleFail(b) PROVE <<d, end>> \in conns'[a]
  BY <1>15, <1>0, NoBackendAssumption, ConnsAssumption DEF PreambleFail, GiveUp, Abandon
<1>16. ASSUME NEW b \in Backends, TrackClient(b) PROVE <<d, end>> \in conns'[a]
  BY <1>16, <1>0, NoBackendAssumption, ConnsAssumption DEF TrackClient
<1>17. ASSUME NEW b \in Backends, TrackAndSpawn(b) PROVE <<d, end>> \in conns'[a]
  <2>1. CASE d = cur[b]
    <3>1. a = b
      BY <2>1, <1>17 DEF TrackAndSpawn, SpawnCounted
    <3>2. life[b] # "wait" /\ loop[b] = "spawn" /\ open' = open
      BY <3>1, <1>17 DEF TrackAndSpawn, SpawnCounted
    <3>3. Client(d) \in open => Client(d) \in conns[b]
      BY <2>1, <3>2 DEF AcceptedTracked
    <3>4. conns'[b] = conns[b] \union {Upstream(d)}
      BY <2>1, <1>17 DEF TrackAndSpawn, SpawnCounted
    <3>5. QED
      BY <3>1, <3>2, <3>3, <3>4
  <2>2. CASE d # cur[b]
    <3>1. UNCHANGED <<life, at, open, pipe[d]>> /\ conns[a] \subseteq conns'[a]
      BY <2>2, <1>17 DEF TrackAndSpawn, SpawnCounted
    <3>2. QED
      BY <3>1, <1>0
  <2>3. QED
    BY <2>1, <2>2
<1>18. ASSUME NEW c \in Conns, closeBoth(c) PROVE <<d, end>> \in conns'[a]
  BY <1>18, <1>0, NoBackendAssumption, ConnsAssumption DEF closeBoth, CloseOnce
<1>19. ASSUME NEW c \in Conns, untrackConn(c) PROVE <<d, end>> \in conns'[a]
  <2>1. UNCHANGED <<life, at, open, pipe, loop>>
    BY <1>19 DEF untrackConn
  <2>2. d # c
    BY <1>19, <2>1 DEF untrackConn, OpenHeld
  <2>3. <<d, end>> \in conns[a]
    BY <2>1, <1>0
  <2>4. conns'[a] = conns[a] \/ conns'[a] = conns[a] \ Both(c)
    BY <1>19 DEF untrackConn
  <2>5. QED
    BY <2>2, <2>3, <2>4
<1>20. ASSUME NEW c \in Conns, NEW side \in Sides, ReadFails(c, side) PROVE <<d, end>> \in conns'[a]
  BY <1>20, <1>0, NoBackendAssumption, ConnsAssumption DEF ReadFails, PipeReturns
<1>21. ASSUME NEW c \in Conns, NEW side \in Sides, TimesOut(c, side) PROVE <<d, end>> \in conns'[a]
  BY <1>21, <1>0, NoBackendAssumption, ConnsAssumption DEF TimesOut, PipeReturns
<1>22. ASSUME NEW c \in Conns, NEW side \in Sides, PipeDone(c, side) PROVE <<d, end>> \in conns'[a]
  BY <1>22, <1>0, NoBackendAssumption, ConnsAssumption DEF PipeDone
<1>23. CASE UNCHANGED <<life, at, pipe, open, conns>>
  BY <1>0, <1>23
<1> HIDE DEF StateTypes, Shape, LoopShape, ConnShape, connVars, lifeVars, NoPipes,
             Sides, Client, Upstream, Both, Spawned
<1>24. QED
  BY <1>1, <1>2, <1>3, <1>4, <1>5, <1>6, <1>7, <1>8, <1>9, <1>10, <1>11, <1>12,
     <1>13, <1>14, <1>15, <1>16, <1>17, <1>18, <1>19, <1>20, <1>21, <1>22, <1>23
     DEF Next, Start, Shutdown, acceptLoop, handleConn, Once, Pipe, FlusherExit,
         AcceptLoopExit, LoopReturns, PreambleOK, inc, dec, Deactivate, HangUp,
         lifeVars, connVars, vars

(* The accepted socket is tracked first.                                    *)
LEMMA AcceptedTrackedStep ==
    StateTypes /\ Shape /\ NoneLeft' /\ AcceptedTracked
        /\ [Next]_vars => AcceptedTracked'
<1> SUFFICES ASSUME StateTypes, Shape, NoneLeft', AcceptedTracked, [Next]_vars,
                    NEW a \in Backends, life'[a] # "wait", loop'[a] = "spawn",
                    <<cur'[a], "client">> \in open'
             PROVE  <<cur'[a], "client">> \in conns'[a]
  BY DEF AcceptedTracked, Client
<1>0. life[a] # "wait" /\ loop[a] = "spawn" /\ <<cur[a], "client">> \in open
         => <<cur[a], "client">> \in conns[a]
  BY DEF AcceptedTracked, Client
<1>00. loop[a] = "spawn" => cur[a] \in Conns /\ at[cur[a]] = a
  BY DEF Shape, LoopShape
<1> USE DEF StateTypes, Shape, LoopShape, ConnShape, connVars, lifeVars, NoPipes,
            Sides, Client, Upstream, Both
<1>1. ASSUME NEW b \in Backends, StartFlusher(b) PROVE <<cur'[a], "client">> \in conns'[a]
  BY <1>1, <1>0, NoBackendAssumption, ConnsAssumption DEF StartFlusher
<1>2. ASSUME NEW b \in Backends, BindOK(b) PROVE <<cur'[a], "client">> \in conns'[a]
  BY <1>2, <1>0, NoBackendAssumption, ConnsAssumption DEF BindOK
<1>3. ASSUME NEW b \in Backends, BindFail(b) PROVE <<cur'[a], "client">> \in conns'[a]
  BY <1>3, <1>0, NoBackendAssumption, ConnsAssumption DEF BindFail
<1>4. ASSUME NEW b \in Backends, Cancel(b) PROVE <<cur'[a], "client">> \in conns'[a]
  BY <1>4, <1>0, NoBackendAssumption, ConnsAssumption DEF Cancel
<1>5. ASSUME NEW b \in Backends, CloseListener(b) PROVE <<cur'[a], "client">> \in conns'[a]
  BY <1>5, <1>0, NoBackendAssumption, ConnsAssumption DEF CloseListener
<1>6. ASSUME NEW b \in Backends, Settled(b) PROVE <<cur'[a], "client">> \in conns'[a]
  BY <1>6, <1>0, NoBackendAssumption, ConnsAssumption DEF Settled
<1>7. ASSUME NEW b \in Backends, GraceExpired(b) PROVE <<cur'[a], "client">> \in conns'[a]
  BY <1>7, <1>0, NoBackendAssumption, ConnsAssumption DEF GraceExpired
<1>8. ASSUME NEW b \in Backends, forceCloseConns(b) PROVE <<cur'[a], "client">> \in conns'[a]
  BY <1>8, <1>0, NoBackendAssumption, ConnsAssumption DEF forceCloseConns, ForceClose
<1>9. ASSUME NEW b \in Backends, WaitReturns(b) PROVE <<cur'[a], "client">> \in conns'[a]
  <2>1. /\ life[b] = "wait" /\ life'[b] \in {"new", "down"}
        /\ \A x \in Backends \ {b} : life'[x] = life[x]
    BY <1>9 DEF WaitReturns
  <2>2. UNCHANGED <<loop, at, open, conns, cur>>
    BY <1>9 DEF WaitReturns, connVars
  <2>3. QED
    BY <2>1, <2>2, <1>0, ConnsAssumption DEF NoneLeft
<1>10. ASSUME NEW b \in Backends, NEW c \in Conns, Accept(b, c)
       PROVE  <<cur'[a], "client">> \in conns'[a]
  <2>1. a # b /\ UNCHANGED <<life[a], loop[a], cur[a], conns>>
    BY <1>10 DEF Accept
  <2>2. cur[a] # c
    BY <1>10, <1>00, <2>1, NoBackendAssumption DEF Accept
  <2>3. <<cur[a], "client">> \in open
    BY <1>10, <2>1, <2>2 DEF Accept
  <2>4. QED
    BY <2>1, <2>3, <1>0
<1>11. ASSUME NEW b \in Backends, AcceptLoopExit(b) PROVE <<cur'[a], "client">> \in conns'[a]
  BY <1>11, <1>0, NoBackendAssumption, ConnsAssumption DEF AcceptLoopExit, LoopReturns
<1>12. ASSUME NEW b \in Backends, Banned(b) PROVE <<cur'[a], "client">> \in conns'[a]
  <2>1. a # b /\ UNCHANGED <<life[a], loop[a], cur[a], conns>> /\ open' \subseteq open
    BY <1>12 DEF Banned, GiveUp, Abandon
  <2>2. QED
    BY <2>1, <1>0
<1>13. ASSUME NEW b \in Backends, CheckCap(b) PROVE <<cur'[a], "client">> \in conns'[a]
  <2>1. CASE GiveUp(b, cur[b])
    <3>1. a # b /\ UNCHANGED <<life[a], loop[a], cur[a], conns>> /\ open' \subseteq open
      BY <2>1 DEF GiveUp, Abandon
    <3>2. QED
      BY <3>1, <1>0
  <2>2. CASE StepTo(b, "dial")
    BY <2>2, <1>0, NoBackendAssumption, ConnsAssumption DEF StepTo
  <2>3. QED
    BY <1>13, <2>1, <2>2 DEF CheckCap
<1>14. ASSUME NEW b \in Backends, DialOK(b) PROVE <<cur'[a], "client">> \in conns'[a]
  BY <1>14, <1>0, NoBackendAssumption, ConnsAssumption DEF DialOK
<1>15. ASSUME NEW b \in Backends, DialFail(b) PROVE <<cur'[a], "client">> \in conns'[a]
  <2>1. a # b /\ UNCHANGED <<life[a], loop[a], cur[a], conns>> /\ open' \subseteq open
    BY <1>15 DEF DialFail, GiveUp, Abandon
  <2>2. QED
    BY <2>1, <1>0
<1>16. ASSUME NEW b \in Backends, PreambleOK(b) PROVE <<cur'[a], "client">> \in conns'[a]
  BY <1>16, <1>0, NoBackendAssumption, ConnsAssumption DEF PreambleOK
<1>17. ASSUME NEW b \in Backends, PreambleFail(b) PROVE <<cur'[a], "client">> \in conns'[a]
  <2>1. a # b /\ UNCHANGED <<life[a], loop[a], cur[a], conns>> /\ open' \subseteq open
    BY <1>17 DEF PreambleFail, GiveUp, Abandon
  <2>2. QED
    BY <2>1, <1>0
<1>18. ASSUME NEW b \in Backends, inc(b) PROVE <<cur'[a], "client">> \in conns'[a]
  BY <1>18, <1>0, NoBackendAssumption, ConnsAssumption DEF inc
<1>19. ASSUME NEW b \in Backends, TrackClient(b) PROVE <<cur'[a], "client">> \in conns'[a]
  BY <1>19, <1>0, NoBackendAssumption, ConnsAssumption DEF TrackClient
<1>20. ASSUME NEW b \in Backends, TrackAndSpawn(b) PROVE <<cur'[a], "client">> \in conns'[a]
  <2>1. a # b /\ UNCHANGED <<life[a], loop[a], cur[a], open>> /\ conns'[a] = conns[a]
    BY <1>20 DEF TrackAndSpawn, SpawnCounted
  <2>2. QED
    BY <2>1, <1>0
<1>21. ASSUME NEW c \in Conns, closeBoth(c) PROVE <<cur'[a], "client">> \in conns'[a]
  BY <1>21, <1>0, NoBackendAssumption, ConnsAssumption DEF closeBoth, CloseOnce
<1>22. ASSUME NEW c \in Conns, untrackConn(c) PROVE <<cur'[a], "client">> \in conns'[a]
  BY <1>22, <1>0, NoBackendAssumption, ConnsAssumption DEF untrackConn
<1>23. CASE UNCHANGED <<life, cur, loop, open, conns>>
  BY <1>0, <1>23
<1> HIDE DEF StateTypes, Shape, LoopShape, ConnShape, connVars, lifeVars, NoPipes,
             Sides, Client, Upstream, Both
<1>24. QED
  BY <1>1, <1>2, <1>3, <1>4, <1>5, <1>6, <1>7, <1>8, <1>9, <1>10, <1>11, <1>12,
     <1>13, <1>14, <1>15, <1>16, <1>17, <1>18, <1>19, <1>20, <1>21, <1>22, <1>23
     DEF Next, Start, Shutdown, acceptLoop, handleConn, Once, Pipe, FlusherExit,
         dec, Deactivate, ReadFails, PipeReturns, TimesOut, PipeDone, HangUp,
         lifeVars, connVars, vars

(* After forceCloseConns only what handleConn has in hand can get through.  *)
LEMMA EscapeStep ==
    StateTypes /\ Shape /\ CopiedTracked /\ AcceptedTracked /\ LastEscapes /\ AtMostOneEscapes
        /\ [Next]_vars => LastEscapes' /\ AtMostOneEscapes'
<1> SUFFICES ASSUME StateTypes, Shape, CopiedTracked, AcceptedTracked, LastEscapes,
                    AtMostOneEscapes, [Next]_vars
             PROVE  LastEscapes' /\ AtMostOneEscapes'
  OBVIOUS
<1> USE DEF StateTypes, Shape, LoopShape, ConnShape, LifeShape, connVars, lifeVars,
            NoPipes, Spawned, Sockets, Sides, Client, Upstream, Both, LastEscapes,
            AtMostOneEscapes
<1>1. ASSUME NEW b \in Backends, StartFlusher(b) PROVE LastEscapes' /\ AtMostOneEscapes'
  BY <1>1, NoBackendAssumption, ConnsAssumption DEF StartFlusher
<1>2. ASSUME NEW b \in Backends, BindOK(b) PROVE LastEscapes' /\ AtMostOneEscapes'
  BY <1>2, NoBackendAssumption, ConnsAssumption DEF BindOK
<1>3. ASSUME NEW b \in Backends, BindFail(b) PROVE LastEscapes' /\ AtMostOneEscapes'
  BY <1>3, NoBackendAssumption, ConnsAssumption DEF BindFail
<1>4. ASSUME NEW b \in Backends, Cancel(b) PROVE LastEscapes' /\ AtMostOneEscapes'
  BY <1>4, NoBackendAssumption, ConnsAssumption DEF Cancel
<1>5. ASSUME NEW b \in Backends, CloseListener(b) PROVE LastEscapes' /\ AtMostOneEscapes'
  BY <1>5, NoBackendAssumption, ConnsAssumption DEF CloseListener
<1>6. ASSUME NEW b \in Backends, Settled(b) PROVE LastEscapes' /\ AtMostOneEscapes'
  BY <1>6, NoBackendAssumption, ConnsAssumption DEF Settled
<1>7. ASSUME NEW b \in Backends, GraceExpired(b) PROVE LastEscapes' /\ AtMostOneEscapes'
  BY <1>7, NoBackendAssumption, ConnsAssumption DEF GraceExpired
<1>8. ASSUME NEW b \in Backends, forceCloseConns(b) PROVE LastEscapes' /\ AtMostOneEscapes'
  <2>1. life[b] = "force" /\ life' = [life EXCEPT ![b] = "wait"] /\ open' = open \ conns[b]
        /\ UNCHANGED <<at, pipe, cur, loop>>
    BY <1>8 DEF forceCloseConns, ForceClose
  <2>2. \A c \in Conns : at[c] = b /\ Both(c) \subseteq open' => ~Spawned(c)
    BY <2>1 DEF CopiedTracked
  <2>3. \A c \in Conns : at[c] = b /\ Both(c) \subseteq open' => cur[b] = c
    BY <2>2
  <2>4. \A x \in Backends \ {b} : life'[x] = "wait" => life[x] = "wait"
    BY <2>1
  <2>5. LastEscapes'
    BY <2>1, <2>2, <2>4
  <2>6. AtMostOneEscapes'
    BY <2>1, <2>3, <2>4
  <2>7. QED
    BY <2>5, <2>6
<1>9. ASSUME NEW b \in Backends, WaitReturns(b) PROVE LastEscapes' /\ AtMostOneEscapes'
  <2>1. \A x \in Backends : life'[x] = "wait" => life[x] = "wait"
    BY <1>9 DEF WaitReturns
  <2>2. UNCHANGED <<at, pipe, open, cur>>
    BY <1>9 DEF WaitReturns
  <2>3. QED
    BY <2>1, <2>2
<1>10. ASSUME NEW b \in Backends, NEW c \in Conns, Accept(b, c)
       PROVE  LastEscapes' /\ AtMostOneEscapes'
  BY <1>10, NoBackendAssumption, ConnsAssumption DEF Accept
<1>11. ASSUME NEW b \in Backends, Banned(b) PROVE LastEscapes' /\ AtMostOneEscapes'
  BY <1>11, NoBackendAssumption, ConnsAssumption DEF Banned, GiveUp, Abandon
<1>12. ASSUME NEW b \in Backends, CheckCap(b) PROVE LastEscapes' /\ AtMostOneEscapes'
  BY <1>12, NoBackendAssumption, ConnsAssumption DEF CheckCap, GiveUp, Abandon, StepTo
<1>13. ASSUME NEW b \in Backends, DialOK(b) PROVE LastEscapes' /\ AtMostOneEscapes'
  BY <1>13, NoBackendAssumption, ConnsAssumption DEF DialOK
<1>14. ASSUME NEW b \in Backends, DialFail(b) PROVE LastEscapes' /\ AtMostOneEscapes'
  BY <1>14, NoBackendAssumption, ConnsAssumption DEF DialFail, GiveUp, Abandon
<1>15. ASSUME NEW b \in Backends, PreambleFail(b) PROVE LastEscapes' /\ AtMostOneEscapes'
  BY <1>15, NoBackendAssumption, ConnsAssumption DEF PreambleFail, GiveUp, Abandon
<1>16. ASSUME NEW b \in Backends, TrackAndSpawn(b) PROVE LastEscapes' /\ AtMostOneEscapes'
  BY <1>16, NoBackendAssumption, ConnsAssumption DEF TrackAndSpawn, SpawnCounted
<1>17. ASSUME NEW c \in Conns, closeBoth(c) PROVE LastEscapes' /\ AtMostOneEscapes'
  BY <1>17, NoBackendAssumption, ConnsAssumption DEF closeBoth, CloseOnce
<1>18. ASSUME NEW c \in Conns, NEW side \in Sides, ReadFails(c, side)
       PROVE  LastEscapes' /\ AtMostOneEscapes'
  BY <1>18, NoBackendAssumption, ConnsAssumption DEF ReadFails, PipeReturns
<1>19. ASSUME NEW c \in Conns, NEW side \in Sides, TimesOut(c, side)
       PROVE  LastEscapes' /\ AtMostOneEscapes'
  BY <1>19, NoBackendAssumption, ConnsAssumption DEF TimesOut, PipeReturns
<1>20. ASSUME NEW c \in Conns, NEW side \in Sides, PipeDone(c, side)
       PROVE  LastEscapes' /\ AtMostOneEscapes'
  <2>1. UNCHANGED <<life, open, cur>>
    BY <1>20 DEF PipeDone
  <2>2. \A d \in Conns : /\ at'[d] \in {at[d], NoBackend}
                         /\ Spawned(d)' => Spawned(d)
    BY <1>20 DEF PipeDone
  <2>3. \A b \in Backends, d \in Conns : at'[d] = b => at[d] = b
    BY <2>2, NoBackendAssumption
  <2>4. QED
    BY <2>1, <2>2, <2>3
<1>21. CASE UNCHANGED <<life, cur, at, pipe, open>>
  BY <1>21
<1> HIDE DEF StateTypes, Shape, LoopShape, ConnShape, LifeShape, connVars, lifeVars,
             NoPipes, Spawned, Sockets, Sides, Client, Upstream, Both, LastEscapes,
             AtMostOneEscapes
<1>22. QED
  BY <1>1, <1>2, <1>3, <1>4, <1>5, <1>6, <1>7, <1>8, <1>9, <1>10, <1>11, <1>12,
     <1>13, <1>14, <1>15, <1>16, <1>17, <1>18, <1>19, <1>20, <1>21
     DEF Next, Start, Shutdown, acceptLoop, handleConn, Once, Pipe, FlusherExit,
         AcceptLoopExit, LoopReturns, PreambleOK, inc, TrackClient, untrackConn,
         dec, Deactivate, HangUp, lifeVars, connVars, vars

(* A WaitGroup at zero: none of the goroutines it counts runs.              *)
LEMMA WgZero ==
    WgExact => \A b \in Backends : wg[b] = 0 => Running(b) = {} /\ loop[b] = "off"
<1> SUFFICES ASSUME WgExact, NEW b \in Backends, wg[b] = 0
             PROVE  Running(b) = {} /\ loop[b] = "off"
  OBVIOUS
<1>1. Cardinality(Running(b)) = 0 /\ loop[b] = "off"
  BY RunningFinite DEF WgExact
<1>2. QED
  BY <1>1, RunningFinite, FS_EmptySet

(* wg.Wait returns when no goroutine of the backend is left to own a        *)
(* connection.                                                              *)
LEMMA NoneLeftStep ==
    StateTypes /\ Shape /\ WgExact /\ NoneLeft /\ [Next]_vars => NoneLeft'
<1> SUFFICES ASSUME StateTypes, Shape, WgExact, NoneLeft, [Next]_vars
             PROVE  NoneLeft'
  OBVIOUS
<1> USE DEF StateTypes, Shape, LoopShape, ConnShape, LifeShape, connVars, lifeVars,
            NoPipes, Spawned, Sockets, Sides, Client, Upstream, Both, NoneLeft
<1>1. ASSUME NEW b \in Backends, StartFlusher(b) PROVE NoneLeft'
  BY <1>1, NoBackendAssumption, ConnsAssumption DEF StartFlusher
<1>2. ASSUME NEW b \in Backends, BindOK(b) PROVE NoneLeft'
  BY <1>2, NoBackendAssumption, ConnsAssumption DEF BindOK
<1>3. ASSUME NEW b \in Backends, BindFail(b) PROVE NoneLeft'
  BY <1>3, NoBackendAssumption, ConnsAssumption DEF BindFail
<1>4. ASSUME NEW b \in Backends, Cancel(b) PROVE NoneLeft'
  BY <1>4, NoBackendAssumption, ConnsAssumption DEF Cancel
<1>5. ASSUME NEW b \in Backends, CloseListener(b) PROVE NoneLeft'
  BY <1>5, NoBackendAssumption, ConnsAssumption DEF CloseListener
<1>6. ASSUME NEW b \in Backends, Settled(b) PROVE NoneLeft'
  BY <1>6, NoBackendAssumption, ConnsAssumption DEF Settled
<1>7. ASSUME NEW b \in Backends, GraceExpired(b) PROVE NoneLeft'
  BY <1>7, NoBackendAssumption, ConnsAssumption DEF GraceExpired
<1>8. ASSUME NEW b \in Backends, forceCloseConns(b) PROVE NoneLeft'
  BY <1>8, NoBackendAssumption, ConnsAssumption DEF forceCloseConns, ForceClose
<1>9. ASSUME NEW b \in Backends, WaitReturns(b) PROVE NoneLeft'
  <2>0. wg[b] = 0
    BY <1>9 DEF WaitReturns
  <2>1. Running(b) = {} /\ loop[b] = "off"
    BY <2>0, WgZero
  <2>2. \A c \in Conns : at[c] # b
    <3> SUFFICES ASSUME NEW c \in Conns, at[c] = b PROVE FALSE
      OBVIOUS
    <3>1. cur[b] # c
      BY <2>1, ConnsAssumption
    <3>2. pipe[c]["client"] # "none" /\ pipe[c]["backend"] # "none"
      BY <3>1
    <3>3. PICK side \in Sides : pipe[c][side] \in {"copy", "closing"}
      BY <3>2 DEF PipeStates
    <3>4. <<c, side>> \in Running(b)
      BY <3>3 DEF Running
    <3>5. QED
      BY <3>4, <2>1
  <2>3. at' = at /\ \A x \in Backends \ {b} : life'[x] = life[x]
    BY <1>9 DEF WaitReturns
  <2>4. QED
    BY <2>2, <2>3
<1>10. ASSUME NEW b \in Backends, NEW c \in Conns, Accept(b, c) PROVE NoneLeft'
  BY <1>10, NoBackendAssumption, ConnsAssumption DEF Accept
<1>11. ASSUME NEW b \in Backends, Banned(b) PROVE NoneLeft'
  BY <1>11, NoBackendAssumption, ConnsAssumption DEF Banned, GiveUp, Abandon
<1>12. ASSUME NEW b \in Backends, CheckCap(b) PROVE NoneLeft'
  BY <1>12, NoBackendAssumption, ConnsAssumption DEF CheckCap, GiveUp, Abandon, StepTo
<1>13. ASSUME NEW b \in Backends, DialFail(b) PROVE NoneLeft'
  BY <1>13, NoBackendAssumption, ConnsAssumption DEF DialFail, GiveUp, Abandon
<1>14. ASSUME NEW b \in Backends, PreambleFail(b) PROVE NoneLeft'
  BY <1>14, NoBackendAssumption, ConnsAssumption DEF PreambleFail, GiveUp, Abandon
<1>15. ASSUME NEW c \in Conns, NEW side \in Sides, PipeDone(c, side) PROVE NoneLeft'
  BY <1>15, NoBackendAssumption, ConnsAssumption DEF PipeDone
<1>16. CASE UNCHANGED <<life, at>>
  BY <1>16
<1> HIDE DEF StateTypes, Shape, LoopShape, ConnShape, LifeShape, connVars, lifeVars,
             NoPipes, Spawned, Sockets, Sides, Client, Upstream, Both, NoneLeft
<1>17. QED
  BY <1>1, <1>2, <1>3, <1>4, <1>5, <1>6, <1>7, <1>8, <1>9, <1>10, <1>11, <1>12,
     <1>13, <1>14, <1>15, <1>16
     DEF Next, Start, Shutdown, acceptLoop, handleConn, Once, Pipe, FlusherExit,
         AcceptLoopExit, LoopReturns, DialOK, PreambleOK, inc, TrackClient,
         TrackAndSpawn, SpawnCounted, closeBoth, CloseOnce, untrackConn, dec,
         Deactivate, ReadFails, PipeReturns, TimesOut, HangUp, lifeVars,
         connVars, vars

-----------------------------------------------------------------------------
(* The inductive invariant holds at first, and every step keeps it.         *)
LEMMA SocketInit == Init => SocketInv
<1> SUFFICES ASSUME Init PROVE SocketInv
  OBVIOUS
<1>1. OpenHeld /\ TrackedHeld /\ NoneLeft
  BY NoBackendAssumption DEF Init, OpenHeld, TrackedHeld, NoneLeft
<1>2. CopiedTracked /\ AcceptedTracked
  BY DEF Init, CopiedTracked, AcceptedTracked
<1>3. LastEscapes /\ AtMostOneEscapes
  BY DEF Init, LastEscapes, AtMostOneEscapes
<1>4. QED
  BY <1>1, <1>2, <1>3 DEF SocketInv

LEMMA SocketInvariant == Spec => [](GoroutineInv /\ SocketInv)
<1>1. GoroutineInv /\ SocketInv /\ [Next]_vars => SocketInv'
  BY OpenHeldStep, TrackedStep, NoneLeftStep, CopiedTrackedStep, AcceptedTrackedStep, EscapeStep
     DEF GoroutineInv, SocketInv
<1>2. QED
  BY <1>1, SocketInit, GoroutineInvariant, PTL DEF Spec

(* No way out of handleConn or closeBoth leaves a socket of a connection    *)
(* open, or in the force-close set, that no backend has any more.           *)
THEOREM NothingLeaks == Spec => []NoSocketLeak
<1>1. SocketInv => NoSocketLeak
  <2> SUFFICES ASSUME SocketInv, NEW c \in Conns, at[c] = NoBackend
               PROVE  /\ Both(c) \intersect open = {}
                      /\ \A b \in Backends : Both(c) \intersect conns[b] = {}
    BY DEF NoSocketLeak
  <2>1. Both(c) \intersect open = {}
    BY DEF SocketInv, OpenHeld, Both, Client, Upstream, Sides
  <2>2. \A b \in Backends : Both(c) \intersect conns[b] = {}
    BY NoBackendAssumption DEF SocketInv, TrackedHeld, Both, Client, Upstream
  <2>3. QED
    BY <2>1, <2>2
<1>2. QED
  BY <1>1, SocketInvariant, PTL

(* At most one connection of a backend outlives forceCloseConns with both   *)
(* its sockets open, however many the backend carries.                      *)
THEOREM OneEscapes == Spec => []AtMostOneEscapes
<1>1. SocketInv => AtMostOneEscapes
  BY DEF SocketInv
<1>2. QED
  BY <1>1, SocketInvariant, PTL

(* When wg.Wait has returned no goroutine, no connection and no tracked     *)
(* socket of the backend is left, so a restart begins from nothing.         *)
THEOREM NothingOutlivesWait == Spec => []QuietAfterWait
<1>1. GoroutineInv /\ SocketInv /\ ActiveExact => QuietAfterWait
  <2> SUFFICES ASSUME GoroutineInv, SocketInv, ActiveExact,
                      NEW b \in Backends, life[b] \in {"new", "down"}
               PROVE  Quiet(b)
    BY DEF QuietAfterWait
  <2>1. ~flusher[b] /\ loop[b] = "off" /\ ~listener[b]
    BY DEF GoroutineInv, StateTypes, Shape, LifeShape
  <2>2. \A c \in Conns : at[c] # b
    BY DEF SocketInv, NoneLeft
  <2>3. active[b] = 0
    <3>1. ActiveAt(b) = {}
      BY <2>2 DEF ActiveAt
    <3>2. QED
      BY <3>1, FS_EmptySet DEF ActiveExact
  <2>4. conns[b] = {}
    <3>1. \A s \in conns[b] : s[1] \in Conns /\ at[s[1]] = b
      BY DEF SocketInv, TrackedHeld, GoroutineInv, StateTypes, Sockets
    <3>2. QED
      BY <3>1, <2>2
  <2>5. QED
    BY <2>1, <2>2, <2>3, <2>4 DEF Quiet
<1>2. QED
  BY <1>1, SocketInvariant, ActiveExactness, PTL
-----------------------------------------------------------------------------
(* The abstract service.                                                   *)

Phases == [b \in Backends |-> Phase(b)]
Stages == [c \in Conns |-> Stage(c)]

(* A step of the program that a client or an operator cannot see.          *)
Unseen == Phases' = Phases /\ at' = at /\ Stages' = Stages

LEMMA UnseenByStages ==
    ASSUME \A b \in Backends : Phase(b)' = Phase(b), at' = at,
           \A c \in Conns : Stage(c)' = Stage(c)
    PROVE  Unseen
BY DEF Unseen, Phases, Stages

LEMMA StageFrame ==
    ASSUME at' = at, pipe' = pipe, \A c \in Conns : Counted(c)' <=> Counted(c)
    PROVE  \A c \in Conns : Stage(c)' = Stage(c)
BY DEF Stage, Spawned

LEMMA PhaseFrame ==
    ASSUME life' = life, listener' = listener
    PROVE  \A b \in Backends : Phase(b)' = Phase(b)
BY DEF Phase

(* What starts, stops and drains a backend moves its phase at most.        *)
LEMMA LifeUnseen ==
    ASSUME StateTypes, Shape, NEW b \in Backends,
           \/ StartFlusher(b) \/ BindFail(b) \/ Cancel(b) \/ Settled(b)
           \/ GraceExpired(b) \/ forceCloseConns(b) \/ FlusherExit(b)
    PROVE  Unseen
<1>1. at' = at /\ \A c \in Conns : Stage(c)' = Stage(c)
  BY DEF StartFlusher, BindFail, Cancel, Settled, GraceExpired, forceCloseConns,
         ForceClose, FlusherExit, connVars, Stage, Counted, Spawned
<1>2. \A x \in Backends : Phase(x)' = Phase(x)
  BY DEF StartFlusher, BindFail, Cancel, Settled, GraceExpired, forceCloseConns,
         ForceClose, FlusherExit, lifeVars, Phase, StateTypes
<1> QED
  BY <1>1, <1>2, UnseenByStages

(* handleConn's steps between the accept and the slot, and from the slot   *)
(* to the copy goroutines.                                                 *)
LEMMA LoopUnseen ==
    ASSUME StateTypes, Shape, NEW b \in Backends,
           \/ AcceptLoopExit(b) \/ DialOK(b) \/ PreambleOK(b) \/ TrackClient(b)
           \/ TrackAndSpawn(b)
           \/ loop[b] = "check" /\ StepTo(b, "dial")
    PROVE  Unseen
<1>1. \A x \in Backends : Phase(x)' = Phase(x)
  BY PhaseFrame DEF AcceptLoopExit, LoopReturns, DialOK, PreambleOK, TrackClient,
     TrackAndSpawn, SpawnCounted, StepTo, lifeVars
<1>2. CASE AcceptLoopExit(b)
  <2>1. at' = at /\ pipe' = pipe /\ \A c \in Conns : Counted(c)' <=> Counted(c)
    BY <1>2 DEF AcceptLoopExit, LoopReturns, connVars, Counted, Spawned, StateTypes
  <2> QED
    BY <2>1, <1>1, StageFrame, UnseenByStages
<1>3. CASE DialOK(b)
  <2>1. at' = at /\ pipe' = pipe /\ \A c \in Conns : Counted(c)' <=> Counted(c)
    BY <1>3 DEF DialOK, Counted, Spawned, StateTypes
  <2> QED
    BY <2>1, <1>1, StageFrame, UnseenByStages
<1>4. CASE PreambleOK(b)
  <2>1. at' = at /\ pipe' = pipe /\ \A c \in Conns : Counted(c)' <=> Counted(c)
    BY <1>4 DEF PreambleOK, connVars, Counted, Spawned, StateTypes
  <2> QED
    BY <2>1, <1>1, StageFrame, UnseenByStages
<1>5. CASE TrackClient(b)
  <2>1. at' = at /\ pipe' = pipe /\ \A c \in Conns : Counted(c)' <=> Counted(c)
    BY <1>5 DEF TrackClient, connVars, Counted, Spawned, StateTypes
  <2> QED
    BY <2>1, <1>1, StageFrame, UnseenByStages
<1>6. CASE loop[b] = "check" /\ StepTo(b, "dial")
  <2>1. at' = at /\ pipe' = pipe /\ \A c \in Conns : Counted(c)' <=> Counted(c)
    BY <1>6 DEF StepTo, connVars, Counted, Spawned, StateTypes
  <2> QED
    BY <2>1, <1>1, StageFrame, UnseenByStages
<1>7. CASE TrackAndSpawn(b)
  <2>1. PICK c \in Conns : cur[b] = c /\ pipe[c]["client"] = "none" /\ once[c] = "no"
    BY <1>7 DEF TrackAndSpawn, SpawnCounted, Shape, LoopShape, ConnShape, StateTypes
  <2>2. /\ at' = at /\ once' = once /\ loop[b] = "spawn"
        /\ loop' = [loop EXCEPT ![b] = "accept"]
        /\ cur' = [cur EXCEPT ![b] = NoConn]
        /\ pipe' = [pipe EXCEPT ![c] = [side \in Sides |-> "copy"]]
    BY <1>7, <2>1 DEF TrackAndSpawn, SpawnCounted
  <2>3. Counted(c) /\ Counted(c)'
    BY <2>1, <2>2 DEF Counted, Spawned, StateTypes, Sides
  <2>4. \A x \in Conns \ {c} : Counted(x)' <=> Counted(x)
    BY <2>1, <2>2 DEF Counted, Spawned, StateTypes
  <2>5. \A x \in Conns \ {c} : pipe'[x] = pipe[x]
    BY <2>2 DEF StateTypes
  <2>6. \A x \in Conns : Stage(x)' = Stage(x)
    BY <2>2, <2>3, <2>4, <2>5 DEF Stage, Spawned
  <2> QED
    BY <2>2, <2>6, <1>1, UnseenByStages
<1> QED
  BY <1>2, <1>3, <1>4, <1>5, <1>6, <1>7

(* The copy goroutines' steps other than the return of the slot and the    *)
(* release of the connection.                                              *)
LEMMA PipeUnseen ==
    ASSUME StateTypes, Shape, NEW c \in Conns, NEW side \in Sides,
           \/ closeBoth(c) \/ untrackConn(c) \/ Deactivate(c)
           \/ ReadFails(c, side) \/ TimesOut(c, side) \/ HangUp(<<c, side>>)
           \/ PipeDone(c, side) /\ ~LastPipe(c, side)
    PROVE  Unseen
<1>1. \A x \in Backends : Phase(x)' = Phase(x)
  BY PhaseFrame DEF closeBoth, CloseOnce, untrackConn, Deactivate, ReadFails, TimesOut,
     PipeReturns, HangUp, PipeDone, lifeVars
<1>2. CASE closeBoth(c) \/ untrackConn(c) \/ Deactivate(c) \/ HangUp(<<c, side>>)
  <2>1. at' = at /\ pipe' = pipe /\ \A x \in Conns : Counted(x)' <=> Counted(x)
    BY <1>2 DEF closeBoth, CloseOnce, untrackConn, Deactivate, HangUp, Counted, Spawned,
       StateTypes
  <2> QED
    BY <2>1, <1>1, StageFrame, UnseenByStages
<1>3. CASE ReadFails(c, side) \/ TimesOut(c, side)
             \/ (PipeDone(c, side) /\ ~LastPipe(c, side))
  <2>1. /\ at' = at /\ once' = once /\ cur' = cur /\ loop' = loop
        /\ pipe[c][side] # "none"
        /\ \E state \in {"closing", "done"} : pipe' = [pipe EXCEPT ![c][side] = state]
    BY <1>3 DEF ReadFails, TimesOut, PipeReturns, PipeDone
  <2>2. \A x \in Conns : Spawned(x)' <=> Spawned(x)
    BY <2>1 DEF Spawned, StateTypes, Sides
  <2>3. \A x \in Conns : Stage(x)' = Stage(x)
    BY <2>1, <2>2 DEF Stage, Counted
  <2> QED
    BY <2>1, <2>3, <1>1, UnseenByStages
<1> QED
  BY <1>2, <1>3

(* A backend opens, closes and has stopped.                                *)
LEMMA PhaseMoves ==
    ASSUME StateTypes, Shape, NoneLeft', NEW b \in Backends,
           BindOK(b) \/ CloseListener(b) \/ WaitReturns(b)
    PROVE  Seen!Open(b) \/ Seen!Close(b) \/ Seen!Stopped(b)
<1> DEFINE Goes(from, to) == /\ Phases[b] \in from
                             /\ Phases' = [Phases EXCEPT ![b] = to]
                             /\ at' = at /\ Stages' = Stages
<1>1. at' = at /\ \A c \in Conns : Stage(c)' = Stage(c)
  BY DEF BindOK, CloseListener, WaitReturns, connVars, Stage, Counted, Spawned,
         StateTypes, Shape, LoopShape, LifeShape
<1>2. Stages' = Stages
  BY <1>1 DEF Stages
<1>3. CASE BindOK(b)
  <2>1. /\ life[b] = "bind" /\ ~listener[b]
        /\ life' = [life EXCEPT ![b] = "up"]
        /\ listener' = [listener EXCEPT ![b] = TRUE]
    BY <1>3 DEF BindOK, Shape, LifeShape
  <2>2. Goes({"idle"}, "up")
    BY <2>1, <1>1, <1>2 DEF Phases, Phase, StateTypes
  <2> QED
    BY <2>2 DEF Seen!Open, Seen!Move, Phases, Stages
<1>4. CASE CloseListener(b)
  <2>1. /\ life[b] = "close"
        /\ life' = [life EXCEPT ![b] = "drain"]
        /\ listener' = [listener EXCEPT ![b] = FALSE]
    BY <1>4 DEF CloseListener
  <2>2. Goes({"idle", "up"}, "stopping")
    BY <2>1, <1>1, <1>2 DEF Phases, Phase, StateTypes
  <2> QED
    BY <2>2 DEF Seen!Close, Seen!Move, Phases, Stages
<1>5. CASE WaitReturns(b)
  <2>1. PICK l \in {"new", "down"} : /\ life[b] = "wait" /\ ~listener[b]
                                     /\ life' = [life EXCEPT ![b] = l]
                                     /\ listener' = listener
    BY <1>5 DEF WaitReturns, Shape, LifeShape
  <2>2. Goes({"stopping"}, "idle")
    BY <2>1, <1>1, <1>2 DEF Phases, Phase, StateTypes
  <2>3. \A c \in Conns : at[c] # b
    BY <2>1, <1>1 DEF NoneLeft, StateTypes
  <2> QED
    BY <2>2, <2>3 DEF Seen!Stopped, Seen!Move, Phases, Stages
<1> QED
  BY <1>3, <1>4, <1>5

(* A connection is accepted.                                               *)
LEMMA AcceptIsSeen ==
    ASSUME StateTypes, Shape, NEW b \in Backends, NEW c \in Conns, Accept(b, c)
    PROVE  Seen!Accept(b, c)
<1>1. /\ Phases[b] = "up" /\ Phases' = Phases
      /\ at' = [at EXCEPT ![c] = b]
  BY DEF Accept, Phases, Phase, lifeVars
<1>2. /\ at[c] = NoBackend /\ at'[c] # NoBackend
      /\ loop' = [loop EXCEPT ![b] = "check"] /\ cur' = [cur EXCEPT ![b] = c]
      /\ pipe' = pipe /\ once' = once
  BY NoBackendAssumption DEF Accept, StateTypes
<1>3. pipe[c]["client"] = "none" /\ ~Spawned(c) /\ ~Spawned(c)'
  BY <1>2 DEF Spawned, Shape, ConnShape
<1>4. \A x \in Backends : cur[x] = c => loop[x] \in {"off", "accept"}
  BY <1>2, NoBackendAssumption DEF Shape, LoopShape
<1>5. ~Counted(c) /\ ~Counted(c)'
  BY <1>2, <1>3, <1>4 DEF Counted, StateTypes
<1>6. \A x \in Conns \ {c} : Stage(x)' = Stage(x)
  BY ConnsAssumption DEF Accept, Stage, Counted, Spawned, StateTypes, Shape, LoopShape
<1>7. Stages[c] = "away" /\ Stages' = [Stages EXCEPT ![c] = "setup"]
  BY <1>2, <1>6, <1>3, <1>5 DEF Stages, Stage
<1> QED
  BY <1>1, <1>7 DEF Seen!Accept, Seen!Pass, Phases, Stages

(* handleConn gives up on a connection it has not counted.                 *)
LEMMA GiveUpIsSeen ==
    ASSUME StateTypes, Shape, NEW b \in Backends,
           loop[b] \in {"check", "dial", "preamble"}, GiveUp(b, cur[b])
    PROVE  \E c \in Conns : Seen!LetGo(c)
<1>1. PICK c \in Conns : cur[b] = c /\ at[c] = b
  BY DEF Shape, LoopShape
<1>2. /\ loop' = [loop EXCEPT ![b] = "accept"]
      /\ cur' = [cur EXCEPT ![b] = NoConn]
      /\ at' = [at EXCEPT ![c] = NoBackend]
      /\ pipe' = pipe /\ once' = once /\ life' = life /\ listener' = listener
  BY <1>1 DEF GiveUp, Abandon, lifeVars
<1>3. \A x \in Backends \ {b} : cur[x] # c \/ loop[x] \in {"off", "accept"}
  BY <1>1 DEF Shape, LoopShape
<1>4. ~Spawned(c) /\ ~Spawned(c)'
  BY <1>1, <1>2 DEF Spawned, Shape, ConnShape
<1>5. ~Counted(c) /\ ~Counted(c)'
  BY <1>1, <1>2, <1>3, <1>4 DEF Counted, StateTypes
<1>6. \A x \in Conns \ {c} : Stage(x)' = Stage(x)
  BY <1>1, <1>2, ConnsAssumption DEF Stage, Counted, Spawned, StateTypes
<1>7. at[c] # NoBackend /\ at'[c] = NoBackend
  BY <1>1, <1>2, NoBackendAssumption DEF StateTypes
<1>8. Stages[c] = "setup" /\ Stages' = [Stages EXCEPT ![c] = "away"]
  BY <1>5, <1>6, <1>7, <1>4 DEF Stages, Stage
<1>9. Phases' = Phases
  BY <1>2, PhaseFrame DEF Phases
<1> QED
  BY <1>1, <1>2, <1>8, <1>9 DEF Seen!LetGo, Seen!Pass, Phases, Stages

(* tracker.inc takes a slot, of which there is one: the backend is among   *)
(* those that have passed the check.                                       *)
LEMMA IncIsSeen ==
    ASSUME StateTypes, Shape, TrackerExact, CapInv, NEW b \in Backends, inc(b)
    PROVE  \E c \in Conns : Seen!TakeSlot(c)
<1>1. PICK c \in Conns : cur[b] = c /\ at[c] = b /\ Ip[c] \in IPs
  BY IpAssumption DEF inc, Shape, LoopShape
<1>2. /\ loop[b] = "count" /\ loop' = [loop EXCEPT ![b] = "track"]
      /\ cur' = cur /\ at' = at /\ pipe' = pipe /\ once' = once
      /\ life' = life /\ listener' = listener
  BY DEF inc, connVars, lifeVars
<1>3. ~Counted(c) /\ Counted(c)' /\ ~Spawned(c) /\ at[c] # NoBackend
  BY <1>1, <1>2, NoBackendAssumption, ConnsAssumption
     DEF Counted, Spawned, StateTypes, Shape, LoopShape, ConnShape
<1>4. \A x \in Conns \ {c} : Stage(x)' = Stage(x)
  BY <1>1, <1>2 DEF Stage, Counted, Spawned, StateTypes
<1>5. Stages[c] = "setup" /\ Stages' = [Stages EXCEPT ![c] = "served"]
  BY <1>3, <1>4 DEF Stages, Stage
<1>6. Phases' = Phases
  BY <1>2, PhaseFrame DEF Phases
<1>7. Seen!Served(Ip[c]) = CountedOf(Ip[c])
  BY DEF Seen!Served, CountedOf, Stage
<1>8. MaxPerIP > 0
        => Cardinality(CountedOf(Ip[c])) < MaxPerIP + Cardinality(Backends) - 1
  <2> SUFFICES ASSUME MaxPerIP > 0
               PROVE  Cardinality(CountedOf(Ip[c])) < MaxPerIP + Cardinality(Backends) - 1
    OBVIOUS
  <2>1. b \in Pending(Ip[c])
    BY <1>1, <1>2 DEF Pending, CurIp
  <2>2. Cardinality(Pending(Ip[c])) # 0
    BY <2>1, PendingFinite, FS_EmptySet
  <2>3. live[Ip[c]] = Cardinality(CountedOf(Ip[c]))
    BY <1>1 DEF TrackerExact
  <2>4. live[Ip[c]] + Cardinality(Pending(Ip[c])) <= MaxPerIP + Cardinality(Backends) - 1
    BY <1>1 DEF CapInv
  <2> QED
    BY <2>2, <2>3, <2>4, PendingFinite, CountedFinite, BackendsCard, MaxAssumption
<1>9. \A S : Seen!Cardinality(S) = Cardinality(S)
  BY DEF Seen!Cardinality, Cardinality
<1>10. Seen!HasRoom(Ip[c])
  BY <1>7, <1>8, <1>9 DEF Seen!HasRoom
<1> QED
  BY <1>2, <1>5, <1>6, <1>10 DEF Seen!TakeSlot, Seen!Pass, Phases, Stages

(* tracker.dec gives it back, and the last copy goroutine lets go.         *)
LEMMA ReleaseIsSeen ==
    ASSUME StateTypes, Shape, NEW c \in Conns
    PROVE  /\ dec(c) => Seen!GiveSlotBack(c)
           /\ \A side \in Sides : PipeDone(c, side) /\ LastPipe(c, side) => Seen!LetGo(c)
<1>1. ASSUME dec(c) PROVE Seen!GiveSlotBack(c)
  <2>1. /\ once[c] = "dec" /\ once' = [once EXCEPT ![c] = "active"]
        /\ cur' = cur /\ at' = at /\ pipe' = pipe /\ loop' = loop
        /\ life' = life /\ listener' = listener
    BY <1>1 DEF dec, lifeVars
  <2>2. Counted(c) /\ ~Counted(c)' /\ Spawned(c)'
    BY <2>1 DEF Counted, Spawned, StateTypes, Shape, ConnShape
  <2>3. \A x \in Conns \ {c} : Stage(x)' = Stage(x)
    BY <2>1 DEF Stage, Counted, Spawned, StateTypes
  <2>4. Stages[c] = "served" /\ Stages' = [Stages EXCEPT ![c] = "leaving"]
    BY <2>2, <2>3 DEF Stages, Stage
  <2>5. Phases' = Phases
    BY <2>1, PhaseFrame DEF Phases
  <2> QED
    BY <2>1, <2>4, <2>5 DEF Seen!GiveSlotBack, Seen!Pass, Phases, Stages
<1>2. ASSUME NEW side \in Sides, PipeDone(c, side), LastPipe(c, side) PROVE Seen!LetGo(c)
  <2>1. /\ once[c] = "done" /\ once' = [once EXCEPT ![c] = "no"]
        /\ pipe[c][side] = "closing" /\ pipe' = [pipe EXCEPT ![c] = NoPipes]
        /\ at' = [at EXCEPT ![c] = NoBackend]
        /\ cur' = cur /\ loop' = loop /\ life' = life /\ listener' = listener
    BY <1>2 DEF PipeDone, lifeVars
  <2>2. Spawned(c) /\ ~Spawned(c)' /\ \A b \in Backends : cur[b] # c
    BY <2>1 DEF Spawned, NoPipes, StateTypes, Sides, Shape, ConnShape
  <2>3. ~Counted(c) /\ ~Counted(c)' /\ at'[c] = NoBackend
    BY <2>1, <2>2 DEF Counted, StateTypes
  <2>4. \A x \in Conns \ {c} : Stage(x)' = Stage(x)
    BY <2>1 DEF Stage, Counted, Spawned, StateTypes
  <2>5. Stages[c] = "leaving" /\ Stages' = [Stages EXCEPT ![c] = "away"]
    BY <2>2, <2>3, <2>4 DEF Stages, Stage
  <2>6. Phases' = Phases
    BY <2>1, PhaseFrame DEF Phases
  <2> QED
    BY <2>1, <2>5, <2>6 DEF Seen!LetGo, Seen!Pass, Phases, Stages
<1> QED
  BY <1>1, <1>2

LEMMA ServiceStep ==
    StateTypes /\ Shape /\ TrackerExact /\ CapInv /\ NoneLeft' /\ [Next]_vars
        => Seen!Next \/ Unseen
<1> SUFFICES ASSUME StateTypes, Shape, TrackerExact, CapInv, NoneLeft', [Next]_vars
             PROVE  Seen!Next \/ Unseen
  OBVIOUS
<1>1. ASSUME NEW b \in Backends, Start(b) \/ Shutdown(b) \/ FlusherExit(b)
      PROVE  Seen!Next \/ Unseen
  BY <1>1, LifeUnseen, PhaseMoves DEF Start, Shutdown, Seen!Next
<1>2. ASSUME NEW b \in Backends, acceptLoop(b) PROVE Seen!Next \/ Unseen
  BY <1>2, LoopUnseen, AcceptIsSeen DEF acceptLoop, Seen!Next
<1>3. ASSUME NEW b \in Backends, handleConn(b) PROVE Seen!Next \/ Unseen
  <2>1. CASE Banned(b) \/ DialFail(b) \/ PreambleFail(b)
    BY <2>1, GiveUpIsSeen DEF Banned, DialFail, PreambleFail, Seen!Next
  <2>2. CASE CheckCap(b)
    <3>1. loop[b] = "check" /\ (GiveUp(b, cur[b]) \/ StepTo(b, "dial"))
      BY <2>2 DEF CheckCap
    <3> QED
      BY <3>1, GiveUpIsSeen, LoopUnseen DEF Seen!Next
  <2>3. CASE inc(b)
    BY <2>3, IncIsSeen DEF Seen!Next
  <2> QED
    BY <2>1, <2>2, <2>3, <1>3, LoopUnseen DEF handleConn
<1>4. ASSUME NEW c \in Conns, Once(c) PROVE Seen!Next \/ Unseen
  <2>1. "client" \in Sides
    BY DEF Sides
  <2> QED
    BY <2>1, <1>4, PipeUnseen, ReleaseIsSeen DEF Once, Seen!Next
<1>5. ASSUME NEW c \in Conns, NEW side \in Sides, Pipe(c, side) \/ HangUp(<<c, side>>)
      PROVE  Seen!Next \/ Unseen
  BY <1>5, PipeUnseen, ReleaseIsSeen DEF Pipe, Seen!Next
<1>6. CASE UNCHANGED vars
  BY <1>6 DEF vars, Unseen, Phases, Phase, Stages, Stage, Counted, Spawned
<1> QED
  BY <1>1, <1>2, <1>3, <1>4, <1>5, <1>6 DEF Next

(* The backends implement the abstract service: only a backend that is up  *)
(* accepts, a connection takes a slot of its address at most once and      *)
(* gives it back before it is let go, the slots stay within the cap and    *)
(* one more for each other backend, and wg.Wait returns only when the      *)
(* backend has no connection left, so that a restart opens an empty one.   *)
THEOREM ServiceIsKept == Spec => IsService
<1>1. Init => Seen!Init
  <2> SUFFICES ASSUME Init PROVE Seen!Init
    OBVIOUS
  <2>1. \A b \in Backends : Phase(b) = "idle"
    BY DEF Init, Phase
  <2>2. \A c \in Conns : Stage(c) = "away"
    BY ConnsAssumption DEF Init, Stage, Counted, Spawned, NoPipes, Sides
  <2> QED
    BY <2>1, <2>2 DEF Init, Seen!Init
<1>2. GoroutineInv /\ TrackerExact /\ CapInv /\ SocketInv' /\ [Next]_vars
        => [Seen!Next]_Seen!serviceVars
  BY ServiceStep DEF GoroutineInv, SocketInv, Unseen, Phases, Stages, Seen!serviceVars
<1> QED
  BY <1>1, <1>2, SocketInvariant, TrackerExactness, SlotsInvariant, PTL
     DEF Spec, IsService, Seen!Spec
=============================================================================
