----------------------------- MODULE TcpBackend -----------------------------
(***************************************************************************)
(* The TCP side of internal/proxy: every running Backend (proxy.go) with   *)
(* its accept loop, its copy goroutines, its stats flusher, its WaitGroup  *)
(* and its force-close set, together with the per-IP connection tracker    *)
(* (conn.go) that all the backends share.                                  *)
(*                                                                         *)
(* The processes that interleave are, for each backend, the goroutine that *)
(* starts, restarts or shuts it down (one at a time: Manager hands a       *)
(* backend to one caller), its accept loop, which runs handleConn inline,  *)
(* its flusher, and two copy goroutines for each established connection.   *)
(* The environment connects, hangs up, is refused or times out at will.    *)
(***************************************************************************)
EXTENDS Integers, FiniteSets

CONSTANTS
    Backends,    \* the backends of the proxy
    Conns,       \* client connections; one may connect again once released
    IPs,         \* client addresses
    Ip,          \* the address each connection comes from
    MaxPerIP,    \* cfg.Security.MaxTCPConnsPerIP; 0 switches the cap off
    Stoppable,   \* the backends an operator restarts or shuts down
    NoConn,      \* "the accept loop handles no connection"
    NoBackend    \* "the connection is at no backend"

ASSUME BackendsAssumption == IsFiniteSet(Backends) /\ Backends # {}
ASSUME ConnsAssumption == IsFiniteSet(Conns) /\ NoConn \notin Conns
ASSUME NoBackendAssumption == NoBackend \notin Backends
ASSUME IpAssumption == Ip \in [Conns -> IPs]
ASSUME MaxAssumption == MaxPerIP \in Nat
ASSUME StoppableAssumption == Stoppable \subseteq Backends

VARIABLES
    life,      \* where the goroutine that starts or stops the backend is
    goal,      \* what it is doing that for: "boot", "restart" or "stop"
    ctxDone,   \* b.ctx has been cancelled
    listener,  \* b.tcpListener is open
    flusher,   \* the statsFlusher goroutine runs
    loop,      \* where the accept loop is, "off" when it does not run
    cur,       \* the connection handleConn is working on
    wg,        \* the counter of b.wg
    active,    \* b.active
    conns,     \* b.conns, the sockets forceCloseConns closes
    live,      \* ipConnTracker.live
    at,        \* the backend that accepted the connection
    open,      \* sockets this process has not closed
    gone,      \* open sockets whose remote end has hung up
    pipe,      \* the copy goroutine that reads from each side
    once       \* how far the once-function of closeBoth has got

lifeVars == <<life, goal, ctxDone, listener>>
connVars == <<at, open, gone, pipe, once>>
vars == <<life, goal, ctxDone, listener, flusher, loop, cur, wg, active,
          conns, live, at, open, gone, pipe, once>>

-----------------------------------------------------------------------------
(* Sockets. A connection has two: the accepted one and the dialled one.    *)

Sides == {"client", "backend"}
Sockets == Conns \X Sides
Client(c) == <<c, "client">>
Upstream(c) == <<c, "backend">>
Both(c) == {Client(c), Upstream(c)}

LifeStates == {"new", "bind", "up", "close", "drain", "force", "wait",
               "failed", "down", "dropped"}
LoopStates == {"off", "accept", "check", "dial", "preamble",
               "count", "track", "spawn"}
PipeStates == {"none", "copy", "closing", "done"}
OnceStates == {"no", "untrack", "dec", "active", "done"}

NoPipes == [side \in Sides |-> "none"]

(* The connection handleConn works on and the address it comes from.       *)
Handling(b) == cur[b] # NoConn
CurIp(b) == Ip[cur[b]]

-----------------------------------------------------------------------------
(* Every Backend exists and none has been started: newBackend.             *)
Init ==
    /\ life = [b \in Backends |-> "new"]
    /\ goal = [b \in Backends |-> "boot"]
    /\ ctxDone = [b \in Backends |-> FALSE]
    /\ listener = [b \in Backends |-> FALSE]
    /\ flusher = [b \in Backends |-> FALSE]
    /\ loop = [b \in Backends |-> "off"]
    /\ cur = [b \in Backends |-> NoConn]
    /\ wg = [b \in Backends |-> 0]
    /\ active = [b \in Backends |-> 0]
    /\ conns = [b \in Backends |-> {}]
    /\ live = [i \in IPs |-> 0]
    /\ at = [c \in Conns |-> NoBackend]
    /\ open = {}
    /\ gone = {}
    /\ pipe = [c \in Conns |-> NoPipes]
    /\ once = [c \in Conns |-> "no"]

-----------------------------------------------------------------------------
(* start: the flusher first, then the listener.                            *)

StartFlusher(b) ==
    /\ life[b] = "new"
    /\ life' = [life EXCEPT ![b] = "bind"]
    /\ flusher' = [flusher EXCEPT ![b] = TRUE]
    /\ wg' = [wg EXCEPT ![b] = @ + 1]
    /\ UNCHANGED <<goal, ctxDone, listener, loop, cur, active, conns, live, connVars>>

(* net.Listen succeeds and the accept loop is spawned.                     *)
BindOK(b) ==
    /\ life[b] = "bind"
    /\ life' = [life EXCEPT ![b] = "up"]
    /\ listener' = [listener EXCEPT ![b] = TRUE]
    /\ loop' = [loop EXCEPT ![b] = "accept"]
    /\ wg' = [wg EXCEPT ![b] = @ + 1]
    /\ UNCHANGED <<goal, ctxDone, flusher, cur, active, conns, live, connVars>>

(* net.Listen fails. At boot the caller logs the error and forgets the     *)
(* Backend; after a restart it stays in the manager's map, without a       *)
(* listener.                                                               *)
BindFail(b) ==
    /\ life[b] = "bind"
    /\ life' = [life EXCEPT ![b] = IF goal[b] = "boot" THEN "dropped" ELSE "failed"]
    /\ UNCHANGED <<goal, ctxDone, listener, flusher, loop, cur, wg, active, conns, live, connVars>>

-----------------------------------------------------------------------------
(* shutdown(grace), called for a removal or a process exit (goal "stop")   *)
(* or by restart (goal "restart").                                         *)

Cancel(b) ==
    /\ b \in Stoppable
    /\ life[b] \in {"up", "failed"}
    /\ \E g \in {"stop", "restart"} : goal' = [goal EXCEPT ![b] = g]
    /\ life' = [life EXCEPT ![b] = "close"]
    /\ ctxDone' = [ctxDone EXCEPT ![b] = TRUE]
    /\ UNCHANGED <<listener, flusher, loop, cur, wg, active, conns, live, connVars>>

CloseListener(b) ==
    /\ life[b] = "close"
    /\ life' = [life EXCEPT ![b] = "drain"]
    /\ listener' = [listener EXCEPT ![b] = FALSE]
    /\ UNCHANGED <<goal, ctxDone, flusher, loop, cur, wg, active, conns, live, connVars>>

(* The polling loop ends because b.active is zero ...                      *)
Settled(b) ==
    /\ life[b] = "drain"
    /\ active[b] = 0
    /\ life' = [life EXCEPT ![b] = "force"]
    /\ UNCHANGED <<goal, ctxDone, listener, flusher, loop, cur, wg, active, conns, live, connVars>>

(* ... or because the grace period is over.                                *)
GraceExpired(b) ==
    /\ life[b] = "drain"
    /\ active[b] > 0
    /\ life' = [life EXCEPT ![b] = "force"]
    /\ UNCHANGED <<goal, ctxDone, listener, flusher, loop, cur, wg, active, conns, live, connVars>>

ForceClose(b, sockets) ==
    /\ life[b] = "force"
    /\ life' = [life EXCEPT ![b] = "wait"]
    /\ open' = open \ sockets
    /\ gone' = gone \ sockets
    /\ conns' = [conns EXCEPT ![b] = {}]
    /\ UNCHANGED <<goal, ctxDone, listener, flusher, loop, cur, wg, active, live,
                   at, pipe, once>>

(* Variant: the set is emptied before its sockets are closed.              *)
forceCloseEmptied(b) == ForceClose(b, {})

forceCloseConns(b) == ForceClose(b, conns[b])

(* b.wg.Wait() returns; restart installs a fresh context and goes on to    *)
(* start, a removed backend is finished with.                              *)
WaitReturns(b) ==
    /\ life[b] = "wait"
    /\ wg[b] = 0
    /\ IF goal[b] = "restart"
         THEN /\ life' = [life EXCEPT ![b] = "new"]
              /\ ctxDone' = [ctxDone EXCEPT ![b] = FALSE]
         ELSE /\ life' = [life EXCEPT ![b] = "down"]
              /\ UNCHANGED ctxDone
    /\ UNCHANGED <<goal, listener, flusher, loop, cur, wg, active, conns, live, connVars>>

FlusherExit(b) ==
    /\ flusher[b]
    /\ ctxDone[b]
    /\ flusher' = [flusher EXCEPT ![b] = FALSE]
    /\ wg' = [wg EXCEPT ![b] = @ - 1]
    /\ UNCHANGED <<loop, cur, active, conns, live, lifeVars, connVars>>

-----------------------------------------------------------------------------
(* acceptLoop and handleConn, which runs inline: a backend handles one     *)
(* connection at a time until the copy goroutines have been spawned.       *)

Accept(b, c) ==
    /\ loop[b] = "accept"
    /\ listener[b]
    /\ at[c] = NoBackend
    /\ loop' = [loop EXCEPT ![b] = "check"]
    /\ cur' = [cur EXCEPT ![b] = c]
    /\ at' = [at EXCEPT ![c] = b]
    /\ open' = open \union {Client(c)}
    /\ UNCHANGED <<flusher, wg, active, conns, live, gone, pipe, once, lifeVars>>

(* Accept returns an error and the loop gives up: the listener is closed,  *)
(* or the error is another one and the context is cancelled.               *)
LoopReturns(b, done) ==
    /\ loop[b] = "accept"
    /\ ~listener[b] \/ ctxDone[b]
    /\ loop' = [loop EXCEPT ![b] = "off"]
    /\ wg' = [wg EXCEPT ![b] = @ - done]
    /\ UNCHANGED <<flusher, cur, active, conns, live, lifeVars, connVars>>

(* Variant: the loop returns without wg.Done.                              *)
AcceptLoopExitNoDone(b) == LoopReturns(b, 0)

AcceptLoopExit(b) == LoopReturns(b, 1)

(* handleConn closes the given sockets of connection c and returns.        *)
Abandon(b, c, sockets) ==
    /\ loop' = [loop EXCEPT ![b] = "accept"]
    /\ cur' = [cur EXCEPT ![b] = NoConn]
    /\ at' = [at EXCEPT ![c] = NoBackend]
    /\ open' = open \ sockets
    /\ gone' = gone \ sockets
    /\ UNCHANGED <<flusher, wg, active, conns, live, pipe, once, lifeVars>>

(* Variant: only the accepted socket is closed.                            *)
GiveUpClientOnly(b, c) == Abandon(b, c, {Client(c)})

(* What has been opened for c is closed.                                   *)
GiveUp(b, c) == Abandon(b, c, Both(c))

(* handleConn goes on to its next step and changes nothing else.           *)
StepTo(b, pc) ==
    /\ loop' = [loop EXCEPT ![b] = pc]
    /\ UNCHANGED <<flusher, cur, wg, active, conns, live, lifeVars, connVars>>

(* Variant: one too many.                                                  *)
AtCapOffByOne(b) == MaxPerIP > 0 /\ live[CurIp(b)] > MaxPerIP

AtCap(b) == MaxPerIP > 0 /\ live[CurIp(b)] >= MaxPerIP

(* The ban check, whose answer is the store's.                             *)
Banned(b) ==
    /\ loop[b] = "check"
    /\ GiveUp(b, cur[b])

(* The per-IP cap: tracker.count is read here, tracker.inc comes later.    *)
CheckCap(b) ==
    /\ loop[b] = "check"
    /\ IF AtCap(b) THEN GiveUp(b, cur[b]) ELSE StepTo(b, "dial")

(* The dial runs under b.ctx: it cannot succeed once that is cancelled.    *)
DialOK(b) ==
    /\ loop[b] = "dial"
    /\ ~ctxDone[b]
    /\ loop' = [loop EXCEPT ![b] = "preamble"]
    /\ open' = open \union {Upstream(cur[b])}
    /\ UNCHANGED <<flusher, cur, wg, active, conns, live, at, gone, pipe, once, lifeVars>>

DialFail(b) ==
    /\ loop[b] = "dial"
    /\ GiveUp(b, cur[b])

(* forwardPreamble, then b.active.Add(1).                                  *)
PreambleOK(b) ==
    /\ loop[b] = "preamble"
    /\ loop' = [loop EXCEPT ![b] = "count"]
    /\ active' = [active EXCEPT ![b] = @ + 1]
    /\ UNCHANGED <<flusher, cur, wg, conns, live, lifeVars, connVars>>

PreambleFail(b) ==
    /\ loop[b] = "preamble"
    /\ GiveUp(b, cur[b])

(* tracker.inc                                                             *)
inc(b) ==
    /\ loop[b] = "count"
    /\ loop' = [loop EXCEPT ![b] = "track"]
    /\ live' = [live EXCEPT ![CurIp(b)] = @ + 1]
    /\ UNCHANGED <<flusher, cur, wg, active, conns, lifeVars, connVars>>

(* trackConn(conn)                                                         *)
TrackClient(b) ==
    /\ loop[b] = "track"
    /\ loop' = [loop EXCEPT ![b] = "spawn"]
    /\ conns' = [conns EXCEPT ![b] = @ \union {Client(cur[b])}]
    /\ UNCHANGED <<flusher, cur, wg, active, live, lifeVars, connVars>>

(* trackConn(backend), then the copy goroutines, counted in the WaitGroup; *)
(* handleConn returns to the accept loop.                                  *)
SpawnCounted(b, n) ==
    /\ loop[b] = "spawn"
    /\ loop' = [loop EXCEPT ![b] = "accept"]
    /\ conns' = [conns EXCEPT ![b] = @ \union {Upstream(cur[b])}]
    /\ wg' = [wg EXCEPT ![b] = @ + n]
    /\ pipe' = [pipe EXCEPT ![cur[b]] = [side \in Sides |-> "copy"]]
    /\ cur' = [cur EXCEPT ![b] = NoConn]
    /\ UNCHANGED <<flusher, active, live, at, open, gone, once, lifeVars>>

(* Variant: one wg.Add(1) for the two goroutines.                          *)
TrackAndSpawnOneAdd(b) == SpawnCounted(b, 1)

TrackAndSpawn(b) == SpawnCounted(b, 2)

-----------------------------------------------------------------------------
(* The copy goroutines and closeBoth.                                      *)

(* The remote end of a socket hangs up.                                    *)
HangUp(s) ==
    /\ s \in open \ gone
    /\ gone' = gone \union {s}
    /\ UNCHANGED <<flusher, loop, cur, wg, active, conns, live, at, open, pipe, once, lifeVars>>

PipeReturns(c, side) ==
    /\ pipe[c][side] = "copy"
    /\ pipe' = [pipe EXCEPT ![c][side] = "closing"]
    /\ UNCHANGED <<flusher, loop, cur, wg, active, conns, live, at, open, gone, once, lifeVars>>

(* A read returns an error because the socket is closed on either end.     *)
ReadFails(c, side) ==
    /\ <<c, side>> \notin open \ gone
    /\ PipeReturns(c, side)

(* The idle deadline passes, or a write to the other side fails.           *)
TimesOut(c, side) ==
    /\ <<c, side>> \in open \ gone
    /\ PipeReturns(c, side)

(* once.Do: the first copy goroutine to get here closes the sockets ...    *)
CloseOnce(c, sockets) ==
    /\ \E side \in Sides : pipe[c][side] = "closing"
    /\ once[c] = "no"
    /\ once' = [once EXCEPT ![c] = "untrack"]
    /\ open' = open \ sockets
    /\ gone' = gone \ sockets
    /\ UNCHANGED <<flusher, loop, cur, wg, active, conns, live, at, pipe, lifeVars>>

(* Variant: only the client's socket is closed.                            *)
closeBothClientOnly(c) == CloseOnce(c, {Client(c)})

closeBoth(c) == CloseOnce(c, Both(c))

(* ... takes them out of the force-close set ...                           *)
untrackConn(c) ==
    /\ once[c] = "untrack"
    /\ once' = [once EXCEPT ![c] = "dec"]
    /\ conns' = [conns EXCEPT ![at[c]] = @ \ Both(c)]
    /\ UNCHANGED <<flusher, loop, cur, wg, active, live, at, open, gone, pipe, lifeVars>>

(* Variant: the entry is always deleted.                                   *)
decDeletes(c) ==
    /\ once[c] = "dec"
    /\ once' = [once EXCEPT ![c] = "active"]
    /\ live' = [live EXCEPT ![Ip[c]] = 0]
    /\ UNCHANGED <<flusher, loop, cur, wg, active, conns, at, open, gone, pipe, lifeVars>>

(* ... gives the address its slot back (an entry that reaches zero is      *)
(* deleted, and decrementing a missing one does nothing) ...               *)
dec(c) ==
    /\ once[c] = "dec"
    /\ once' = [once EXCEPT ![c] = "active"]
    /\ live' = [live EXCEPT ![Ip[c]] = IF @ > 0 THEN @ - 1 ELSE 0]
    /\ UNCHANGED <<flusher, loop, cur, wg, active, conns, at, open, gone, pipe, lifeVars>>

(* Variant: b.active is not decremented.                                   *)
DeactivateSkipped(c) ==
    /\ once[c] = "active"
    /\ once' = [once EXCEPT ![c] = "done"]
    /\ UNCHANGED <<flusher, loop, cur, wg, active, conns, live, at, open, gone, pipe, lifeVars>>

(* ... and leaves b.active.                                                *)
Deactivate(c) ==
    /\ once[c] = "active"
    /\ once' = [once EXCEPT ![c] = "done"]
    /\ active' = [active EXCEPT ![at[c]] = @ - 1]
    /\ UNCHANGED <<flusher, loop, cur, wg, conns, live, at, open, gone, pipe, lifeVars>>

(* The copy goroutine of the other side has called wg.Done.                *)
LastPipe(c, side) == \A other \in Sides \ {side} : pipe[c][other] = "done"

(* once.Do holds the second goroutine until the function has returned;     *)
(* then each one calls wg.Done. The last one releases the connection.      *)
PipeDone(c, side) ==
    /\ pipe[c][side] = "closing"
    /\ once[c] = "done"
    /\ wg' = [wg EXCEPT ![at[c]] = @ - 1]
    /\ IF LastPipe(c, side)
         THEN /\ pipe' = [pipe EXCEPT ![c] = NoPipes]
              /\ once' = [once EXCEPT ![c] = "no"]
              /\ at' = [at EXCEPT ![c] = NoBackend]
         ELSE /\ pipe' = [pipe EXCEPT ![c][side] = "done"]
              /\ UNCHANGED <<once, at>>
    /\ UNCHANGED <<flusher, loop, cur, active, conns, live, open, gone, lifeVars>>

-----------------------------------------------------------------------------
Shutdown(b) == Cancel(b) \/ CloseListener(b) \/ Settled(b) \/ GraceExpired(b)
               \/ forceCloseConns(b) \/ WaitReturns(b)

Start(b) == StartFlusher(b) \/ BindOK(b) \/ BindFail(b)

acceptLoop(b) == (\E c \in Conns : Accept(b, c)) \/ AcceptLoopExit(b)

handleConn(b) == Banned(b) \/ CheckCap(b) \/ DialOK(b) \/ DialFail(b) \/ PreambleOK(b)
                 \/ PreambleFail(b) \/ inc(b) \/ TrackClient(b) \/ TrackAndSpawn(b)

Once(c) == closeBoth(c) \/ untrackConn(c) \/ dec(c) \/ Deactivate(c)

Pipe(c, side) == ReadFails(c, side) \/ TimesOut(c, side) \/ PipeDone(c, side)

Next ==
    \/ \E b \in Backends : Start(b) \/ Shutdown(b) \/ FlusherExit(b)
                           \/ acceptLoop(b) \/ handleConn(b)
    \/ \E c \in Conns : Once(c) \/ \E side \in Sides : Pipe(c, side) \/ HangUp(<<c, side>>)

(* What the Go scheduler and the code's own deadlines guarantee: a         *)
(* goroutine that can go on does. The grace period, the dial (5 s) and the *)
(* handshake read (10 s) end; a read on a dead socket returns. Nobody has  *)
(* to connect, to hang up, to fall idle or to ask for a shutdown.          *)
Fairness ==
    /\ \A b \in Backends :
         /\ WF_vars(Start(b))
         /\ WF_vars(CloseListener(b) \/ Settled(b) \/ GraceExpired(b)
                    \/ forceCloseConns(b) \/ WaitReturns(b))
         /\ WF_vars(FlusherExit(b))
         /\ WF_vars(~listener[b] /\ AcceptLoopExit(b))
         /\ WF_vars(handleConn(b))
    /\ \A c \in Conns :
         /\ WF_vars(Once(c))
         /\ \A side \in Sides : /\ WF_vars(ReadFails(c, side))
                                /\ WF_vars(PipeDone(c, side))

Spec == Init /\ [][Next]_vars
FairSpec == Spec /\ Fairness

-----------------------------------------------------------------------------
(* Properties.                                                             *)

(* Every variable ranges over the values its Go declaration admits.        *)
StateTypes ==
    /\ life \in [Backends -> LifeStates]
    /\ goal \in [Backends -> {"boot", "restart", "stop"}]
    /\ ctxDone \in [Backends -> BOOLEAN]
    /\ listener \in [Backends -> BOOLEAN]
    /\ flusher \in [Backends -> BOOLEAN]
    /\ loop \in [Backends -> LoopStates]
    /\ cur \in [Backends -> Conns \union {NoConn}]
    /\ wg \in [Backends -> Int]
    /\ active \in [Backends -> Int]
    /\ conns \in [Backends -> SUBSET Sockets]
    /\ live \in [IPs -> Nat]
    /\ at \in [Conns -> Backends \union {NoBackend}]
    /\ open \in SUBSET Sockets
    /\ gone \in SUBSET Sockets
    /\ pipe \in [Conns -> [Sides -> PipeStates]]
    /\ once \in [Conns -> OnceStates]

(* The type invariant: the counters, signed in the code, never go negative *)
(* either (a negative WaitGroup panics, a negative b.active ends a drain). *)
TypeOK ==
    /\ StateTypes
    /\ wg \in [Backends -> Nat]
    /\ active \in [Backends -> Nat]

(* The copy goroutines of c have been spawned.                             *)
Spawned(c) == pipe[c]["client"] # "none"

(* c is between tracker.inc and tracker.dec.                               *)
Counted(c) ==
    \/ \E b \in Backends : cur[b] = c /\ loop[b] \in {"track", "spawn"}
    \/ Spawned(c) /\ once[c] \in {"no", "untrack", "dec"}

(* c is between b.active.Add(1) and b.active.Add(-1).                      *)
Active(c) ==
    \/ \E b \in Backends : cur[b] = c /\ loop[b] \in {"count", "track", "spawn"}
    \/ Spawned(c) /\ once[c] # "done"

CountedOf(i) == {c \in Conns : Ip[c] = i /\ Counted(c)}
ActiveAt(b) == {c \in Conns : at[c] = b /\ Active(c)}

(* The live per-IP count stays accurate over the whole connection lifetime *)
(* (the comment on closeBoth): it is the number of connections of that     *)
(* address that have been counted and not yet released.                    *)
TrackerExact ==
    \A i \in IPs : live[i] = Cardinality(CountedOf(i))

(* b.active, which shutdown polls to decide that a drain is over, is the   *)
(* number of the backend's connections past their preamble.                *)
ActiveExact ==
    \A b \in Backends : active[b] = Cardinality(ActiveAt(b))

(* The copy goroutines of b that have not called wg.Done.                  *)
Running(b) ==
    {s \in Sockets : at[s[1]] = b /\ pipe[s[1]][s[2]] \in {"copy", "closing"}}

(* The WaitGroup counts the goroutines of the backend that still run, no   *)
(* more (wg.Wait would hang) and no fewer (it would return too early).     *)
WgExact ==
    \A b \in Backends :
        wg[b] = (IF flusher[b] THEN 1 ELSE 0) + (IF loop[b] # "off" THEN 1 ELSE 0)
                + Cardinality(Running(b))

(* What the goroutines of a backend count together, while several of them  *)
(* add, release and wait, is exact, in states of the declared types.       *)
Inv == TypeOK /\ TrackerExact /\ ActiveExact /\ WgExact

(* The cap is checked before the dial and counted after it, by as many     *)
(* accept loops as there are backends: an address can exceed its cap, but  *)
(* by no more than one connection for each other backend.                  *)
CapBound ==
    MaxPerIP > 0 =>
        \A i \in IPs : live[i] <= MaxPerIP + Cardinality(Backends) - 1

(* When wg.Wait has returned nothing of the backend is left: no goroutine, *)
(* no connection, no open or tracked socket. The context of a restarted    *)
(* backend is only replaced then, so no goroutine of the old life reads    *)
(* the new one.                                                            *)
Quiet(b) ==
    /\ ~flusher[b] /\ loop[b] = "off" /\ ~listener[b]
    /\ active[b] = 0 /\ conns[b] = {}
    /\ \A c \in Conns : at[c] # b

QuietAfterWait ==
    \A b \in Backends : life[b] \in {"new", "down"} => Quiet(b)

(* handleConn runs inline in the accept loop, so at most one connection of *)
(* a backend can slip past forceCloseConns with both its sockets open.     *)
AtMostOneEscapes ==
    \A b \in Backends :
        life[b] = "wait" =>
            \A c1, c2 \in Conns :
                /\ at[c1] = b /\ Both(c1) \subseteq open
                /\ at[c2] = b /\ Both(c2) \subseteq open
                => c1 = c2

(* A socket that is open, or tracked, belongs to a connection some backend *)
(* still has: no path out of handleConn or closeBoth leaks one.            *)
NoSocketLeak ==
    \A c \in Conns :
        at[c] = NoBackend =>
            /\ Both(c) \intersect open = {}
            /\ \A b \in Backends : Both(c) \intersect conns[b] = {}

(* What is seen of a backend and of a connection from outside ...          *)
Phase(b) ==
    IF listener[b] THEN "up"
    ELSE IF life[b] \in {"drain", "force", "wait"} THEN "stopping" ELSE "idle"

Stage(c) ==
    IF Counted(c) THEN "served"
    ELSE IF Spawned(c) THEN "leaving"
    ELSE IF at[c] # NoBackend THEN "setup" ELSE "away"

Seen == INSTANCE Service WITH
            phase <- [b \in Backends |-> Phase(b)],
            host <- at,
            stage <- [c \in Conns |-> Stage(c)]

(* ... is the abstract service: connections are accepted, take a slot of   *)
(* their address, give it back once and are let go, within the cap, and a  *)
(* shutdown is over only when the backend has no connection left.          *)
IsService == Seen!Spec

(* A connection one side of which has hung up is released, with its slot   *)
(* in the per-IP count, whatever the other side does.                      *)
HangUpReleases ==
    \A c \in Conns :
        (Spawned(c) /\ \E s \in Both(c) : s \in gone) ~> (at[c] = NoBackend)

(* A connection that was registered after forceCloseConns had run, and     *)
(* that nothing will ever close from this side.                            *)
Escaped(b) ==
    /\ life[b] = "wait"
    /\ loop[b] = "off"
    /\ \E c \in Conns : /\ at[c] = b
                        /\ Both(c) \subseteq open
                        /\ pipe[c] = [side \in Sides |-> "copy"]

(* A shutdown returns, unless a connection has escaped it: nothing else    *)
(* can hold wg.Wait.                                                       *)
ShutdownReturnsOrEscape ==
    \A b \in Backends : ctxDone[b] ~> (life[b] \in {"new", "down"} \/ Escaped(b))
=============================================================================
