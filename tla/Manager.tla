------------------------------ MODULE Manager ------------------------------
(***************************************************************************)
(* internal/proxy/manager.go: the registry of running backends, its mutex, *)
(* and the rows the backends persist in (storage.go), as they are used by  *)
(* the goroutines of cmd/proxygo: the one that boots and, on SIGTERM,      *)
(* shuts the manager down, and the Telegram bot, which carries out one     *)
(* administrator command at a time. The process may be killed between any  *)
(* two steps and started again on the same database.                       *)
(*                                                                         *)
(* A runtime Backend is reduced to whether its TCP listener and its UDP    *)
(* forwarder are open and to the copy of its row it carries; TcpBackend    *)
(* and UDPForwarder model what happens inside.                             *)
(***************************************************************************)
EXTENDS Integers, FiniteSets, FiniteSetsExt

CONSTANTS
    Names,        \* backend names an administrator may use
    Key,          \* strings.ToLower on Names
    Ports,        \* TCP and UDP port numbers
    Modes,        \* forward modes
    Raw,          \* model.ForwardRaw, the mode of a new backend
    NoPort,       \* UDP is not enabled
    MaxId,        \* bound: rows ever inserted (ids are never reused)
    MaxBoots,     \* bound: times the process is started
    Commands,     \* the commands the administrator gives
    StoreMayFail, \* a write to the database may return an error
    BindMayFail   \* a port may be taken by another program

Ids == 1..MaxId
NoId == 0
Keys == {Key[n] : n \in Names}
UdpPorts == Ports \union {NoPort}
Rows == [name : Names, port : Ports, udp : UdpPorts, mode : Modes]
NoRow == [name |-> "", port |-> NoPort, udp |-> NoPort, mode |-> Raw]

AllCommands == {"add", "remove", "remove id", "remove unknown", "restart",
                "add-udp", "remove-udp", "forward"}

ASSUME KeyAssumption == \A n \in Names : Key[n] \in Names
ASSUME RawAssumption == Raw \in Modes
ASSUME NoPortAssumption == NoPort \notin Ports
ASSUME BoundsAssumption == MaxId \in Nat /\ MaxBoots \in Nat
ASSUME CommandsAssumption == Commands \subseteq AllCommands
ASSUME FlagsAssumption == StoreMayFail \in BOOLEAN /\ BindMayFail \in BOOLEAN

VARIABLES
    rows,     \* table backends: NoRow where there is none
    lastId,   \* its AUTOINCREMENT counter
    model,    \* Backend.model, the copy of the row a runtime Backend holds
    life,     \* "none", "running", "stopped": the TCP listener
    fwd,      \* Backend.udpFwd is open
    reg,      \* Manager.backends: key -> id of the Backend, NoId for none
    mu,       \* holder of Manager.mu: "free", "main", "bot", or "lost" when a
              \* goroutine returned without unlocking it
    main,     \* where the main goroutines are
    todo,     \* rows Manager.Start, backends Manager.Shutdown still has to do
    bot,      \* the command in progress: where it is, its backend, its argument
    boots     \* processes started so far

store == <<rows, lastId>>
runtime == <<model, life, fwd>>
vars == <<rows, lastId, model, life, fwd, reg, mu, main, todo, bot, boots>>

Idle == [pc |-> "idle", id |-> NoId, arg |-> NoPort]
Off == [pc |-> "off", id |-> NoId, arg |-> NoPort]
Job(pc, id, arg) == [pc |-> pc, id |-> id, arg |-> arg]

(* Nothing of a process that is not running: no Backend, no registry.      *)
NoRuntime ==
    /\ model' = [i \in Ids |-> NoRow]
    /\ life' = [i \in Ids |-> "none"]
    /\ fwd' = [i \in Ids |-> FALSE]
    /\ reg' = [k \in Keys |-> NoId]
    /\ mu' = "free"
    /\ todo' = {}
    /\ bot' = Off

Init ==
    /\ rows = [i \in Ids |-> NoRow]
    /\ lastId = 0
    /\ model = [i \in Ids |-> NoRow]
    /\ life = [i \in Ids |-> "none"]
    /\ fwd = [i \in Ids |-> FALSE]
    /\ reg = [k \in Keys |-> NoId]
    /\ mu = "free"
    /\ main = "off"
    /\ todo = {}
    /\ bot = Off
    /\ boots = 0

-----------------------------------------------------------------------------
(* Lookups.                                                                *)

Stored == {i \in Ids : rows[i] # NoRow}
Mapped == {reg[k] : k \in Keys} \ {NoId}

(* Manager.Get                                                             *)
Get(n) == reg[Key[n]]
existsLocked(n) == Get(n) # NoId

(* Variant: only backends that are listening count.                        *)
portFreeRunning(p) ==
    \A i \in Mapped : life[i] = "running" => p # model[i].port /\ p # model[i].udp

portFreeLocked(p) == \A i \in Mapped : p # model[i].port /\ p # model[i].udp

(* The operating system's view: no socket of this process has the port.    *)
TcpFree(p) == \A i \in Ids : life[i] = "running" => model[i].port # p
UdpFree(p) == \A i \in Ids : fwd[i] => model[i].udp # p

(* What a bind can return.                                                 *)
Outcomes(free) ==
    (IF free THEN {TRUE} ELSE {FALSE}) \union (IF BindMayFail THEN {FALSE} ELSE {})

(* Statements of the store. An UPDATE of a missing row succeeds and changes *)
(* nothing; a DELETE may fail.                                             *)
AddBackend(row) ==
    /\ \A i \in Stored : rows[i].name # row.name
    /\ lastId' = lastId + 1
    /\ rows' = [rows EXCEPT ![lastId + 1] = row]

UpdateBackendUDP(i, u) ==
    rows' = [rows EXCEPT ![i].udp = IF i \in Stored THEN u ELSE @]

ClearBackendUDP(i) == rows' = [rows EXCEPT ![i].udp = NoPort]

UpdateBackendForwardMode(i, m) ==
    rows' = [rows EXCEPT ![i].mode = IF i \in Stored THEN m ELSE @]

DeleteBackend(i) ==
    \/ rows' = [rows EXCEPT ![i] = NoRow]
    \/ StoreMayFail /\ UNCHANGED rows

(* Backend.start for a Backend that holds row r: TCP first; if that works, *)
(* UDP when r enables it, whose failure is only logged.                    *)
Started(i, r) ==
    /\ \E ok \in (IF r.udp = NoPort THEN {FALSE} ELSE Outcomes(UdpFree(r.udp))) :
           fwd' = [fwd EXCEPT ![i] = ok]
    /\ life' = [life EXCEPT ![i] = "running"]
    /\ model' = [model EXCEPT ![i] = r]

-----------------------------------------------------------------------------
(* The process: Manager.Start, the signal, Manager.Shutdown, a crash.      *)

Boot ==
    /\ main = "off"
    /\ boots < MaxBoots
    /\ boots' = boots + 1
    /\ main' = "boot"
    /\ mu' = "main"
    /\ todo' = Stored
    /\ UNCHANGED <<rows, lastId, model, life, fwd, reg, bot>>

(* One iteration of the loop of Manager.Start, in the order of the ids; a  *)
(* backend that does not start is skipped.                                 *)
BootBackend(i, registered) ==
    /\ main = "boot"
    /\ todo # {} /\ i = Min(todo)
    /\ todo' = todo \ {i}
    /\ \E ok \in Outcomes(TcpFree(rows[i].port)) :
         /\ IF ok THEN Started(i, rows[i]) ELSE UNCHANGED runtime
         /\ reg' = IF ok /\ registered THEN [reg EXCEPT ![Key[rows[i].name]] = i] ELSE reg
    /\ UNCHANGED <<rows, lastId, mu, main, bot, boots>>

(* Variant: the started backend is not registered.                         *)
StartOneUnregistered(i) == BootBackend(i, FALSE)

StartOne(i) == BootBackend(i, TRUE)

BootDone ==
    /\ main = "boot"
    /\ todo = {}
    /\ main' = "serve"
    /\ mu' = "free"
    /\ bot' = Idle
    /\ UNCHANGED <<rows, lastId, model, life, fwd, reg, todo, boots>>

(* SIGTERM: the root context is cancelled.                                 *)
Signal ==
    /\ main = "serve"
    /\ main' = "signal"
    /\ UNCHANGED <<rows, lastId, model, life, fwd, reg, mu, todo, bot, boots>>

(* Manager.Shutdown takes the lock and starts one shutdown per backend.    *)
ShutdownBegin ==
    /\ main = "signal"
    /\ mu = "free"
    /\ mu' = "main"
    /\ main' = "drain"
    /\ todo' = Mapped
    /\ UNCHANGED <<rows, lastId, model, life, fwd, reg, bot, boots>>

ShutdownOne(i) ==
    /\ main = "drain"
    /\ i \in todo
    /\ todo' = todo \ {i}
    /\ life' = [life EXCEPT ![i] = "stopped"]
    /\ fwd' = [fwd EXCEPT ![i] = FALSE]
    /\ UNCHANGED <<rows, lastId, model, reg, mu, main, bot, boots>>

(* Every listener is closed. The wait for what the shutdowns still drain   *)
(* ends when they have returned or, if one does not, when the context has  *)
(* expired.                                                                *)
ShutdownEnd ==
    /\ main = "drain"
    /\ todo = {}
    /\ main' = "done"
    /\ mu' = "free"
    /\ UNCHANGED <<rows, lastId, model, life, fwd, reg, todo, bot, boots>>

(* The bot's loop sees the cancelled context.                              *)
BotExit ==
    /\ bot.pc = "idle"
    /\ main \in {"signal", "drain", "done"}
    /\ bot' = Off
    /\ UNCHANGED <<rows, lastId, model, life, fwd, reg, mu, main, todo, boots>>

(* g.Wait returns when both have ended; the process exits.                 *)
Exit ==
    /\ main = "done"
    /\ bot.pc = "off"
    /\ main' = "off"
    /\ NoRuntime
    /\ UNCHANGED <<rows, lastId, boots>>

(* The process is killed: only the database is left.                       *)
Crash ==
    /\ main # "off"
    /\ main' = "off"
    /\ NoRuntime
    /\ UNCHANGED <<rows, lastId, boots>>

-----------------------------------------------------------------------------
(* The operations of Manager, which the bot calls. The lock is free, so an *)
(* operation that takes it can go on.                                      *)
Unlocked == mu = "free"

(* The operation returns, and the command to the bot's loop.               *)
Return == bot' = Idle

(* Manager.Add up to AddBackend: under the lock, the name and the TCP port *)
(* are checked against the registry, not the UDP port; the name must also  *)
(* be new to the table, whose UNIQUE tells cases apart.                    *)
AddPersist(n, p, u) ==
    /\ Unlocked
    /\ ~existsLocked(n)
    /\ portFreeLocked(p)
    /\ lastId < MaxId
    /\ AddBackend([name |-> n, port |-> p, udp |-> u, mode |-> Raw])
    /\ mu' = "bot"
    /\ bot' = Job("add start", lastId + 1, NoPort)
    /\ UNCHANGED <<model, life, fwd, reg, main, todo, boots>>

(* Variant: the lock is not released.                                      *)
AddRollbackLocked ==
    /\ bot.pc = "add start"
    /\ FALSE \in Outcomes(TcpFree(rows[bot.id].port))
    /\ rows' = [rows EXCEPT ![bot.id] = NoRow]
    /\ Return
    /\ UNCHANGED <<lastId, model, life, fwd, reg, mu, main, todo, boots>>

(* rt.start fails: the row is deleted again, unless that fails too (its    *)
(* error is ignored).                                                      *)
AddRollback ==
    /\ bot.pc = "add start"
    /\ FALSE \in Outcomes(TcpFree(rows[bot.id].port))
    /\ DeleteBackend(bot.id)
    /\ mu' = "free"
    /\ Return
    /\ UNCHANGED <<lastId, model, life, fwd, reg, main, todo, boots>>

AddStart ==
    /\ bot.pc = "add start"
    /\ TRUE \in Outcomes(TcpFree(rows[bot.id].port))
    /\ Started(bot.id, rows[bot.id])
    /\ bot' = Job("add publish", bot.id, NoPort)
    /\ UNCHANGED <<rows, lastId, reg, mu, main, todo, boots>>

AddPublish ==
    /\ bot.pc = "add publish"
    /\ reg' = [reg EXCEPT ![Key[model[bot.id].name]] = bot.id]
    /\ mu' = "free"
    /\ Return
    /\ UNCHANGED <<rows, lastId, model, life, fwd, main, todo, boots>>

RemoveNamed(n, registry, next) ==
    /\ Unlocked
    /\ existsLocked(n)
    /\ reg' = registry
    /\ bot' = Job(next, Get(n), NoPort)
    /\ UNCHANGED <<rows, lastId, model, life, fwd, mu, main, todo, boots>>

Unregistered(n) == [reg EXCEPT ![Key[n]] = NoId]

(* Variants: the registry keeps the entry; the backend is not shut down.   *)
RemoveLookupKept(n) == RemoveNamed(n, reg, "remove stop")
RemoveLookupUnstopped(n) == RemoveNamed(n, Unregistered(n), "remove delete")

(* Manager.Remove by name: out of the registry first ...                   *)
RemoveLookup(n) == RemoveNamed(n, Unregistered(n), "remove stop")

(* ... by id: the key deleted is the text of the id, which no backend has, *)
(* so the registry keeps the entry ...                                     *)
RemoveLookupId(i) ==
    /\ Unlocked
    /\ i \in Mapped
    /\ bot' = Job("remove stop", i, NoPort)
    /\ UNCHANGED <<rows, lastId, model, life, fwd, reg, mu, main, todo, boots>>

(* ... an unknown name or id: ErrNotFound, with the lock still held ...    *)
RemoveNotFound ==
    /\ Unlocked
    /\ mu' = "lost"
    /\ Return
    /\ UNCHANGED <<rows, lastId, model, life, fwd, reg, main, todo, boots>>

(* ... then the whole of rt.shutdown, with its wait for the connections,   *)
(* which need not end (see Fairness) ...                                   *)
RemoveStop ==
    /\ bot.pc = "remove stop"
    /\ life' = [life EXCEPT ![bot.id] = "stopped"]
    /\ fwd' = [fwd EXCEPT ![bot.id] = FALSE]
    /\ bot' = Job("remove delete", bot.id, NoPort)
    /\ UNCHANGED <<rows, lastId, model, reg, mu, main, todo, boots>>

(* ... and the row last.                                                   *)
RemoveDelete ==
    /\ bot.pc = "remove delete"
    /\ DeleteBackend(bot.id)
    /\ Return
    /\ UNCHANGED <<lastId, model, life, fwd, reg, mu, main, todo, boots>>

(* Manager.Restart: the lock is only held for the lookup.                  *)
RestartLookup(n) ==
    /\ Unlocked
    /\ existsLocked(n)
    /\ bot' = Job("restart stop", Get(n), NoPort)
    /\ UNCHANGED <<rows, lastId, model, life, fwd, reg, mu, main, todo, boots>>

RestartStop ==
    /\ bot.pc = "restart stop"
    /\ life' = [life EXCEPT ![bot.id] = "stopped"]
    /\ fwd' = [fwd EXCEPT ![bot.id] = FALSE]
    /\ bot' = Job("restart start", bot.id, NoPort)
    /\ UNCHANGED <<rows, lastId, model, reg, mu, main, todo, boots>>

(* A backend that does not come back stays registered, without listeners.  *)
RestartStart ==
    /\ bot.pc = "restart start"
    /\ \E ok \in Outcomes(TcpFree(model[bot.id].port)) :
         IF ok THEN Started(bot.id, model[bot.id]) ELSE UNCHANGED runtime
    /\ Return
    /\ UNCHANGED <<rows, lastId, reg, mu, main, todo, boots>>

(* Manager.AddUDP: lookup and port check under the lock ...                *)
AddUDPCheck(n, u) ==
    /\ Unlocked
    /\ existsLocked(n)
    /\ model[Get(n)].udp = NoPort
    /\ portFreeLocked(u)
    /\ bot' = Job("udp persist", Get(n), u)
    /\ UNCHANGED <<rows, lastId, model, life, fwd, reg, mu, main, todo, boots>>

(* ... the row, then the copy ...                                          *)
AddUDPPersist ==
    /\ bot.pc = "udp persist"
    /\ UpdateBackendUDP(bot.id, bot.arg)
    /\ model' = [model EXCEPT ![bot.id].udp = bot.arg]
    /\ bot' = Job("udp start", bot.id, bot.arg)
    /\ UNCHANGED <<lastId, life, fwd, reg, mu, main, todo, boots>>

(* ... and the forwarder, which need not start.                            *)
AddUDPStart ==
    /\ bot.pc = "udp start"
    /\ \E ok \in Outcomes(UdpFree(bot.arg)) : fwd' = [fwd EXCEPT ![bot.id] = ok]
    /\ Return
    /\ UNCHANGED <<rows, lastId, model, life, reg, mu, main, todo, boots>>

(* Manager.RemoveUDP: the forwarder and the copy, then the row.            *)
RemoveUDPClose(n) ==
    /\ Unlocked
    /\ existsLocked(n)
    /\ model[Get(n)].udp # NoPort
    /\ fwd' = [fwd EXCEPT ![Get(n)] = FALSE]
    /\ model' = [model EXCEPT ![Get(n)].udp = NoPort]
    /\ bot' = Job("udp clear", Get(n), NoPort)
    /\ UNCHANGED <<rows, lastId, life, reg, mu, main, todo, boots>>

RemoveUDPClear ==
    /\ bot.pc = "udp clear"
    /\ ClearBackendUDP(bot.id)
    /\ Return
    /\ UNCHANGED <<lastId, model, life, fwd, reg, mu, main, todo, boots>>

(* Variant: the row is not changed.                                        *)
ForwardVolatile(n, m) ==
    /\ Unlocked
    /\ existsLocked(n)
    /\ bot' = Job("forward set", Get(n), m)
    /\ UNCHANGED <<rows, lastId, model, life, fwd, reg, mu, main, todo, boots>>

(* Manager.SetForwardMode: the row, then the copy.                         *)
ForwardPersist(n, m) ==
    /\ Unlocked
    /\ existsLocked(n)
    /\ UpdateBackendForwardMode(Get(n), m)
    /\ bot' = Job("forward set", Get(n), m)
    /\ UNCHANGED <<lastId, model, life, fwd, reg, mu, main, todo, boots>>

ForwardSet ==
    /\ bot.pc = "forward set"
    /\ model' = [model EXCEPT ![bot.id].mode = bot.arg]
    /\ Return
    /\ UNCHANGED <<rows, lastId, life, fwd, reg, mu, main, todo, boots>>

(* An UPDATE returns an error: the command ends there.                     *)
UpdateFails ==
    /\ StoreMayFail
    /\ bot.pc \in {"udp persist", "udp clear"}
    /\ Return
    /\ UNCHANGED <<rows, lastId, model, life, fwd, reg, mu, main, todo, boots>>

-----------------------------------------------------------------------------
MainStep == Boot \/ (\E i \in Ids : StartOne(i) \/ ShutdownOne(i)) \/ BootDone
            \/ ShutdownBegin \/ ShutdownEnd \/ Exit

(* Administrator commands. Each one starts when the bot takes an update,   *)
(* which it may still do after the signal: its select picks either case.   *)
Command(c) == bot.pc = "idle" /\ c \in Commands

cmdAdd ==
    /\ Command("add")
    /\ \E n \in Names, p \in Ports, u \in UdpPorts : AddPersist(n, p, u)

(* The button under /remove: its reference is a name, an id or neither.    *)
handleCallback ==
    \/ Command("remove") /\ \E n \in Names : RemoveLookup(n)
    \/ Command("remove id") /\ \E i \in Ids : RemoveLookupId(i)
    \/ Command("remove unknown") /\ RemoveNotFound

cmdRestart == Command("restart") /\ \E n \in Names : RestartLookup(n)

(* The UDP port is the one of the target's address.                        *)
cmdAddUDP == Command("add-udp") /\ \E n \in Names, u \in Ports : AddUDPCheck(n, u)

cmdRemoveUDP == Command("remove-udp") /\ \E n \in Names : RemoveUDPClose(n)

cmdForward ==
    Command("forward") /\ \E n \in Names, m \in Modes : ForwardPersist(n, m)

NewCommand == cmdAdd \/ handleCallback \/ cmdRestart \/ cmdAddUDP \/ cmdRemoveUDP
              \/ cmdForward

(* The rest of a command that has begun.                                   *)
BotStep == AddStart \/ AddRollback \/ AddPublish \/ RemoveStop \/ RemoveDelete
           \/ RestartStop \/ RestartStart \/ AddUDPPersist \/ AddUDPStart
           \/ RemoveUDPClear \/ ForwardSet \/ UpdateFails

Next == MainStep \/ Signal \/ Crash \/ NewCommand \/ BotStep \/ BotExit

(* rt.shutdown in a removal or a restart: a connection that has escaped    *)
(* its forced close (TcpBackend) may hold its wg.Wait as long as it likes. *)
(* What ends the wait for certain is a second forced close, by the time    *)
(* Manager.Shutdown has returned, of the backends that are registered.     *)
Waiting == bot.pc \in {"remove stop", "restart stop"}
Reached == main = "done" /\ bot.id \in Mapped

(* The goroutines go on when they can, except for that wait; nobody has to *)
(* send a command or a signal, and a process that has ended need not be    *)
(* started again. The bot's select picks at random among the ready cases,  *)
(* so it cannot pass over the cancelled context for ever.                  *)
Fairness ==
    /\ WF_vars(main # "off" /\ MainStep)
    /\ WF_vars(BotStep /\ (Waiting => Reached))
    /\ SF_vars(BotExit)

Spec == Init /\ [][Next]_vars
FairSpec == Spec /\ Fairness

-----------------------------------------------------------------------------
(* Properties.                                                             *)

BotStates == {"off", "idle", "add start", "add publish", "remove stop", "remove delete",
              "restart stop", "restart start", "udp persist", "udp start", "udp clear",
              "forward set"}

(* Every variable has its type: a row and a copy of one are complete, the  *)
(* registry holds ids, the command in progress is one of the bot's.        *)
TypeOK ==
    /\ rows \in [Ids -> Rows \union {NoRow}]
    /\ lastId \in 0..MaxId
    /\ model \in [Ids -> Rows \union {NoRow}]
    /\ life \in [Ids -> {"none", "running", "stopped"}]
    /\ fwd \in [Ids -> BOOLEAN]
    /\ reg \in [Keys -> Ids \union {NoId}]
    /\ mu \in {"free", "main", "bot", "lost"}
    /\ main \in {"off", "boot", "serve", "signal", "drain", "done"}
    /\ todo \subseteq Ids
    /\ bot.pc \in BotStates
    /\ bot.id \in Ids \union {NoId}
    /\ boots \in 0..MaxBoots

(* Manager owns every running backend: one that listens can be found, and  *)
(* so stopped, through the registry, unless a command is just adding or    *)
(* removing it.                                                            *)
NoOrphans ==
    \A i \in Ids :
        life[i] = "running" =>
            \/ i \in Mapped
            \/ bot.id = i /\ bot.pc \in {"add publish", "remove stop"}

(* manager.go:203, "Remove gracefully drains a backend and deletes it by   *)
(* name or id": every registered backend has its row, with the name it is  *)
(* registered under, so what /list shows survives a restart of the process *)
(* and what /remove has deleted is gone from the registry.                 *)
MappedHasRow ==
    \A k \in Keys :
        reg[k] # NoId => /\ reg[k] \in Stored
                         /\ rows[reg[k]].name = model[reg[k]].name
                         /\ rows[reg[k]].port = model[reg[k]].port
                         /\ Key[rows[reg[k]].name] = k

(* Nothing listens without a row: a backend whose row is gone has been     *)
(* shut down first, and no crash or restart brings it back.                *)
RunningHasRow == \A i \in Ids : life[i] = "running" => i \in Stored

(* An open UDP forwarder is recorded in the copy and in the row, whichever *)
(* write to the database has failed: a restart brings it back.             *)
FwdPersisted ==
    \A i \in Ids :
        fwd[i] => model[i].udp # NoPort /\ rows[i].udp = model[i].udp

(* What the registry, the listeners and the rows promise each other: every *)
(* registered backend has its row, nothing listens without one, and every  *)
(* open forwarder is recorded, in states of the declared types.            *)
Inv == TypeOK /\ MappedHasRow /\ RunningHasRow /\ FwdPersisted

(* Between commands the forward mode in use is the one that is stored, for *)
(* every backend that still has a row.                                     *)
ModeAgrees ==
    bot.pc = "idle" => \A i \in Mapped \intersect Stored : model[i].mode = rows[i].mode

(* No two registered backends have the same TCP port, not even when one of *)
(* them failed to come back from a restart and does not listen.            *)
PortsDistinct ==
    \A i, j \in Mapped : i # j => model[i].port # model[j].port

(* The rows and the sockets of the process are the abstract catalog: what  *)
(* listens has a row and does so on the ports that names, no two on the    *)
(* same, and no row goes away, or changes its UDP port, under a listener.  *)
Listed == INSTANCE Catalog WITH
            table <- rows, last <- lastId,
            tcp <- {i \in Ids : life[i] = "running"},
            udp <- {i \in Ids : fwd[i]}

IsCatalog == Listed!Spec

(* A removal by name that an escaped connection holds: its backend is no   *)
(* longer registered, so Manager.Shutdown does not reach it.               *)
Held == bot.pc = "remove stop" /\ bot.id \notin Mapped

(* A signal ends the process: the shutdown gets the lock, whatever the bot *)
(* is doing and whatever has failed, and the bot comes back to its loop.   *)
(* Two things can prevent it: the lock that a removal of an unknown name   *)
(* has not released, and a removal by name that is held for good.          *)
SignalExits == (main = "signal") ~> (main = "off" \/ mu = "lost" \/ []Held)

(* manager.go:88, "Shutdown gracefully drains and stops every backend. It  *)
(* returns when all accept loops have stopped": after a signal it does     *)
(* return, unless the process is killed first.                             *)
ShutdownReturns == (main = "signal") ~> (main \in {"done", "off"})
=============================================================================
