------------------------------ MODULE Service ------------------------------
(***************************************************************************)
(* What the TCP backends promise, together, to clients and to whoever      *)
(* starts and stops them, whatever goroutines, counters and sockets they   *)
(* need for it: only a backend that is up accepts; a client is at one      *)
(* backend from being accepted to being let go; it takes a slot of its     *)
(* address at most once, gives it back before it is let go, and the slots  *)
(* taken never exceed the cap by more than one for each other backend; and *)
(* a backend has stopped only when nobody is left at it.                   *)
(***************************************************************************)
EXTENDS Integers, FiniteSets

CONSTANTS
    Backends,
    Conns,
    Ip,         \* the address of a connection
    MaxPerIP,   \* slots per address, 0 for any number
    NoBackend

VARIABLES
    phase,   \* of a backend: "idle", "up" or "stopping"
    host,    \* the backend a connection is at
    stage    \* of a connection: "away", "setup", "served" or "leaving"

serviceVars == <<phase, host, stage>>

Init ==
    /\ phase = [b \in Backends |-> "idle"]
    /\ host = [c \in Conns |-> NoBackend]
    /\ stage = [c \in Conns |-> "away"]

Served(i) == {c \in Conns : Ip[c] = i /\ stage[c] = "served"}

HasRoom(i) ==
    MaxPerIP > 0 => Cardinality(Served(i)) < MaxPerIP + Cardinality(Backends) - 1

Move(b, from, to) ==
    /\ phase[b] \in from
    /\ phase' = [phase EXCEPT ![b] = to]
    /\ UNCHANGED <<host, stage>>

Open(b) == Move(b, {"idle"}, "up")

(* A backend whose listener could not be opened again can be stopped, too. *)
Close(b) == Move(b, {"idle", "up"}, "stopping")

Stopped(b) ==
    /\ \A c \in Conns : host[c] # b
    /\ Move(b, {"stopping"}, "idle")

Pass(c, from, to) ==
    /\ stage[c] \in from
    /\ stage' = [stage EXCEPT ![c] = to]
    /\ UNCHANGED phase

Accept(b, c) ==
    /\ phase[b] = "up"
    /\ Pass(c, {"away"}, "setup")
    /\ host' = [host EXCEPT ![c] = b]

TakeSlot(c) ==
    /\ HasRoom(Ip[c])
    /\ Pass(c, {"setup"}, "served")
    /\ UNCHANGED host

GiveSlotBack(c) ==
    /\ Pass(c, {"served"}, "leaving")
    /\ UNCHANGED host

(* Refused, or served to the end.                                          *)
LetGo(c) ==
    /\ Pass(c, {"setup", "leaving"}, "away")
    /\ host' = [host EXCEPT ![c] = NoBackend]

Next ==
    \/ \E b \in Backends :
          Open(b) \/ Close(b) \/ Stopped(b) \/ \E c \in Conns : Accept(b, c)
    \/ \E c \in Conns : TakeSlot(c) \/ GiveSlotBack(c) \/ LetGo(c)

Spec == Init /\ [][Next]_serviceVars
=============================================================================
