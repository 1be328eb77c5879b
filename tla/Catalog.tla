------------------------------ MODULE Catalog ------------------------------
(***************************************************************************)
(* What the manager promises to whoever looks at the stored backends and   *)
(* at the sockets of the proxy only: a persistent table with one row per   *)
(* name, whose ids are never used again and whose rows survive the end of  *)
(* the process; and nothing listens but what has a row, on the ports that  *)
(* its row names, no two on the same one. A row goes away, and its UDP     *)
(* port changes, only while nothing listens on its account.                *)
(***************************************************************************)
EXTENDS Integers

CONSTANTS
    Ids, Rows,
    NoRow,            \* in the place of a row that is not there
    UdpPorts, NoPort, \* of a row; NoPort when UDP is not enabled
    Modes

VARIABLES
    table,  \* the rows
    last,   \* the id given out last
    tcp,    \* the rows whose TCP listener is open
    udp     \* the rows whose UDP forwarder is open

catalogVars == <<table, last, tcp, udp>>

Init ==
    /\ table = [i \in Ids |-> NoRow]
    /\ last = 0
    /\ tcp = {} /\ udp = {}

There(i) == table[i] # NoRow

Create(r) ==
    /\ last + 1 \in Ids
    /\ \A i \in Ids : There(i) => table[i].name # r.name
    /\ table' = [table EXCEPT ![last + 1] = r]
    /\ last' = last + 1
    /\ UNCHANGED <<tcp, udp>>

Delete(i) ==
    /\ i \notin tcp \union udp
    /\ table' = [table EXCEPT ![i] = NoRow]
    /\ UNCHANGED <<last, tcp, udp>>

SetUdp(i, u) ==
    /\ There(i) /\ i \notin udp
    /\ table' = [table EXCEPT ![i].udp = u]
    /\ UNCHANGED <<last, tcp, udp>>

SetMode(i, m) ==
    /\ There(i)
    /\ table' = [table EXCEPT ![i].mode = m]
    /\ UNCHANGED <<last, tcp, udp>>

TcpPortFree(i) == \A j \in tcp : table[j].port # table[i].port
UdpPortFree(i) == table[i].udp # NoPort /\ \A j \in udp : table[j].udp # table[i].udp

(* A backend comes up, with its forwarder or without.                      *)
Open(i) ==
    /\ There(i) /\ TcpPortFree(i)
    /\ tcp' = tcp \union {i}
    /\ \/ UdpPortFree(i) /\ udp' = udp \union {i}
       \/ udp' = udp \ {i}
    /\ UNCHANGED <<table, last>>

OpenUdp(i) ==
    /\ There(i) /\ UdpPortFree(i)
    /\ udp' = udp \union {i}
    /\ UNCHANGED <<table, last, tcp>>

Close(i) ==
    /\ tcp' = tcp \ {i} /\ udp' = udp \ {i}
    /\ UNCHANGED <<table, last>>

CloseUdp(i) ==
    /\ udp' = udp \ {i}
    /\ UNCHANGED <<table, last, tcp>>

(* The process ends or is killed.                                          *)
End ==
    /\ tcp' = {} /\ udp' = {}
    /\ UNCHANGED <<table, last>>

Next ==
    \/ \E r \in Rows : Create(r)
    \/ \E i \in Ids :
          \/ Delete(i) \/ Open(i) \/ OpenUdp(i) \/ Close(i) \/ CloseUdp(i)
          \/ \E u \in UdpPorts : SetUdp(i, u)
          \/ \E m \in Modes : SetMode(i, m)
    \/ End

Spec == Init /\ [][Next]_catalogVars
=============================================================================
