-------------------------------- MODULE Stats --------------------------------
(***************************************************************************)
(* The traffic counters of the backends and the hourly rows they end up    *)
(* in: Backend.Stats and statsFlusher (internal/proxy/proxy.go), RecordStat*)
(* and SumStats (internal/storage), over the life of the daemon that       *)
(* Schema opens the database for.                                          *)
(*                                                                         *)
(* One counter of each backend stands for the five. A flush is two steps,  *)
(* the snapshot and the write, and traffic goes on in between. A restart   *)
(* of a backend, which waits for the old flusher, starts a new one whose   *)
(* last snapshot is zero; the counters go on.                              *)
(***************************************************************************)
EXTENDS Schema, FiniteSetsExt

CONSTANTS
    Daemon,      \* the process that serves, one of Openers
    MaxId,       \* bound: row ids handed out
    Hours,       \* bound: 1..n, the hours in which something is flushed
    MaxTraffic,  \* bound: traffic of all backends
    MaxAgain,    \* bound: traffic one backend's restarts repeat
    None         \* "the flusher is not in a flush"

Ids == 1..MaxId

ASSUME DaemonAssumption == Daemon \in Openers /\ MaxId \in Nat
ASSUME TrafficAssumption ==
    /\ MaxTraffic \in Nat /\ MaxAgain \in Nat /\ None \notin Nat
    /\ Hours \subseteq Nat /\ 1 \in Hours

VARIABLES
    hour,      \* the current hour
    rows,      \* the backends table
    nextId,    \* its AUTOINCREMENT sequence
    running,   \* backends with a flusher
    counter,   \* what Backend.Stats returns
    last,      \* the flusher's last snapshot
    snap,      \* the snapshot of the flush in progress
    hourly,    \* stats_hourly: <<id, hour>> -> traffic
    served,    \* traffic of a backend over all lives of the daemon
    lost,      \* traffic that no row shows or will show
    again      \* traffic that restarts make the flusher record again

runVars == <<running, counter, last, snap>>
tableVars == <<rows, nextId, hourly>>
ghostVars == <<served, lost, again>>
statVars == <<hour, runVars, tableVars, ghostVars>>
vars == <<schemaVars, statVars>>

Zero == [i \in Ids |-> 0]
Idle == [i \in Ids |-> None]

Init ==
    /\ SchemaInit
    /\ hour = 1
    /\ rows = {} /\ nextId = 1
    /\ running = {} /\ counter = Zero /\ last = Zero /\ snap = Idle
    /\ hourly = <<>>
    /\ served = Zero /\ lost = Zero /\ again = Zero

Serving == phase[Daemon] = "ready"

(* SumStats: all recorded hours of one backend.                            *)
HoursOf(i) == {k \in DOMAIN hourly : k[1] = i}
SumStats(i) == MapThenSumSet(LAMBDA k : hourly[k], HoursOf(i))

(* Connections and bytes of backend i.                                     *)
Traffic(i) ==
    /\ Serving /\ i \in running
    /\ MapThenSumSet(LAMBDA j : served[j], Ids) < MaxTraffic
    /\ counter' = [counter EXCEPT ![i] = @ + 1]
    /\ served' = [served EXCEPT ![i] = @ + 1]
    /\ UNCHANGED <<schemaVars, hour, running, last, snap, tableVars, lost, again>>

(* The ticker fires and the counters have moved.                           *)
Snapshot(i) ==
    /\ Serving /\ i \in running
    /\ snap[i] = None /\ counter[i] # last[i]
    /\ snap' = [snap EXCEPT ![i] = counter[i]]
    /\ UNCHANGED <<schemaVars, hour, running, counter, last, tableVars, ghostVars>>

(* The upsert of a delta into the row of this hour.                        *)
RecordStat(i, delta) ==
    LET k == <<i, hour>>
        old == IF k \in DOMAIN hourly THEN hourly[k] ELSE 0
    IN  hourly' = [l \in DOMAIN hourly \union {k} |->
                      IF l = k THEN old + delta ELSE hourly[l]]

(* The flush ends; the snapshot it was made with is the new last one.      *)
FlushTo(i, next) ==
    /\ last' = [last EXCEPT ![i] = next]
    /\ snap' = [snap EXCEPT ![i] = None]
    /\ UNCHANGED <<schemaVars, hour, running, counter, rows, nextId, served, again>>

(* Variant: the counters are read again for the last snapshot.             *)
FlushReread(i) ==
    /\ Serving /\ snap[i] # None
    /\ RecordStat(i, snap[i] - last[i])
    /\ UNCHANGED lost
    /\ FlushTo(i, counter[i])

Flush(i) ==
    /\ Serving /\ snap[i] # None
    /\ RecordStat(i, snap[i] - last[i])
    /\ UNCHANGED lost
    /\ FlushTo(i, snap[i])

(* The store returns an error, which the flusher ignores.                  *)
FlushFails(i) ==
    /\ Serving /\ snap[i] # None
    /\ lost' = [lost EXCEPT ![i] = @ + snap[i] - last[i]]
    /\ UNCHANGED hourly
    /\ FlushTo(i, snap[i])

statsFlusher(i) == Snapshot(i) \/ Flush(i) \/ FlushFails(i)

-----------------------------------------------------------------------------
(* The flusher looks at its context between two flushes only, and does not *)
(* flush when it ends.                                                     *)
FlusherIdle(i) == Serving /\ i \in running /\ snap[i] = None

(* restart: a new flusher, the old counters.                               *)
Restart(i) ==
    /\ FlusherIdle(i)
    /\ again[i] + last[i] <= MaxAgain
    /\ again' = [again EXCEPT ![i] = @ + last[i]]
    /\ last' = [last EXCEPT ![i] = 0]
    /\ UNCHANGED <<schemaVars, hour, running, counter, snap, tableVars, served, lost>>

(* Variant: the id of a deleted row is handed out again.                   *)
AddReused ==
    \E i \in Ids \ rows :
        /\ Serving
        /\ rows' = rows \union {i}
        /\ nextId' = nextId
        /\ running' = running \union {i}
        /\ UNCHANGED <<schemaVars, hour, counter, last, snap, hourly, ghostVars>>

(* Add: a row with a fresh id, counters at zero.                           *)
Add ==
    /\ Serving
    /\ nextId \in Ids
    /\ rows' = rows \union {nextId}
    /\ nextId' = nextId + 1
    /\ running' = running \union {nextId}
    /\ UNCHANGED <<schemaVars, hour, counter, last, snap, hourly, ghostVars>>

(* Remove: the backend is shut down and its row deleted. Where foreign keys*)
(* are enforced its hours go with it.                                      *)
Remove(i) ==
    /\ FlusherIdle(i)
    /\ rows' = rows \ {i}
    /\ running' = running \ {i}
    /\ counter' = [counter EXCEPT ![i] = 0]
    /\ last' = [last EXCEPT ![i] = 0]
    /\ LET gone == IF fk[Daemon] THEN HoursOf(i) ELSE {}
       IN  /\ hourly' = [k \in DOMAIN hourly \ gone |-> hourly[k]]
           /\ lost' = [lost EXCEPT ![i] = @ + counter[i] - last[i]
                                            + MapThenSumSet(LAMBDA k : hourly[k], gone)]
    /\ UNCHANGED <<schemaVars, hour, nextId, snap, served, again>>

(* The daemon starts its backends, with counters at zero ...               *)
Boot ==
    /\ Ready(Daemon)
    /\ running' = rows
    /\ UNCHANGED <<hour, counter, last, snap, tableVars, ghostVars>>

(* ... and stops: what has not been flushed is gone.                       *)
Exit ==
    /\ Stop(Daemon)
    /\ running' = {} /\ counter' = Zero /\ last' = Zero /\ snap' = Idle
    /\ lost' = [i \in Ids |-> lost[i] + counter[i] - last[i]]
    /\ UNCHANGED <<hour, tableVars, served, again>>

NextHour ==
    /\ hour + 1 \in Hours
    /\ hour' = hour + 1
    /\ UNCHANGED <<schemaVars, runVars, tableVars, ghostVars>>

Opening(p) ==
    \/ migrate(p) /\ UNCHANGED statVars
    \/ p # Daemon /\ Ready(p) /\ UNCHANGED statVars
    \/ p = Daemon /\ Boot

OpenDb(p) == Open(p) /\ UNCHANGED statVars

Ends(p) == (Kill(p) \/ (p # Daemon /\ Stop(p))) /\ UNCHANGED statVars

Next ==
    \/ \E p \in Openers : OpenDb(p) \/ Opening(p) \/ Ends(p)
    \/ \E i \in Ids : Traffic(i) \/ statsFlusher(i) \/ Restart(i) \/ Remove(i)
    \/ Add \/ Exit \/ NextHour

(* A process that runs gets on; systemd starts the daemon again.           *)
Spec ==
    /\ Init /\ [][Next]_vars
    /\ \A p \in Openers : WF_vars(Opening(p))
    /\ WF_vars(OpenDb(Daemon))

-----------------------------------------------------------------------------
(* Properties.                                                             *)

TypeOK ==
    /\ SchemaTypes
    /\ hour \in Hours
    /\ nextId \in 1..(MaxId + 1) /\ rows \subseteq 1..(nextId - 1) /\ running \subseteq rows
    /\ counter \in [Ids -> Nat] /\ last \in [Ids -> Nat]
    /\ snap \in [Ids -> Nat \union {None}]
    /\ DOMAIN hourly \subseteq (1..(nextId - 1)) \X Hours
    /\ \A k \in DOMAIN hourly : hourly[k] \in Nat \ {0}
    /\ served \in [Ids -> Nat] /\ lost \in [Ids -> Nat] /\ again \in [Ids -> Nat]

(* What statsFlusher records is what was served: through traffic between a *)
(* snapshot and its write, failed writes, the end of an hour, removals and *)
(* exits, the hours of a backend and what it has not flushed yet add up to *)
(* its traffic, less what a failed write, an exit or a removal has lost,   *)
(* plus what a restart makes the new flusher record again.                 *)
Accounted ==
    \A i \in Ids :
        SumStats(i) + (counter[i] - last[i]) + lost[i] = served[i] + again[i]

(* Traffic is accounted for, in states of the declared types.              *)
Inv == TypeOK /\ Accounted

(* Hours that survive the removal of their backend, as they do where the   *)
(* cascade is not enforced, are never charged to another one.              *)
NewIsUncharged == [][\A i \in rows' \ rows : HoursOf(i) = {}]_vars

(* proxy.go:126: "Deltas are computed against the previous snapshot so     *)
(* repeated flushes never over-count."                                     *)
NeverOverCounts == \A i \in Ids : SumStats(i) <= served[i]

(* Whatever was killed or raced in earlier openings, a process that gets   *)
(* past storage.New finds the whole schema, and what is recorded as        *)
(* applied has been executed.                                              *)
SchemaComplete == ReadyHasSchema

(* The daemon comes up in the end, after failed openings while another     *)
(* process migrates, unless a process was killed between an ALTER and the  *)
(* record of it.                                                           *)
ComesUp == ~Serving ~> (Serving \/ (Bricked /\ crashes > 0))
=============================================================================
