------------------------- MODULE UDPForwarderProofs -------------------------
(***************************************************************************)
(* Proofs about UDPForwarder for every set of clients and every number of  *)
(* sessions: the WaitGroup and the goroutines it counts, the sessions that *)
(* can be found and closed, and whose session a readLoop drops.            *)
(***************************************************************************)
EXTENDS UDPForwarder, FiniteSetTheorems, TLAPS

(* The readLoops that have not returned.                                   *)
Live == {s \in Sessions : reader[s] \in {"read", "drop", "close"}}

RunCount == IF runner = "off" THEN 0 ELSE 1

(* The types of TypeOK, but for the counter of the WaitGroup, of which     *)
(* nothing is known yet than that it is a number.                          *)
Types ==
    /\ faults \subseteq Faults
    /\ closer \in {"open", "sessions", "wait", "closed"}
    /\ runner \in {"read", "lookup", "touch", "send", "drop", "close", "off"}
    /\ client \in Clients \union {NoClient}
    /\ sess \in Sessions \union {NoSession}
    /\ sessions \in [Clients -> Sessions \union {NoSession}]
    /\ created \in 0..MaxSessions
    /\ owner \in [Sessions -> Clients \union {NoClient}]
    /\ upstream \in [Sessions -> BOOLEAN]
    /\ fresh \in [Sessions -> BOOLEAN]
    /\ reader \in [Sessions -> {"none", "read", "drop", "close", "done"}]
    /\ victim \in [Droppers -> Sessions \union {NoSession}]
    /\ wg \in Int

(* What the run goroutine holds follows from where it is.                  *)
RunShape ==
    /\ runner \notin {"read", "off"} => client \in Clients
    /\ runner \in {"touch", "send", "drop", "close"} =>
         sess \in Sessions /\ owner[sess] = client

(* Sessions are made one after the other, each for a client; the table     *)
(* holds a client's own session.                                           *)
SessionShape ==
    /\ \A s \in Sessions :
         /\ s > created => reader[s] = "none" /\ ~upstream[s]
         /\ s <= created => owner[s] \in Clients
    /\ \A c \in Clients : sessions[c] # NoSession =>
         sessions[c] <= created /\ owner[sessions[c]] = c

(* Only a goroutine between the two halves of dropSession holds a session  *)
(* it will close.                                                          *)
VictimShape ==
    \A d \in Droppers : victim[d] # NoSession =>
        /\ victim[d] <= created
        /\ d = Run => runner = "close"
        /\ d # Run => reader[d] = "close"

(* u.wg counts the run goroutine and the readLoops that have not returned. *)
WgExact == wg = RunCount + Cardinality(Live)

(* While writes to the backend do not fail and the forwarder is open, a    *)
(* readLoop that still reads, or is about to drop, has its own session in  *)
(* the table, and the session that it takes out is its own.                *)
OwnDrop ==
    "upstream" \notin faults /\ closer = "open" =>
        /\ \A s \in Sessions :
             /\ reader[s] \in {"read", "drop"} => sessions[owner[s]] = s
             /\ reader[s] = "close" => victim[s] = s
        /\ \A d \in Droppers : victim[d] # NoSession =>
             sessions[owner[victim[d]]] # victim[d]
        /\ \A c \in Clients : sessions[c] # NoSession => upstream[sessions[c]]
        /\ runner \in {"touch", "send", "drop", "close"} =>
             sessions[client] \in {NoSession, sess}
        /\ runner = "drop" => sessions[client] = NoSession
        /\ runner = "close" => victim[Run] = NoSession

Shape == RunShape /\ SessionShape /\ VictimShape

(* The inductive invariant.                                                *)
ForwarderInv ==
    Types /\ Shape /\ WgExact /\ OpenIsMapped /\ ClosedIsQuiet /\ OwnDrop

-----------------------------------------------------------------------------
(* Every step keeps the types of the state.                                 *)
LEMMA TypesStep ==
    Types /\ Shape /\ [Next]_vars => Types'
<1> SUFFICES ASSUME Types, Shape, [Next]_vars
             PROVE  Types'
  OBVIOUS
<1> USE DEF Types, Shape, RunShape, SessionShape, VictimShape, Sessions, NoSession,
            Droppers, Run
<1>0. faults' = faults
  BY DEF Next, Close, run, Environment, readLoop, Elapse, vars
<1>1. ASSUME CloseSessions PROVE Types'
  BY <1>0, <1>1, BoundAssumption, ClientsAssumption DEF CloseSessions
<1>2. ASSUME CloseWaits PROVE Types'
  BY <1>0, <1>2, BoundAssumption, ClientsAssumption DEF CloseWaits
<1>3. ASSUME RunExits PROVE Types'
  BY <1>0, <1>3, BoundAssumption, ClientsAssumption DEF RunExits
<1>4. ASSUME getOrCreate PROVE Types'
  <2>1. CASE NewSession /\ sessions[client] = NoSession
    BY <1>0, <1>4, <2>1, BoundAssumption, ClientsAssumption DEF getOrCreate, NewSession
  <2>2. CASE NoSocket
    BY <1>0, <1>4, <2>2, BoundAssumption, ClientsAssumption
       DEF getOrCreate, NoSocket, Return
  <2>3. CASE UNCHANGED <<client, sessions, created, owner, upstream, fresh, reader, wg>>
             /\ sess' = sessions[client] /\ runner' = "touch" /\ sessions[client] # NoSession
    BY <1>0, <1>4, <2>3, BoundAssumption, ClientsAssumption DEF getOrCreate
  <2>4. QED
    BY <1>4, <2>1, <2>2, <2>3 DEF getOrCreate
<1>5. ASSUME Touch PROVE Types'
  BY <1>0, <1>5, BoundAssumption, ClientsAssumption DEF Touch
<1>6. ASSUME Send PROVE Types'
  BY <1>0, <1>6, BoundAssumption, ClientsAssumption DEF Send, Return
<1>7. ASSUME SendFails PROVE Types'
  BY <1>0, <1>7, BoundAssumption, ClientsAssumption DEF SendFails
<1>8. ASSUME SendDrop PROVE Types'
  BY <1>0, <1>8, BoundAssumption, ClientsAssumption DEF SendDrop, dropTake
<1>9. ASSUME SendDropClose PROVE Types'
  BY <1>0, <1>9, BoundAssumption, ClientsAssumption DEF SendDropClose, dropClose, Return
<1>10. ASSUME CloseConn PROVE Types'
  BY <1>0, <1>10, BoundAssumption, ClientsAssumption DEF CloseConn
<1>11. ASSUME NEW c \in Clients, Receive(c) PROVE Types'
  BY <1>0, <1>11, BoundAssumption, ClientsAssumption DEF Receive
<1>12. ASSUME NEW s \in Sessions, Reply(s) PROVE Types'
  BY <1>0, <1>12, BoundAssumption, ClientsAssumption DEF Reply
<1>13. ASSUME NEW s \in Sessions, ReplyFails(s) PROVE Types'
  BY <1>0, <1>13, BoundAssumption, ClientsAssumption DEF ReplyFails
<1>14. ASSUME NEW s \in Sessions, ReadTimeout(s) PROVE Types'
  BY <1>0, <1>14, BoundAssumption, ClientsAssumption DEF ReadTimeout
<1>15. ASSUME NEW s \in Sessions, ReadFails(s) PROVE Types'
  BY <1>0, <1>15, BoundAssumption, ClientsAssumption DEF ReadFails
<1>16. ASSUME NEW s \in Sessions, ReaderDrop(s) PROVE Types'
  BY <1>0, <1>16, BoundAssumption, ClientsAssumption DEF ReaderDrop, dropTake
<1>17. ASSUME NEW s \in Sessions, ReaderDone(s) PROVE Types'
  BY <1>0, <1>17, BoundAssumption, ClientsAssumption DEF ReaderDone, Finish, dropClose
<1>18. ASSUME NEW s \in Sessions, Age(s) PROVE Types'
  BY <1>0, <1>18, BoundAssumption, ClientsAssumption DEF Age
<1>19. ASSUME UNCHANGED vars PROVE Types'
  BY <1>19 DEF vars
<1> HIDE DEF Types, Shape, RunShape, SessionShape, VictimShape, Sessions, NoSession,
             Droppers, Run
<1>20. QED
  BY <1>1, <1>2, <1>3, <1>4, <1>5, <1>6, <1>7, <1>8, <1>9, <1>10, <1>11, <1>12,
     <1>13, <1>14, <1>15, <1>16, <1>17, <1>18, <1>19
     DEF Next, Close, run, Environment, readLoop, Elapse

(* Every step keeps the run goroutine, the sessions, the table and what the *)
(* droppers hold in step with each other.                                   *)
LEMMA ShapeStep ==
    Types /\ Shape /\ [Next]_vars => Shape'
<1> SUFFICES ASSUME Types, Shape, [Next]_vars
             PROVE  Shape'
  OBVIOUS
<1> USE DEF Types, Shape, RunShape, SessionShape, VictimShape, Sessions, NoSession,
            Droppers, Run, ConnOpen, Mapped
<1>0. faults' = faults
  BY DEF Next, Close, run, Environment, readLoop, Elapse, vars
<1>1. ASSUME CloseSessions PROVE Shape'
  BY <1>0, <1>1, BoundAssumption, ClientsAssumption DEF CloseSessions
<1>2. ASSUME CloseWaits PROVE Shape'
  BY <1>0, <1>2, BoundAssumption, ClientsAssumption DEF CloseWaits
<1>3. ASSUME RunExits PROVE Shape'
  BY <1>0, <1>3, BoundAssumption, ClientsAssumption DEF RunExits
<1>4. ASSUME getOrCreate PROVE Shape'
  <2>1. CASE NewSession /\ sessions[client] = NoSession
    BY <1>0, <1>4, <2>1, BoundAssumption, ClientsAssumption DEF getOrCreate, NewSession
  <2>2. CASE NoSocket
    BY <1>0, <1>4, <2>2, BoundAssumption, ClientsAssumption
       DEF getOrCreate, NoSocket, Return
  <2>3. CASE UNCHANGED <<client, sessions, created, owner, upstream, fresh, reader, wg>>
             /\ sess' = sessions[client] /\ runner' = "touch" /\ sessions[client] # NoSession
    BY <1>0, <1>4, <2>3, BoundAssumption, ClientsAssumption DEF getOrCreate
  <2>4. QED
    BY <1>4, <2>1, <2>2, <2>3 DEF getOrCreate
<1>5. ASSUME Touch PROVE Shape'
  BY <1>0, <1>5, BoundAssumption, ClientsAssumption DEF Touch
<1>6. ASSUME Send PROVE Shape'
  BY <1>0, <1>6, BoundAssumption, ClientsAssumption DEF Send, Return
<1>7. ASSUME SendFails PROVE Shape'
  BY <1>0, <1>7, BoundAssumption, ClientsAssumption DEF SendFails
<1>8. ASSUME SendDrop PROVE Shape'
  BY <1>0, <1>8, BoundAssumption, ClientsAssumption DEF SendDrop, dropTake
<1>9. ASSUME SendDropClose PROVE Shape'
  BY <1>0, <1>9, BoundAssumption, ClientsAssumption DEF SendDropClose, dropClose, Return
<1>10. ASSUME CloseConn PROVE Shape'
  BY <1>0, <1>10, BoundAssumption, ClientsAssumption DEF CloseConn
<1>11. ASSUME NEW c \in Clients, Receive(c) PROVE Shape'
  BY <1>0, <1>11, BoundAssumption, ClientsAssumption DEF Receive
<1>12. ASSUME NEW s \in Sessions, Reply(s) PROVE Shape'
  BY <1>0, <1>12, BoundAssumption, ClientsAssumption DEF Reply
<1>13. ASSUME NEW s \in Sessions, ReplyFails(s) PROVE Shape'
  BY <1>0, <1>13, BoundAssumption, ClientsAssumption DEF ReplyFails
<1>14. ASSUME NEW s \in Sessions, ReadTimeout(s) PROVE Shape'
  BY <1>0, <1>14, BoundAssumption, ClientsAssumption DEF ReadTimeout
<1>15. ASSUME NEW s \in Sessions, ReadFails(s) PROVE Shape'
  BY <1>0, <1>15, BoundAssumption, ClientsAssumption DEF ReadFails
<1>16. ASSUME NEW s \in Sessions, ReaderDrop(s) PROVE Shape'
  BY <1>0, <1>16, BoundAssumption, ClientsAssumption DEF ReaderDrop, dropTake
<1>17. ASSUME NEW s \in Sessions, ReaderDone(s) PROVE Shape'
  BY <1>0, <1>17, BoundAssumption, ClientsAssumption DEF ReaderDone, Finish, dropClose
<1>18. ASSUME NEW s \in Sessions, Age(s) PROVE Shape'
  BY <1>0, <1>18, BoundAssumption, ClientsAssumption DEF Age
<1>19. ASSUME UNCHANGED vars PROVE Shape'
  BY <1>19 DEF vars
<1> HIDE DEF Types, Shape, RunShape, SessionShape, VictimShape, Sessions, NoSession,
             Droppers, Run, ConnOpen, Mapped
<1>20. QED
  BY <1>1, <1>2, <1>3, <1>4, <1>5, <1>6, <1>7, <1>8, <1>9, <1>10, <1>11, <1>12,
     <1>13, <1>14, <1>15, <1>16, <1>17, <1>18, <1>19
     DEF Next, Close, run, Environment, readLoop, Elapse

(* A session that leaves the table open is in the hands of a dropper.       *)
LEMMA OpenStep ==
    Types /\ Shape /\ OpenIsMapped /\ [Next]_vars => OpenIsMapped'
<1> SUFFICES ASSUME Types, Shape, OpenIsMapped, [Next]_vars
             PROVE  OpenIsMapped'
  OBVIOUS
<1> USE DEF Types, Shape, RunShape, SessionShape, VictimShape, Sessions, NoSession,
            Droppers, Run, OpenIsMapped, Mapped
<1>0. faults' = faults
  BY DEF Next, Close, run, Environment, readLoop, Elapse, vars
<1>1. ASSUME CloseSessions PROVE OpenIsMapped'
  <2>1. SUFFICES ASSUME NEW s \in Sessions, upstream'[s]
                 PROVE  \E d \in Droppers : victim'[d] = s
    BY DEF OpenIsMapped
  <2>2. upstream[s] /\ ~Mapped(s) /\ victim' = victim
    BY <1>1, <2>1 DEF CloseSessions
  <2>3. owner[s] \in Clients
    BY <2>2, BoundAssumption
  <2>4. sessions[owner[s]] # s
    BY <2>2, <2>3 DEF Mapped
  <2>5. QED
    BY <2>2, <2>4 DEF OpenIsMapped
<1>2. ASSUME CloseWaits PROVE OpenIsMapped'
  BY <1>0, <1>2, BoundAssumption, ClientsAssumption DEF CloseWaits
<1>3. ASSUME RunExits PROVE OpenIsMapped'
  BY <1>0, <1>3, BoundAssumption, ClientsAssumption DEF RunExits
<1>4. ASSUME getOrCreate PROVE OpenIsMapped'
  <2>1. CASE NewSession /\ sessions[client] = NoSession
    BY <1>0, <1>4, <2>1, BoundAssumption, ClientsAssumption DEF getOrCreate, NewSession
  <2>2. CASE NoSocket
    BY <1>0, <1>4, <2>2, BoundAssumption, ClientsAssumption
       DEF getOrCreate, NoSocket, Return
  <2>3. CASE UNCHANGED <<client, sessions, created, owner, upstream, fresh, reader, wg>>
             /\ sess' = sessions[client] /\ runner' = "touch" /\ sessions[client] # NoSession
    BY <1>0, <1>4, <2>3, BoundAssumption, ClientsAssumption DEF getOrCreate
  <2>4. QED
    BY <1>4, <2>1, <2>2, <2>3 DEF getOrCreate
<1>5. ASSUME Touch PROVE OpenIsMapped'
  BY <1>0, <1>5, BoundAssumption, ClientsAssumption DEF Touch
<1>6. ASSUME Send PROVE OpenIsMapped'
  BY <1>0, <1>6, BoundAssumption, ClientsAssumption DEF Send, Return
<1>7. ASSUME SendFails PROVE OpenIsMapped'
  BY <1>0, <1>7, BoundAssumption, ClientsAssumption DEF SendFails
<1>8. ASSUME SendDrop PROVE OpenIsMapped'
  BY <1>0, <1>8, BoundAssumption, ClientsAssumption DEF SendDrop, dropTake
<1>9. ASSUME SendDropClose PROVE OpenIsMapped'
  BY <1>0, <1>9, BoundAssumption, ClientsAssumption DEF SendDropClose, dropClose, Return
<1>10. ASSUME CloseConn PROVE OpenIsMapped'
  BY <1>0, <1>10, BoundAssumption, ClientsAssumption DEF CloseConn
<1>11. ASSUME NEW c \in Clients, Receive(c) PROVE OpenIsMapped'
  BY <1>0, <1>11, BoundAssumption, ClientsAssumption DEF Receive
<1>12. ASSUME NEW s \in Sessions, Reply(s) PROVE OpenIsMapped'
  BY <1>0, <1>12, BoundAssumption, ClientsAssumption DEF Reply
<1>13. ASSUME NEW s \in Sessions, ReplyFails(s) PROVE OpenIsMapped'
  BY <1>0, <1>13, BoundAssumption, ClientsAssumption DEF ReplyFails
<1>14. ASSUME NEW s \in Sessions, ReadTimeout(s) PROVE OpenIsMapped'
  BY <1>0, <1>14, BoundAssumption, ClientsAssumption DEF ReadTimeout
<1>15. ASSUME NEW s \in Sessions, ReadFails(s) PROVE OpenIsMapped'
  BY <1>0, <1>15, BoundAssumption, ClientsAssumption DEF ReadFails
<1>16. ASSUME NEW s \in Sessions, ReaderDrop(s) PROVE OpenIsMapped'
  BY <1>0, <1>16, BoundAssumption, ClientsAssumption DEF ReaderDrop, dropTake
<1>17. ASSUME NEW s \in Sessions, ReaderDone(s) PROVE OpenIsMapped'
  BY <1>0, <1>17, BoundAssumption, ClientsAssumption DEF ReaderDone, Finish, dropClose
<1>18. ASSUME NEW s \in Sessions, Age(s) PROVE OpenIsMapped'
  BY <1>0, <1>18, BoundAssumption, ClientsAssumption DEF Age
<1>19. ASSUME UNCHANGED vars PROVE OpenIsMapped'
  BY <1>19 DEF vars
<1> HIDE DEF Types, Shape, RunShape, SessionShape, VictimShape, Sessions, NoSession,
             Droppers, Run, OpenIsMapped, Mapped
<1>20. QED
  BY <1>1, <1>2, <1>3, <1>4, <1>5, <1>6, <1>7, <1>8, <1>9, <1>10, <1>11, <1>12,
     <1>13, <1>14, <1>15, <1>16, <1>17, <1>18, <1>19
     DEF Next, Close, run, Environment, readLoop, Elapse

(* A readLoop drops its own session, unless writes to the backend fail.     *)
LEMMA OwnDropStep ==
    Types /\ Shape /\ OpenIsMapped /\ OwnDrop /\ [Next]_vars => OwnDrop'
<1> SUFFICES ASSUME Types, Shape, OpenIsMapped, OwnDrop, [Next]_vars
             PROVE  OwnDrop'
  OBVIOUS
<1> USE DEF Types, Shape, RunShape, SessionShape, VictimShape, Sessions, NoSession,
            Droppers, Run, OpenIsMapped, OwnDrop, ConnOpen
<1>0. faults' = faults
  BY DEF Next, Close, run, Environment, readLoop, Elapse, vars
<1>1. ASSUME CloseSessions PROVE OwnDrop'
  BY <1>0, <1>1, BoundAssumption, ClientsAssumption DEF CloseSessions
<1>2. ASSUME CloseWaits PROVE OwnDrop'
  BY <1>0, <1>2, BoundAssumption, ClientsAssumption DEF CloseWaits
<1>3. ASSUME RunExits PROVE OwnDrop'
  BY <1>0, <1>3, BoundAssumption, ClientsAssumption DEF RunExits
<1>4. ASSUME getOrCreate PROVE OwnDrop'
  <2>1. CASE NewSession /\ sessions[client] = NoSession
    BY <1>0, <1>4, <2>1, BoundAssumption, ClientsAssumption DEF getOrCreate, NewSession
  <2>2. CASE NoSocket
    BY <1>0, <1>4, <2>2, BoundAssumption, ClientsAssumption
       DEF getOrCreate, NoSocket, Return
  <2>3. CASE UNCHANGED <<client, sessions, created, owner, upstream, fresh, reader, wg>>
             /\ sess' = sessions[client] /\ runner' = "touch" /\ sessions[client] # NoSession
    BY <1>0, <1>4, <2>3, BoundAssumption, ClientsAssumption DEF getOrCreate
  <2>4. QED
    BY <1>4, <2>1, <2>2, <2>3 DEF getOrCreate
<1>5. ASSUME Touch PROVE OwnDrop'
  BY <1>0, <1>5, BoundAssumption, ClientsAssumption DEF Touch
<1>6. ASSUME Send PROVE OwnDrop'
  BY <1>0, <1>6, BoundAssumption, ClientsAssumption DEF Send, Return
<1>7. ASSUME SendFails PROVE OwnDrop'
  BY <1>0, <1>7, BoundAssumption, ClientsAssumption DEF SendFails
<1>8. ASSUME SendDrop PROVE OwnDrop'
  BY <1>0, <1>8, BoundAssumption, ClientsAssumption DEF SendDrop, dropTake
<1>9. ASSUME SendDropClose PROVE OwnDrop'
  BY <1>0, <1>9, BoundAssumption, ClientsAssumption DEF SendDropClose, dropClose, Return
<1>10. ASSUME CloseConn PROVE OwnDrop'
  BY <1>0, <1>10, BoundAssumption, ClientsAssumption DEF CloseConn
<1>11. ASSUME NEW c \in Clients, Receive(c) PROVE OwnDrop'
  BY <1>0, <1>11, BoundAssumption, ClientsAssumption DEF Receive
<1>12. ASSUME NEW s \in Sessions, Reply(s) PROVE OwnDrop'
  BY <1>0, <1>12, BoundAssumption, ClientsAssumption DEF Reply
<1>13. ASSUME NEW s \in Sessions, ReplyFails(s) PROVE OwnDrop'
  BY <1>0, <1>13, BoundAssumption, ClientsAssumption DEF ReplyFails
<1>14. ASSUME NEW s \in Sessions, ReadTimeout(s) PROVE OwnDrop'
  BY <1>0, <1>14, BoundAssumption, ClientsAssumption DEF ReadTimeout
<1>15. ASSUME NEW s \in Sessions, ReadFails(s) PROVE OwnDrop'
  BY <1>0, <1>15, BoundAssumption, ClientsAssumption DEF ReadFails
<1>16. ASSUME NEW s \in Sessions, ReaderDrop(s) PROVE OwnDrop'
  BY <1>0, <1>16, BoundAssumption, ClientsAssumption DEF ReaderDrop, dropTake
<1>17. ASSUME NEW s \in Sessions, ReaderDone(s) PROVE OwnDrop'
  BY <1>0, <1>17, BoundAssumption, ClientsAssumption DEF ReaderDone, Finish, dropClose
<1>18. ASSUME NEW s \in Sessions, Age(s) PROVE OwnDrop'
  BY <1>0, <1>18, BoundAssumption, ClientsAssumption DEF Age
<1>19. ASSUME UNCHANGED vars PROVE OwnDrop'
  BY <1>19 DEF vars
<1> HIDE DEF Types, Shape, RunShape, SessionShape, VictimShape, Sessions, NoSession,
             Droppers, Run, OpenIsMapped, OwnDrop, ConnOpen
<1>20. QED
  BY <1>1, <1>2, <1>3, <1>4, <1>5, <1>6, <1>7, <1>8, <1>9, <1>10, <1>11, <1>12,
     <1>13, <1>14, <1>15, <1>16, <1>17, <1>18, <1>19
     DEF Next, Close, run, Environment, readLoop, Elapse

(* The readLoops can be counted.                                            *)
LEMMA LiveFinite == IsFiniteSet(Live) /\ Cardinality(Live) \in Nat
<1>1. IsFiniteSet(Sessions)
  BY BoundAssumption, FS_Interval DEF Sessions
<1>2. QED
  BY <1>1, FS_Subset, FS_CardinalityType DEF Live

(* What a step that starts or ends one readLoop does to their number.       *)
LEMMA LiveStarts ==
    ASSUME NEW s \in Sessions, s \notin Live, Live' = Live \union {s}
    PROVE  Cardinality(Live)' = Cardinality(Live) + 1
BY LiveFinite, FS_AddElement

LEMMA LiveEnds ==
    ASSUME NEW s \in Sessions, s \in Live, Live' = Live \ {s}
    PROVE  Cardinality(Live)' = Cardinality(Live) - 1
BY LiveFinite, FS_RemoveElement

(* Every step keeps the WaitGroup exact: a new readLoop is counted by the   *)
(* goroutine that starts it, and the one that returns counts itself down.   *)
LEMMA WgStep ==
    Types /\ Shape /\ WgExact /\ [Next]_vars => WgExact'
<1> SUFFICES ASSUME Types, Shape, WgExact, [Next]_vars
             PROVE  WgExact'
  OBVIOUS
<1> USE DEF Types, Shape, RunShape, SessionShape, VictimShape, Sessions, NoSession
<1>1. ASSUME CloseSessions PROVE WgExact'
  <2>1. Live' = Live
    BY <1>1 DEF CloseSessions, Live
  <2>2. QED
    BY <1>1, <2>1 DEF CloseSessions, WgExact, RunCount
<1>2. ASSUME CloseWaits PROVE WgExact'
  <2>1. Live' = Live
    BY <1>2 DEF CloseWaits, Live
  <2>2. QED
    BY <1>2, <2>1 DEF CloseWaits, WgExact, RunCount
<1>3. ASSUME RunExits PROVE WgExact'
  <2>1. Live' = Live
    BY <1>3 DEF RunExits, Live
  <2>2. QED
    BY <1>3, <2>1, LiveFinite DEF RunExits, WgExact, RunCount
<1>4. ASSUME getOrCreate PROVE WgExact'
  <2>1. CASE NewSession
    <3>1. created + 1 \in Sessions /\ created + 1 \notin Live
      BY <2>1, BoundAssumption DEF NewSession, Live
    <3>2. Live' = Live \union {created + 1}
      BY <2>1, <3>1 DEF NewSession, Live
    <3>3. Cardinality(Live)' = Cardinality(Live) + 1
      BY <3>1, <3>2, LiveStarts
    <3>4. QED
      BY <1>4, <2>1, <3>3, LiveFinite DEF getOrCreate, NewSession, WgExact, RunCount
  <2>2. CASE UNCHANGED <<reader, wg>> /\ runner' # "off"
    BY <1>4, <2>2 DEF getOrCreate, WgExact, RunCount, Live
  <2>3. QED
    BY <1>4, <2>1, <2>2 DEF getOrCreate, NoSocket, Return
<1>5. ASSUME Touch PROVE WgExact'
  <2>1. Live' = Live
    BY <1>5 DEF Touch, Live
  <2>2. QED
    BY <1>5, <2>1 DEF Touch, WgExact, RunCount
<1>6. ASSUME Send PROVE WgExact'
  <2>1. Live' = Live
    BY <1>6 DEF Send, Return, Live
  <2>2. QED
    BY <1>6, <2>1 DEF Send, Return, WgExact, RunCount
<1>7. ASSUME SendFails PROVE WgExact'
  <2>1. Live' = Live
    BY <1>7 DEF SendFails, Live
  <2>2. QED
    BY <1>7, <2>1 DEF SendFails, WgExact, RunCount
<1>8. ASSUME SendDrop PROVE WgExact'
  <2>1. Live' = Live
    BY <1>8 DEF SendDrop, dropTake, Live
  <2>2. QED
    BY <1>8, <2>1 DEF SendDrop, dropTake, WgExact, RunCount
<1>9. ASSUME SendDropClose PROVE WgExact'
  <2>1. Live' = Live
    BY <1>9 DEF SendDropClose, dropClose, Return, Live
  <2>2. QED
    BY <1>9, <2>1 DEF SendDropClose, dropClose, Return, WgExact, RunCount
<1>10. ASSUME CloseConn PROVE WgExact'
  <2>1. Live' = Live
    BY <1>10 DEF CloseConn, Live
  <2>2. QED
    BY <1>10, <2>1 DEF CloseConn, WgExact, RunCount
<1>11. ASSUME NEW c \in Clients, Receive(c) PROVE WgExact'
  <2>1. Live' = Live
    BY <1>11 DEF Receive, Live
  <2>2. QED
    BY <1>11, <2>1 DEF Receive, WgExact, RunCount
<1>12. ASSUME NEW s \in Sessions, Reply(s) PROVE WgExact'
  <2>1. Live' = Live
    BY <1>12 DEF Reply, Live
  <2>2. QED
    BY <1>12, <2>1 DEF Reply, WgExact, RunCount
<1>13. ASSUME NEW s \in Sessions, ReplyFails(s) PROVE WgExact'
  <2>1. s \in Live /\ Live' = Live \ {s}
    BY <1>13 DEF ReplyFails, Live
  <2>2. Cardinality(Live)' = Cardinality(Live) - 1
    BY <2>1, LiveEnds
  <2>3. QED
    BY <1>13, <2>2, LiveFinite DEF ReplyFails, WgExact, RunCount
<1>14. ASSUME NEW s \in Sessions, ReadTimeout(s) PROVE WgExact'
  <2>1. Live' = Live
    BY <1>14 DEF ReadTimeout, Live
  <2>2. QED
    BY <1>14, <2>1 DEF ReadTimeout, WgExact, RunCount
<1>15. ASSUME NEW s \in Sessions, ReadFails(s) PROVE WgExact'
  <2>1. Live' = Live
    BY <1>15 DEF ReadFails, Live
  <2>2. QED
    BY <1>15, <2>1 DEF ReadFails, WgExact, RunCount
<1>16. ASSUME NEW s \in Sessions, ReaderDrop(s) PROVE WgExact'
  <2>1. Live' = Live
    BY <1>16 DEF ReaderDrop, dropTake, Live
  <2>2. QED
    BY <1>16, <2>1 DEF ReaderDrop, dropTake, WgExact, RunCount
<1>17. ASSUME NEW s \in Sessions, ReaderDone(s) PROVE WgExact'
  <2>1. s \in Live /\ Live' = Live \ {s}
    BY <1>17 DEF ReaderDone, Finish, dropClose, Live
  <2>2. Cardinality(Live)' = Cardinality(Live) - 1
    BY <2>1, LiveEnds
  <2>3. QED
    BY <1>17, <2>2, LiveFinite DEF ReaderDone, Finish, dropClose, WgExact, RunCount
<1>18. ASSUME NEW s \in Sessions, Age(s) PROVE WgExact'
  <2>1. Live' = Live
    BY <1>18 DEF Age, Live
  <2>2. QED
    BY <1>18, <2>1 DEF Age, WgExact, RunCount
<1>19. ASSUME UNCHANGED vars PROVE WgExact'
  BY <1>19 DEF vars, WgExact, RunCount, Live
<1> HIDE DEF Types, Shape, RunShape, SessionShape, VictimShape, Sessions, NoSession
<1>20. QED
  BY <1>1, <1>2, <1>3, <1>4, <1>5, <1>6, <1>7, <1>8, <1>9, <1>10, <1>11, <1>12,
     <1>13, <1>14, <1>15, <1>16, <1>17, <1>18, <1>19
     DEF Next, Close, run, Environment, readLoop, Elapse

(* A WaitGroup at zero: everything it counts has returned.                  *)
LEMMA ZeroIsQuiet ==
    Types /\ WgExact /\ wg = 0
        => runner = "off" /\ \A s \in Sessions : reader[s] \in {"none", "done"}
<1> SUFFICES ASSUME Types, WgExact, wg = 0
             PROVE  runner = "off" /\ \A s \in Sessions : reader[s] \in {"none", "done"}
  OBVIOUS
<1>1. RunCount = 0 /\ Cardinality(Live) = 0
  BY LiveFinite DEF WgExact, RunCount
<1>2. Live = {}
  BY <1>1, LiveFinite, FS_EmptySet
<1>3. QED
  BY <1>1, <1>2 DEF Live, RunCount, Types

(* Close returns only when the WaitGroup is at zero, and then no goroutine  *)
(* is left that could start another.                                        *)
LEMMA QuietStep ==
    Types /\ Shape /\ WgExact /\ ClosedIsQuiet /\ [Next]_vars => ClosedIsQuiet'
<1> SUFFICES ASSUME Types, Shape, WgExact, ClosedIsQuiet, [Next]_vars
             PROVE  ClosedIsQuiet'
  OBVIOUS
<1>1. CASE CloseWaits
  BY <1>1, ZeroIsQuiet DEF CloseWaits, ClosedIsQuiet
<1>2. CASE closer' # "closed"
  BY <1>2 DEF ClosedIsQuiet
<1>3. CASE closer = "closed" /\ ~CloseWaits
  BY <1>3
     DEF ClosedIsQuiet, Types, Next, Close, run, Environment, readLoop, Elapse, vars,
        CloseSessions, CloseConn, ConnOpen, RunExits, getOrCreate, Touch, Send, SendFails,
        SendDrop, SendDropClose, Receive, Reply, ReplyFails, ReadTimeout, ReadFails,
        ReaderDrop, ReaderDone, Finish, Age
<1>4. closer' = "closed" => closer = "closed" \/ CloseWaits
  BY DEF Next, Close, run, Environment, readLoop, Elapse, vars,
        CloseSessions, CloseConn, ConnOpen, RunExits, getOrCreate, Touch, Send, SendFails,
        SendDrop, SendDropClose, Receive, Reply, ReplyFails, ReadTimeout, ReadFails,
        ReaderDrop, ReaderDone, Finish, Age
<1>5. QED
  BY <1>1, <1>2, <1>3, <1>4

-----------------------------------------------------------------------------
(* The inductive invariant holds at first, and every step keeps it.         *)
LEMMA InvInit == Init => ForwarderInv
<1> SUFFICES ASSUME Init PROVE ForwarderInv
  OBVIOUS
<1>1. Live = {}
  BY DEF Init, Live
<1>2. WgExact
  BY <1>1, FS_EmptySet DEF Init, WgExact, RunCount
<1>3. Types
  BY BoundAssumption, ClientsAssumption
     DEF Init, Types, NoSession, Sessions, Droppers, Run
<1>4. Shape
  BY BoundAssumption
     DEF Init, Shape, RunShape, SessionShape, VictimShape, NoSession, Sessions
<1>5. OpenIsMapped /\ ClosedIsQuiet
  BY DEF Init, OpenIsMapped, ClosedIsQuiet
<1>6. OwnDrop
  BY DEF Init, OwnDrop
<1>7. QED
  BY <1>2, <1>3, <1>4, <1>5, <1>6 DEF ForwarderInv

LEMMA ForwarderInvariant == Spec => []ForwarderInv
<1>1. ForwarderInv /\ [Next]_vars => ForwarderInv'
  BY TypesStep, ShapeStep, OpenStep, WgStep, QuietStep, OwnDropStep DEF ForwarderInv
<1>2. QED
  BY <1>1, InvInit, PTL DEF Spec

(* The types hold, the counter of the WaitGroup never falls below zero, and *)
(* every open socket of a session can be found: it is the one its client    *)
(* has in the table, or a goroutine is about to close it (Close and         *)
(* dropSession, udp.go).                                                    *)
THEOREM SocketsAreFound == Spec => []Inv
<1>1. ForwarderInv => Inv
  BY LiveFinite DEF ForwarderInv, Inv, TypeOK, Types, WgExact, RunCount
<1>2. QED
  BY <1>1, ForwarderInvariant, PTL

(* After Close has returned neither the run goroutine nor a readLoop runs.  *)
THEOREM CloseIsQuiet == Spec => []ClosedIsQuiet
<1>1. ForwarderInv => ClosedIsQuiet
  BY DEF ForwarderInv
<1>2. QED
  BY <1>1, ForwarderInvariant, PTL

(* While the forwarder is open and writes to the backend do not fail, a     *)
(* readLoop that ends closes no socket but its own session's.               *)
THEOREM DropsItsOwn == Spec => NoForeignDrop
<1> DEFINE Kept == \A s \in Sessions :
         "upstream" \notin faults /\ closer = "open" /\ reader[s] = "close" /\ reader'[s] = "done"
            => \A t \in Sessions \ {s} : upstream[t] => upstream'[t]
<1>1. ForwarderInv /\ Next => Kept
  <2> SUFFICES ASSUME ForwarderInv, Next, NEW s \in Sessions,
                      "upstream" \notin faults, closer = "open",
                      reader[s] = "close", reader'[s] = "done",
                      NEW t \in Sessions \ {s}, upstream[t]
               PROVE  upstream'[t]
    OBVIOUS
  <2>1. ReaderDone(s)
    BY DEF ForwarderInv, Types, Shape, SessionShape, Next, Close, run, Environment, readLoop,
        Elapse, CloseSessions, CloseWaits, CloseConn, RunExits, getOrCreate, NewSession, NoSocket,
        Touch, Send, SendFails, SendDrop, SendDropClose, Receive, Reply, ReplyFails, ReadTimeout,
        ReadFails, ReaderDrop, ReaderDone, Finish, Age
  <2>2. victim[s] = s
    BY DEF ForwarderInv, OwnDrop
  <2>3. QED
    BY <2>1, <2>2 DEF ReaderDone, Finish, dropClose
<1>2. QED
  BY <1>1, ForwarderInvariant, PTL DEF NoForeignDrop, Spec
=============================================================================
