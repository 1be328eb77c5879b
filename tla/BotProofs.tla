------------------------------ MODULE BotProofs ------------------------------
(***************************************************************************)
(* Proofs about the two halves of the bot, the alerts it sends (Alerts)    *)
(* and the bans it is told (Bans). The two share no state; each has        *)
(* its own specification, its own inductive invariant and its theorems.    *)
(*                                                                         *)
(* Alerts, for every set of backends, every capacity of the queue and      *)
(* every bound on the alerts: each alert is sent once and in order or      *)
(* turned away by the full queue, an outage raises one alert, and only a   *)
(* signal, or a missing bot, ends the daemon.                              *)
(*                                                                         *)
(* Bans, for every set of admins and addresses, every capacity and         *)
(* interval and every number of starts: the limiter grants and refuses     *)
(* what it should, and table, kernel and audit log agree.                  *)
(***************************************************************************)
EXTENDS Alerts, Bans, SequenceTheorems, TLAPS

(* The alerts that have come through: sent, being sent, queued.            *)
Line == sent \o (IF sending = Nothing THEN <<>> ELSE <<sending>>) \o queue

(* The farewell message comes on top of the alerts the bound allows.       *)
RaisedBound == signals # "done" => raised <= MaxAlerts

(* Until the process waits for its goroutines no signal is looked for, and *)
(* until the backends are started none is up.                              *)
BootShape ==
    /\ main = "boot" => up = {}
    /\ main \in {"boot", "serve"} => signals = "none"

AlertsInv ==
    TypeOK /\ Accounted /\ OneAlertPerOutage /\ ServesUntilSignal /\ RaisedBound /\ BootShape

-----------------------------------------------------------------------------
(* The line of alerts.                                                     *)

LEMMA LineType ==
    TypeOK => /\ Line \in Seq(1..raised)
              /\ sent \in Seq(Nat) /\ queue \in Seq(Nat) /\ Line \in Seq(Nat)
<1> SUFFICES ASSUME TypeOK
             PROVE  /\ Line \in Seq(1..raised)
                    /\ sent \in Seq(Nat) /\ queue \in Seq(Nat) /\ Line \in Seq(Nat)
  OBVIOUS
<1> DEFINE Mid == IF sending = Nothing THEN <<>> ELSE <<sending>>
<1>1. Mid \in Seq(1..raised)
  <2>1. CASE sending = Nothing
    BY <2>1
  <2>2. CASE sending # Nothing
    <3>1. sending \in 1..raised
      BY <2>2 DEF TypeOK, Nothing
    <3>2. QED
      BY <2>2, <3>1
  <2>3. QED
    BY <2>1, <2>2
<1>2. sent \in Seq(1..raised) /\ queue \in Seq(1..raised)
  BY DEF TypeOK
<1> HIDE DEF Mid
<1>3. sent \o Mid \in Seq(1..raised)
  BY <1>1, <1>2, ConcatProperties
<1>4. (sent \o Mid) \o queue \in Seq(1..raised)
  BY <1>2, <1>3, ConcatProperties
<1>5. 1..raised \subseteq Nat
  BY DEF TypeOK
<1>6. QED
  BY <1>2, <1>4, <1>5, SeqMonotonic DEF Line, Mid

(* Taking an alert from the queue, and having sent it, moves it along the   *)
(* line.                                                                    *)
LEMMA TakeLine == TypeOK /\ Take => Line' = Line
<1> SUFFICES ASSUME TypeOK, Take PROVE Line' = Line
  OBVIOUS
<1>1. queue \in Seq(Nat) /\ sent \in Seq(Nat) /\ queue # <<>>
  BY LineType DEF Take
<1>2. Head(queue) \in 1..raised /\ Head(queue) \in Nat /\ Tail(queue) \in Seq(Nat)
  BY <1>1, HeadTailProperties DEF TypeOK
<1>3. Line = sent \o queue
  BY <1>1, ConcatEmptySeq DEF Take, Line
<1>4. Line' = (sent \o <<Head(queue)>>) \o Tail(queue)
  <2>1. sent' = sent /\ queue' = Tail(queue) /\ sending' = Head(queue) /\ sending' # Nothing
    BY <1>2 DEF Take, Nothing
  <2>2. QED
    BY <2>1, Zenon DEF Line
<1>5. <<Head(queue)>> \in Seq(Nat)
  BY <1>2
<1>6. Line' = sent \o (<<Head(queue)>> \o Tail(queue))
  <2>1. \A a, b, c \in Seq(Nat) : (a \o b) \o c = a \o (b \o c)
    BY ConcatAssociative
  <2>2. (sent \o <<Head(queue)>>) \o Tail(queue) = sent \o (<<Head(queue)>> \o Tail(queue))
    BY <1>1, <1>2, <1>5, <2>1
  <2>3. QED
    BY <1>4, <2>2
<1>7. <<Head(queue)>> \o Tail(queue) = queue
  <2> DEFINE q == <<Head(queue)>> \o Tail(queue)
  <2>1. /\ q \in Seq(Nat) /\ Len(q) = Len(queue)
        /\ \A i \in 1..Len(queue) :
             q[i] = IF i <= 1 THEN <<Head(queue)>>[i] ELSE Tail(queue)[i - 1]
    BY <1>1, <1>2, <1>5, ConcatProperties, HeadTailProperties, LenProperties
  <2>2. \A i \in 1..Len(queue) : q[i] = queue[i]
    BY <1>1, <2>1, HeadTailProperties, LenProperties
  <2>3. QED
    BY <1>1, <2>1, <2>2, SeqEqual
<1>8. QED
  BY <1>3, <1>6, <1>7

LEMMA SentLine == TypeOK /\ Sent => Line' = Line
<1> SUFFICES ASSUME TypeOK, Sent PROVE Line' = Line
  OBVIOUS
<1>1. queue \in Seq(Nat) /\ sent \in Seq(Nat) /\ sending \in Nat
  BY LineType DEF TypeOK
<1>2. Append(sent, sending) = sent \o <<sending>> /\ Append(sent, sending) \in Seq(Nat)
  BY <1>1, AppendIsConcat, AppendProperties
<1>3. Line' = (Append(sent, sending) \o <<>>) \o queue
  <2>1. sent' = Append(sent, sending) /\ queue' = queue /\ sending' = Nothing
    BY DEF Sent, alertVars
  <2>2. QED
    BY <2>1, Zenon DEF Line
<1>4. Line' = Append(sent, sending) \o queue
  BY <1>2, <1>3, ConcatEmptySeq
<1>5. QED
  BY <1>2, <1>4 DEF Sent, Line

(* An alert goes to the end of the line, or is turned away.                 *)
LEMMA NotifyLine ==
    ASSUME TypeOK, NEW n \in Nat, Notify(n), UNCHANGED <<sent, sending>>
    PROVE  \/ Len(queue) < QueueSize /\ Line' = Append(Line, n) /\ dropped' = dropped
           \/ Line' = Line /\ queue' = queue /\ dropped' = dropped \union {n}
<1>1. CASE Len(queue) < QueueSize
  <2> DEFINE Ahead == sent \o (IF sending = Nothing THEN <<>> ELSE <<sending>>)
  <2>1. queue \in Seq(Nat) /\ Ahead \in Seq(Nat)
    <3>1. sent \in Seq(Nat) /\ queue \in Seq(Nat) /\ sending \in Nat
      BY LineType DEF TypeOK
    <3>2. (IF sending = Nothing THEN <<>> ELSE <<sending>>) \in Seq(Nat)
      BY <3>1
    <3>3. QED
      BY <3>1, <3>2, ConcatProperties
  <2>2. Line' = Ahead \o Append(queue, n) /\ Line = Ahead \o queue
    BY <1>1 DEF Notify, Line
  <2> HIDE DEF Ahead
  <2>3. Append(queue, n) = queue \o <<n>> /\ <<n>> \in Seq(Nat)
    BY <2>1, AppendIsConcat
  <2>4. Ahead \o (queue \o <<n>>) = (Ahead \o queue) \o <<n>>
    BY <2>1, <2>3, ConcatAssociative
  <2>5. Ahead \o queue \in Seq(Nat)
    BY <2>1, ConcatProperties
  <2>6. QED
    BY <1>1, <2>2, <2>3, <2>4, <2>5, AppendIsConcat DEF Notify
<1>2. CASE ~(Len(queue) < QueueSize)
  BY <1>2 DEF Notify, Line
<1>3. QED
  BY <1>1, <1>2

(* The sequence s holds alerts in the order they were raised, and with the  *)
(* set d of those turned away every alert up to n, none twice.              *)
Complete(s, d, n) ==
    /\ \A i, j \in DOMAIN s : i < j => s[i] < s[j]
    /\ ToSet(s) \union d = 1..n
    /\ ToSet(s) \intersect d = {}

LEMMA CompleteAppend ==
    ASSUME NEW n \in Nat, NEW s \in Seq(1..n), NEW d, Complete(s, d, n)
    PROVE  /\ Complete(Append(s, n + 1), d, n + 1)
           /\ Complete(s, d \union {n + 1}, n + 1)
<1> DEFINE t == Append(s, n + 1)
<1>1. s \in Seq(1..(n + 1)) /\ s \in Seq(Nat)
  BY SeqMonotonic
<1>2. /\ Len(t) = Len(s) + 1 /\ Len(s) \in Nat
      /\ DOMAIN t = 1..(Len(s) + 1) /\ DOMAIN s = 1..Len(s)
      /\ \A i \in 1..Len(s) : t[i] = s[i]
      /\ t[Len(s) + 1] = n + 1
  BY <1>1, AppendProperties, LenProperties
<1>3. \A i \in 1..Len(s) : s[i] \in 1..n
  BY ElementOfSeq
<1> HIDE DEF t
<1>4. ToSet(t) = ToSet(s) \union {n + 1}
  <2>1. ToSet(s) = {s[i] : i \in 1..Len(s)} /\ ToSet(t) = {t[i] : i \in 1..(Len(s) + 1)}
    BY <1>2 DEF ToSet
  <2>2. 1..(Len(s) + 1) = (1..Len(s)) \union {Len(s) + 1}
    BY <1>2
  <2>3. QED
    BY <1>2, <2>1, <2>2
<1>5. ToSet(s) \subseteq 1..n
  BY <1>2, <1>3 DEF ToSet
<1>6. 1..(n + 1) = (1..n) \union {n + 1} /\ d \subseteq 1..n
  <2>1. d \subseteq 1..n
    BY Zenon DEF Complete
  <2>2. QED
    BY <2>1
<1>7. Complete(s, d \union {n + 1}, n + 1)
  BY <1>5, <1>6 DEF Complete
<1>8. \A i, j \in DOMAIN t : i < j => t[i] < t[j]
  <2> SUFFICES ASSUME NEW i \in DOMAIN t, NEW j \in DOMAIN t, i < j PROVE t[i] < t[j]
    OBVIOUS
  <2>1. i \in 1..Len(s) /\ t[i] = s[i]
    BY <1>2
  <2>2. CASE j = Len(s) + 1
    BY <1>2, <1>3, <2>1, <2>2
  <2>3. CASE j \in 1..Len(s)
    BY <1>2, <2>1, <2>3 DEF Complete
  <2>4. QED
    BY <1>2, <2>2, <2>3
<1>9. Complete(t, d, n + 1)
  <2>1. ToSet(t) \union d = 1..(n + 1)
    BY <1>4, <1>6 DEF Complete
  <2>2. ToSet(t) \intersect d = {}
    BY <1>4, <1>6 DEF Complete
  <2>3. QED
    BY <1>8, <2>1, <2>2 DEF Complete
<1>10. QED
  BY <1>7, <1>9 DEF t

LEMMA AccountedIsComplete == Accounted <=> Complete(Line, dropped, raised)
BY DEF Accounted, Complete, Line

-----------------------------------------------------------------------------
(* The steps, by what they do to the alerts.                                *)

AlertState == <<sent, sending, queue, raised, dropped>>

(* One more alert, and a place in the line or none.                         *)
Raising ==
    /\ raised' = raised + 1
    /\ Notify(raised + 1)
    /\ UNCHANGED <<sent, sending>>

LEMMA AlertSteps == [Next]_vars => Raising \/ Take \/ Sent \/ UNCHANGED AlertState
BY DEF Next, Dial, DialOK, DialFails, Restart, notifyDDoS, Minute, Start, notifyLoop, Boot,
       BootFails, serve, Signal, LoginOK, LoginFails, PollEnds, CloseDone, LoopEnds, Spawn,
       ForwarderEnds, Cancel, Farewell, WaitReturns, Raise, Raising, AlertState,
       vars, procVars, botVars, alertVars, sourceVars

(* No step loses an alert, duplicates one or lets one overtake another.     *)
LEMMA AccountedStep == TypeOK /\ Accounted /\ [Next]_vars => Accounted'
<1> SUFFICES ASSUME TypeOK, Accounted, [Next]_vars PROVE Accounted'
  OBVIOUS
<1>1. Complete(Line, dropped, raised) /\ Line \in Seq(1..raised) /\ raised \in Nat
  BY AccountedIsComplete, LineType DEF TypeOK
<1>2. Accounted' <=> Complete(Line', dropped', raised')
  BY DEF Accounted, Complete, Line
<1>3. CASE Raising
  <2>1. \/ Line' = Append(Line, raised + 1) /\ dropped' = dropped
        \/ Line' = Line /\ dropped' = dropped \union {raised + 1}
    BY <1>1, <1>3, NotifyLine DEF Raising
  <2>2. raised' = raised + 1
    BY <1>3 DEF Raising
  <2>3. QED
    BY <1>1, <1>2, <2>1, <2>2, CompleteAppend
<1>4. CASE Take
  <2>1. raised' = raised /\ dropped' = dropped
    BY <1>4 DEF Take
  <2>2. QED
    BY <1>1, <1>2, <1>4, <2>1, TakeLine
<1>5. CASE Sent
  <2>1. raised' = raised /\ dropped' = dropped
    BY <1>5 DEF Sent, alertVars
  <2>2. QED
    BY <1>1, <1>2, <1>5, <2>1, SentLine
<1>6. CASE UNCHANGED AlertState
  BY <1>6 DEF AlertState, Accounted
<1>7. QED
  BY <1>3, <1>4, <1>5, <1>6, AlertSteps

(* The types of the alerts on their way.                                    *)
AlertTypes ==
    /\ queue \in Seq(1..raised) /\ Len(queue) <= QueueSize
    /\ raised \in Nat
    /\ sending \in 0..raised /\ sent \in Seq(1..raised) /\ dropped \subseteq 1..raised

LEMMA AlertTypesStep == AlertTypes /\ [Next]_vars => AlertTypes'
<1> SUFFICES ASSUME AlertTypes, [Next]_vars PROVE AlertTypes'
  OBVIOUS
<1> USE QueueAssumption
<1>1. CASE Raising
  <2> DEFINE R == 1..(raised + 1)
  <2>1. raised' = raised + 1 /\ raised + 1 \in R /\ 1..raised \subseteq R /\ raised' \in Nat
    BY <1>1 DEF Raising, AlertTypes
  <2>2. queue \in Seq(R) /\ sent' \in Seq(R) /\ dropped \subseteq R
    BY <1>1, <2>1, SeqMonotonic DEF AlertTypes, Raising
  <2>3. sending' \in 0..(raised + 1)
    BY <1>1 DEF AlertTypes, Raising
  <2> HIDE DEF R
  <2>4. CASE Len(queue) < QueueSize
    <3>1. queue' = Append(queue, raised + 1) /\ dropped' = dropped
      BY <1>1, <2>4 DEF Raising, Notify
    <3>2. queue' \in Seq(R) /\ Len(queue') = Len(queue) + 1 /\ Len(queue) \in Nat
      BY <2>1, <2>2, <3>1, AppendProperties, LenProperties
    <3>3. Len(queue') <= QueueSize
      BY <3>2, <2>4
    <3>4. QED
      BY <2>1, <2>2, <2>3, <3>1, <3>2, <3>3 DEF AlertTypes, R
  <2>5. CASE ~(Len(queue) < QueueSize)
    <3>1. queue' = queue /\ dropped' = dropped \union {raised + 1}
      BY <1>1, <2>5 DEF Raising, Notify
    <3>2. dropped' \subseteq R
      BY <2>1, <2>2, <3>1
    <3>3. QED
      BY <2>1, <2>2, <2>3, <3>1, <3>2 DEF AlertTypes, R
  <2>6. QED
    BY <2>4, <2>5
<1>2. CASE Take
  <2>1. sending' = Head(queue) /\ queue' = Tail(queue) /\ UNCHANGED <<sent, raised, dropped>>
    BY <1>2 DEF Take
  <2>2. /\ Head(queue) \in 1..raised /\ Tail(queue) \in Seq(1..raised)
        /\ Len(Tail(queue)) = Len(queue) - 1 /\ Len(queue) \in Nat
    BY <1>2, HeadTailProperties, LenProperties DEF Take, AlertTypes
  <2>3. QED
    BY <2>1, <2>2 DEF AlertTypes
<1>3. CASE Sent
  <2>1. sending' = 0 /\ sent' = Append(sent, sending) /\ UNCHANGED <<queue, raised, dropped>>
    BY <1>3 DEF Sent, alertVars, Nothing
  <2>2. sending \in 1..raised
    BY <1>3 DEF Sent, Nothing, AlertTypes
  <2>3. sent' \in Seq(1..raised)
    BY <2>1, <2>2, AppendProperties DEF AlertTypes
  <2>4. QED
    BY <2>1, <2>3 DEF AlertTypes
<1>4. CASE UNCHANGED AlertState
  BY <1>4 DEF AlertState, AlertTypes
<1>5. QED
  BY <1>1, <1>2, <1>3, <1>4, AlertSteps

-----------------------------------------------------------------------------
(* The goroutines.                                                          *)

(* The types of everything but the alerts on their way.                     *)
DaemonTypes ==
    /\ telegram \in BOOLEAN
    /\ main \in {"boot", "serve", "wait", "exit", "panic"}
    /\ {forwarder, failed, cancelled, loop, done} \subseteq BOOLEAN
    /\ bot \in {"none", "login", "poll", "done"}
    /\ signals \in {"none", "wait", "cancel", "shutdown", "done"}
    /\ raised <= MaxAlerts + 1
    /\ up \subseteq Backends /\ dialing \subseteq Backends
    /\ dialFail \in [Backends -> 0..Threshold]
    /\ quiet \subseteq Backends \X Protocols
    /\ outage \in [Backends -> Nat]

(* Every step keeps the types, and the farewell comes at most once.         *)
LEMMA DaemonTypesStep ==
    AlertTypes /\ DaemonTypes /\ RaisedBound /\ BootShape /\ [Next]_vars
        => DaemonTypes' /\ RaisedBound'
<1> SUFFICES ASSUME AlertTypes, DaemonTypes, RaisedBound, BootShape, [Next]_vars
             PROVE  DaemonTypes' /\ RaisedBound'
  OBVIOUS
<1> USE DEF procVars, botVars, alertVars, sourceVars, AlertTypes, DaemonTypes,
            RaisedBound, Threshold, Alive
<1>1. ASSUME NEW b \in Backends, Dial(b) PROVE DaemonTypes' /\ RaisedBound'
  BY <1>1, QueueAssumption DEF Dial
<1>2. ASSUME NEW b \in Backends, DialOK(b) PROVE DaemonTypes' /\ RaisedBound'
  BY <1>2, QueueAssumption DEF DialOK
<1>3. ASSUME NEW b \in Backends, DialFails(b) PROVE DaemonTypes' /\ RaisedBound'
  <2> DEFINE n == dialFail[b] + 1
  <2>1. /\ dialing' \subseteq Backends
        /\ dialFail' = [dialFail EXCEPT ![b] = IF n > Threshold THEN dialFail[b] ELSE n]
        /\ UNCHANGED <<telegram, botVars, up, quiet>>
    BY <1>3 DEF DialFails
  <2>2. dialFail' \in [Backends -> 0..Threshold]
    <3>1. dialFail[b] \in 0..Threshold
      OBVIOUS
    <3>2. (IF n > Threshold THEN dialFail[b] ELSE n) \in 0..Threshold
      BY <3>1 DEF Threshold
    <3>3. QED
      BY <2>1, <3>2
  <2>3. CASE AlertsAt(n)
    <3>1. Raise /\ outage' = [outage EXCEPT ![b] = @ + 1]
      BY <1>3, <2>3 DEF DialFails
    <3>2. outage' \in [Backends -> Nat]
      BY <3>1
    <3>3. /\ main' \in {main, "panic"}
          /\ raised' = raised \/ (raised < MaxAlerts /\ raised' = raised + 1)
          /\ UNCHANGED <<forwarder, bot, failed, signals, cancelled>>
      BY <3>1 DEF Raise
    <3>4. QED
      BY <2>1, <2>2, <3>2, <3>3, QueueAssumption
  <2>4. CASE ~AlertsAt(n)
    <3>1. UNCHANGED <<procVars, alertVars, outage>>
      BY <1>3, <2>4 DEF DialFails
    <3>2. QED
      BY <2>1, <2>2, <3>1, QueueAssumption
  <2>5. QED
    BY <2>3, <2>4
<1>4. ASSUME NEW b \in Backends, Restart(b) PROVE DaemonTypes' /\ RaisedBound'
  <2>1. <<b, "udp">> \in Backends \X Protocols
    BY DEF Protocols
  <2>2. QED
    BY <1>4, <2>1, QueueAssumption DEF Restart
<1>5. ASSUME NEW b \in Backends, NEW proto \in Protocols, notifyDDoS(b, proto)
      PROVE  DaemonTypes' /\ RaisedBound'
  BY <1>5, QueueAssumption DEF notifyDDoS, Raise
<1>6. ASSUME NEW b \in Backends, NEW proto \in Protocols, Minute(b, proto)
      PROVE  DaemonTypes' /\ RaisedBound'
  BY <1>6, QueueAssumption DEF Minute
<1>7. ASSUME LoginOK PROVE DaemonTypes' /\ RaisedBound'
  BY <1>7, QueueAssumption DEF LoginOK
<1>8. ASSUME LoginFails PROVE DaemonTypes' /\ RaisedBound'
  BY <1>8, QueueAssumption DEF LoginFails
<1>9. ASSUME PollEnds PROVE DaemonTypes' /\ RaisedBound'
  BY <1>9, QueueAssumption DEF PollEnds
<1>10. ASSUME CloseDone PROVE DaemonTypes' /\ RaisedBound'
  BY <1>10, QueueAssumption DEF CloseDone
<1>11. ASSUME Take PROVE DaemonTypes' /\ RaisedBound'
  BY <1>11, QueueAssumption DEF Take
<1>12. ASSUME Sent PROVE DaemonTypes' /\ RaisedBound'
  BY <1>12, QueueAssumption DEF Sent
<1>13. ASSUME LoopEnds PROVE DaemonTypes' /\ RaisedBound'
  BY <1>13, QueueAssumption DEF LoopEnds
<1>14. ASSUME Boot PROVE DaemonTypes' /\ RaisedBound'
  BY <1>14, QueueAssumption DEF Boot
<1>15. ASSUME BootFails PROVE DaemonTypes' /\ RaisedBound'
  BY <1>15, QueueAssumption DEF BootFails
<1>16. ASSUME Spawn PROVE DaemonTypes' /\ RaisedBound'
  <2>1. bot' \in {"none", "login"}
    BY <1>16 DEF Spawn
  <2>2. QED
    BY <1>16, <2>1, QueueAssumption DEF Spawn, BootShape
<1>17. ASSUME ForwarderEnds PROVE DaemonTypes' /\ RaisedBound'
  BY <1>17, QueueAssumption DEF ForwarderEnds
<1>18. ASSUME Signal PROVE DaemonTypes' /\ RaisedBound'
  BY <1>18, QueueAssumption DEF Signal
<1>19. ASSUME Cancel PROVE DaemonTypes' /\ RaisedBound'
  BY <1>19, QueueAssumption DEF Cancel
<1>20. ASSUME Farewell PROVE DaemonTypes' /\ RaisedBound'
  BY <1>20, QueueAssumption DEF Farewell
<1>21. ASSUME WaitReturns PROVE DaemonTypes' /\ RaisedBound'
  BY <1>21, QueueAssumption DEF WaitReturns
<1>22. CASE UNCHANGED vars
  BY <1>22 DEF vars
<1> HIDE DEF procVars, botVars, alertVars, sourceVars, AlertTypes, DaemonTypes,
             RaisedBound, Threshold, Alive
<1>23. QED
  BY <1>1, <1>2, <1>3, <1>4, <1>5, <1>6, <1>7, <1>8, <1>9, <1>10, <1>11,
     <1>12, <1>13, <1>14, <1>15, <1>16, <1>17, <1>18, <1>19, <1>20, <1>21, <1>22
     DEF Next, Start, notifyLoop, serve

(* No step ends the process but a failed boot, the end of g.Wait after a     *)
(* signal, and an alert without a bot.                                      *)
LEMMA ServesStep ==
    DaemonTypes /\ BootShape /\ ServesUntilSignal
        /\ [Next]_vars => BootShape' /\ ServesUntilSignal'
<1> SUFFICES ASSUME DaemonTypes, BootShape, ServesUntilSignal,
                    [Next]_vars PROVE BootShape' /\ ServesUntilSignal'
  OBVIOUS
<1> USE DEF procVars, botVars, alertVars, sourceVars, DaemonTypes, BootShape,
            ServesUntilSignal, Alive
<1>1. ASSUME NEW b \in Backends, Dial(b) PROVE BootShape' /\ ServesUntilSignal'
  BY <1>1 DEF Dial
<1>2. ASSUME NEW b \in Backends, DialOK(b) PROVE BootShape' /\ ServesUntilSignal'
  BY <1>2 DEF DialOK
<1>3. ASSUME NEW b \in Backends, DialFails(b) PROVE BootShape' /\ ServesUntilSignal'
  BY <1>3 DEF DialFails, Raise, AlertsAt
<1>4. ASSUME NEW b \in Backends, Restart(b) PROVE BootShape' /\ ServesUntilSignal'
  BY <1>4 DEF Restart
<1>5. ASSUME NEW b \in Backends, NEW proto \in Protocols, notifyDDoS(b, proto)
      PROVE  BootShape' /\ ServesUntilSignal'
  BY <1>5 DEF notifyDDoS, Raise
<1>6. ASSUME NEW b \in Backends, NEW proto \in Protocols, Minute(b, proto)
      PROVE  BootShape' /\ ServesUntilSignal'
  BY <1>6 DEF Minute
<1>7. ASSUME LoginOK PROVE BootShape' /\ ServesUntilSignal'
  BY <1>7 DEF LoginOK
<1>8. ASSUME LoginFails PROVE BootShape' /\ ServesUntilSignal'
  BY <1>8 DEF LoginFails
<1>9. ASSUME PollEnds PROVE BootShape' /\ ServesUntilSignal'
  BY <1>9 DEF PollEnds
<1>10. ASSUME CloseDone PROVE BootShape' /\ ServesUntilSignal'
  BY <1>10 DEF CloseDone
<1>11. ASSUME Take PROVE BootShape' /\ ServesUntilSignal'
  BY <1>11 DEF Take
<1>12. ASSUME Sent PROVE BootShape' /\ ServesUntilSignal'
  BY <1>12 DEF Sent
<1>13. ASSUME LoopEnds PROVE BootShape' /\ ServesUntilSignal'
  BY <1>13 DEF LoopEnds
<1>14. ASSUME Boot PROVE BootShape' /\ ServesUntilSignal'
  BY <1>14 DEF Boot
<1>15. ASSUME BootFails PROVE BootShape' /\ ServesUntilSignal'
  BY <1>15 DEF BootFails
<1>16. ASSUME Spawn PROVE BootShape' /\ ServesUntilSignal'
  BY <1>16 DEF Spawn
<1>17. ASSUME ForwarderEnds PROVE BootShape' /\ ServesUntilSignal'
  BY <1>17 DEF ForwarderEnds
<1>18. ASSUME Signal PROVE BootShape' /\ ServesUntilSignal'
  BY <1>18 DEF Signal
<1>19. ASSUME Cancel PROVE BootShape' /\ ServesUntilSignal'
  BY <1>19 DEF Cancel
<1>20. ASSUME Farewell PROVE BootShape' /\ ServesUntilSignal'
  BY <1>20 DEF Farewell
<1>21. ASSUME WaitReturns PROVE BootShape' /\ ServesUntilSignal'
  BY <1>21 DEF WaitReturns
<1>22. CASE UNCHANGED vars
  BY <1>22 DEF vars
<1> HIDE DEF procVars, botVars, alertVars, sourceVars, DaemonTypes, BootShape,
             ServesUntilSignal, Alive
<1>23. QED
  BY <1>1, <1>2, <1>3, <1>4, <1>5, <1>6, <1>7, <1>8, <1>9, <1>10, <1>11,
     <1>12, <1>13, <1>14, <1>15, <1>16, <1>17, <1>18, <1>19, <1>20, <1>21, <1>22
     DEF Next, Start, notifyLoop, serve

(* The third failure in a row raises the alert of an outage, no later one    *)
(* another.                                                                 *)
LEMMA OutageStep ==
    DaemonTypes /\ OneAlertPerOutage /\ [Next]_vars => OneAlertPerOutage'
<1> SUFFICES ASSUME DaemonTypes, OneAlertPerOutage, [Next]_vars PROVE OneAlertPerOutage'
  OBVIOUS
<1> USE DEF procVars, botVars, alertVars, sourceVars, DaemonTypes, OneAlertPerOutage,
            Threshold
<1>1. ASSUME NEW b \in Backends, Dial(b) PROVE OneAlertPerOutage'
  BY <1>1 DEF Dial
<1>2. ASSUME NEW b \in Backends, DialOK(b) PROVE OneAlertPerOutage'
  BY <1>2 DEF DialOK
<1>3. ASSUME NEW b \in Backends, DialFails(b) PROVE OneAlertPerOutage'
  BY <1>3 DEF DialFails, Raise, AlertsAt
<1>4. ASSUME NEW b \in Backends, Restart(b) PROVE OneAlertPerOutage'
  BY <1>4 DEF Restart
<1>5. ASSUME NEW b \in Backends, NEW proto \in Protocols, notifyDDoS(b, proto)
      PROVE  OneAlertPerOutage'
  BY <1>5 DEF notifyDDoS, Raise
<1>6. ASSUME NEW b \in Backends, NEW proto \in Protocols, Minute(b, proto) PROVE OneAlertPerOutage'
  BY <1>6 DEF Minute
<1>7. ASSUME LoginOK PROVE OneAlertPerOutage'
  BY <1>7 DEF LoginOK
<1>8. ASSUME LoginFails PROVE OneAlertPerOutage'
  BY <1>8 DEF LoginFails
<1>9. ASSUME PollEnds PROVE OneAlertPerOutage'
  BY <1>9 DEF PollEnds
<1>10. ASSUME CloseDone PROVE OneAlertPerOutage'
  BY <1>10 DEF CloseDone
<1>11. ASSUME Take PROVE OneAlertPerOutage'
  BY <1>11 DEF Take
<1>12. ASSUME Sent PROVE OneAlertPerOutage'
  BY <1>12 DEF Sent
<1>13. ASSUME LoopEnds PROVE OneAlertPerOutage'
  BY <1>13 DEF LoopEnds
<1>14. ASSUME Boot PROVE OneAlertPerOutage'
  BY <1>14 DEF Boot
<1>15. ASSUME BootFails PROVE OneAlertPerOutage'
  BY <1>15 DEF BootFails
<1>16. ASSUME Spawn PROVE OneAlertPerOutage'
  BY <1>16 DEF Spawn
<1>17. ASSUME ForwarderEnds PROVE OneAlertPerOutage'
  BY <1>17 DEF ForwarderEnds
<1>18. ASSUME Signal PROVE OneAlertPerOutage'
  BY <1>18 DEF Signal
<1>19. ASSUME Cancel PROVE OneAlertPerOutage'
  BY <1>19 DEF Cancel
<1>20. ASSUME Farewell PROVE OneAlertPerOutage'
  BY <1>20 DEF Farewell
<1>21. ASSUME WaitReturns PROVE OneAlertPerOutage'
  BY <1>21 DEF WaitReturns
<1>22. CASE UNCHANGED vars
  BY <1>22 DEF vars
<1> HIDE DEF procVars, botVars, alertVars, sourceVars, DaemonTypes, OneAlertPerOutage,
             Threshold
<1>23. QED
  BY <1>1, <1>2, <1>3, <1>4, <1>5, <1>6, <1>7, <1>8, <1>9, <1>10, <1>11,
     <1>12, <1>13, <1>14, <1>15, <1>16, <1>17, <1>18, <1>19, <1>20, <1>21, <1>22
     DEF Next, Start, notifyLoop, serve

-----------------------------------------------------------------------------
LEMMA TypesSplit == TypeOK <=> AlertTypes /\ DaemonTypes
BY QueueAssumption DEF TypeOK, AlertTypes, DaemonTypes

(* The inductive invariant holds at first, and every step keeps it.         *)
LEMMA AlertsInvariant == Spec => []AlertsInv
<1>1. Init => AlertsInv
  <2> SUFFICES ASSUME Init PROVE AlertsInv
    OBVIOUS
  <2>1. AlertTypes
    BY QueueAssumption, EmptySeq DEF Init, AlertTypes, Nothing
  <2>2. DaemonTypes
    <3>1. dialFail \in [Backends -> 0..Threshold] /\ outage \in [Backends -> Nat]
      BY DEF Init, Threshold
    <3>2. {forwarder, failed, cancelled, loop, done} \subseteq BOOLEAN /\ telegram \in BOOLEAN
      BY DEF Init
    <3>3. raised <= MaxAlerts + 1
      BY QueueAssumption DEF Init
    <3>4. /\ main = "boot" /\ bot = "none" /\ signals = "none"
          /\ up = {} /\ dialing = {} /\ quiet = Backends \X Protocols
      BY DEF Init
    <3>5. QED
      BY <3>1, <3>2, <3>3, <3>4 DEF DaemonTypes
  <2>3. Accounted
    <3>1. Line = <<>> /\ raised = 0 /\ dropped = {}
      BY ConcatEmptySeq, EmptySeq DEF Init, Line, Nothing
    <3>2. ToSet(<<>>) = {}
      BY EmptySeq DEF ToSet
    <3>3. DOMAIN <<>> = {} /\ 1..0 = {}
      BY EmptySeq
    <3>4. QED
      BY <3>1, <3>2, <3>3, AccountedIsComplete DEF Complete
  <2>4. OneAlertPerOutage /\ ServesUntilSignal /\ RaisedBound /\ BootShape
    BY QueueAssumption
       DEF Init, OneAlertPerOutage, ServesUntilSignal, RaisedBound, BootShape, Threshold
  <2>5. QED
    BY <2>1, <2>2, <2>3, <2>4, TypesSplit DEF AlertsInv
<1>2. AlertsInv /\ [Next]_vars => AlertsInv'
  <2> SUFFICES ASSUME AlertsInv, [Next]_vars PROVE AlertsInv'
    OBVIOUS
  <2>1. AlertTypes' /\ DaemonTypes' /\ RaisedBound'
    BY TypesSplit, AlertTypesStep, DaemonTypesStep DEF AlertsInv
  <2>2. TypeOK'
    BY <2>1, QueueAssumption DEF TypeOK, AlertTypes, DaemonTypes
  <2>3. Accounted' /\ BootShape' /\ ServesUntilSignal' /\ OneAlertPerOutage'
    BY TypesSplit, AccountedStep, ServesStep, OutageStep DEF AlertsInv
  <2>4. QED
    BY <2>1, <2>2, <2>3 DEF AlertsInv
<1>3. QED
  BY <1>1, <1>2, PTL DEF Spec

(* Every alert a backend raises is handed to the API once, in the order in  *)
(* which they were raised, or waits, or was turned away by a full queue,    *)
(* and the queue keeps to its capacity (Notify, notifyLoop, broadcast).     *)
THEOREM AlertsAccounted == Spec => []Inv
<1>1. AlertsInv => Inv
  BY DEF AlertsInv, Inv
<1>2. QED
  BY <1>1, AlertsInvariant, PTL

(* A backend that cannot be dialled raises one alert, however long that     *)
(* lasts, and another one only after a good dial or a restart.              *)
THEOREM OneAlert == Spec => []OneAlertPerOutage
<1>1. AlertsInv => OneAlertPerOutage
  BY DEF AlertsInv
<1>2. QED
  BY <1>1, AlertsInvariant, PTL

(* serve returns only after a signal, or before anything has listened: a    *)
(* bot that cannot log in does not make it. (Without a bot a panic may end  *)
(* the process instead, main.go:86; that is no return of serve.)            *)
THEOREM Serves == Spec => []ServesUntilSignal
<1>1. AlertsInv => ServesUntilSignal
  BY DEF AlertsInv
<1>2. QED
  BY <1>1, AlertsInvariant, PTL

-----------------------------------------------------------------------------
(* The limiter.                                                            *)

(* A count over more ticks is no smaller.                                  *)
Grows(k) == \A a, b \in Ages : a <= b => grants[k][a] <= grants[k][b]

(* A bucket that may be filled has been used before: what is left in the   *)
(* interval fits under the bound with a full bucket on top.                *)
Due(k) == Recent(k) = 0 \/ Recent(k) < boots * Capacity

(* A bucket since its fill: what it has granted is what is missing in it,  *)
(* of which the first use falls into the tick of the fill.                 *)
Drawn(k) ==
    /\ boots > 0 /\ tokens[k] < Capacity
    /\ Recent(k) + tokens[k] < (boots + 1) * Capacity
    /\ grants[k][fillAge[k]] + tokens[k] >= Capacity
    /\ \A a \in Ages : a < fillAge[k] => grants[k][a] + tokens[k] < Capacity

KeyShape(k) == Grows(k) /\ IF fillAge[k] = Refill THEN Due(k) ELSE Drawn(k)

LimiterShape == \A k \in Keys : KeyShape(k)

LEMMA LastAge == Refill - 1 \in Ages /\ 0 \in Ages /\ Ages \subseteq Nat
BY LimiterAssumption DEF Ages

LEMMA Products ==
    boots \in Nat => /\ boots * Capacity \in Nat
                     /\ (boots + 1) * Capacity = boots * Capacity + Capacity
                     /\ boots > 0 => boots * Capacity >= Capacity
<1> SUFFICES ASSUME boots \in Nat
             PROVE  /\ boots * Capacity \in Nat
                    /\ (boots + 1) * Capacity = boots * Capacity + Capacity
                    /\ boots > 0 => boots * Capacity >= Capacity
  OBVIOUS
<1>1. Capacity \in Nat \ {0}
  BY LimiterAssumption
<1>2. boots * Capacity \in Nat
  BY <1>1
<1>3. (boots + 1) * Capacity = boots * Capacity + Capacity
  BY <1>1
<1>4. ASSUME boots > 0 PROVE boots * Capacity >= Capacity
  <2>1. (boots - 1) * Capacity \in Nat
    BY <1>1, <1>4
  <2>2. boots * Capacity = (boots - 1) * Capacity + Capacity
    BY <1>1
  <2>3. QED
    BY <1>1, <2>1, <2>2
<1>5. QED
  BY <1>2, <1>3, <1>4

LEMMA LimiterStarts == LimiterInit /\ boots = 0 => LimiterTypes /\ LimiterShape
<1> SUFFICES ASSUME LimiterInit, boots = 0 PROVE LimiterTypes /\ LimiterShape
  OBVIOUS
<1>1. LimiterTypes
  BY LimiterAssumption DEF LimiterInit, LimiterTypes
<1>2. ASSUME NEW k \in Keys PROVE KeyShape(k)
  <2>1. \A a \in Ages : grants[k][a] = 0
    BY DEF LimiterInit
  <2>2. fillAge[k] = Refill
    BY DEF LimiterInit
  <2>3. Grows(k)
    <3>1. ASSUME NEW a \in Ages, NEW b \in Ages PROVE grants[k][a] <= grants[k][b]
      BY <2>1
    <3>2. QED
      BY <3>1 DEF Grows
  <2>4. Due(k)
    BY <2>1, LastAge DEF Due, Recent
  <2>5. QED
    BY <2>2, <2>3, <2>4 DEF KeyShape
<1>3. QED
  BY <1>1, <1>2 DEF LimiterShape

(* An admin who is not asked about keeps the shape.                        *)
LEMMA KeyStays ==
    ASSUME NEW k \in Keys, KeyShape(k), boots' = boots, tokens'[k] = tokens[k],
           fillAge'[k] = fillAge[k], grants'[k] = grants[k]
    PROVE  KeyShape(k)'
BY DEF KeyShape, Grows, Due, Drawn, Recent

LEMMA AllowKeeps ==
    ASSUME NEW k \in Keys, NEW granted \in BOOLEAN, Allow(k, granted),
           LimiterTypes, LimiterShape, boots \in Nat \ {0}, boots' = boots
    PROVE  LimiterTypes' /\ LimiterShape'
<1> DEFINE left == IF granted THEN Filled(k) - 1 ELSE 0
           aged == IF fillAge[k] >= Refill THEN 0 ELSE fillAge[k]
           more == [a \in Ages |-> IF granted THEN grants[k][a] + 1 ELSE grants[k][a]]
<1>1. /\ tokens' = [tokens EXCEPT ![k] = left]
      /\ fillAge' = [fillAge EXCEPT ![k] = aged]
      /\ grants' = [grants EXCEPT ![k] = more]
  BY DEF Allow, Count
<1>2. Filled(k) \in 0..Capacity /\ (granted <=> Filled(k) > 0)
  <2>1. Filled(k) \in 0..Capacity
    BY LimiterAssumption DEF LimiterTypes, Filled
  <2>2. granted = (Filled(k) > 0)
    BY DEF Allow
  <2>3. QED
    BY <2>1, <2>2
<1>3. left \in 0..Capacity /\ aged \in 0..(Refill - 1) /\ more \in [Ages -> Nat]
  <2>1. left \in 0..Capacity
    BY <1>2, LimiterAssumption
  <2>2. aged \in 0..(Refill - 1)
    BY LimiterAssumption DEF LimiterTypes
  <2>3. grants[k] \in [Ages -> Nat]
    BY DEF LimiterTypes
  <2>4. QED
    BY <2>1, <2>2, <2>3
<1>4. LimiterTypes'
  <2>1. tokens' \in [Keys -> 0..Capacity]
    BY <1>1, <1>3 DEF LimiterTypes
  <2>2. fillAge' \in [Keys -> 0..Refill]
    BY <1>1, <1>3, LimiterAssumption DEF LimiterTypes
  <2>3. grants' \in [Keys -> [Ages -> Nat]]
    BY <1>1, <1>3 DEF LimiterTypes
  <2>4. QED
    BY <2>1, <2>2, <2>3 DEF LimiterTypes
<1>5. tokens'[k] = left /\ fillAge'[k] = aged /\ grants'[k] = more
  BY <1>1 DEF LimiterTypes
<1>6. KeyShape(k)'
  <2> DEFINE f == fillAge[k]
             g == grants[k]
  <2>1. /\ g \in [Ages -> Nat] /\ f \in 0..Refill /\ tokens[k] \in 0..Capacity
        /\ Refill - 1 \in Ages /\ Refill \in Nat \ {0} /\ Capacity \in Nat \ {0}
        /\ Ages \subseteq Nat /\ aged \in Ages
    BY <1>3, LastAge, LimiterAssumption DEF LimiterTypes, Ages
  <2>2. \A a \in Ages : more[a] = IF granted THEN g[a] + 1 ELSE g[a]
    OBVIOUS
  <2>3. \A a, b \in Ages : a <= b => g[a] <= g[b]
    BY DEF LimiterShape, KeyShape, Grows
  <2>4. Grows(k)'
    <3>1. ASSUME NEW a \in Ages, NEW b \in Ages, a <= b PROVE more[a] <= more[b]
      <4>1. g[a] <= g[b] /\ g[a] \in Nat /\ g[b] \in Nat
        BY <2>1, <2>3, <3>1
      <4>2. QED
        BY <2>2, <4>1
    <3>2. QED
      BY <1>5, <3>1 DEF Grows
  <2>5. /\ boots * Capacity \in Nat /\ (boots + 1) * Capacity = boots * Capacity + Capacity
        /\ boots * Capacity >= Capacity
    BY Products
  <2>6. CASE f = Refill
    <3>1. granted /\ left = Capacity - 1 /\ aged = 0
      BY <1>2, <2>1, <2>6 DEF Filled
    <3>2. g[Refill - 1] < boots * Capacity
      <4>1. g[Refill - 1] = 0 \/ g[Refill - 1] < boots * Capacity
        BY <2>6 DEF LimiterShape, KeyShape, Due, Recent
      <4>2. QED
        BY <4>1, <2>1, <2>5
    <3>3. more[Refill - 1] + left < (boots + 1) * Capacity
      BY <2>1, <2>2, <2>5, <3>1, <3>2
    <3>4. more[aged] + left >= Capacity
      BY <2>1, <2>2, <3>1
    <3>5. (\A a \in Ages : ~(a < aged)) /\ left < Capacity
      BY <2>1, <3>1
    <3>6. Drawn(k)' /\ fillAge'[k] # Refill
      BY <1>5, <2>1, <3>1, <3>3, <3>4, <3>5 DEF Drawn, Recent
    <3>7. QED
      BY <2>4, <3>6 DEF KeyShape
  <2>7. CASE f < Refill
    <3>1. /\ g[Refill - 1] + tokens[k] < (boots + 1) * Capacity
          /\ g[f] + tokens[k] >= Capacity
          /\ \A a \in Ages : a < f => g[a] + tokens[k] < Capacity
      BY <2>1, <2>7 DEF LimiterShape, KeyShape, Drawn, Recent
    <3>2. aged = f /\ left = IF granted THEN tokens[k] - 1 ELSE 0
      BY <2>1, <2>7 DEF Filled
    <3>3. granted <=> tokens[k] > 0
      BY <1>2, <2>1, <2>7 DEF Filled
    <3>4. f \in Ages
      BY <2>1, <3>2
    <3>5. (\A a \in Ages : more[a] + left = g[a] + tokens[k]) /\ left < Capacity
      BY <2>1, <2>2, <3>2, <3>3
    <3>6. Drawn(k)' /\ fillAge'[k] # Refill
      BY <1>5, <2>1, <2>7, <3>1, <3>2, <3>4, <3>5 DEF Drawn, Recent
    <3>7. QED
      BY <2>4, <3>6 DEF KeyShape
  <2>8. QED
    BY <2>1, <2>6, <2>7
<1>7. ASSUME NEW j \in Keys, j # k PROVE KeyShape(j)'
  <2>1. tokens'[j] = tokens[j] /\ fillAge'[j] = fillAge[j] /\ grants'[j] = grants[j]
    BY <1>1, <1>7 DEF LimiterTypes
  <2>2. QED
    BY <2>1, KeyStays DEF LimiterShape
<1>8. QED
  BY <1>4, <1>6, <1>7 DEF LimiterShape

(* A tick moves every count on by one.                                     *)
LEMMA TickKeeps ==
    ASSUME Tick, LimiterTypes, LimiterShape, boots \in Nat, boots' = boots
    PROVE  LimiterTypes' /\ LimiterShape'
<1>1. /\ \A k \in Keys : fillAge'[k] = IF fillAge[k] < Refill THEN fillAge[k] + 1 ELSE Refill
      /\ \A k \in Keys, a \in Ages : grants'[k][a] = IF a = 0 THEN 0 ELSE grants[k][a - 1]
      /\ tokens' = tokens
  BY DEF Tick
<1>2. \A a \in Ages : a # 0 => a - 1 \in Ages
  BY LimiterAssumption DEF Ages
<1>3. LimiterTypes'
  <2>1. fillAge' \in [Keys -> 0..Refill]
    BY LimiterAssumption DEF Tick, LimiterTypes
  <2>2. \A k \in Keys, a \in Ages : (IF a = 0 THEN 0 ELSE grants[k][a - 1]) \in Nat
    BY <1>2 DEF LimiterTypes
  <2>3. grants' \in [Keys -> [Ages -> Nat]]
    BY <2>2 DEF Tick
  <2>4. QED
    BY <1>1, <2>1, <2>3 DEF LimiterTypes
<1>4. ASSUME NEW k \in Keys PROVE KeyShape(k)'
  <2> DEFINE f == fillAge[k]
             g == grants[k]
             h == grants'[k]
  <2>1. /\ g \in [Ages -> Nat] /\ f \in 0..Refill /\ tokens[k] \in 0..Capacity
        /\ Refill - 1 \in Ages /\ 0 \in Ages /\ Refill \in Nat \ {0} /\ Capacity \in Nat \ {0}
        /\ Ages \subseteq Nat /\ h \in [Ages -> Nat]
    BY <1>3, LastAge, LimiterAssumption DEF LimiterTypes
  <2>2. \A a \in Ages : h[a] = IF a = 0 THEN 0 ELSE g[a - 1]
    BY <1>1
  <2>3. \A a, b \in Ages : a <= b => g[a] <= g[b]
    BY DEF LimiterShape, KeyShape, Grows
  <2>4. Grows(k)'
    <3>1. ASSUME NEW a \in Ages, NEW b \in Ages, a <= b PROVE h[a] <= h[b]
      <4>1. CASE a = 0
        BY <2>1, <2>2, <4>1
      <4>2. CASE a # 0
        <5>1. b # 0 /\ a - 1 <= b - 1 /\ a - 1 \in Ages /\ b - 1 \in Ages
          BY <1>2, <2>1, <3>1, <4>2
        <5>2. QED
          BY <2>2, <2>3, <4>2, <5>1
      <4>3. QED
        BY <4>1, <4>2
    <3>2. QED
      BY <3>1 DEF Grows
  <2>5. h[Refill - 1] <= g[Refill - 1]
    <3>1. CASE Refill - 1 = 0
      BY <2>1, <2>2, <3>1
    <3>2. CASE Refill - 1 # 0
      <4>1. (Refill - 1) - 1 \in Ages /\ (Refill - 1) - 1 <= Refill - 1
        BY <1>2, <2>1, <3>2
      <4>2. h[Refill - 1] = g[(Refill - 1) - 1]
        BY <2>1, <2>2, <3>2
      <4>3. QED
        BY <2>1, <2>3, <4>1, <4>2
    <3>3. QED
      BY <3>1, <3>2
  <2>6. /\ boots * Capacity \in Nat /\ (boots + 1) * Capacity = boots * Capacity + Capacity
        /\ boots > 0 => boots * Capacity >= Capacity
    BY Products
  <2>7. CASE f = Refill
    <3>1. g[Refill - 1] = 0 \/ g[Refill - 1] < boots * Capacity
      BY <2>7 DEF LimiterShape, KeyShape, Due, Recent
    <3>2. h[Refill - 1] = 0 \/ h[Refill - 1] < boots * Capacity
      BY <2>1, <2>5, <2>6, <3>1
    <3>3. fillAge'[k] = Refill
      BY <1>1, <2>7, <2>1
    <3>4. Due(k)'
      BY <3>2 DEF Due, Recent
    <3>5. QED
      BY <2>4, <3>3, <3>4 DEF KeyShape
  <2>8. CASE f < Refill
    <3>1. /\ boots > 0 /\ tokens[k] < Capacity
          /\ g[Refill - 1] + tokens[k] < (boots + 1) * Capacity
          /\ g[f] + tokens[k] >= Capacity
          /\ \A a \in Ages : a < f => g[a] + tokens[k] < Capacity
      BY <2>1, <2>8 DEF LimiterShape, KeyShape, Drawn, Recent
    <3>2. fillAge'[k] = f + 1 /\ tokens'[k] = tokens[k]
      BY <1>1, <2>8
    <3>3. CASE f + 1 = Refill
      <4>1. h[Refill - 1] = 0 \/ h[Refill - 1] < boots * Capacity
        <5>1. CASE Refill - 1 = 0
          BY <2>1, <2>2, <5>1
        <5>2. CASE Refill - 1 # 0
          <6>1. (Refill - 1) - 1 \in Ages /\ (Refill - 1) - 1 < f
            BY <1>2, <2>1, <3>3, <5>2
          <6>2. g[(Refill - 1) - 1] + tokens[k] < Capacity
            BY <3>1, <6>1
          <6>3. h[Refill - 1] = g[(Refill - 1) - 1] /\ g[(Refill - 1) - 1] \in Nat
            BY <2>1, <2>2, <5>2, <6>1
          <6>4. QED
            BY <2>1, <2>6, <3>1, <6>2, <6>3
        <5>3. QED
          BY <5>1, <5>2
      <4>2. Due(k)'
        BY <4>1 DEF Due, Recent
      <4>3. QED
        BY <2>4, <3>2, <3>3, <4>2 DEF KeyShape
    <3>4. CASE f + 1 # Refill
      <4>1. f + 1 \in Ages /\ h[f + 1] = g[f]
        <5>1. f + 1 \in 0..(Refill - 1) /\ f + 1 # 0 /\ (f + 1) - 1 = f
          BY <2>1, <2>8, <3>4
        <5>2. QED
          BY <2>2, <5>1 DEF Ages
      <4>2. ASSUME NEW a \in Ages, a < f + 1 PROVE h[a] + tokens[k] < Capacity
        <5>1. CASE a = 0
          <6>1. h[a] = 0
            BY <2>2, <5>1
          <6>2. QED
            BY <2>1, <3>1, <6>1
        <5>2. CASE a # 0
          <6>1. a - 1 \in Ages /\ a - 1 < f
            BY <1>2, <2>1, <4>2, <5>2
          <6>2. QED
            BY <2>2, <3>1, <5>2, <6>1
        <5>3. QED
          BY <5>1, <5>2
      <4>3. h[Refill - 1] + tokens[k] < (boots + 1) * Capacity
        BY <2>1, <2>5, <2>6, <3>1
      <4>4. Drawn(k)'
        BY <1>1, <3>1, <3>2, <4>1, <4>2, <4>3 DEF Drawn, Recent
      <4>5. fillAge'[k] # Refill
        BY <3>2, <3>4
      <4>6. QED
        BY <2>4, <4>4, <4>5 DEF KeyShape
    <3>5. QED
      BY <3>3, <3>4
  <2>9. QED
    BY <2>1, <2>7, <2>8
<1>5. QED
  BY <1>3, <1>4 DEF LimiterShape

(* A new process has no buckets; one restart has been added to the bound.  *)
LEMMA ResetKeeps ==
    ASSUME LimiterReset, grants' = grants, LimiterTypes, LimiterShape, boots \in Nat,
           boots' = boots + 1
    PROVE  LimiterTypes' /\ LimiterShape'
<1>1. LimiterTypes'
  BY LimiterAssumption DEF LimiterReset, LimiterTypes
<1>2. ASSUME NEW k \in Keys PROVE KeyShape(k)'
  <2>1. /\ boots * Capacity \in Nat
        /\ (boots + 1) * Capacity = boots * Capacity + Capacity
    BY Products
  <2>2. tokens[k] \in Nat /\ Recent(k) \in Nat /\ Capacity \in Nat
    BY LastAge, LimiterAssumption DEF LimiterTypes, Recent
  <2>3. Grows(k) /\ (Due(k) \/ Drawn(k))
    BY DEF LimiterShape, KeyShape
  <2>4. Recent(k) = 0 \/ Recent(k) < (boots + 1) * Capacity
    <3>1. CASE Due(k)
      BY <2>1, <2>2, <3>1 DEF Due
    <3>2. CASE Drawn(k)
      <4>1. Recent(k) + tokens[k] < (boots + 1) * Capacity
        BY <3>2 DEF Drawn
      <4>2. QED
        BY <2>1, <2>2, <4>1
    <3>3. QED
      BY <2>3, <3>1, <3>2
  <2>5. Due(k)' /\ Grows(k)'
    BY <2>3, <2>4 DEF Due, Grows, Recent
  <2>6. fillAge'[k] = Refill
    BY DEF LimiterReset
  <2>7. QED
    BY <2>5, <2>6 DEF KeyShape
<1>3. QED
  BY <1>1, <1>2 DEF LimiterShape

(* What the shape says to somebody who waits.                              *)
LEMMA LimiterPromises ==
    LimiterTypes /\ LimiterShape /\ boots \in Nat => LimiterInv
<1> SUFFICES ASSUME LimiterTypes, LimiterShape, boots \in Nat, NEW k \in Keys
             PROVE  /\ Recent(k) < (boots + 1) * Capacity
                    /\ Filled(k) = 0 => Recent(k) >= Capacity
  BY DEF LimiterInv, WindowBound, RefusalJustified
<1>1. /\ boots * Capacity \in Nat
      /\ (boots + 1) * Capacity = boots * Capacity + Capacity
  BY Products
<1>2. /\ tokens[k] \in Nat /\ Recent(k) \in Nat /\ Capacity \in Nat \ {0}
      /\ fillAge[k] \in 0..Refill /\ Refill \in Nat
  BY LastAge, LimiterAssumption DEF LimiterTypes, Recent
<1>3. CASE fillAge[k] = Refill
  <2>1. Recent(k) = 0 \/ Recent(k) < boots * Capacity
    BY <1>3 DEF LimiterShape, KeyShape, Due
  <2>2. Filled(k) = Capacity
    BY <1>2, <1>3 DEF Filled
  <2>3. QED
    BY <1>1, <1>2, <2>1, <2>2
<1>4. CASE fillAge[k] # Refill
  <2>1. Grows(k) /\ Drawn(k)
    BY <1>4 DEF LimiterShape, KeyShape
  <2>2. fillAge[k] \in Ages /\ fillAge[k] <= Refill - 1 /\ Filled(k) = tokens[k]
    BY <1>2, <1>4 DEF Ages, Filled
  <2>3. grants[k][fillAge[k]] <= Recent(k) /\ grants[k][fillAge[k]] \in Nat
    BY <2>1, <2>2, LastAge DEF Grows, Recent, LimiterTypes
  <2>4. /\ Recent(k) + tokens[k] < (boots + 1) * Capacity
        /\ grants[k][fillAge[k]] + tokens[k] >= Capacity
    BY <2>1 DEF Drawn
  <2>5. QED
    BY <1>1, <1>2, <2>2, <2>3, <2>4
<1>5. QED
  BY <1>3, <1>4

-----------------------------------------------------------------------------
(* Commands, the kernel's rules and the audit log.                         *)

Running == {"src", "dst", "audit"}

(* The rules of the command in progress that are still to be written.      *)
Pending(d, ip) == job[2] = ip /\ at \in {"src", d}

Started == boots = 0 => at = "down"

(* How far the start of a process has come.                                *)
ChainShape ==
    /\ at \in {"create", "INPUT"} => jumps["INPUT"] < boots
    /\ at \in {"create", "INPUT", "OUTPUT"} => jumps["OUTPUT"] < boots
    /\ \A h \in Hooks : jumps[h] <= boots
    /\ ~chain => rules = NoRules
    /\ "failed" \notin trouble =>
          /\ at \notin {"down", "create"} => chain
          /\ at \notin {"down", "create", "INPUT"} => jumps["INPUT"] > 0
          /\ at \notin {"down", "create", "INPUT", "OUTPUT"} => jumps["OUTPUT"] > 0

(* The table has what the command in progress says.                        *)
JobShape == at \in Running => (job[1] = "ban" <=> job[2] \in bans)

(* Rules that are not pending mirror the table, one for each ban.          *)
MirrorShape ==
    trouble \subseteq {"repeated"} =>
        \A d \in Directions, ip \in bans : rules[d][ip] > 0 \/ Pending(d, ip)

ClearShape ==
    trouble \subseteq {"wiped"} =>
        \A d \in Directions, ip \in Ips :
            /\ rules[d][ip] <= 1
            /\ rules[d][ip] = 1 => (IF Pending(d, ip) THEN ip \notin bans ELSE ip \in bans)

(* The table is what the log explains, the entry of the command in         *)
(* progress added.                                                         *)
AuditShape ==
    trouble \intersect {"failed", "cut"} = {} =>
        bans = BannedBy(IF at \in Running THEN Append(audit, job) ELSE audit)

(* The types of what the limiter does not own.                             *)
StoreTypes ==
    /\ at \in {"down", "create", "idle", "audit"} \union Hooks \union Directions
    /\ job \in Jobs
    /\ bans \subseteq Ips
    /\ audit \in Seq(Jobs)
    /\ chain \in BOOLEAN
    /\ jumps \in [Hooks -> Nat]
    /\ rules \in [Directions -> [Ips -> Nat]]
    /\ boots \in 0..MaxBoots /\ commands \in 0..MaxCommands
    /\ trouble \subseteq {"failed", "cut", "wiped", "repeated"}

BansShape ==
    /\ LimiterTypes /\ LimiterShape
    /\ StoreTypes /\ Started /\ ChainShape /\ JobShape
    /\ MirrorShape /\ ClearShape /\ AuditShape

(* What a log explains after one more entry.                               *)
LEMMA OneMoreEntry ==
    ASSUME NEW log \in Seq(Jobs), NEW op \in {"ban", "unban"}, NEW ip \in Ips
    PROVE  BannedBy(Append(log, <<op, ip>>)) =
               IF op = "ban" THEN BannedBy(log) \union {ip} ELSE BannedBy(log) \ {ip}
<1> DEFINE new == Append(log, <<op, ip>>)
           N == Len(log)
<1>1. /\ N \in Nat /\ DOMAIN log = 1..N /\ DOMAIN new = 1..(N + 1)
      /\ new[N + 1] = <<op, ip>> /\ \A n \in 1..N : new[n] = log[n]
  BY DEF Jobs
<1> HIDE DEF new, N
<1>2. ASSUME NEW i \in Ips
      PROVE  i \in BannedBy(new) <=> (IF i = ip THEN op = "ban" ELSE i \in BannedBy(log))
  <2>1. CASE i = ip /\ op = "ban"
    BY <1>1, <2>1 DEF BannedBy
  <2>2. CASE i = ip /\ op # "ban"
    <3>1. op = "unban" /\ new[N + 1] = <<"unban", i>>
      BY <1>1, <2>2
    <3>2. ASSUME NEW n \in 1..(N + 1), new[n] = <<"ban", i>>
          PROVE  \E m \in 1..(N + 1) : m > n /\ new[m] = <<"unban", i>>
      BY <1>1, <3>1, <3>2
    <3>3. QED
      BY <1>1, <2>2, <3>2 DEF BannedBy
  <2>3. CASE i # ip
    <3>1. new[N + 1] # <<"ban", i>> /\ new[N + 1] # <<"unban", i>>
      BY <1>1, <2>3
    <3>2. ASSUME i \in BannedBy(new) PROVE i \in BannedBy(log)
      <4>1. PICK n \in 1..(N + 1) :
                new[n] = <<"ban", i>> /\ \A m \in 1..(N + 1) : m > n => new[m] # <<"unban", i>>
        BY <1>1, <3>2 DEF BannedBy
      <4>2. n \in 1..N /\ log[n] = <<"ban", i>>
        BY <1>1, <3>1, <4>1
      <4>3. \A m \in 1..N : m > n => log[m] # <<"unban", i>>
        BY <1>1, <4>1
      <4>4. QED
        BY <1>1, <4>2, <4>3 DEF BannedBy
    <3>3. ASSUME i \in BannedBy(log) PROVE i \in BannedBy(new)
      <4>1. PICK n \in 1..N :
                log[n] = <<"ban", i>> /\ \A m \in 1..N : m > n => log[m] # <<"unban", i>>
        BY <1>1, <3>3 DEF BannedBy
      <4>2. n \in 1..(N + 1) /\ new[n] = <<"ban", i>>
        BY <1>1, <4>1
      <4>3. \A m \in 1..(N + 1) : m > n => new[m] # <<"unban", i>>
        BY <1>1, <3>1, <4>1
      <4>4. QED
        BY <1>1, <4>2, <4>3 DEF BannedBy
    <3>4. QED
      BY <2>3, <3>2, <3>3
  <2>4. QED
    BY <2>1, <2>2, <2>3
<1>3. BannedBy(new) \subseteq Ips /\ BannedBy(log) \subseteq Ips
  BY DEF BannedBy
<1>4. QED
  BY <1>2, <1>3 DEF new

LEMMA JobParts ==
    StoreTypes => job = <<job[1], job[2]>> /\ job[1] \in {"ban", "unban"} /\ job[2] \in Ips
BY DEF StoreTypes, Jobs

-----------------------------------------------------------------------------
(* The steps that end where no command is in progress and touch neither    *)
(* table nor log nor rules.                                                *)
LEMMA QuietStep ==
    ASSUME StoreTypes, ChainShape, JobShape, MirrorShape, ClearShape, AuditShape,
           at \notin Running, at' \notin Running, UNCHANGED <<job, bans, audit, rules>>,
           trouble \subseteq trouble'
    PROVE  JobShape' /\ MirrorShape' /\ ClearShape' /\ AuditShape'
<1>1. \A d \in Directions, ip \in Ips : ~Pending(d, ip) /\ ~Pending(d, ip)'
  BY DEF Pending, Running, Directions
<1>2. JobShape'
  BY DEF JobShape, Running
<1>3. MirrorShape'
  BY <1>1 DEF MirrorShape, StoreTypes
<1>4. ClearShape'
  BY <1>1 DEF ClearShape
<1>5. AuditShape'
  BY DEF AuditShape
<1>6. QED
  BY <1>2, <1>3, <1>4, <1>5

LEMMA BootStep ==
    ASSUME BansShape, NewBans
    PROVE  BansShape'
<1> USE DEF BansShape
<1>1. StoreTypes' /\ Started' /\ boots' = boots + 1 /\ boots \in Nat
  BY BansAssumption DEF NewBans, StoreTypes, Started, kernelVars
<1>2. LimiterTypes' /\ LimiterShape'
  BY <1>1, ResetKeeps DEF NewBans
<1>3. ChainShape'
  BY DEF NewBans, ChainShape, StoreTypes, kernelVars, Hooks
<1>4. JobShape' /\ MirrorShape' /\ ClearShape' /\ AuditShape'
  <2>1. /\ at \notin Running /\ at' \notin Running /\ trouble \subseteq trouble'
        /\ UNCHANGED <<job, bans, audit, rules>>
    BY DEF NewBans, kernelVars, Running
  <2>2. QED
    BY <2>1, QuietStep
<1>5. QED
  BY <1>1, <1>2, <1>3, <1>4

(* What holds of the limiter and the number of boots in the other steps of *)
(* the process, which the limiter does not take part in.                   *)
LEMMA LimiterRests ==
    ASSUME LimiterTypes, LimiterShape, UNCHANGED <<limiterVars, boots>>
    PROVE  LimiterTypes' /\ LimiterShape'
BY DEF limiterVars, LimiterTypes, LimiterShape, KeyShape, Grows, Due, Drawn, Recent

LEMMA EnsureChainStep ==
    ASSUME BansShape, ensureChain
    PROVE  BansShape'
<1> USE DEF BansShape
<1>1. /\ UNCHANGED <<limiterVars, job, bans, audit, boots, commands, rules>>
      /\ at \notin Running /\ at' \notin Running /\ trouble \subseteq trouble'
  BY DEF ensureChain, Create, Insert, Iptables, kernelVars, Running
<1>2. JobShape' /\ MirrorShape' /\ ClearShape' /\ AuditShape'
  BY <1>1, QuietStep
<1>3. LimiterTypes' /\ LimiterShape'
  BY <1>1, LimiterRests
<1>4. at # "down" /\ Started'
  BY <1>1 DEF ensureChain, Create, Insert, Iptables, Started
<1>5. CASE Create
  BY <1>1, <1>2, <1>3, <1>4, <1>5
     DEF Create, Iptables, kernelVars, StoreTypes, ChainShape, Hooks
<1>6. CASE Insert("INPUT", "OUTPUT")
  BY <1>1, <1>2, <1>3, <1>4, <1>6
     DEF Insert, Iptables, kernelVars, StoreTypes, ChainShape, Hooks
<1>7. CASE Insert("OUTPUT", "idle")
  BY <1>1, <1>2, <1>3, <1>4, <1>7
     DEF Insert, Iptables, kernelVars, StoreTypes, ChainShape, Hooks
<1>8. QED
  BY <1>5, <1>6, <1>7 DEF ensureChain

(* An update that stores nothing.                                          *)
LEMMA UpdateStep ==
    ASSUME BansShape, at = "idle", NEW k \in Keys, NEW granted \in BOOLEAN,
           Allow(k, granted), UNCHANGED banVars
    PROVE  BansShape'
<1> USE DEF BansShape
<1>1. boots \in Nat \ {0} /\ boots' = boots
  BY DEF StoreTypes, Started, banVars
<1>2. LimiterTypes' /\ LimiterShape'
  BY <1>1, AllowKeeps
<1>3. /\ at' = at /\ job' = job /\ bans' = bans /\ audit' = audit /\ chain' = chain
      /\ jumps' = jumps /\ rules' = rules /\ commands' = commands /\ trouble' = trouble
  BY DEF banVars, kernelVars
<1>4. StoreTypes' /\ Started' /\ ChainShape'
  BY <1>1, <1>3 DEF StoreTypes, Started, ChainShape
<1>5. JobShape' /\ MirrorShape' /\ ClearShape' /\ AuditShape'
  BY <1>3, QuietStep DEF Running
<1>6. QED
  BY <1>2, <1>4, <1>5

LEMMA CommandStep ==
    ASSUME BansShape, NEW k \in Keys, NEW op \in {"ban", "unban"}, NEW ip \in Ips,
           Command(k, op, ip)
    PROVE  BansShape'
<1> USE DEF BansShape
<1>1. /\ at = "idle" /\ at' = "src" /\ job' = <<op, ip>> /\ commands' = commands + 1
      /\ commands < MaxCommands
      /\ bans' = IF op = "ban" THEN bans \union {ip} ELSE bans \ {ip}
      /\ trouble' = trouble \union (IF op = "ban" /\ ip \in bans THEN {"repeated"} ELSE {})
      /\ audit' = audit /\ chain' = chain /\ jumps' = jumps /\ rules' = rules /\ boots' = boots
  BY DEF Command, Store, kernelVars
<1>2. job'[1] = op /\ job'[2] = ip
  BY <1>1
<1>3. LimiterTypes' /\ LimiterShape'
  <2>1. boots \in Nat \ {0} /\ boots' = boots
    BY <1>1 DEF StoreTypes, Started
  <2>2. QED
    BY <2>1, AllowKeeps DEF Command
<1>4. StoreTypes'
  <2>1. job' \in Jobs /\ bans' \subseteq Ips
    BY <1>1 DEF Jobs, StoreTypes
  <2>2. commands' \in 0..MaxCommands
    BY <1>1, BansAssumption DEF StoreTypes
  <2>3. at' \in {"down", "create", "idle", "audit"} \union Hooks \union Directions
    BY <1>1 DEF Directions
  <2>4. trouble' \subseteq {"failed", "cut", "wiped", "repeated"}
    BY <1>1 DEF StoreTypes
  <2>5. QED
    BY <1>1, <2>1, <2>2, <2>3, <2>4 DEF StoreTypes
<1>5. Started' /\ ChainShape'
  BY <1>1 DEF Started, ChainShape
<1>6. JobShape'
  BY <1>1, <1>2 DEF JobShape
<1>7. \A d \in Directions, i \in Ips : ~Pending(d, i) /\ (Pending(d, i)' <=> i = ip)
  BY <1>1, <1>2 DEF Pending, Directions
<1>8. MirrorShape'
  BY <1>1, <1>7 DEF MirrorShape, StoreTypes
<1>9. ClearShape'
  <2> SUFFICES ASSUME trouble' \subseteq {"wiped"}, NEW d \in Directions, NEW i \in Ips
               PROVE  /\ rules[d][i] <= 1
                      /\ rules[d][i] = 1 => (IF i = ip THEN i \notin bans' ELSE i \in bans')
    BY <1>1, <1>7 DEF ClearShape
  <2>1. trouble \subseteq {"wiped"} /\ ~(op = "ban" /\ ip \in bans)
    BY <1>1
  <2>2. rules[d][i] <= 1 /\ (rules[d][i] = 1 => i \in bans)
    BY <1>7, <2>1 DEF ClearShape
  <2>3. QED
    BY <1>1, <2>1, <2>2
<1>10. AuditShape'
  <2> SUFFICES ASSUME trouble' \intersect {"failed", "cut"} = {}
               PROVE  bans' = BannedBy(Append(audit, <<op, ip>>))
    BY <1>1 DEF AuditShape, Running
  <2>1. bans = BannedBy(audit)
    BY <1>1 DEF AuditShape, Running
  <2>2. QED
    BY <1>1, <2>1, OneMoreEntry DEF StoreTypes
<1>11. QED
  BY <1>3, <1>4, <1>5, <1>6, <1>8, <1>9, <1>10

(* An iptables call of a command changes the rule it is about, or fails.   *)
LEMMA RuleEffect ==
    ASSUME StoreTypes, ChainShape, NEW d \in Directions, NEW next, Rule(d, next)
    PROVE  /\ at = d /\ at' = next /\ trouble' \in {trouble, trouble \union {"failed"}}
           /\ UNCHANGED <<limiterVars, job, bans, audit, chain, jumps, boots, commands>>
           /\ \/ /\ chain /\ (job[1] = "ban" \/ rules[d][job[2]] > 0)
                 /\ rules' = [rules EXCEPT ![d][job[2]] = IF job[1] = "ban" THEN @ + 1 ELSE @ - 1]
              \/ /\ rules' = rules
                 /\ "failed" \in trouble' \/ (job[1] # "ban" /\ rules[d][job[2]] = 0)
<1>1. job[2] \in Ips /\ rules[d] \in [Ips -> Nat]
  BY JobParts DEF StoreTypes
<1>2. "failed" \notin trouble => chain
  BY DEF ChainShape, Rule, Directions
<1>3. QED
  BY <1>1, <1>2 DEF Rule, Iptables, kernelVars

LEMMA RuleStep ==
    ASSUME BansShape, iptables
    PROVE  BansShape'
<1> USE DEF BansShape
<1>1. PICK d \in Directions, next \in {"dst", "audit"} :
          Rule(d, next) /\ (d = "src" <=> next = "dst")
  BY DEF iptables, Directions
<1> DEFINE ip == job[2]
           add == job[1] = "ban"
           effect == /\ chain /\ (add \/ rules[d][ip] > 0)
                     /\ rules' = [rules EXCEPT ![d][ip] = IF add THEN @ + 1 ELSE @ - 1]
           nothing == /\ rules' = rules
                      /\ "failed" \in trouble' \/ (~add /\ rules[d][ip] = 0)
<1>2. /\ at = d /\ at' = next /\ trouble' \in {trouble, trouble \union {"failed"}}
      /\ UNCHANGED <<limiterVars, job, bans, audit, chain, jumps, boots, commands>>
      /\ effect \/ nothing
  BY <1>1, RuleEffect
<1>3. at \in Running /\ at' \in Running
  BY <1>2 DEF Directions, Running
<1>4. ip \in Ips /\ (add <=> ip \in bans) /\ job' = job /\ bans' = bans
  BY <1>2, <1>3, JobParts DEF JobShape
<1>5. rules \in [Directions -> [Ips -> Nat]]
  BY DEF StoreTypes
<1>6. \A e \in Directions, i \in Ips :
          effect => rules'[e][i] = IF e = d /\ i = ip
                                     THEN IF add THEN rules[d][ip] + 1 ELSE rules[d][ip] - 1
                                     ELSE rules[e][i]
  BY <1>4, <1>5
<1>7. \A e \in Directions, i \in Ips :
          /\ Pending(e, i) => i = ip
          /\ e = d /\ i = ip => Pending(e, i) /\ ~Pending(e, i)'
          /\ e # d \/ i # ip => (Pending(e, i)' <=> Pending(e, i))
  BY <1>1, <1>2 DEF Pending, Directions
<1> HIDE DEF ip, add
<1>8. LimiterTypes' /\ LimiterShape'
  BY <1>2, LimiterRests
<1>9. StoreTypes'
  <2>1. rules' \in [Directions -> [Ips -> Nat]]
    <3>1. CASE effect
      <4>1. (IF add THEN rules[d][ip] + 1 ELSE rules[d][ip] - 1) \in Nat
        BY <1>4, <1>5, <3>1
      <4>2. QED
        BY <1>4, <1>5, <3>1, <4>1
    <3>2. QED
      BY <1>2, <1>5, <3>1
  <2>2. at' \in {"down", "create", "idle", "audit"} \union Hooks \union Directions
    BY <1>2 DEF Directions
  <2>3. trouble' \subseteq {"failed", "cut", "wiped", "repeated"}
    BY <1>2 DEF StoreTypes
  <2>4. QED
    BY <1>2, <2>1, <2>2, <2>3 DEF StoreTypes
<1>10. Started'
  BY <1>2, <1>3 DEF Started, Running
<1>11. ChainShape'
  <2>1. ~chain' => rules' = NoRules
    BY <1>2 DEF ChainShape
  <2>2. /\ at' \notin {"down", "create", "INPUT", "OUTPUT"}
        /\ at \notin {"down", "create", "INPUT", "OUTPUT"}
    BY <1>3 DEF Running
  <2>3. \A h \in Hooks : jumps'[h] <= boots'
    BY <1>2 DEF ChainShape
  <2>4. "failed" \notin trouble' => chain' /\ jumps'["INPUT"] > 0 /\ jumps'["OUTPUT"] > 0
    BY <1>2, <2>2 DEF ChainShape
  <2>5. QED
    BY <2>1, <2>2, <2>3, <2>4 DEF ChainShape
<1>12. JobShape'
  BY <1>2, <1>3 DEF JobShape
<1>13. MirrorShape'
  <2> SUFFICES ASSUME trouble' \subseteq {"repeated"}, NEW e \in Directions, NEW i \in bans
               PROVE  rules'[e][i] > 0 \/ Pending(e, i)'
    BY <1>4 DEF MirrorShape
  <2>1. "failed" \notin trouble' /\ i \in Ips
    BY DEF StoreTypes
  <2>2. rules[e][i] > 0 \/ Pending(e, i)
    BY <1>2 DEF MirrorShape
  <2>3. rules[e][i] \in Nat
    BY <1>5, <2>1
  <2>4. CASE e = d /\ i = ip
    BY <1>2, <1>4, <1>6, <2>1, <2>3, <2>4
  <2>5. CASE e # d \/ i # ip
    <3>1. rules'[e][i] = rules[e][i]
      BY <1>2, <1>6, <2>1, <2>5
    <3>2. QED
      BY <1>7, <2>1, <2>2, <2>5, <3>1
  <2>6. QED
    BY <2>4, <2>5
<1>14. ClearShape'
  <2> SUFFICES ASSUME trouble' \subseteq {"wiped"}, NEW e \in Directions, NEW i \in Ips
               PROVE  /\ rules'[e][i] <= 1
                      /\ rules'[e][i] = 1 => (IF Pending(e, i)' THEN i \notin bans ELSE i \in bans)
    BY <1>4 DEF ClearShape
  <2>1. "failed" \notin trouble' /\ trouble \subseteq {"wiped"}
    BY <1>2
  <2>2. /\ rules[e][i] <= 1 /\ rules[e][i] \in Nat
        /\ rules[e][i] = 1 => (IF Pending(e, i) THEN i \notin bans ELSE i \in bans)
    BY <1>5, <2>1 DEF ClearShape
  <2>3. CASE e = d /\ i = ip
    <3>1. rules[d][ip] = 1 => ip \notin bans
      BY <1>7, <2>2, <2>3
    <3>2. ~Pending(e, i)'
      BY <1>7, <2>3
    <3>3. rules'[d][ip] = IF add THEN 1 ELSE 0
      <4>1. CASE effect
        <5>1. rules'[d][ip] = IF add THEN rules[d][ip] + 1 ELSE rules[d][ip] - 1
          BY <1>4, <1>6, <4>1
        <5>2. add \/ rules[d][ip] > 0
          BY <4>1
        <5>3. QED
          BY <1>4, <2>2, <2>3, <3>1, <5>1, <5>2
      <4>2. CASE nothing
        BY <2>1, <4>2
      <4>3. QED
        BY <1>2, <4>1, <4>2
    <3>4. QED
      BY <1>4, <2>3, <3>2, <3>3
  <2>4. CASE e # d \/ i # ip
    <3>1. rules'[e][i] = rules[e][i]
      BY <1>2, <1>6, <2>4
    <3>2. QED
      BY <1>7, <2>2, <2>4, <3>1
  <2>5. QED
    BY <2>3, <2>4
<1>15. AuditShape'
  BY <1>2, <1>3 DEF AuditShape
<1>16. QED
  BY <1>8, <1>9, <1>10, <1>11, <1>12, <1>13, <1>14, <1>15

LEMMA RecordStep ==
    ASSUME BansShape, RecordAudit
    PROVE  BansShape'
<1> USE DEF BansShape
<1>1. /\ at = "audit" /\ at' = "idle"
      /\ UNCHANGED <<limiterVars, job, bans, chain, jumps, rules, boots, commands>>
      /\ trouble \subseteq trouble'
  BY DEF RecordAudit, kernelVars
<1>2. LimiterTypes' /\ LimiterShape'
  BY <1>1, LimiterRests
<1>3. StoreTypes'
  <2>1. audit' \in Seq(Jobs)
    BY DEF RecordAudit, StoreTypes
  <2>2. trouble' \subseteq {"failed", "cut", "wiped", "repeated"}
    BY DEF RecordAudit, StoreTypes
  <2>3. QED
    BY <1>1, <2>1, <2>2 DEF StoreTypes
<1>4. Started' /\ ChainShape' /\ JobShape'
  BY <1>1 DEF Started, ChainShape, JobShape, Running
<1>5. \A d \in Directions, ip \in Ips : ~Pending(d, ip) /\ ~Pending(d, ip)'
  BY <1>1 DEF Pending, Directions
<1>6. MirrorShape' /\ ClearShape'
  BY <1>1, <1>5 DEF MirrorShape, ClearShape, StoreTypes
<1>7. AuditShape'
  BY <1>1 DEF RecordAudit, AuditShape, Running
<1>8. QED
  BY <1>2, <1>3, <1>4, <1>6, <1>7

(* The process is gone: what a command has not finished is noted.          *)
LEMMA StopStep ==
    ASSUME BansShape, Stop
    PROVE  BansShape'
<1> USE DEF BansShape
<1>1. /\ at # "down" /\ at' = "down"
      /\ UNCHANGED <<limiterVars, job, bans, audit, chain, jumps, rules, boots, commands>>
      /\ trouble' = trouble \union (IF at = "idle" THEN {} ELSE {"cut"})
  BY DEF Stop, kernelVars
<1>2. LimiterTypes' /\ LimiterShape'
  BY <1>1, LimiterRests
<1>3. StoreTypes' /\ Started' /\ ChainShape'
  BY <1>1 DEF StoreTypes, Started, ChainShape
<1>4. CASE at \in Running
  <2>1. "cut" \in trouble' /\ at' \notin Running
    BY <1>1, <1>4 DEF Running
  <2>2. JobShape' /\ MirrorShape' /\ ClearShape' /\ AuditShape'
    BY <2>1 DEF JobShape, MirrorShape, ClearShape, AuditShape
  <2>3. QED
    BY <1>2, <1>3, <2>2
<1>5. CASE at \notin Running
  <2>1. at' \notin Running /\ trouble \subseteq trouble'
    BY <1>1 DEF Running
  <2>2. JobShape' /\ MirrorShape' /\ ClearShape' /\ AuditShape'
    BY <1>1, <1>5, <2>1, QuietStep
  <2>3. QED
    BY <1>2, <1>3, <2>2
<1>6. QED
  BY <1>4, <1>5

LEMMA RebootStep ==
    ASSUME BansShape, HostReboot
    PROVE  BansShape'
<1> USE DEF BansShape
<1>1. /\ at = "down" /\ at' = at /\ chain' = FALSE /\ jumps' = NoJumps /\ rules' = NoRules
      /\ trouble' = trouble \union {"wiped"}
      /\ UNCHANGED <<limiterVars, job, bans, audit, boots, commands>>
  BY DEF HostReboot
<1>2. LimiterTypes' /\ LimiterShape'
  BY <1>1, LimiterRests
<1>3. /\ jumps' \in [Hooks -> Nat] /\ \A h \in Hooks : jumps'[h] = 0
      /\ rules' \in [Directions -> [Ips -> Nat]]
      /\ \A d \in Directions, ip \in Ips : rules'[d][ip] = 0
  BY <1>1 DEF NoJumps, NoRules
<1>4. StoreTypes'
  BY <1>1, <1>3 DEF StoreTypes
<1>5. Started' /\ ChainShape' /\ JobShape'
  BY <1>1, <1>3 DEF Started, ChainShape, JobShape, Running, StoreTypes
<1>6. MirrorShape' /\ ClearShape' /\ AuditShape'
  BY <1>1, <1>3 DEF MirrorShape, ClearShape, AuditShape, Running
<1>7. QED
  BY <1>2, <1>4, <1>5, <1>6

LEMMA ClockStep ==
    ASSUME BansShape, Tick, UNCHANGED banVars
    PROVE  BansShape'
<1> USE DEF BansShape
<1>1. /\ at' = at /\ job' = job /\ bans' = bans /\ audit' = audit /\ chain' = chain
      /\ jumps' = jumps /\ rules' = rules /\ boots' = boots /\ commands' = commands
      /\ trouble' = trouble
  BY DEF banVars, kernelVars
<1>2. LimiterTypes' /\ LimiterShape'
  BY <1>1, TickKeeps DEF StoreTypes
<1>3. StoreTypes' /\ Started' /\ ChainShape' /\ JobShape'
  BY <1>1 DEF StoreTypes, Started, ChainShape, JobShape
<1>4. MirrorShape' /\ ClearShape' /\ AuditShape'
  BY <1>1 DEF MirrorShape, ClearShape, AuditShape, Pending
<1>5. QED
  BY <1>2, <1>3, <1>4

LEMMA BansInvariant == BansSpec => []BansShape
<1>1. BansInit => BansShape
  <2> SUFFICES ASSUME BansInit PROVE BansShape
    OBVIOUS
  <2>1. LimiterTypes /\ LimiterShape
    BY LimiterStarts DEF BansInit
  <2>2. StoreTypes
    <3>1. jumps \in [Hooks -> Nat] /\ rules \in [Directions -> [Ips -> Nat]]
      BY DEF BansInit, NoJumps, NoRules
    <3>2. audit \in Seq(Jobs) /\ boots \in 0..MaxBoots /\ commands \in 0..MaxCommands
      BY BansAssumption DEF BansInit
    <3>3. QED
      BY <3>1, <3>2 DEF BansInit, StoreTypes
  <2>3. Started /\ ChainShape /\ JobShape
    BY DEF BansInit, Started, ChainShape, JobShape, Running, NoJumps, Hooks
  <2>4. MirrorShape /\ ClearShape
    BY DEF BansInit, MirrorShape, ClearShape, NoRules
  <2>5. AuditShape
    BY DEF BansInit, AuditShape, Running, BannedBy
  <2>6. QED
    BY <2>1, <2>2, <2>3, <2>4, <2>5 DEF BansShape
<1>2. BansShape /\ [BansNext]_adminVars => BansShape'
  <2> SUFFICES ASSUME BansShape, [BansNext]_adminVars PROVE BansShape'
    OBVIOUS
  <2>1. CASE NewBans \/ ensureChain
    BY <2>1, BootStep, EnsureChainStep
  <2>2. ASSUME NEW k \in Keys, OtherUpdate(k) PROVE BansShape'
    BY <2>2, UpdateStep DEF OtherUpdate
  <2>3. ASSUME NEW k \in Keys, NEW op \in {"ban", "unban"}, NEW ip \in Ips,
               Command(k, op, ip) \/ CommandUnstored(k, op, ip)
        PROVE  BansShape'
    <3>1. CASE Command(k, op, ip)
      BY <3>1, CommandStep
    <3>2. CASE CommandUnstored(k, op, ip)
      BY <3>2, UpdateStep DEF CommandUnstored
    <3>3. QED
      BY <2>3, <3>1, <3>2
  <2>4. CASE iptables \/ RecordAudit
    BY <2>4, RuleStep, RecordStep
  <2>5. CASE Stop \/ HostReboot
    BY <2>5, StopStep, RebootStep
  <2>6. CASE Tick /\ UNCHANGED banVars
    BY <2>6, ClockStep
  <2>7. CASE UNCHANGED adminVars
    <3>1. /\ UNCHANGED <<limiterVars, boots>>
          /\ at' = at /\ job' = job /\ bans' = bans /\ audit' = audit /\ chain' = chain
          /\ jumps' = jumps /\ rules' = rules /\ commands' = commands /\ trouble' = trouble
      BY <2>7 DEF adminVars, banVars, kernelVars
    <3>2. LimiterTypes' /\ LimiterShape'
      BY <3>1, LimiterRests DEF BansShape
    <3>3. StoreTypes' /\ Started' /\ ChainShape' /\ JobShape'
      BY <3>1 DEF BansShape, StoreTypes, Started, ChainShape, JobShape
    <3>4. MirrorShape' /\ ClearShape' /\ AuditShape'
      BY <3>1 DEF BansShape, MirrorShape, ClearShape, AuditShape, Pending
    <3>5. QED
      BY <3>2, <3>3, <3>4 DEF BansShape
  <2>8. QED
    BY <2>1, <2>2, <2>3, <2>4, <2>5, <2>6, <2>7 DEF BansNext
<1>3. QED
  BY <1>1, <1>2, PTL DEF BansSpec

(* The kernel's rules mirror the bans table in both directions, and packets *)
(* come past them, unless one of the troubles they name has been met        *)
(* (Ban, Unban, iptables and ensureChain).                                  *)
THEOREM BansAreMirrored == BansSpec => []BansInv
<1>1. BansShape => BansInv
  <2> SUFFICES ASSUME BansShape PROVE BansInv
    OBVIOUS
  <2> USE DEF BansShape
  <2>1. BansTypes
    <3>1. jumps \in [Hooks -> 0..MaxBoots]
      BY BansAssumption DEF StoreTypes, ChainShape
    <3>2. QED
      BY <3>1 DEF StoreTypes, BansTypes
  <2>2. Settled => \A d \in Directions, ip \in Ips : ~Pending(d, ip)
    BY DEF Settled, Pending, Directions
  <2>3. BannedIsDropped
    BY <2>2 DEF BannedIsDropped, MirrorShape, StoreTypes
  <2>4. FreeIsNotDropped
    <3> SUFFICES ASSUME Settled, trouble \subseteq {"wiped"},
                        NEW d \in Directions, NEW ip \in Ips \ bans
                 PROVE  rules[d][ip] = 0
      BY DEF FreeIsNotDropped
    <3>1. rules[d][ip] <= 1 /\ rules[d][ip] # 1
      BY <2>2 DEF ClearShape
    <3>2. rules[d][ip] \in Nat
      BY DEF StoreTypes
    <3>3. QED
      BY <3>1, <3>2
  <2>5. ChainIsUsed
    BY DEF ChainIsUsed, ChainShape, Hooks
  <2>6. QED
    BY <2>1, <2>3, <2>4, <2>5 DEF BansInv
<1>2. QED
  BY <1>1, BansInvariant, PTL

(* An admin is refused only after `capacity' uses in the last interval, and *)
(* is never granted as many as one more `capacity' than there were starts   *)
(* of the process (Allow).                                                  *)
THEOREM LimitsAreKept == BansSpec => []LimiterInv
<1>1. BansShape => LimiterInv
  BY LimiterPromises DEF BansShape, StoreTypes
<1>2. QED
  BY <1>1, BansInvariant, PTL

(* Whoever reads the audit log knows the bans, unless an entry was not      *)
(* written (cmdBan, cmdUnban and RecordAudit).                              *)
THEOREM AuditTellsBans == BansSpec => []AuditExplains
<1>1. BansShape => AuditExplains
  BY DEF BansShape, AuditShape, AuditExplains, Settled, Running
<1>2. QED
  BY <1>1, BansInvariant, PTL
=============================================================================
