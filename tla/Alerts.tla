-------------------------------- MODULE Alerts --------------------------------
(***************************************************************************)
(* The daemon's goroutines and the alerts that pass between them: serve    *)
(* (cmd/proxygo/main.go) with its errgroup, the dial and DDoS alerts of    *)
(* the backends (internal/proxy), and the bot's Notify, Start, notifyLoop  *)
(* and broadcast (internal/telegram).                                      *)
(*                                                                         *)
(* Each source of alerts is sequential: an accept loop dials inside        *)
(* handleConn, and each of the two DDoS clocks is read by one goroutine.   *)
(* The events of the logger, which nothing sends, are left out; what       *)
(* remains of the goroutine that forwards them is that it has to end.      *)
(***************************************************************************)
EXTENDS Integers, Sequences, SequencesExt

CONSTANTS
    Backends,
    QueueSize,   \* capacity of Bot.notifCh, 256 in the code
    MaxAlerts    \* bound: alerts raised

(* cfgDialAlertThreshold                                                   *)
Threshold == 3
Protocols == {"tcp", "udp"}

ASSUME QueueAssumption == QueueSize \in Nat \ {0} /\ MaxAlerts \in Nat

VARIABLES
    telegram,   \* a bot is configured
    main,       \* "boot", "serve" or "wait" (g.Wait), then "exit" or "panic"
    forwarder,  \* the goroutine that drains the logger runs
    bot,        \* Bot.Start: "none", "login", "poll" or "done"
    failed,     \* it returned an error
    signals,    \* the goroutine that waits for a signal
    cancelled,  \* the group's context
    loop,       \* notifyLoop runs
    done,       \* Bot.done is closed
    queue,      \* Bot.notifCh
    sending,    \* what broadcast is sending, or nothing
    up,         \* backends that accept connections
    dialing,    \* backends in a dial
    dialFail,   \* Backend.dialFail, as far as the threshold tells it apart
    quiet,      \* the DDoS clocks that were last set 60 s ago or earlier
    raised,     \* number of alerts raised; alerts are numbered
    sent,       \* what has been passed to api.Send for every admin
    dropped,    \* what the full queue turned away
    outage      \* alerts of a backend since its last good dial or restart

procVars == <<main, forwarder, bot, failed, signals, cancelled>>
botVars == <<loop, done, sending, sent>>
alertVars == <<queue, raised, dropped>>
sourceVars == <<up, dialing, dialFail, quiet, outage>>
vars == <<telegram, procVars, botVars, alertVars, sourceVars>>

Nothing == 0

Init ==
    /\ telegram \in BOOLEAN
    /\ main = "boot" /\ forwarder = TRUE /\ bot = "none" /\ failed = FALSE
    /\ signals = "none" /\ cancelled = FALSE
    /\ loop = FALSE /\ done = FALSE /\ sending = Nothing /\ sent = <<>>
    /\ queue = <<>> /\ raised = 0 /\ dropped = {}
    /\ up = {} /\ dialing = {} /\ dialFail = [b \in Backends |-> 0]
    /\ quiet = Backends \X Protocols
    /\ outage = [b \in Backends |-> 0]

Alive == main \notin {"exit", "panic"}

-----------------------------------------------------------------------------
(* Notify                                                                  *)

(* Variant: a full queue loses its oldest alert.                           *)
NotifyOverwrites(text) ==
    /\ queue' = IF Len(queue) < QueueSize THEN Append(queue, text) ELSE Append(Tail(queue), text)
    /\ UNCHANGED dropped

Notify(text) ==
    IF Len(queue) < QueueSize
      THEN queue' = Append(queue, text) /\ UNCHANGED dropped
      ELSE dropped' = dropped \union {text} /\ UNCHANGED queue

(* A backend raises an alert. Without a bot its notifier is the manager's, *)
(* which is nil (main.go:86): the call of it ends the process.             *)
Raise ==
    /\ raised < MaxAlerts
    /\ IF telegram THEN raised' = raised + 1 /\ Notify(raised + 1) /\ UNCHANGED main
                   ELSE main' = "panic" /\ UNCHANGED alertVars
    /\ UNCHANGED <<forwarder, bot, failed, signals, cancelled>>

-----------------------------------------------------------------------------
(* handleConn                                                              *)

Dial(b) ==
    /\ Alive /\ b \in up \ dialing
    /\ dialing' = dialing \union {b}
    /\ UNCHANGED <<telegram, procVars, botVars, alertVars, up, dialFail, quiet, outage>>

DialOK(b) ==
    /\ Alive /\ b \in dialing
    /\ dialing' = dialing \ {b}
    /\ dialFail' = [dialFail EXCEPT ![b] = 0]
    /\ outage' = [outage EXCEPT ![b] = 0]
    /\ UNCHANGED <<telegram, procVars, botVars, alertVars, up, quiet>>

(* Variant: every failure from the threshold on raises an alert.           *)
AlertsAtLeast(n) == n >= Threshold

AlertsAt(n) == n = Threshold

(* A dial that a shutdown has cancelled counts as well.                    *)
DialFails(b) ==
    LET n == dialFail[b] + 1
    IN  /\ Alive /\ b \in dialing
        /\ dialing' = dialing \ {b}
        /\ dialFail' = [dialFail EXCEPT ![b] = IF n > Threshold THEN @ ELSE n]
        /\ IF AlertsAt(n)
             THEN Raise /\ outage' = [outage EXCEPT ![b] = @ + 1]
             ELSE UNCHANGED <<procVars, alertVars, outage>>
        /\ UNCHANGED <<telegram, botVars, up, quiet>>

(* notifyDDoS, of a TCP backend and of its UDP forwarder.                  *)
notifyDDoS(b, proto) ==
    /\ Alive /\ b \in up /\ <<b, proto>> \in quiet
    /\ proto = "tcp" => b \notin dialing
    /\ quiet' = quiet \ {<<b, proto>>}
    /\ Raise
    /\ UNCHANGED <<telegram, botVars, up, dialing, dialFail, outage>>

Minute(b, proto) ==
    /\ Alive /\ <<b, proto>> \notin quiet
    /\ quiet' = quiet \union {<<b, proto>>}
    /\ UNCHANGED <<telegram, procVars, botVars, alertVars, up, dialing, dialFail, outage>>

(* /restart: the old accept loop has ended, the count starts anew, and so  *)
(* does the clock of the new UDP forwarder.                                *)
Restart(b) ==
    /\ Alive /\ bot = "poll" /\ b \in up \ dialing
    /\ dialFail' = [dialFail EXCEPT ![b] = 0]
    /\ outage' = [outage EXCEPT ![b] = 0]
    /\ quiet' = quiet \union {<<b, "udp">>}
    /\ UNCHANGED <<telegram, procVars, botVars, alertVars, up, dialing>>

-----------------------------------------------------------------------------
(* Bot.Start                                                               *)

LoginOK ==
    /\ Alive /\ bot = "login"
    /\ bot' = "poll"
    /\ loop' = TRUE
    /\ UNCHANGED <<telegram, main, forwarder, failed, signals, cancelled, done, sending, sent,
                   alertVars, sourceVars>>

(* The first error of the group cancels its context.                       *)
LoginFails ==
    /\ Alive /\ bot = "login"
    /\ bot' = "done"
    /\ failed' = TRUE
    /\ cancelled' = TRUE
    /\ UNCHANGED <<telegram, main, forwarder, signals, botVars, alertVars, sourceVars>>

PollEnds ==
    /\ Alive /\ bot = "poll" /\ cancelled
    /\ bot' = "done"
    /\ UNCHANGED <<telegram, main, forwarder, failed, signals, cancelled, botVars, alertVars, sourceVars>>

(* The goroutine that waits for the context closes done.                   *)
CloseDone ==
    /\ Alive /\ bot \in {"poll", "done"} /\ ~failed /\ cancelled /\ ~done
    /\ done' = TRUE
    /\ UNCHANGED <<telegram, procVars, loop, sending, sent, alertVars, sourceVars>>

Take ==
    /\ Alive /\ loop /\ sending = Nothing /\ queue # <<>>
    /\ sending' = Head(queue)
    /\ queue' = Tail(queue)
    /\ UNCHANGED <<telegram, procVars, loop, done, sent, raised, dropped, sourceVars>>

(* broadcast has passed the alert to api.Send for each admin in turn. It   *)
(* ignores the errors (bot.go:152): an alert that Telegram does not take   *)
(* counts as sent here, as it does for the code, which forgets it.         *)
Sent ==
    /\ Alive /\ sending # Nothing
    /\ sent' = Append(sent, sending)
    /\ sending' = Nothing
    /\ UNCHANGED <<telegram, procVars, loop, done, alertVars, sourceVars>>

(* Variant: the loop ends when there is nothing to send.                   *)
LoopEndsIdle ==
    /\ Alive /\ loop /\ sending = Nothing /\ (done \/ queue = <<>>)
    /\ loop' = FALSE
    /\ UNCHANGED <<telegram, procVars, done, sending, sent, alertVars, sourceVars>>

(* done is closed; alerts that are queued may or may not be taken before.  *)
LoopEnds ==
    /\ Alive /\ loop /\ sending = Nothing /\ done
    /\ loop' = FALSE
    /\ UNCHANGED <<telegram, procVars, done, sending, sent, alertVars, sourceVars>>

notifyLoop == Take \/ Sent \/ LoopEnds
Start == LoginOK \/ LoginFails \/ PollEnds \/ CloseDone

-----------------------------------------------------------------------------
(* serve                                                                   *)

(* Manager.Start fails when the backends cannot be read: serve returns.    *)
BootFails ==
    /\ main = "boot"
    /\ main' = "exit"
    /\ failed' = TRUE
    /\ UNCHANGED <<telegram, forwarder, bot, signals, cancelled, botVars, alertVars, sourceVars>>

(* Listeners come up before the bot is started.                            *)
Boot ==
    /\ main = "boot"
    /\ main' = "serve"
    /\ up' = Backends
    /\ UNCHANGED <<telegram, forwarder, bot, failed, signals, cancelled, botVars, alertVars,
                   dialing, dialFail, quiet, outage>>

Spawn ==
    /\ main = "serve"
    /\ main' = "wait"
    /\ bot' = IF telegram THEN "login" ELSE "none"
    /\ signals' = "wait"
    /\ UNCHANGED <<telegram, forwarder, failed, cancelled, botVars, alertVars, sourceVars>>

ForwarderEnds ==
    /\ Alive /\ forwarder /\ cancelled
    /\ forwarder' = FALSE
    /\ UNCHANGED <<telegram, main, bot, failed, signals, cancelled, botVars, alertVars, sourceVars>>

(* SIGINT or SIGTERM                                                       *)
Signal ==
    /\ Alive /\ signals = "wait"
    /\ signals' = "cancel"
    /\ UNCHANGED <<telegram, main, forwarder, bot, failed, cancelled, botVars, alertVars, sourceVars>>

(* Variant: the context is not cancelled.                                  *)
CancelNot ==
    /\ Alive /\ signals = "cancel"
    /\ signals' = "shutdown"
    /\ up' = {}
    /\ UNCHANGED <<telegram, main, forwarder, bot, failed, cancelled, botVars, alertVars,
                   dialing, dialFail, quiet, outage>>

(* cancel(), and Manager.Shutdown stops the backends.                      *)
Cancel ==
    /\ Alive /\ signals = "cancel"
    /\ signals' = "shutdown"
    /\ cancelled' = TRUE
    /\ up' = {}
    /\ UNCHANGED <<telegram, main, forwarder, bot, failed, botVars, alertVars,
                   dialing, dialFail, quiet, outage>>

(* Their accept loops have ended; the last message goes to the notifier.   *)
Farewell ==
    /\ Alive /\ signals = "shutdown" /\ dialing = {}
    /\ signals' = "done"
    /\ IF telegram THEN raised' = raised + 1 /\ Notify(raised + 1) ELSE UNCHANGED alertVars
    /\ UNCHANGED <<telegram, main, forwarder, bot, failed, cancelled, botVars, sourceVars>>

(* Variant: an error of the group ends the process.                        *)
WaitReturnsEarly ==
    /\ main = "wait"
    /\ failed \/ (~forwarder /\ bot \in {"none", "done"} /\ signals = "done")
    /\ main' = "exit"
    /\ UNCHANGED <<telegram, forwarder, bot, failed, signals, cancelled, botVars, alertVars, sourceVars>>

(* g.Wait waits for every goroutine of the group, after an error too.      *)
WaitReturns ==
    /\ main = "wait"
    /\ ~forwarder /\ bot \in {"none", "done"} /\ signals = "done"
    /\ main' = "exit"
    /\ UNCHANGED <<telegram, forwarder, bot, failed, signals, cancelled, botVars, alertVars, sourceVars>>

serve == Spawn \/ ForwarderEnds \/ Cancel \/ Farewell \/ WaitReturns

Next ==
    \/ \E b \in Backends : Dial(b) \/ DialOK(b) \/ DialFails(b) \/ Restart(b)
    \/ \E b \in Backends, proto \in Protocols : notifyDDoS(b, proto) \/ Minute(b, proto)
    \/ Start \/ notifyLoop
    \/ Boot \/ BootFails \/ serve \/ Signal

(* Goroutines go on. A dial has a timeout of 5 s; that calls of the        *)
(* Telegram API end is assumed, the code gives them no timeout, and so is  *)
(* that the shutdown and the bot's commands return. Only a signal need not *)
(* come.                                                                   *)
Fairness ==
    /\ WF_vars(Boot \/ BootFails) /\ WF_vars(Spawn) /\ WF_vars(ForwarderEnds)
    /\ WF_vars(Cancel) /\ WF_vars(Farewell) /\ WF_vars(WaitReturns)
    /\ WF_vars(LoginOK \/ LoginFails) /\ WF_vars(PollEnds) /\ WF_vars(CloseDone)
    /\ WF_vars(Take) /\ WF_vars(Sent) /\ WF_vars(LoopEnds)
    /\ \A b \in Backends : WF_vars(DialOK(b) \/ DialFails(b))

Spec == Init /\ [][Next]_vars /\ Fairness

-----------------------------------------------------------------------------
(* Properties.                                                             *)

TypeOK ==
    /\ telegram \in BOOLEAN
    /\ main \in {"boot", "serve", "wait", "exit", "panic"}
    /\ {forwarder, failed, cancelled, loop, done} \subseteq BOOLEAN
    /\ bot \in {"none", "login", "poll", "done"}
    /\ signals \in {"none", "wait", "cancel", "shutdown", "done"}
    /\ queue \in Seq(1..raised) /\ Len(queue) <= QueueSize
    /\ raised \in 0..(MaxAlerts + 1)
    /\ sending \in 0..raised /\ sent \in Seq(1..raised) /\ dropped \subseteq 1..raised
    /\ up \subseteq Backends /\ dialing \subseteq Backends
    /\ dialFail \in [Backends -> 0..Threshold]
    /\ quiet \subseteq Backends \X Protocols
    /\ outage \in [Backends -> Nat]

(* No alert is lost on its way to api.Send unless the queue turned it away, *)
(* none is passed to it twice, and they are passed in the order they were  *)
(* raised.                                                                 *)
Accounted ==
    LET line == sent \o (IF sending = Nothing THEN <<>> ELSE <<sending>>) \o queue
    IN  /\ \A i, j \in DOMAIN line : i < j => line[i] < line[j]
        /\ ToSet(line) \union dropped = 1..raised
        /\ ToSet(line) \intersect dropped = {}

(* Alerts are accounted for, in states of the declared types, where the    *)
(* queue keeps to its capacity.                                            *)
Inv == TypeOK /\ Accounted

(* proxy.go:495, "the number of consecutive dial failures before alerting  *)
(* once": an outage raises one alert, at the third failure, and no second  *)
(* one however long it lasts.                                              *)
OneAlertPerOutage ==
    \A b \in Backends : outage[b] = IF dialFail[b] = Threshold THEN 1 ELSE 0

(* A bot that cannot log in does not end the process: g.Wait returns only  *)
(* after a signal, or Manager.Start has failed before anything listened.   *)
(* This is about the ways out of serve. A panic is not one of them, and    *)
(* without a bot the first alert is one: main.go:86 gives the manager a    *)
(* nil notifier, where main.go:30 has "a notifier used when Telegram is    *)
(* disabled; it only logs".                                                *)
ServesUntilSignal == main = "exit" => signals = "done" \/ (up = {} /\ signals = "none")

(* What is queued while the bot is connected is handed over to api.Send,   *)
(* unless the process is stopped first. Whether an admin gets it is up to  *)
(* the call, whose errors bot.go:152-157 ignores: the alert is lost for an *)
(* admin whose Send fails.                                                 *)
QueuedIsHandedOver ==
    \A n \in 1..MaxAlerts :
        (n \in ToSet(queue)) ~> (n \in ToSet(sent) \/ cancelled \/ ~Alive)

(* A signal ends the process, also while the bot logs in or broadcasts, if *)
(* the commands the bot carries out return (Manager tells when they do     *)
(* not).                                                                   *)
SignalExits == (signals = "cancel") ~> ~Alive
=============================================================================
