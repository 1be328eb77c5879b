---------------------------- MODULE UDPForwarder ----------------------------
(***************************************************************************)
(* internal/proxy/udp.go: one UDPForwarder, its session table, the run     *)
(* goroutine that reads the listening socket, one readLoop goroutine for   *)
(* each session, and the caller of Close.                                  *)
(*                                                                         *)
(* Time is reduced to whether more than the session timeout has passed     *)
(* since a session's lastSeen: a session is fresh or it is not.            *)
(***************************************************************************)
EXTENDS Integers, FiniteSets

CONSTANTS
    Clients,      \* client addresses, ip:port
    MaxSessions,  \* bound: sessions ever created
    NoClient

Sessions == 1..MaxSessions
NoSession == 0

(* Who may call dropSession: the run goroutine and each readLoop.          *)
Run == 0
Droppers == Sessions \union {Run}

(* Writes that may return an error although the socket is open.            *)
Faults == {"upstream", "client"}

ASSUME BoundAssumption == MaxSessions \in Nat
ASSUME ClientsAssumption == IsFiniteSet(Clients) /\ NoClient \notin Clients

VARIABLES
    faults,    \* those that do in this execution
    closer,    \* where Close is, "open" before it is called
    runner,    \* where the run goroutine is
    client,    \* the client of the packet it handles
    sess,      \* the session getOrCreate gave it
    sessions,  \* UDPForwarder.sessions
    created,   \* sessions created so far
    owner,     \* udpSession.client
    upstream,  \* udpSession.upstream is open
    fresh,     \* its readLoop runs, and at most the timeout has passed since lastSeen
    reader,    \* where the session's readLoop is
    victim,    \* the session that run, or a readLoop, is about to close
    wg         \* the counter of u.wg

vars == <<faults, closer, runner, client, sess, sessions, created, owner, upstream,
          fresh, reader, victim, wg>>

Init ==
    /\ faults \in SUBSET Faults
    /\ closer = "open"
    /\ runner = "read"
    /\ client = NoClient
    /\ sess = NoSession
    /\ sessions = [c \in Clients |-> NoSession]
    /\ created = 0
    /\ owner = [s \in Sessions |-> NoClient]
    /\ upstream = [s \in Sessions |-> FALSE]
    /\ fresh = [s \in Sessions |-> FALSE]
    /\ reader = [s \in Sessions |-> "none"]
    /\ victim = [d \in Droppers |-> NoSession]
    /\ wg = 1

ConnOpen == closer = "open"
Mapped(s) == \E c \in Clients : sessions[c] = s

-----------------------------------------------------------------------------
(* dropSession by goroutine d: whatever session the client has now is      *)
(* taken out of the table under the lock ...                               *)
dropTake(d, c) ==
    /\ sessions' = [sessions EXCEPT ![c] = NoSession]
    /\ victim' = [victim EXCEPT ![d] = sessions[c]]

(* Variant: the socket stays open.                                         *)
dropCloseNot(d) ==
    /\ victim' = [victim EXCEPT ![d] = NoSession]
    /\ UNCHANGED upstream

(* ... and its socket is closed after the unlock.                          *)
dropClose(d) ==
    /\ upstream' = [s \in Sessions |-> upstream[s] /\ s # victim[d]]
    /\ victim' = [victim EXCEPT ![d] = NoSession]

(* run and handlePacket. A packet that the ban, the rate limit or the      *)
(* socket for a new session stops changes nothing that is modelled.        *)

Receive(c) ==
    /\ runner = "read"
    /\ ConnOpen
    /\ runner' = "lookup"
    /\ client' = c
    /\ UNCHANGED <<closer, sess, sessions, created, owner, upstream, fresh, reader, wg, victim>>

RunExits ==
    /\ runner = "read"
    /\ ~ConnOpen
    /\ runner' = "off"
    /\ wg' = wg - 1
    /\ UNCHANGED <<closer, client, sess, sessions, created, owner, upstream, fresh, reader, victim>>

(* handlePacket returns to run.                                            *)
Return ==
    /\ runner' = "read"
    /\ client' = NoClient
    /\ sess' = NoSession

(* A session with its own socket and its own readLoop, counted in u.wg.    *)
NewSession ==
    /\ created < MaxSessions
    /\ created' = created + 1
    /\ sess' = created + 1
    /\ sessions' = [sessions EXCEPT ![client] = created + 1]
    /\ owner' = [owner EXCEPT ![created + 1] = client]
    /\ upstream' = [upstream EXCEPT ![created + 1] = TRUE]
    /\ fresh' = [fresh EXCEPT ![created + 1] = TRUE]
    /\ reader' = [reader EXCEPT ![created + 1] = "read"]
    /\ wg' = wg + 1
    /\ runner' = "touch"
    /\ UNCHANGED client

(* The packet goes nowhere: no socket could be had for a session.          *)
NoSocket ==
    /\ Return
    /\ UNCHANGED <<sessions, created, owner, upstream, fresh, reader, wg>>

(* Variant: the table is not looked up.                                    *)
getOrCreateAnew ==
    /\ runner = "lookup"
    /\ NewSession \/ NoSocket
    /\ UNCHANGED <<closer, victim>>

getOrCreate ==
    /\ runner = "lookup"
    /\ \/ /\ sessions[client] # NoSession
          /\ sess' = sessions[client]
          /\ runner' = "touch"
          /\ UNCHANGED <<client, sessions, created, owner, upstream, fresh, reader, wg>>
       \/ /\ sessions[client] = NoSession
          /\ NewSession \/ NoSocket
    /\ UNCHANGED <<closer, victim>>

(* sess.lastSeen.Store(now)                                                *)
Touch ==
    /\ runner = "touch"
    /\ runner' = "send"
    /\ fresh' = [fresh EXCEPT ![sess] = (reader[sess] = "read")]
    /\ UNCHANGED <<closer, client, sess, sessions, created, owner, upstream, reader, wg, victim>>

Send ==
    /\ runner = "send"
    /\ upstream[sess]
    /\ Return
    /\ UNCHANGED <<closer, sessions, created, owner, upstream, fresh, reader, wg, victim>>

SendFails ==
    /\ runner = "send"
    /\ ~upstream[sess] \/ "upstream" \in faults
    /\ runner' = "drop"
    /\ UNCHANGED <<closer, client, sess, sessions, created, owner, upstream, fresh, reader, wg, victim>>

SendDrop ==
    /\ runner = "drop"
    /\ dropTake(Run, client)
    /\ runner' = "close"
    /\ UNCHANGED <<closer, client, sess, created, owner, upstream, fresh, reader, wg>>

SendDropClose ==
    /\ runner = "close"
    /\ dropClose(Run)
    /\ Return
    /\ UNCHANGED <<closer, sessions, created, owner, fresh, reader, wg>>

-----------------------------------------------------------------------------
(* readLoop                                                                *)

(* A reply goes to the client and keeps the session alive.                 *)
Reply(s) ==
    /\ reader[s] = "read" /\ upstream[s]
    /\ ConnOpen
    /\ fresh' = [fresh EXCEPT ![s] = TRUE]
    /\ UNCHANGED <<closer, runner, client, sess, sessions, created, owner, upstream, reader, wg, victim>>

(* The write to the client fails: the goroutine returns and leaves the     *)
(* session in the table.                                                   *)
ReplyFails(s) ==
    /\ reader[s] = "read" /\ upstream[s]
    /\ ~ConnOpen \/ "client" \in faults
    /\ reader' = [reader EXCEPT ![s] = "done"]
    /\ fresh' = [fresh EXCEPT ![s] = FALSE]
    /\ wg' = wg - 1
    /\ UNCHANGED <<closer, runner, client, sess, sessions, created, owner, upstream, victim>>

(* Variant: an idle session goes on waiting.                               *)
ReadTimeoutNever(s) ==
    /\ reader[s] = "read" /\ upstream[s]
    /\ ~fresh[s]
    /\ UNCHANGED vars

(* The read deadline passes and lastSeen is too old as well. (When it is   *)
(* not the loop goes round again.)                                         *)
ReadTimeout(s) ==
    /\ reader[s] = "read" /\ upstream[s]
    /\ ~fresh[s]
    /\ reader' = [reader EXCEPT ![s] = "drop"]
    /\ UNCHANGED <<closer, runner, client, sess, sessions, created, owner, upstream, fresh, wg, victim>>

(* The socket has been closed.                                             *)
ReadFails(s) ==
    /\ reader[s] = "read" /\ ~upstream[s]
    /\ reader' = [reader EXCEPT ![s] = "drop"]
    /\ fresh' = [fresh EXCEPT ![s] = FALSE]
    /\ UNCHANGED <<closer, runner, client, sess, sessions, created, owner, upstream, wg, victim>>

ReaderDrop(s) ==
    /\ reader[s] = "drop"
    /\ dropTake(s, owner[s])
    /\ reader' = [reader EXCEPT ![s] = "close"]
    /\ UNCHANGED <<closer, runner, client, sess, created, owner, upstream, fresh, wg>>

Finish(s, done) ==
    /\ reader[s] = "close"
    /\ dropClose(s)
    /\ reader' = [reader EXCEPT ![s] = "done"]
    /\ wg' = wg - done
    /\ UNCHANGED <<closer, runner, client, sess, sessions, created, owner, fresh>>

(* Variant: the goroutine ends without wg.Done.                            *)
ReaderDoneUncounted(s) == Finish(s, 0)

ReaderDone(s) == Finish(s, 1)

(* The timeout passes with no packet in either direction. (Only the        *)
(* readLoop looks.)                                                        *)
Age(s) ==
    /\ reader[s] = "read" /\ fresh[s]
    /\ fresh' = [fresh EXCEPT ![s] = FALSE]
    /\ UNCHANGED <<closer, runner, client, sess, sessions, created, owner, upstream, reader, wg, victim>>

-----------------------------------------------------------------------------
(* Close                                                                   *)

(* close(u.ctx), which run only looks at after a read error, and the       *)
(* listening socket.                                                       *)
CloseConn ==
    /\ ConnOpen
    /\ closer' = "sessions"
    /\ UNCHANGED <<runner, client, sess, sessions, created, owner, upstream, fresh, reader, wg, victim>>

CloseSessions ==
    /\ closer = "sessions"
    /\ closer' = "wait"
    /\ upstream' = [s \in Sessions |-> upstream[s] /\ ~Mapped(s)]
    /\ sessions' = [c \in Clients |-> NoSession]
    /\ UNCHANGED <<runner, client, sess, created, owner, fresh, reader, wg, victim>>

(* Variant: Close does not wait for the goroutines.                        *)
CloseUnwaited ==
    /\ closer = "wait"
    /\ closer' = "closed"
    /\ UNCHANGED <<runner, client, sess, sessions, created, owner, upstream, fresh, reader, wg, victim>>

CloseWaits ==
    /\ closer = "wait"
    /\ wg = 0
    /\ closer' = "closed"
    /\ UNCHANGED <<runner, client, sess, sessions, created, owner, upstream, fresh, reader, wg, victim>>

-----------------------------------------------------------------------------
Close == (CloseSessions \/ CloseWaits) /\ UNCHANGED faults

run ==
    /\ RunExits \/ getOrCreate \/ Touch \/ Send \/ SendFails \/ SendDrop \/ SendDropClose
    /\ UNCHANGED faults

readLoop(s) ==
    /\ ReadTimeout(s) \/ ReadFails(s) \/ ReaderDrop(s) \/ ReaderDone(s)
    /\ UNCHANGED faults

Elapse(s) == Age(s) /\ UNCHANGED faults

(* What need not happen: a call of Close, packets, replies.                *)
Environment ==
    /\ \/ CloseConn
       \/ \E c \in Clients : Receive(c)
       \/ \E s \in Sessions : Reply(s) \/ ReplyFails(s)
    /\ UNCHANGED faults

Next ==
    \/ Close \/ run \/ Environment
    \/ \E s \in Sessions : readLoop(s) \/ Elapse(s)

(* Goroutines go on when they can; a deadline that has passed is noticed.  *)
(* Time passes for a session nothing can refresh any more. Neither packets *)
(* nor replies need ever come.                                             *)
Fairness ==
    /\ WF_vars(Close)
    /\ WF_vars(run)
    /\ \A s \in Sessions : /\ WF_vars(readLoop(s))
                           /\ WF_vars(~ConnOpen /\ runner = "off" /\ Elapse(s))

Spec == Init /\ [][Next]_vars
FairSpec == Spec /\ Fairness

-----------------------------------------------------------------------------
(* Properties.                                                             *)

(* Every variable has its type; the WaitGroup counts the run goroutine and *)
(* the readLoops that have not returned.                                   *)
TypeOK ==
    /\ faults \subseteq Faults
    /\ closer \in {"open", "sessions", "wait", "closed"}
    /\ runner \in {"read", "lookup", "touch", "send", "drop", "close", "off"}
    /\ client \in Clients \union {NoClient}
    /\ sess \in Sessions \union {NoSession}
    /\ sessions \in [Clients -> Sessions \union {NoSession}]
    /\ created \in 0..MaxSessions
    /\ owner \in [Sessions -> Clients \union {NoClient}]
    /\ upstream \in [Sessions -> BOOLEAN]
    /\ fresh \in [Sessions -> BOOLEAN]
    /\ reader \in [Sessions -> {"none", "read", "drop", "close", "done"}]
    /\ victim \in [Droppers -> Sessions \union {NoSession}]
    /\ wg \in Nat

(* A socket that is open belongs to the one session its client has, unless *)
(* a goroutine is just about to close it: a reply on it can only be the    *)
(* client's, and dropping or closing the session closes it.                *)
OpenIsMapped ==
    \A s \in Sessions :
        upstream[s] => sessions[owner[s]] = s \/ \E d \in Droppers : victim[d] = s

(* Every open socket can be found and closed, in states of the declared    *)
(* types.                                                                  *)
Inv == TypeOK /\ OpenIsMapped

(* After Close nothing of the forwarder runs.                              *)
ClosedIsQuiet ==
    closer = "closed" => /\ runner = "off"
                         /\ \A s \in Sessions : reader[s] \in {"none", "done"}

(* Close returns, also when a packet was being handled and has made a new  *)
(* session after Close closed the others.                                  *)
CloseReturns == (closer = "sessions") ~> (closer = "closed")

(* udp.go:16, "Sessions are created lazily and expire after                *)
(* UDPSessionTimeout of inactivity": a session that has been idle for the  *)
(* timeout leaves the table, or has traffic again, while the forwarder is  *)
(* open; unless writes to clients fail, since a readLoop that ends on one  *)
(* leaves its session behind for ever.                                     *)
SessionsExpire ==
    \A s \in Sessions :
        ("client" \notin faults /\ closer = "open" /\ Mapped(s) /\ ~fresh[s])
            ~> (closer # "open" \/ ~Mapped(s) \/ fresh[s])

(* While the forwarder is open, a readLoop that ends takes its own session *)
(* out of the table, never a newer one that the same client has got in the *)
(* meantime; unless writes to the backend fail, since the session that is  *)
(* dropped for one has a readLoop that drops by client address once more.  *)
NoForeignDrop ==
    [][\A s \in Sessions :
         "upstream" \notin faults /\ closer = "open" /\ reader[s] = "close" /\ reader'[s] = "done"
            => \A t \in Sessions \ {s} : upstream[t] => upstream'[t]]_vars
=============================================================================
