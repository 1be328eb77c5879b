------------------------------ MODULE Preamble ------------------------------
(***************************************************************************)
(* forwardPreamble and the copying that follows it, for one connection     *)
(* (internal/proxy/proxy.go), with the formats of Wire: what the backend   *)
(* gets to read, under each forward mode, from what a client sends. The    *)
(* client's bytes arrive one by one, and every read of the code may find   *)
(* any number of them; a read may time out and a write may fail at any     *)
(* moment.                                                                 *)
(***************************************************************************)
EXTENDS Wire

CONSTANTS
    Clients,          \* what clients send: see Needed and Promised
    Modes,            \* forward modes of the backend
    Source, Dest,     \* the two ends of the client's socket, [IP, Port]
    IpText,           \* raddr.IP.String()
    OfflineUUID(_)    \* the UUID text of a player name, an MD5 in the code

(* What bungee mode makes of the bytes s of a client: a handshake for a    *)
(* login, after which it wants the frame that follows as well, or a frame  *)
(* that is all it wants.                                                   *)
AsksLogin(s) ==
    /\ FrameStatus(s) = "frame"
    /\ ParseHandshake(ReadFrame(s)).ok
    /\ ParseHandshake(ReadFrame(s)).val.Intent = 2

AfterFirst(s) == Drop(s, Len(ReadFrame(s).Raw))
Enough(s) == FrameStatus(s) = "frame" /\ (AsksLogin(s) => FrameStatus(AfterFirst(s)) = "frame")
PlayerName(s) == ParseLoginName(ReadFrame(AfterFirst(s)))

(* A client says of itself its bytes, whether they begin with a handshake  *)
(* for a login and a login start (login), that handshake and player name   *)
(* (hs, name), the bytes after the handshake (after), and how many bytes   *)
(* of it bungee mode has to see (need): more than it sends, if they do not *)
(* make up the frames bungee mode reads.                                   *)
Byte == 0..255

ASSUME ClientsAssumption ==
    \A c \in Clients :
        /\ c.bytes \in Seq(Byte) /\ c.need \in Nat
        /\ c.login <=> AsksLogin(c.bytes) /\ Enough(c.bytes) /\ PlayerName(c.bytes).ok
        /\ c.login => /\ ParseHandshake(ReadFrame(c.bytes)).val = c.hs
                      /\ PlayerName(c.bytes).val = c.name
                      /\ AfterFirst(c.bytes) = c.after
                      /\ OfflineUUID(c.name) \in Seq(Byte)
                      /\ Len(OfflineUUID(c.name)) = 36
        /\ \A n \in 0..Len(c.bytes) : Enough(SubSeq(c.bytes, 1, n)) <=> n >= c.need

(* The two ends of one TCP socket have addresses of one family.            *)
ASSUME EndsAssumption ==
    /\ \A end \in {Source, Dest} :
         /\ end.IP \in Seq(Byte) /\ Len(end.IP) \in {4, 16}
         /\ end.Port \in Nat /\ end.Port < 65536
    /\ Len(Source.IP) = Len(Dest.IP)
    /\ IpText \in Seq(Byte) /\ Len(IpText) <= 45
    /\ Modes \subseteq {"raw", "ppv2", "bungee"}

VARIABLES
    mode,      \* b.model.ForwardMode
    client,
    arrived,   \* how many bytes of the client have arrived
    read,      \* how many of them have been read from the socket
    pc,
    first,     \* the frame f of forwardBungee
    pending,   \* what backend.Write has still to be called with
    out        \* what the backend has received

vars == <<mode, client, arrived, read, pc, first, pending, out>>

Unread == SubSeq(client.bytes, read + 1, arrived)

Init ==
    /\ mode \in Modes
    /\ client \in Clients
    /\ arrived = 0 /\ read = 0
    /\ pc = "start"
    /\ first = <<>> /\ pending = <<>> /\ out = <<>>

Up == pc \notin {"closed", "failed"}

Arrive ==
    /\ Up
    /\ arrived < Len(client.bytes)
    /\ arrived' = arrived + 1
    /\ UNCHANGED <<mode, client, read, pc, first, pending, out>>

-----------------------------------------------------------------------------
familyFor(ip) == IF Len(ip) = 4 THEN FamilyINET ELSE FamilyINET6

(* The header writePPv2 builds, from the two ends of the client's socket.  *)
Header ==
    IF (Len(Source.IP) = 4) = (Len(Dest.IP) = 4)
      THEN [Command |-> CommandProxy, Protocol |-> ProtocolStream,
            Family |-> familyFor(Source.IP),
            SourceAddr |-> Source.IP, SourcePort |-> Source.Port,
            DestAddr |-> Dest.IP, DestPort |-> Dest.Port]
      ELSE [Command |-> CommandProxy, Protocol |-> ProtocolStream,
            Family |-> FamilyUnspec, SourceAddr |-> <<>>, SourcePort |-> 0,
            DestAddr |-> <<>>, DestPort |-> 0]

(* The writes that end the preamble.                                       *)
ThenWrite(chunks) ==
    /\ pending' = chunks
    /\ pc' = "write"

forwardPreamble ==
    /\ pc = "start"
    /\ CASE mode = "ppv2" /\ Valid(Header) -> ThenWrite(<<Marshal(Header)>>)
         [] mode = "ppv2" /\ ~Valid(Header) -> pc' = "closed" /\ UNCHANGED pending
         [] mode = "bungee" -> pc' = "first" /\ UNCHANGED pending
         [] OTHER -> pc' = "pipe" /\ UNCHANGED pending
    /\ UNCHANGED <<mode, client, arrived, read, first, out>>

(* Variant: a status ping is made to wait for a login start.               *)
ReadFirstAnyIntent ==
    /\ pc = "first"
    /\ FrameStatus(Unread) = "frame"
    /\ LET f == ReadFrame(Unread)
           hs == ParseHandshake(f)
       IN /\ read' = read + Len(f.Raw)
          /\ IF hs.ok THEN pc' = "second" /\ first' = f /\ UNCHANGED pending
                      ELSE ThenWrite(<<f.Raw>>) /\ UNCHANGED first
    /\ UNCHANGED <<mode, client, arrived, out>>

(* Variant: what is replayed is the packet without its length.             *)
ReadFirstBody ==
    /\ pc = "first"
    /\ FrameStatus(Unread) = "frame"
    /\ LET f == ReadFrame(Unread)
           hs == ParseHandshake(f)
       IN /\ read' = read + Len(f.Raw)
          /\ IF hs.ok /\ hs.val.Intent = 2
               THEN pc' = "second" /\ first' = f /\ UNCHANGED pending
               ELSE ThenWrite(<<f.Body>>) /\ UNCHANGED first
    /\ UNCHANGED <<mode, client, arrived, out>>

(* The first frame: the handshake of a login goes on, anything else is     *)
(* replayed as it came.                                                    *)
ReadFirst ==
    /\ pc = "first"
    /\ FrameStatus(Unread) = "frame"
    /\ LET f == ReadFrame(Unread)
           hs == ParseHandshake(f)
       IN /\ read' = read + Len(f.Raw)
          /\ IF hs.ok /\ hs.val.Intent = 2
               THEN pc' = "second" /\ first' = f /\ UNCHANGED pending
               ELSE ThenWrite(<<f.Raw>>) /\ UNCHANGED first
    /\ UNCHANGED <<mode, client, arrived, out>>

Forwarded(host, name) == host \o <<0>> \o IpText \o <<0>> \o OfflineUUID(name)

(* Variant: the client's own host is left out of the new one.              *)
ReadSecondBare ==
    /\ pc = "second"
    /\ FrameStatus(Unread) = "frame"
    /\ LET lf == ReadFrame(Unread)
           name == ParseLoginName(lf)
           hs == ParseHandshake(first).val
           rewritten == MarshalHandshake(hs, Forwarded(<<>>, name.val))
       IN /\ read' = read + Len(lf.Raw)
          /\ ThenWrite(<<IF name.ok THEN rewritten ELSE first.Raw, lf.Raw>>)
    /\ UNCHANGED <<mode, client, arrived, first, out>>

(* The second frame: with a player name in it the handshake is rewritten,  *)
(* without one both frames are replayed.                                   *)
ReadSecond ==
    /\ pc = "second"
    /\ FrameStatus(Unread) = "frame"
    /\ LET lf == ReadFrame(Unread)
           name == ParseLoginName(lf)
           hs == ParseHandshake(first).val
           rewritten == MarshalHandshake(hs, Forwarded(hs.Host, name.val))
       IN /\ read' = read + Len(lf.Raw)
          /\ ThenWrite(<<IF name.ok THEN rewritten ELSE first.Raw, lf.Raw>>)
    /\ UNCHANGED <<mode, client, arrived, first, out>>

(* ReadFrame returns an error and the connection is closed: the length is  *)
(* bad, or the bytes do not come before the deadline or the hang-up.       *)
ReadError(status) ==
    /\ pc \in {"first", "second"}
    /\ FrameStatus(Unread) = status
    /\ pc' = "closed"
    /\ UNCHANGED <<mode, client, arrived, read, first, pending, out>>

BadLength == ReadError("bad")


ReadTimeout == ReadError("more")

(* Variant: the pipe starts after the first write.                         *)
WriteOnce ==
    /\ pc = "write"
    /\ out' = out \o Head(pending)
    /\ pending' = <<>>
    /\ pc' = "pipe"
    /\ UNCHANGED <<mode, client, arrived, read, first>>

Write ==
    /\ pc = "write"
    /\ out' = out \o Head(pending)
    /\ pending' = Tail(pending)
    /\ pc' = IF Tail(pending) = <<>> THEN "pipe" ELSE "write"
    /\ UNCHANGED <<mode, client, arrived, read, first>>

(* What a failing write may have written: nothing, or all but one byte.    *)
Torn(chunk) == {<<>>, Front(chunk)}

WriteFails ==
    /\ pc = "write"
    /\ \E part \in Torn(Head(pending)) : out' = out \o part
    /\ pc' = "failed"
    /\ UNCHANGED <<mode, client, arrived, read, first, pending>>

(* pipe copies what has arrived.                                           *)
Pump ==
    /\ pc = "pipe"
    /\ Unread # <<>>
    /\ out' = out \o Unread
    /\ read' = arrived
    /\ UNCHANGED <<mode, client, arrived, pc, first, pending>>

PumpFails ==
    /\ pc = "pipe"
    /\ Unread # <<>>
    /\ \E part \in Torn(Unread) : out' = out \o part
    /\ read' = arrived
    /\ pc' = "failed"
    /\ UNCHANGED <<mode, client, arrived, first, pending>>

-----------------------------------------------------------------------------
Proceed == forwardPreamble \/ ReadFirst \/ ReadSecond \/ BadLength
           \/ Write \/ Pump

Next == Arrive \/ Proceed \/ ReadTimeout \/ WriteFails \/ PumpFails

(* When Proceed is enabled.                                                *)
CanProceed ==
    \/ pc \in {"start", "write"}
    \/ pc \in {"first", "second"} /\ FrameStatus(Unread) # "more"
    \/ pc = "pipe" /\ Unread # <<>>

(* The goroutine goes on when it can: WF_vars(Proceed), with CanProceed    *)
(* for ENABLED <<Proceed>>_vars. A read that lacks bytes ends: one deadline *)
(* of 10 s is set for both frames (proxy.go:404). Clients need not send    *)
(* anything.                                                               *)
FairSpec ==
    /\ Init /\ [][Next]_vars
    /\ <>[]CanProceed => []<><<Proceed>>_vars
    /\ WF_vars(ReadTimeout)

-----------------------------------------------------------------------------
(* Properties.                                                             *)

(* What the backend is to read in the end: a header and the client's bytes *)
(* (ppv2), the client's bytes with the host of a login's handshake         *)
(* replaced (bungee), the client's bytes.                                  *)
Promised ==
    CASE mode = "ppv2" -> Marshal(Header) \o client.bytes
      [] mode = "bungee" /\ client.login ->
           MarshalHandshake(client.hs, Forwarded(client.hs.Host, client.name))
             \o client.after
      [] OTHER -> client.bytes

(* A backend gets the promised bytes and no others, in order: nothing is   *)
(* lost or repeated where the preamble hands the socket to the pipe, and a *)
(* packet is not torn between the two frames it holds back (proxy.go:403). *)
Stream == INSTANCE ByteStream WITH promised <- Promised, delivered <- out, up <- Up
KeepsPromise == Stream!Spec

(* Every variable has its type, and reads stay behind arrivals.            *)
TypeOK ==
    /\ mode \in Modes /\ client \in Clients
    /\ arrived \in 0..Len(client.bytes) /\ read \in 0..arrived
    /\ pc \in {"start", "first", "second", "write", "pipe", "closed", "failed"}
    /\ (pc = "write") <=> (Up /\ pending # <<>>)
    /\ pc = "second" => ParseHandshake(first).ok

(* The backend of a player reads a handshake with the same protocol        *)
(* version, port and intent and the rewritten host, whatever the width of  *)
(* the fields (mcproto.go:120, "Everything else is preserved").            *)
IdentityReaches ==
    mode = "bungee" /\ client.login /\ FrameStatus(out) = "frame" =>
        ParseHandshake(ReadFrame(out)) =
            Parsed([client.hs EXCEPT !.Host = Forwarded(@, client.name)], <<>>)

(* A backend that expects a PROXY v2 header reads the client's address out *)
(* of it, and what it reads next is what the client sent.                  *)
HeaderTells ==
    mode = "ppv2" /\ pc = "pipe" =>
        LET h == ReadHeader(out)
        IN /\ h.ok
           /\ h.val.SourceAddr = Source.IP /\ h.val.SourcePort = Source.Port
           /\ h.val.DestAddr = Dest.IP /\ h.val.DestPort = Dest.Port
           /\ IsPrefix(h.rest, client.bytes)

(* The preamble closes only clients of which bungee mode has not seen what *)
(* it reads: their handshake and, for a login, their login start, in full. *)
(* A status ping is not made to wait for a second frame, which it does not *)
(* send before it has its answer (proxy.go:411), and a packet that does    *)
(* not parse is no reason to close. What the first bytes announce may be   *)
(* more than a client ever sends: see ForeignRefused.                      *)
OnlyIncompleteClosed == pc = "closed" => arrived < client.need

(* Under bungee the backend gets nothing of a client before bungee mode    *)
(* has seen what it reads: the frames it holds back are not let go of in   *)
(* parts, whatever fails.                                                  *)
HeldBack == mode = "bungee" /\ out # <<>> => arrived >= client.need

(* The preamble gives up only on clients it has not seen enough of and     *)
(* passes nothing on before, in states of the declared types.              *)
Inv == TypeOK /\ OnlyIncompleteClosed /\ HeldBack

(* Once a client has sent everything the backend gets all of it, unless a  *)
(* write fails: under raw and ppv2 whatever the client sends, under bungee *)
(* when the frames bungee mode reads are complete.                         *)
Delivered ==
    (arrived = Len(client.bytes) /\ (mode = "bungee" => arrived >= client.need))
        ~> (out = Promised \/ pc = "failed")

=============================================================================
