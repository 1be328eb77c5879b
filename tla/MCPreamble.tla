----------------------------- MODULE MCPreamble -----------------------------
(* Clients of the forward preamble for TLC. *)
EXTENDS Preamble

Handshake(protocol, host, intent) ==
    [Protocol |-> protocol, Host |-> host, Port |-> 25565, Intent |-> intent]

Framed(payload) == marshalVarint(Len(payload)) \o payload
LoginStart(name) == Framed(<<0>> \o marshalString(name))

Alice == <<65, 108>>
LongHost == [i \in 1..85 |-> 97]
More == <<7, 8>>

(* A player; hello is the handshake frame as that client encodes it.       *)
Player(hs, hello) ==
    [bytes |-> hello \o LoginStart(Alice) \o More, login |-> TRUE, hs |-> hs,
     name |-> Alice, after |-> LoginStart(Alice) \o More,
     need |-> Len(hello) + Len(LoginStart(Alice))]

Plain(hs) == Player(hs, MarshalHandshake(hs, hs.Host))

(* A client bungee mode does not rewrite, of which it must see `need`      *)
(* bytes: one more than there are, where they do not make up a frame.      *)
Other(bytes, need) ==
    [bytes |-> bytes, login |-> FALSE, hs |-> Handshake(0, <<>>, 0),
     name |-> <<>>, after |-> <<>>, need |-> need]

Ping == MarshalHandshake(Handshake(767, <<97>>, 1), <<97>>)
Hello == MarshalHandshake(Handshake(767, <<97>>, 2), <<97>>)

(* The same handshake with a length and an id of two bytes each.           *)
Padded == <<Hello[1] + 1 + 128, 0, 128, 0>> \o SubSeq(Hello, 3, Len(Hello))

Players ==
    { Plain(Handshake(767, <<97>>, 2)),
      Plain(Handshake(-1, LongHost, 2)),
      Plain(Handshake(2147483647, <<>>, 2)),
      Player(Handshake(767, <<97>>, 2), Padded) }

Others ==
    { Other(Ping \o Framed(<<0>>), Len(Ping)),                 \* status ping
      Other(Hello \o Framed(<<1, 5>>) \o More, Len(Hello) + 3),  \* no login start
      Other(Hello \o Framed(<<0, 9, 65>>), Len(Hello) + 4),      \* a name that overruns
      Other(Framed(<<128, 128>>) \o More, 3),                    \* a malformed id
      Other(Framed(<<0, 128, 128, 128, 128, 128>>), 7),          \* a malformed version
      Other(Hello \o <<9, 0>>, Len(Hello) + 3),                  \* half a login start
      Other(<<71, 69, 84, 32, 47>>, 6),                          \* "GET /": a length of 71
      Other(<<0, 7>>, 3),                                        \* length 0
      Other(<<255, 255, 255, 255, 127, 1>>, 7),                  \* a negative length
      Other(<<255, 255, 255, 255, 255, 1>>, 7) }                 \* a length without end

AllClients == Players \union Others

V4 == [IP |-> <<10, 0, 0, 9>>, Port |-> 50000]
V4Dest == [IP |-> <<10, 0, 0, 1>>, Port |-> 25565]
Ten == <<49, 48, 46, 48, 46, 48, 46, 57>>
FakeUUID(name) == [i \in 1..36 |-> 48 + Len(name) + (i % 7)]
=============================================================================
