---------------------------- MODULE ManagerProofs ----------------------------
(***************************************************************************)
(* Proofs about Manager for every set of names, ports and modes, every     *)
(* number of rows and boots, every choice of commands and whether or not   *)
(* binds and writes fail: what the registry, the runtime backends and the  *)
(* rows promise each other.                                                *)
(***************************************************************************)
EXTENDS Manager, WellFoundedInduction, TLAPS

(* Two conditions on what the administrator does, each a hypothesis of one *)
(* theorem: no two names differ in case only; no removal is by id.         *)
KeysDistinct == \A m, n \in Names : Key[m] = Key[n] => m = n
NoRemoveById == "remove id" \notin Commands

-----------------------------------------------------------------------------
(* The inductive invariant.                                                *)

Adding == {"add start", "add publish"}
Removing == {"remove stop", "remove delete"}
Working == {"restart stop", "restart start", "udp persist", "udp start", "udp clear",
            "forward set"}

Jobs == [pc : BotStates, id : Ids \union {NoId}, arg : Ports \union Modes \union {NoPort}]

(* A table of rows, or of copies of them.                                  *)
Table == [Ids -> Rows \union {NoRow}]

Types ==
    /\ rows \in Table
    /\ lastId \in 0..MaxId
    /\ model \in Table
    /\ life \in [Ids -> {"none", "running", "stopped"}]
    /\ fwd \in [Ids -> BOOLEAN]
    /\ reg \in [Keys -> Ids \union {NoId}]
    /\ mu \in {"free", "main", "bot", "lost"}
    /\ main \in {"off", "boot", "serve", "signal", "drain", "done"}
    /\ todo \subseteq Ids
    /\ bot \in Jobs
    /\ boots \in 0..MaxBoots

(* Who holds the lock: a boot, a shutdown, or an /add between its two      *)
(* halves. A command works on one backend.                                 *)
LockShape ==
    /\ mu = "main" <=> main \in {"boot", "drain"}
    /\ mu = "bot" <=> bot.pc \in Adding
    /\ main \in {"off", "boot"} => bot.pc = "off"
    /\ bot.pc \in Adding \union Removing \union Working => bot.id \in Ids

(* Ids are not reused: nothing has one that has not been given out ...     *)
Fresh ==
    \A i \in Ids : i > lastId => /\ rows[i] = NoRow /\ model[i] = NoRow
                                 /\ life[i] = "none" /\ ~fwd[i]

(* ... and a name is stored once.                                          *)
NamesUnique ==
    \A i, j \in Ids :
        i # j /\ rows[i] # NoRow /\ rows[j] # NoRow => rows[i].name # rows[j].name

RowShape == Fresh /\ NamesUnique

(* What runs has a copy of a row, with a UDP port if the forwarder is open. *)
RunsFromCopy ==
    \A i \in Ids : /\ life[i] = "running" => model[i] # NoRow
                   /\ fwd[i] => model[i] # NoRow /\ model[i].udp # NoPort

(* The copy agrees with the row while that is there: in the name, in the   *)
(* port, and in the UDP port if it has one.                                *)
CopyOf(i) ==
    model[i] # NoRow /\ rows[i] # NoRow =>
        /\ rows[i].name = model[i].name
        /\ rows[i].port = model[i].port
        /\ model[i].udp # NoPort => rows[i].udp = model[i].udp

CopyAgrees == \A i \in Ids : CopyOf(i)

CopyShape == RunsFromCopy /\ CopyAgrees

(* A registered backend is registered under its own key ...                *)
RegKeys ==
    \A k \in Keys : reg[k] # NoId => model[reg[k]] # NoRow /\ Key[model[reg[k]].name] = k

(* ... and while Manager.Start runs, it has just been copied from its row. *)
RegBoot ==
    main = "boot" =>
        \A k \in Keys : reg[k] # NoId =>
            /\ reg[k] \notin todo /\ life[reg[k]] = "running"
            /\ model[reg[k]] = rows[reg[k]]

RegShape == RegKeys /\ RegBoot

(* While main is off nothing runs.                                         *)
OffShape ==
    main = "off" => /\ \A i \in Ids : model[i] = NoRow /\ life[i] = "none" /\ ~fwd[i]
                    /\ \A k \in Keys : reg[k] = NoId

(* What a boot still has to start has a row, what a shutdown still has to  *)
(* stop was started from one.                                              *)
Needed(i) == /\ main = "boot" => rows[i] # NoRow
             /\ main = "drain" => model[i] # NoRow

TodoShape == \A i \in todo : Needed(i)

BootShape == OffShape /\ TodoShape

(* A backend being added has its row, a name and a port no registered      *)
(* backend has.                                                            *)
AddShape ==
    bot.pc \in Adding =>
        /\ rows[bot.id] # NoRow
        /\ reg[Key[rows[bot.id].name]] = NoId
        /\ \A k \in Keys : reg[k] # NoId =>
             reg[k] # bot.id /\ model[reg[k]].port # rows[bot.id].port
        /\ bot.pc = "add start" =>
             model[bot.id] = NoRow /\ life[bot.id] = "none" /\ ~fwd[bot.id]
        /\ bot.pc = "add publish" => model[bot.id] = rows[bot.id]

(* A command that needs a registered backend works on one.                 *)
JobFound == bot.pc \in Working => \E k \in Keys : reg[k] = bot.id

(* What a command will do next fits what it has done: what it will write   *)
(* to the copy is what it has written to the row.                          *)
JobDone ==
    /\ bot.pc \in Removing => model[bot.id] # NoRow
    /\ bot.pc = "remove delete" => life[bot.id] # "running" /\ ~fwd[bot.id]
    /\ bot.pc \in {"udp persist", "udp start"} => bot.arg \in Ports
    /\ bot.pc = "udp start" => model[bot.id].udp = bot.arg
    /\ bot.pc = "udp clear" => model[bot.id].udp = NoPort
    /\ bot.pc = "forward set" =>
         bot.arg \in Modes /\ (rows[bot.id] # NoRow => rows[bot.id].mode = bot.arg)

JobShape == JobFound /\ JobDone

(* No two keys stand for backends with the same port.                      *)
KeyPorts ==
    \A k, l \in Keys : k # l /\ reg[k] # NoId /\ reg[l] # NoId =>
        model[reg[k]].port # model[reg[l]].port

(* The copy's mode is the row's, unless /forward is between the two.       *)
ModeOf(k) ==
    /\ reg[k] # NoId /\ rows[reg[k]] # NoRow
    /\ ~(bot.pc = "forward set" /\ bot.id = reg[k])
    => model[reg[k]].mode = rows[reg[k]].mode

KeyModes == \A k \in Keys : ModeOf(k)

ManagerInv == Types /\ LockShape /\ RowShape /\ CopyShape /\ RegShape /\ BootShape
              /\ AddShape /\ JobShape /\ KeyPorts /\ KeyModes
-----------------------------------------------------------------------------
(* Facts about the constants and the operators of the model.               *)

(* No row is NoRow, and 0 is no row's id.                                  *)
LEMMA NoRowFacts == NoRow \notin Rows /\ NoId \notin Ids
<1>1. NoRow.port = NoPort
  BY DEF NoRow
<1>2. \A r \in Rows : r.port \in Ports
  BY DEF Rows
<1>3. NoRow \notin Rows
  BY <1>1, <1>2, NoPortAssumption
<1>4. NoId \notin Ids
  BY BoundsAssumption DEF NoId, Ids
<1>5. QED
  BY <1>3, <1>4

LEMMA KeyTypes == \A n \in Names : Key[n] \in Keys
  BY DEF Keys

(* Manager.Start takes the rows in the order of their ids: there is a next *)
(* one as long as one is left.                                             *)
LEMMA MinIsIn ==
    ASSUME NEW S \in SUBSET Ids, S # {}
    PROVE  Min(S) \in S
<1>1. S \subseteq Nat
  BY DEF Ids
<1>2. PICK x \in S : \A y \in S : ~(<<y, x>> \in OpToRel(<, Nat))
  BY <1>1, NatLessThanWellFounded, WFMin
<1>3. ASSUME NEW y \in S PROVE x =< y
  <2>1. x \in Nat /\ y \in Nat
    BY <1>1
  <2>2. ~(y < x)
    BY <1>2, <2>1 DEF OpToRel
  <2>3. QED
    BY <2>1, <2>2
<1>4. QED
  BY <1>3 DEF Min

(* t and s are the same table but for the UDP port, or the mode, of one    *)
(* entry, which is there.                                                  *)
SameBut(s, t, i) ==
    /\ s \in Table /\ s[i] # NoRow
    /\ s[i].name = t[i].name /\ s[i].port = t[i].port
    /\ \A j \in Ids : j # i => s[j] = t[j]

(* What an assignment to one field of an entry leaves alone.               *)
LEMMA UdpAssigned ==
    ASSUME NEW t \in Table, NEW i \in Ids, NEW u \in UdpPorts, t[i] # NoRow
    PROVE  LET s == [t EXCEPT ![i].udp = u]
           IN  SameBut(s, t, i) /\ s[i].udp = u /\ s[i].mode = t[i].mode
<1> DEFINE s == [t EXCEPT ![i].udp = u]
<1>1. /\ t[i] \in Rows /\ s[i] = [t[i] EXCEPT !.udp = u]
      /\ \A j \in Ids : j # i => s[j] = t[j]
  BY DEF Table
<1>2. s[i] \in Rows
  BY <1>1 DEF Rows
<1>3. s \in Table
  BY <1>1, <1>2 DEF Table
<1>4. /\ s[i].name = t[i].name /\ s[i].port = t[i].port
      /\ s[i].udp = u /\ s[i].mode = t[i].mode
  BY <1>1 DEF Rows
<1>5. QED
  BY <1>1, <1>2, <1>3, <1>4, NoRowFacts DEF SameBut

LEMMA ModeAssigned ==
    ASSUME NEW t \in Table, NEW i \in Ids, NEW m \in Modes, t[i] # NoRow
    PROVE  LET s == [t EXCEPT ![i].mode = m]
           IN  SameBut(s, t, i) /\ s[i].mode = m /\ s[i].udp = t[i].udp
<1> DEFINE s == [t EXCEPT ![i].mode = m]
<1>1. /\ t[i] \in Rows /\ s[i] = [t[i] EXCEPT !.mode = m]
      /\ \A j \in Ids : j # i => s[j] = t[j]
  BY DEF Table
<1>2. s[i] \in Rows
  BY <1>1 DEF Rows
<1>3. s \in Table
  BY <1>1, <1>2 DEF Table
<1>4. /\ s[i].name = t[i].name /\ s[i].port = t[i].port
      /\ s[i].mode = m /\ s[i].udp = t[i].udp
  BY <1>1 DEF Rows
<1>5. QED
  BY <1>1, <1>2, <1>3, <1>4, NoRowFacts DEF SameBut

(* The UPDATEs of the store: a row that is there gets the new value, a row *)
(* that is not there stays away.                                           *)
LEMMA UpdatedUDP ==
    ASSUME rows \in Table, NEW i \in Ids, NEW u \in UdpPorts, UpdateBackendUDP(i, u)
    PROVE  \/ rows[i] = NoRow /\ rows' = rows
           \/ /\ rows[i] # NoRow /\ SameBut(rows', rows, i)
              /\ rows'[i].udp = u /\ rows'[i].mode = rows[i].mode
<1>1. CASE rows[i] # NoRow
  <2>1. rows' = [rows EXCEPT ![i].udp = u]
    BY <1>1 DEF UpdateBackendUDP, Stored
  <2>2. QED
    BY <1>1, <2>1, UdpAssigned
<1>2. CASE rows[i] = NoRow
  <2>1. rows' = [rows EXCEPT ![i] = [NoRow EXCEPT !.udp = NoRow.udp]]
    BY <1>2 DEF UpdateBackendUDP, Stored
  <2>2. [NoRow EXCEPT !.udp = NoRow.udp] = NoRow
    BY DEF NoRow
  <2>3. QED
    BY <1>2, <2>1, <2>2 DEF Table
<1>3. QED
  BY <1>1, <1>2

LEMMA UpdatedMode ==
    ASSUME rows \in Table, NEW i \in Ids, NEW m \in Modes, UpdateBackendForwardMode(i, m)
    PROVE  \/ rows[i] = NoRow /\ rows' = rows
           \/ /\ rows[i] # NoRow /\ SameBut(rows', rows, i)
              /\ rows'[i].mode = m /\ rows'[i].udp = rows[i].udp
<1>1. CASE rows[i] # NoRow
  <2>1. rows' = [rows EXCEPT ![i].mode = m]
    BY <1>1 DEF UpdateBackendForwardMode, Stored
  <2>2. QED
    BY <1>1, <2>1, ModeAssigned
<1>2. CASE rows[i] = NoRow
  <2>1. rows' = [rows EXCEPT ![i] = [NoRow EXCEPT !.mode = NoRow.mode]]
    BY <1>2 DEF UpdateBackendForwardMode, Stored
  <2>2. [NoRow EXCEPT !.mode = NoRow.mode] = NoRow
    BY DEF NoRow
  <2>3. QED
    BY <1>2, <2>1, <2>2 DEF Table
<1>3. QED
  BY <1>1, <1>2

LEMMA ClearedUDP ==
    ASSUME rows \in Table, NEW i \in Ids, ClearBackendUDP(i)
    PROVE  \/ rows[i] = NoRow /\ rows' = rows
           \/ /\ rows[i] # NoRow /\ SameBut(rows', rows, i)
              /\ rows'[i].udp = NoPort /\ rows'[i].mode = rows[i].mode
<1>1. CASE rows[i] # NoRow
  <2>1. rows' = [rows EXCEPT ![i].udp = NoPort] /\ NoPort \in UdpPorts
    BY DEF ClearBackendUDP, UdpPorts
  <2>2. QED
    BY <1>1, <2>1, UdpAssigned
<1>2. CASE rows[i] = NoRow
  <2>0. NoRow.udp = NoPort
    BY DEF NoRow
  <2>1. rows' = [rows EXCEPT ![i] = [NoRow EXCEPT !.udp = NoRow.udp]]
    BY <1>2, <2>0 DEF ClearBackendUDP
  <2>2. [NoRow EXCEPT !.udp = NoRow.udp] = NoRow
    BY DEF NoRow
  <2>3. QED
    BY <1>2, <2>1, <2>2 DEF Table
<1>3. QED
  BY <1>1, <1>2

(* Backend.start: the backend runs with the copy it was given; its         *)
(* forwarder can only be open if that enables UDP. No other is touched.    *)
LEMMA StartedFacts ==
    ASSUME model \in Table, life \in [Ids -> {"none", "running", "stopped"}],
           fwd \in [Ids -> BOOLEAN], NEW i \in Ids, NEW r \in Rows, Started(i, r)
    PROVE  /\ model' \in Table /\ life' \in [Ids -> {"none", "running", "stopped"}]
           /\ fwd' \in [Ids -> BOOLEAN]
           /\ model'[i] = r /\ life'[i] = "running" /\ (fwd'[i] => r.udp # NoPort)
           /\ \A j \in Ids : j # i => /\ model'[j] = model[j] /\ life'[j] = life[j]
                                      /\ fwd'[j] = fwd[j]
<1>1. PICK ok \in (IF r.udp = NoPort THEN {FALSE} ELSE Outcomes(UdpFree(r.udp))) :
        fwd' = [fwd EXCEPT ![i] = ok]
  BY DEF Started
<1>2. ok \in BOOLEAN /\ (ok => r.udp # NoPort)
  BY DEF Outcomes
<1>3. fwd' \in [Ids -> BOOLEAN] /\ (fwd'[i] => r.udp # NoPort)
      /\ \A j \in Ids : j # i => fwd'[j] = fwd[j]
  BY <1>1, <1>2
<1>4. QED
  BY <1>3 DEF Started, Table

-----------------------------------------------------------------------------
(* What the invariant says of the backend an operation is about.           *)
WhatIsThere ==
    /\ Types
    /\ bot.pc \in Adding => bot.id \in Ids /\ rows[bot.id] \in Rows /\ mu = "bot"
    /\ bot.pc \in Removing => bot.id \in Ids /\ model[bot.id] \in Rows
    /\ bot.pc \in Working => bot.id \in Ids /\ model[bot.id] \in Rows
    /\ bot.pc = "forward set" => bot.arg \in Modes
    /\ bot.pc \in {"udp persist", "udp start"} =>
         bot.arg \in Ports /\ bot.arg \in UdpPorts
    /\ main = "boot" => bot.pc = "off" /\ \A i \in todo : i \in Ids /\ rows[i] \in Rows
    /\ \A k \in Keys : reg[k] # NoId => reg[k] \in Ids /\ model[reg[k]] \in Rows
    /\ \A n \in Names : Get(n) # NoId => Get(n) \in Ids /\ model[Get(n)] \in Rows

LEMMA JobFacts == ManagerInv => WhatIsThere
<1> SUFFICES ASSUME ManagerInv
             PROVE  WhatIsThere
  OBVIOUS
<1> USE DEF ManagerInv, Types, Table
<1>1. bot.pc \in Adding => bot.id \in Ids /\ rows[bot.id] \in Rows /\ mu = "bot"
  BY DEF LockShape, AddShape
<1>2. \A k \in Keys : reg[k] # NoId => reg[k] \in Ids /\ model[reg[k]] \in Rows
  BY DEF RegShape, RegKeys
<1>3. \A n \in Names : Get(n) # NoId => Get(n) \in Ids /\ model[Get(n)] \in Rows
  BY <1>2, KeyTypes DEF Get
<1>4. bot.pc \in Working => bot.id \in Ids /\ model[bot.id] \in Rows
  BY <1>2, NoRowFacts DEF LockShape, JobShape, JobFound, JobDone
<1>5. bot.pc \in Removing => bot.id \in Ids /\ model[bot.id] \in Rows
  BY DEF LockShape, JobShape, JobFound, JobDone
<1>6. bot.pc = "forward set" => bot.arg \in Modes
  BY DEF JobShape, JobFound, JobDone
<1>7. bot.pc \in {"udp persist", "udp start"} => bot.arg \in Ports /\ bot.arg \in UdpPorts
  BY DEF JobShape, JobFound, JobDone, UdpPorts
<1>8. main = "boot" => bot.pc = "off" /\ \A i \in todo : i \in Ids /\ rows[i] \in Rows
  BY DEF LockShape, BootShape, TodoShape, Needed
<1> HIDE DEF Table
<1>9. QED
  BY <1>1, <1>2, <1>3, <1>4, <1>5, <1>6, <1>7, <1>8 DEF WhatIsThere

(* What the operations that touch a row or start a backend do, in terms of *)
(* the lemmas above.                                                       *)
LEMMA StartOneDoes ==
    ASSUME ManagerInv, NEW i \in Ids, StartOne(i)
    PROVE  /\ main = "boot" /\ i \in todo /\ rows[i] \in Rows
           /\ UNCHANGED <<rows, lastId, mu, main, bot, boots>> /\ todo' = todo \ {i}
           /\ \/ UNCHANGED <<model, life, fwd, reg>>
              \/ /\ Started(i, rows[i]) /\ TcpFree(rows[i].port)
                 /\ reg' = [reg EXCEPT ![Key[rows[i].name]] = i]
<1>1. main = "boot" /\ i \in todo
  BY MinIsIn DEF StartOne, BootBackend, ManagerInv, Types
<1>2. rows[i] \in Rows
  BY <1>1, JobFacts DEF WhatIsThere
<1>3. QED
  BY <1>1, <1>2 DEF StartOne, BootBackend, Outcomes, runtime

LEMMA AddStartDoes ==
    ASSUME ManagerInv, AddStart
    PROVE  /\ bot.pc = "add start" /\ bot.id \in Ids /\ rows[bot.id] \in Rows
           /\ Started(bot.id, rows[bot.id])
           /\ bot' = Job("add publish", bot.id, NoPort)
           /\ UNCHANGED <<rows, lastId, reg, mu, main, todo, boots>>
  BY JobFacts DEF AddStart, WhatIsThere, Adding

LEMMA RestartStartDoes ==
    ASSUME ManagerInv, RestartStart
    PROVE  /\ bot.pc = "restart start" /\ bot.id \in Ids /\ model[bot.id] \in Rows
           /\ bot' = Idle
           /\ UNCHANGED <<rows, lastId, reg, mu, main, todo, boots>>
           /\ \/ UNCHANGED <<model, life, fwd>>
              \/ Started(bot.id, model[bot.id])
  BY JobFacts DEF RestartStart, Return, runtime, WhatIsThere, Working

LEMMA AddUDPPersistDoes ==
    ASSUME ManagerInv, AddUDPPersist
    PROVE  /\ bot.pc = "udp persist" /\ bot.id \in Ids /\ model[bot.id] \in Rows
           /\ bot.arg \in Ports
           /\ \/ rows[bot.id] = NoRow /\ rows' = rows
              \/ /\ rows[bot.id] # NoRow /\ SameBut(rows', rows, bot.id)
                 /\ rows'[bot.id].udp = bot.arg /\ rows'[bot.id].mode = rows[bot.id].mode
           /\ SameBut(model', model, bot.id)
           /\ model'[bot.id].udp = bot.arg /\ model'[bot.id].mode = model[bot.id].mode
           /\ bot' = Job("udp start", bot.id, bot.arg)
           /\ UNCHANGED <<lastId, life, fwd, reg, mu, main, todo, boots>>
<1>1. /\ bot.pc = "udp persist" /\ bot.id \in Ids /\ model[bot.id] \in Rows
      /\ bot.arg \in Ports /\ bot.arg \in UdpPorts /\ rows \in Table /\ model \in Table
  BY JobFacts DEF AddUDPPersist, WhatIsThere, Working, Types
<1>2. UpdateBackendUDP(bot.id, bot.arg)
      /\ model' = [model EXCEPT ![bot.id].udp = bot.arg]
  BY DEF AddUDPPersist
<1>3. model[bot.id] # NoRow
  BY <1>1, NoRowFacts
<1>4. SameBut(model', model, bot.id)
      /\ model'[bot.id].udp = bot.arg /\ model'[bot.id].mode = model[bot.id].mode
  BY <1>1, <1>2, <1>3, UdpAssigned
<1>5. QED
  BY <1>1, <1>2, <1>4, UpdatedUDP DEF AddUDPPersist

LEMMA RemoveUDPCloseDoes ==
    ASSUME ManagerInv, NEW n \in Names, RemoveUDPClose(n)
    PROVE  /\ mu = "free" /\ Get(n) \in Ids /\ model[Get(n)] \in Rows
           /\ SameBut(model', model, Get(n))
           /\ model'[Get(n)].udp = NoPort /\ model'[Get(n)].mode = model[Get(n)].mode
           /\ fwd' = [fwd EXCEPT ![Get(n)] = FALSE]
           /\ bot' = Job("udp clear", Get(n), NoPort)
           /\ UNCHANGED <<rows, lastId, life, reg, mu, main, todo, boots>>
<1>1. Get(n) \in Ids /\ model[Get(n)] \in Rows /\ model \in Table /\ NoPort \in UdpPorts
  BY JobFacts DEF RemoveUDPClose, existsLocked, WhatIsThere, Types, UdpPorts
<1>2. model' = [model EXCEPT ![Get(n)].udp = NoPort]
  BY DEF RemoveUDPClose
<1>3. model[Get(n)] # NoRow
  BY <1>1, NoRowFacts
<1>4. SameBut(model', model, Get(n))
      /\ model'[Get(n)].udp = NoPort /\ model'[Get(n)].mode = model[Get(n)].mode
  BY <1>1, <1>2, <1>3, UdpAssigned
<1>5. QED
  BY <1>1, <1>4 DEF RemoveUDPClose, Unlocked

LEMMA RemoveUDPClearDoes ==
    ASSUME ManagerInv, RemoveUDPClear
    PROVE  /\ bot.pc = "udp clear" /\ bot.id \in Ids
           /\ \/ rows[bot.id] = NoRow /\ rows' = rows
              \/ /\ rows[bot.id] # NoRow /\ SameBut(rows', rows, bot.id)
                 /\ rows'[bot.id].udp = NoPort /\ rows'[bot.id].mode = rows[bot.id].mode
           /\ bot' = Idle
           /\ UNCHANGED <<lastId, model, life, fwd, reg, mu, main, todo, boots>>
  BY JobFacts, ClearedUDP DEF RemoveUDPClear, Return, WhatIsThere, Working, Types

LEMMA ForwardPersistDoes ==
    ASSUME ManagerInv, NEW n \in Names, NEW m \in Modes, ForwardPersist(n, m)
    PROVE  /\ mu = "free" /\ Get(n) \in Ids /\ Get(n) # NoId
           /\ \/ rows[Get(n)] = NoRow /\ rows' = rows
              \/ /\ rows[Get(n)] # NoRow /\ SameBut(rows', rows, Get(n))
                 /\ rows'[Get(n)].mode = m /\ rows'[Get(n)].udp = rows[Get(n)].udp
           /\ bot' = Job("forward set", Get(n), m)
           /\ UNCHANGED <<lastId, model, life, fwd, reg, mu, main, todo, boots>>
<1>1. Get(n) \in Ids /\ Get(n) # NoId /\ rows \in Table
  BY JobFacts DEF ForwardPersist, existsLocked, WhatIsThere, Types
<1>2. QED
  BY <1>1, UpdatedMode DEF ForwardPersist, Unlocked

LEMMA ForwardSetDoes ==
    ASSUME ManagerInv, ForwardSet
    PROVE  /\ bot.pc = "forward set" /\ bot.id \in Ids /\ bot.arg \in Modes
           /\ SameBut(model', model, bot.id)
           /\ model'[bot.id].mode = bot.arg /\ model'[bot.id].udp = model[bot.id].udp
           /\ bot' = Idle
           /\ UNCHANGED <<rows, lastId, life, fwd, reg, mu, main, todo, boots>>
<1>1. bot.id \in Ids /\ model[bot.id] # NoRow /\ bot.arg \in Modes /\ model \in Table
  BY JobFacts, NoRowFacts DEF ForwardSet, WhatIsThere, Types, Working
<1>2. QED
  BY <1>1, ModeAssigned DEF ForwardSet, Return

LEMMA AddPersistDoes ==
    ASSUME ManagerInv, NEW n \in Names, NEW p \in Ports, NEW u \in UdpPorts,
           AddPersist(n, p, u)
    PROVE  LET row == [name |-> n, port |-> p, udp |-> u, mode |-> Raw]
           IN  /\ row \in Rows /\ row # NoRow
               /\ lastId + 1 \in Ids /\ lastId' = lastId + 1
               /\ mu = "free" /\ mu' = "bot"
               /\ Get(n) = NoId /\ portFreeLocked(p)
               /\ \A i \in Ids : rows[i] # NoRow => rows[i].name # n
               /\ rows' = [rows EXCEPT ![lastId + 1] = row]
               /\ bot' = Job("add start", lastId + 1, NoPort)
               /\ UNCHANGED <<model, life, fwd, reg, main, todo, boots>>
<1>0. lastId \in 0..MaxId /\ lastId < MaxId
  BY DEF AddPersist, ManagerInv, Types
<1>1. lastId + 1 \in Ids
  BY <1>0, BoundsAssumption DEF Ids
<1>2. [name |-> n, port |-> p, udp |-> u, mode |-> Raw] \in Rows
  BY RawAssumption DEF Rows
<1>3. QED
  BY <1>1, <1>2, NoRowFacts DEF AddPersist, AddBackend, Stored, Unlocked, existsLocked

LEMMA DeleteDoes ==
    ASSUME ManagerInv, NEW i \in Ids, DeleteBackend(i)
    PROVE  /\ rows' \in Table /\ rows'[i] \in {rows[i], NoRow}
           /\ \A j \in Ids : j # i => rows'[j] = rows[j]
  BY DEF DeleteBackend, ManagerInv, Types, Table

(* Every variable keeps its type: the rows, ...                            *)
LEMMA StoreTypesStep ==
    ManagerInv /\ [Next]_vars => rows' \in Table /\ lastId' \in 0..MaxId
<1> SUFFICES ASSUME ManagerInv, [Next]_vars
             PROVE  rows' \in Table /\ lastId' \in 0..MaxId
  OBVIOUS
<1>0. rows \in Table /\ lastId \in 0..MaxId /\ Types
  BY DEF ManagerInv, Types
<1>1. ASSUME NEW n \in Names, NEW p \in Ports, NEW u \in UdpPorts, bot.pc = "idle",
             AddPersist(n, p, u)
       PROVE  rows' \in Table /\ lastId' \in 0..MaxId
  <2>1. rows' \in Table
    BY <1>1, <1>0, AddPersistDoes DEF Table
  <2>2. lastId' \in 0..MaxId
    <3>1. lastId' = lastId + 1 /\ lastId + 1 \in 1..MaxId
      BY <1>1, AddPersistDoes DEF Ids
    <3>2. QED
      BY <3>1, <1>0, BoundsAssumption
  <2>3. QED
    BY <2>1, <2>2
<1>2. ASSUME AddRollback
       PROVE  rows' \in Table /\ lastId' \in 0..MaxId
  <2>1. bot.id \in Ids /\ DeleteBackend(bot.id) /\ lastId' = lastId
    BY <1>2, JobFacts DEF AddRollback, WhatIsThere, Adding
  <2>2. QED
    BY <2>1, <1>0, DeleteDoes
<1>3. ASSUME RemoveDelete
       PROVE  rows' \in Table /\ lastId' \in 0..MaxId
  <2>1. bot.id \in Ids /\ DeleteBackend(bot.id) /\ lastId' = lastId
    BY <1>3, JobFacts DEF RemoveDelete, WhatIsThere, Removing
  <2>2. QED
    BY <2>1, <1>0, DeleteDoes
<1>4. ASSUME AddUDPPersist
       PROVE  rows' \in Table /\ lastId' \in 0..MaxId
  BY <1>4, <1>0, NoRowFacts, AddUDPPersistDoes DEF SameBut, Job
<1>5. ASSUME RemoveUDPClear
       PROVE  rows' \in Table /\ lastId' \in 0..MaxId
  BY <1>5, <1>0, NoRowFacts, RemoveUDPClearDoes DEF SameBut, Idle
<1>6. ASSUME NEW n \in Names, NEW m \in Modes, bot.pc = "idle", ForwardPersist(n, m)
       PROVE  rows' \in Table /\ lastId' \in 0..MaxId
  BY <1>6, <1>0, NoRowFacts, ForwardPersistDoes DEF SameBut, Job
<1>7. CASE UNCHANGED <<rows, lastId>>
  BY <1>7, <1>0, NoRowFacts
<1>8. QED
  BY <1>1, <1>2, <1>3, <1>4, <1>5, <1>6, <1>7
     DEF Next, MainStep, Command, NewCommand, cmdAdd, handleCallback, cmdRestart,
         cmdAddUDP, cmdRemoveUDP, cmdForward, BotStep, Exit, Crash, vars, Boot,
         StartOne, BootBackend, BootDone, Signal, ShutdownBegin, ShutdownOne,
         ShutdownEnd, BotExit, NoRuntime, AddStart, AddPublish, RemoveLookup,
         RemoveNamed, RemoveLookupId, RemoveNotFound, RemoveStop, RestartLookup,
         RestartStop, RestartStart, AddUDPCheck, AddUDPStart, RemoveUDPClose,
         ForwardSet, UpdateFails

(* ... the backends, ...                                                   *)
LEMMA RuntimeTypesStep ==
    ManagerInv /\ [Next]_vars =>
        model' \in Table /\ life' \in [Ids -> {"none", "running",
            "stopped"}] /\ fwd' \in [Ids -> BOOLEAN]
<1> SUFFICES ASSUME ManagerInv, [Next]_vars
             PROVE  model' \in Table /\ life' \in [Ids -> {"none", "running",
                 "stopped"}] /\ fwd' \in [Ids -> BOOLEAN]
  OBVIOUS
<1>0. model \in Table /\ life \in [Ids -> {"none", "running", "stopped"}]
      /\ fwd \in [Ids -> BOOLEAN] /\ WhatIsThere
  BY JobFacts DEF WhatIsThere, Types
<1>1. ASSUME NEW i \in Ids, StartOne(i)
       PROVE  model' \in Table /\ life' \in [Ids -> {"none", "running",
           "stopped"}] /\ fwd' \in [Ids -> BOOLEAN]
  BY <1>1, <1>0, StartOneDoes, StartedFacts
<1>2. ASSUME NEW i \in Ids, ShutdownOne(i)
       PROVE  model' \in Table /\ life' \in [Ids -> {"none", "running",
           "stopped"}] /\ fwd' \in [Ids -> BOOLEAN]
  BY <1>2, <1>0 DEF ShutdownOne
<1>3. ASSUME NoRuntime, main' = "off", UNCHANGED <<rows, lastId, boots>>
       PROVE  model' \in Table /\ life' \in [Ids -> {"none", "running",
           "stopped"}] /\ fwd' \in [Ids -> BOOLEAN]
  BY <1>3 DEF NoRuntime, Table
<1>4. ASSUME AddStart
       PROVE  model' \in Table /\ life' \in [Ids -> {"none", "running",
           "stopped"}] /\ fwd' \in [Ids -> BOOLEAN]
  BY <1>4, <1>0, AddStartDoes, StartedFacts DEF Job
<1>5. ASSUME RemoveStop
       PROVE  model' \in Table /\ life' \in [Ids -> {"none", "running",
           "stopped"}] /\ fwd' \in [Ids -> BOOLEAN]
  BY <1>5, <1>0 DEF RemoveStop
<1>6. ASSUME RestartStop
       PROVE  model' \in Table /\ life' \in [Ids -> {"none", "running",
           "stopped"}] /\ fwd' \in [Ids -> BOOLEAN]
  BY <1>6, <1>0 DEF RestartStop, Job
<1>7. ASSUME RestartStart
       PROVE  model' \in Table /\ life' \in [Ids -> {"none", "running",
           "stopped"}] /\ fwd' \in [Ids -> BOOLEAN]
  BY <1>7, <1>0, RestartStartDoes, StartedFacts DEF Idle
<1>8. ASSUME AddUDPPersist
       PROVE  model' \in Table /\ life' \in [Ids -> {"none", "running",
           "stopped"}] /\ fwd' \in [Ids -> BOOLEAN]
  BY <1>8, <1>0, AddUDPPersistDoes DEF SameBut, Job
<1>9. ASSUME AddUDPStart
       PROVE  model' \in Table /\ life' \in [Ids -> {"none", "running",
           "stopped"}] /\ fwd' \in [Ids -> BOOLEAN]
  BY <1>9, <1>0 DEF AddUDPStart, Outcomes, Return, Idle, WhatIsThere
<1>10. ASSUME NEW n \in Names, bot.pc = "idle", RemoveUDPClose(n)
       PROVE  model' \in Table /\ life' \in [Ids -> {"none", "running",
           "stopped"}] /\ fwd' \in [Ids -> BOOLEAN]
  BY <1>10, <1>0, RemoveUDPCloseDoes DEF SameBut, Job
<1>11. ASSUME ForwardSet
       PROVE  model' \in Table /\ life' \in [Ids -> {"none", "running",
           "stopped"}] /\ fwd' \in [Ids -> BOOLEAN]
  BY <1>11, <1>0, ForwardSetDoes DEF SameBut, Idle
<1>12. CASE UNCHANGED <<model, life, fwd>>
  BY <1>12, <1>0
<1>13. QED
  BY <1>1, <1>2, <1>3, <1>4, <1>5, <1>6, <1>7, <1>8, <1>9, <1>10, <1>11, <1>12
     DEF Next, MainStep, Command, NewCommand, cmdAdd, handleCallback, cmdRestart,
         cmdAddUDP, cmdRemoveUDP, cmdForward, BotStep, Exit, Crash, vars, Boot,
         BootDone, Signal, ShutdownBegin, ShutdownEnd, BotExit, AddPersist,
         AddBackend, AddRollback, AddPublish, RemoveLookup, RemoveNamed,
         RemoveLookupId, RemoveNotFound, RemoveDelete, RestartLookup, AddUDPCheck,
         RemoveUDPClear, ForwardPersist, UpdateFails

(* ... the registry and the lists made from it, ...                        *)
LEMMA RegistryTypesStep ==
    ManagerInv /\ [Next]_vars =>
        reg' \in [Keys -> Ids \union {NoId}] /\ todo' \subseteq Ids
<1> SUFFICES ASSUME ManagerInv, [Next]_vars
             PROVE  reg' \in [Keys -> Ids \union {NoId}] /\ todo' \subseteq Ids
  OBVIOUS
<1>0. reg \in [Keys -> Ids \union {NoId}] /\ todo \subseteq Ids
  BY DEF ManagerInv, Types
<1>1. ASSUME Boot
       PROVE  reg' \in [Keys -> Ids \union {NoId}] /\ todo' \subseteq Ids
  BY <1>1, <1>0, KeyTypes DEF Boot, Stored
<1>2. ASSUME NEW i \in Ids, StartOne(i)
       PROVE  reg' \in [Keys -> Ids \union {NoId}] /\ todo' \subseteq Ids
  BY <1>2, <1>0, KeyTypes, StartOneDoes, StartedFacts DEF Rows
<1>3. ASSUME ShutdownBegin
       PROVE  reg' \in [Keys -> Ids \union {NoId}] /\ todo' \subseteq Ids
  BY <1>3, <1>0, KeyTypes DEF ShutdownBegin, Mapped
<1>4. ASSUME NEW i \in Ids, ShutdownOne(i)
       PROVE  reg' \in [Keys -> Ids \union {NoId}] /\ todo' \subseteq Ids
  BY <1>4, <1>0, KeyTypes DEF ShutdownOne
<1>5. ASSUME NoRuntime, main' = "off", UNCHANGED <<rows, lastId, boots>>
       PROVE  reg' \in [Keys -> Ids \union {NoId}] /\ todo' \subseteq Ids
  BY <1>5, <1>0, KeyTypes DEF NoRuntime, Off
<1>6. ASSUME AddPublish
       PROVE  reg' \in [Keys -> Ids \union {NoId}] /\ todo' \subseteq Ids
  <2>1. bot.id \in Ids /\ model[bot.id] \in Rows
    BY <1>6, JobFacts DEF AddPublish, WhatIsThere, Adding, ManagerInv, AddShape
  <2>2. Key[model[bot.id].name] \in Keys
    BY <2>1, KeyTypes DEF Rows
  <2>3. QED
    BY <1>6, <1>0, <2>1, <2>2 DEF AddPublish
<1>7. ASSUME NEW n \in Names, bot.pc = "idle", RemoveLookup(n)
       PROVE  reg' \in [Keys -> Ids \union {NoId}] /\ todo' \subseteq Ids
  BY <1>7, <1>0, KeyTypes
     DEF RemoveLookup, RemoveNamed, Unregistered, Unlocked, existsLocked, Get, Job
<1>8. CASE UNCHANGED <<reg, todo>>
  BY <1>8, <1>0, KeyTypes
<1>9. QED
  BY <1>1, <1>2, <1>3, <1>4, <1>5, <1>6, <1>7, <1>8
     DEF Next, MainStep, Command, NewCommand, cmdAdd, handleCallback, cmdRestart,
         cmdAddUDP, cmdRemoveUDP, cmdForward, BotStep, Exit, Crash, vars, BootDone,
         Signal, ShutdownEnd, BotExit, AddPersist, AddBackend, AddRollback, AddStart,
         RemoveLookupId, RemoveNotFound, RemoveStop, RemoveDelete, RestartLookup,
         RestartStop, RestartStart, AddUDPCheck, AddUDPPersist, AddUDPStart,
         RemoveUDPClose, RemoveUDPClear, ForwardPersist, ForwardSet, UpdateFails

(* ... the goroutines and the lock, ...                                    *)
LEMMA ProcessTypesStep ==
    ManagerInv /\ [Next]_vars =>
        mu' \in {"free", "main", "bot", "lost"} /\ main' \in {"off", "boot", "serve",
            "signal", "drain", "done"} /\ boots' \in 0..MaxBoots
<1> SUFFICES ASSUME ManagerInv, [Next]_vars
             PROVE  mu' \in {"free", "main", "bot", "lost"} /\ main' \in {"off",
                 "boot", "serve", "signal", "drain", "done"} /\ boots' \in 0..MaxBoots
  OBVIOUS
<1>0. boots \in 0..MaxBoots /\ mu \in {"free", "main", "bot", "lost"}
      /\ main \in {"off", "boot", "serve", "signal", "drain", "done"}
  BY DEF ManagerInv, Types
<1>1. ASSUME Boot
       PROVE  mu' \in {"free", "main", "bot", "lost"} /\ main' \in {"off", "boot",
           "serve", "signal", "drain", "done"} /\ boots' \in 0..MaxBoots
  BY <1>1, <1>0, BoundsAssumption DEF Boot
<1>2. ASSUME BootDone
       PROVE  mu' \in {"free", "main", "bot", "lost"} /\ main' \in {"off", "boot",
           "serve", "signal", "drain", "done"} /\ boots' \in 0..MaxBoots
  BY <1>2, <1>0 DEF BootDone, Idle
<1>3. ASSUME Signal
       PROVE  mu' \in {"free", "main", "bot", "lost"} /\ main' \in {"off", "boot",
           "serve", "signal", "drain", "done"} /\ boots' \in 0..MaxBoots
  BY <1>3, <1>0 DEF Signal
<1>4. ASSUME ShutdownBegin
       PROVE  mu' \in {"free", "main", "bot", "lost"} /\ main' \in {"off", "boot",
           "serve", "signal", "drain", "done"} /\ boots' \in 0..MaxBoots
  BY <1>4, <1>0 DEF ShutdownBegin
<1>5. ASSUME ShutdownEnd
       PROVE  mu' \in {"free", "main", "bot", "lost"} /\ main' \in {"off", "boot",
           "serve", "signal", "drain", "done"} /\ boots' \in 0..MaxBoots
  BY <1>5, <1>0 DEF ShutdownEnd
<1>6. ASSUME NoRuntime, main' = "off", UNCHANGED <<rows, lastId, boots>>
       PROVE  mu' \in {"free", "main", "bot", "lost"} /\ main' \in {"off", "boot",
           "serve", "signal", "drain", "done"} /\ boots' \in 0..MaxBoots
  BY <1>6, <1>0 DEF NoRuntime
<1>7. ASSUME NEW n \in Names, NEW p \in Ports, NEW u \in UdpPorts, bot.pc = "idle",
             AddPersist(n, p, u)
       PROVE  mu' \in {"free", "main", "bot", "lost"} /\ main' \in {"off", "boot",
           "serve", "signal", "drain", "done"} /\ boots' \in 0..MaxBoots
  BY <1>7, <1>0, AddPersistDoes DEF Job
<1>8. ASSUME AddRollback
       PROVE  mu' \in {"free", "main", "bot", "lost"} /\ main' \in {"off", "boot",
           "serve", "signal", "drain", "done"} /\ boots' \in 0..MaxBoots
  BY <1>8, <1>0 DEF AddRollback
<1>9. ASSUME AddPublish
       PROVE  mu' \in {"free", "main", "bot", "lost"} /\ main' \in {"off", "boot",
           "serve", "signal", "drain", "done"} /\ boots' \in 0..MaxBoots
  BY <1>9, <1>0 DEF AddPublish
<1>10. ASSUME bot.pc = "idle", RemoveNotFound
       PROVE  mu' \in {"free", "main", "bot", "lost"} /\ main' \in {"off", "boot",
           "serve", "signal", "drain", "done"} /\ boots' \in 0..MaxBoots
  BY <1>10, <1>0 DEF RemoveNotFound
<1>11. CASE UNCHANGED <<mu, main, boots>>
  BY <1>11, <1>0
<1>12. QED
  BY <1>1, <1>2, <1>3, <1>4, <1>5, <1>6, <1>7, <1>8, <1>9, <1>10, <1>11
     DEF Next, MainStep, Command, NewCommand, cmdAdd, handleCallback, cmdRestart,
         cmdAddUDP, cmdRemoveUDP, cmdForward, BotStep, Exit, Crash, vars, StartOne,
         BootBackend, ShutdownOne, BotExit, AddStart, RemoveLookup, RemoveNamed,
         RemoveLookupId, RemoveStop, RemoveDelete, RestartLookup, RestartStop,
         RestartStart, AddUDPCheck, AddUDPPersist, AddUDPStart, RemoveUDPClose,
         RemoveUDPClear, ForwardPersist, ForwardSet, UpdateFails

(* ... and the command in progress.                                        *)
LEMMA JobTypes ==
    /\ \A pc \in BotStates, i \in Ids, arg \in Ports \union Modes \union {NoPort} :
         /\ Job(pc, i, arg) \in Jobs
         /\ Job(pc, i, arg).pc = pc /\ Job(pc, i, arg).id = i /\ Job(pc, i,
             arg).arg = arg
    /\ Idle \in Jobs /\ Idle.pc = "idle" /\ Idle.id = NoId
    /\ Off \in Jobs /\ Off.pc = "off" /\ Off.id = NoId
  BY DEF Job, Jobs, Idle, Off, BotStates

(* The command in progress is one the bot has.                             *)
LEMMA BotTypesStep ==
    ManagerInv /\ [Next]_vars => bot' \in Jobs
<1> SUFFICES ASSUME ManagerInv, [Next]_vars
             PROVE  bot' \in Jobs
  OBVIOUS
<1>0. bot \in Jobs /\ NoPort \in Ports \union Modes \union {NoPort} /\ WhatIsThere
  BY JobFacts DEF WhatIsThere, Types
<1>1. ASSUME BootDone
       PROVE  bot' \in Jobs
  BY <1>1, <1>0, JobTypes DEF BotStates, BootDone
<1>2. ASSUME BotExit
       PROVE  bot' \in Jobs
  BY <1>2, <1>0, JobTypes DEF BotStates, BotExit
<1>3. ASSUME NoRuntime, main' = "off", UNCHANGED <<rows, lastId, boots>>
       PROVE  bot' \in Jobs
  BY <1>3, <1>0, JobTypes DEF BotStates, NoRuntime
<1>4. ASSUME NEW n \in Names, NEW p \in Ports, NEW u \in UdpPorts, bot.pc = "idle",
             AddPersist(n, p, u)
       PROVE  bot' \in Jobs
  <2>1. bot' = Job("add start", lastId + 1, NoPort) /\ lastId + 1 \in Ids
    BY <1>4, <1>0, AddPersistDoes
  <2>2. "add start" \in BotStates /\ NoPort \in Ports \union Modes \union {NoPort}
    BY <1>4 DEF BotStates
  <2>3. QED
    BY <2>1, <2>2, JobTypes
<1>5. ASSUME AddRollback
       PROVE  bot' \in Jobs
  BY <1>5, <1>0, JobTypes DEF AddRollback, Return
<1>6. ASSUME AddStart
       PROVE  bot' \in Jobs
  <2>1. bot' = Job("add publish", bot.id, NoPort) /\ bot.id \in Ids
    BY <1>6, <1>0, AddStartDoes
  <2>2. "add publish" \in BotStates /\ NoPort \in Ports \union Modes \union {NoPort}
    BY <1>6 DEF BotStates
  <2>3. QED
    BY <2>1, <2>2, JobTypes
<1>7. ASSUME AddPublish
       PROVE  bot' \in Jobs
  BY <1>7, <1>0, JobTypes DEF BotStates, AddPublish, Return
<1>8. ASSUME NEW n \in Names, bot.pc = "idle", RemoveLookup(n)
       PROVE  bot' \in Jobs
  <2>1. bot' = Job("remove stop", Get(n), NoPort) /\ Get(n) \in Ids
    BY <1>8, <1>0 DEF WhatIsThere, RemoveLookup, RemoveNamed, existsLocked
  <2>2. "remove stop" \in BotStates /\ NoPort \in Ports \union Modes \union {NoPort}
    BY <1>8 DEF BotStates
  <2>3. QED
    BY <2>1, <2>2, JobTypes
<1>9. ASSUME NEW i \in Ids, bot.pc = "idle", "remove id" \in Commands, RemoveLookupId(i)
       PROVE  bot' \in Jobs
  <2>1. bot' = Job("remove stop", i, NoPort) /\ i \in Ids
    BY <1>9, <1>0 DEF RemoveLookupId
  <2>2. "remove stop" \in BotStates /\ NoPort \in Ports \union Modes \union {NoPort}
    BY <1>9 DEF BotStates
  <2>3. QED
    BY <2>1, <2>2, JobTypes
<1>10. ASSUME bot.pc = "idle", RemoveNotFound
       PROVE  bot' \in Jobs
  BY <1>10, <1>0, JobTypes DEF BotStates, RemoveNotFound, Unlocked, Return
<1>11. ASSUME RemoveStop
       PROVE  bot' \in Jobs
  <2>1. bot' = Job("remove delete", bot.id, NoPort) /\ bot.id \in Ids
    BY <1>11, <1>0 DEF WhatIsThere, RemoveStop, Removing
  <2>2. "remove delete" \in BotStates /\ NoPort \in Ports \union Modes \union {NoPort}
    BY <1>11 DEF BotStates
  <2>3. QED
    BY <2>1, <2>2, JobTypes
<1>12. ASSUME RemoveDelete
       PROVE  bot' \in Jobs
  BY <1>12, <1>0, JobTypes DEF RemoveDelete, Return
<1>13. ASSUME NEW n \in Names, bot.pc = "idle", RestartLookup(n)
       PROVE  bot' \in Jobs
  <2>1. bot' = Job("restart stop", Get(n), NoPort) /\ Get(n) \in Ids
    BY <1>13, <1>0 DEF WhatIsThere, RestartLookup, existsLocked
  <2>2. "restart stop" \in BotStates /\ NoPort \in Ports \union Modes \union {NoPort}
    BY <1>13 DEF BotStates
  <2>3. QED
    BY <2>1, <2>2, JobTypes
<1>14. ASSUME RestartStop
       PROVE  bot' \in Jobs
  <2>1. bot' = Job("restart start", bot.id, NoPort) /\ bot.id \in Ids
    BY <1>14, <1>0 DEF WhatIsThere, RestartStop, Working
  <2>2. "restart start" \in BotStates /\ NoPort \in Ports \union Modes \union {NoPort}
    BY <1>14 DEF BotStates
  <2>3. QED
    BY <2>1, <2>2, JobTypes
<1>15. ASSUME RestartStart
       PROVE  bot' \in Jobs
  BY <1>15, <1>0, JobTypes, RestartStartDoes DEF BotStates
<1>16. ASSUME NEW n \in Names, NEW u \in Ports, bot.pc = "idle", AddUDPCheck(n, u)
       PROVE  bot' \in Jobs
  <2>1. bot' = Job("udp persist", Get(n), u) /\ Get(n) \in Ids
    BY <1>16, <1>0 DEF WhatIsThere, AddUDPCheck, existsLocked
  <2>2. "udp persist" \in BotStates /\ u \in Ports \union Modes \union {NoPort}
    BY <1>16 DEF BotStates
  <2>3. QED
    BY <2>1, <2>2, JobTypes
<1>17. ASSUME AddUDPPersist
       PROVE  bot' \in Jobs
  <2>1. bot' = Job("udp start", bot.id, bot.arg) /\ bot.id \in Ids
    BY <1>17, <1>0, AddUDPPersistDoes
  <2>2. "udp start" \in BotStates /\ bot.arg \in Ports \union Modes \union {NoPort}
    BY <1>17, <1>0, AddUDPPersistDoes DEF BotStates
  <2>3. QED
    BY <2>1, <2>2, JobTypes
<1>18. ASSUME AddUDPStart
       PROVE  bot' \in Jobs
  BY <1>18, <1>0, JobTypes DEF BotStates, AddUDPStart, Outcomes, Return
<1>19. ASSUME NEW n \in Names, bot.pc = "idle", RemoveUDPClose(n)
       PROVE  bot' \in Jobs
  <2>1. bot' = Job("udp clear", Get(n), NoPort) /\ Get(n) \in Ids
    BY <1>19, <1>0, RemoveUDPCloseDoes
  <2>2. "udp clear" \in BotStates /\ NoPort \in Ports \union Modes \union {NoPort}
    BY <1>19 DEF BotStates
  <2>3. QED
    BY <2>1, <2>2, JobTypes
<1>20. ASSUME RemoveUDPClear
       PROVE  bot' \in Jobs
  BY <1>20, <1>0, JobTypes, RemoveUDPClearDoes DEF BotStates
<1>21. ASSUME NEW n \in Names, NEW m \in Modes, bot.pc = "idle", ForwardPersist(n, m)
       PROVE  bot' \in Jobs
  <2>1. bot' = Job("forward set", Get(n), m) /\ Get(n) \in Ids
    BY <1>21, <1>0, ForwardPersistDoes
  <2>2. "forward set" \in BotStates /\ m \in Ports \union Modes \union {NoPort}
    BY <1>21 DEF BotStates
  <2>3. QED
    BY <2>1, <2>2, JobTypes
<1>22. ASSUME ForwardSet
       PROVE  bot' \in Jobs
  BY <1>22, <1>0, JobTypes, ForwardSetDoes DEF BotStates
<1>23. ASSUME UpdateFails
       PROVE  bot' \in Jobs
  BY <1>23, <1>0, JobTypes DEF BotStates, UpdateFails, Return
<1>24. CASE UNCHANGED <<bot>>
  BY <1>24, <1>0
<1>25. QED
  BY <1>1, <1>2, <1>3, <1>4, <1>5, <1>6, <1>7, <1>8, <1>9, <1>10, <1>11, <1>12, <1>13,
     <1>14, <1>15, <1>16, <1>17, <1>18, <1>19, <1>20, <1>21, <1>22, <1>23, <1>24
     DEF Next, MainStep, Command, NewCommand, cmdAdd, handleCallback, cmdRestart,
         cmdAddUDP, cmdRemoveUDP, cmdForward, BotStep, Exit, Crash, vars, Boot,
         StartOne, BootBackend, Signal, ShutdownBegin, ShutdownOne, ShutdownEnd

LEMMA TypesStep ==
    ManagerInv /\ [Next]_vars => Types'
  BY StoreTypesStep, RuntimeTypesStep, RegistryTypesStep, ProcessTypesStep,
     BotTypesStep DEF Types

(* The lock is taken and given back where LockShape says.                  *)
LEMMA LockShapeStep ==
    ManagerInv /\ [Next]_vars => LockShape'
<1> SUFFICES ASSUME ManagerInv, [Next]_vars
             PROVE  LockShape'
  OBVIOUS
<1>0. LockShape /\ WhatIsThere
  BY JobFacts DEF ManagerInv
<1> USE DEF LockShape, Adding, Removing, Working
<1>1. ASSUME Boot
       PROVE  LockShape'
  BY <1>1, <1>0 DEF Boot
<1>2. ASSUME BootDone
       PROVE  LockShape'
  BY <1>2, <1>0 DEF BootDone, Idle
<1>3. ASSUME Signal
       PROVE  LockShape'
  BY <1>3, <1>0 DEF Signal
<1>4. ASSUME ShutdownBegin
       PROVE  LockShape'
  BY <1>4, <1>0 DEF ShutdownBegin
<1>5. ASSUME ShutdownEnd
       PROVE  LockShape'
  BY <1>5, <1>0 DEF ShutdownEnd
<1>6. ASSUME BotExit
       PROVE  LockShape'
  BY <1>6, <1>0 DEF BotExit, Off
<1>7. ASSUME NoRuntime, main' = "off", UNCHANGED <<rows, lastId, boots>>
       PROVE  LockShape'
  BY <1>7, <1>0 DEF NoRuntime, Off
<1>8. ASSUME NEW n \in Names, NEW p \in Ports, NEW u \in UdpPorts, bot.pc = "idle",
             AddPersist(n, p, u)
       PROVE  LockShape'
  <2>1. bot.pc = "idle" /\ mu = "free" /\ mu' = "bot" /\ main' = main
      /\ lastId + 1 \in Ids /\ bot' = Job("add start", lastId + 1, NoPort)
    BY <1>8, AddPersistDoes
  <2>2. QED
    BY <2>1, <1>0 DEF Job
<1>9. ASSUME AddRollback
       PROVE  LockShape'
  BY <1>9, <1>0, DeleteDoes DEF AddRollback, Return, Idle
<1>10. ASSUME AddStart
       PROVE  LockShape'
  <2>1. bot.pc = "add start" /\ UNCHANGED <<mu, main>>
      /\ bot.id \in Ids /\ bot' = Job("add publish", bot.id, NoPort)
    BY <1>10, AddStartDoes
  <2>2. QED
    BY <2>1, <1>0 DEF Job
<1>11. ASSUME AddPublish
       PROVE  LockShape'
  BY <1>11, <1>0 DEF AddPublish, Return, Idle
<1>12. ASSUME NEW n \in Names, bot.pc = "idle", RemoveLookup(n)
       PROVE  LockShape'
  BY <1>12, <1>0
     DEF RemoveLookup, RemoveNamed, Unregistered, Unlocked, existsLocked, Get, Job,
         WhatIsThere
<1>13. ASSUME NEW i \in Ids, bot.pc = "idle", "remove id" \in Commands,
              RemoveLookupId(i)
       PROVE  LockShape'
  BY <1>13, <1>0 DEF RemoveLookupId, Unlocked, Mapped, Job
<1>14. ASSUME bot.pc = "idle", RemoveNotFound
       PROVE  LockShape'
  BY <1>14, <1>0 DEF RemoveNotFound, Unlocked, Return, Idle
<1>15. ASSUME RemoveStop
       PROVE  LockShape'
  BY <1>15, <1>0 DEF RemoveStop, Job
<1>16. ASSUME RemoveDelete
       PROVE  LockShape'
  BY <1>16, <1>0, DeleteDoes DEF RemoveDelete, Return, Idle
<1>17. ASSUME NEW n \in Names, bot.pc = "idle", RestartLookup(n)
       PROVE  LockShape'
  BY <1>17, <1>0 DEF RestartLookup, Unlocked, existsLocked, Get, Job, WhatIsThere
<1>18. ASSUME RestartStop
       PROVE  LockShape'
  BY <1>18, <1>0 DEF RestartStop, Job
<1>19. ASSUME RestartStart
       PROVE  LockShape'
  <2>1. bot.pc = "restart start" /\ UNCHANGED <<mu, main>> /\ bot' = Idle
    BY <1>19, RestartStartDoes
  <2>2. QED
    BY <2>1, <1>0 DEF Idle
<1>20. ASSUME NEW n \in Names, NEW u \in Ports, bot.pc = "idle", AddUDPCheck(n, u)
       PROVE  LockShape'
  BY <1>20, <1>0 DEF AddUDPCheck, Unlocked, existsLocked, Get, Job, WhatIsThere
<1>21. ASSUME AddUDPPersist
       PROVE  LockShape'
  <2>1. bot.pc = "udp persist" /\ UNCHANGED <<mu, main>>
      /\ bot.id \in Ids /\ bot' = Job("udp start", bot.id, bot.arg)
    BY <1>21, AddUDPPersistDoes
  <2>2. QED
    BY <2>1, <1>0 DEF Job
<1>22. ASSUME AddUDPStart
       PROVE  LockShape'
  BY <1>22, <1>0 DEF AddUDPStart, Outcomes, Return, Idle
<1>23. ASSUME NEW n \in Names, bot.pc = "idle", RemoveUDPClose(n)
       PROVE  LockShape'
  <2>1. bot.pc = "idle" /\ UNCHANGED <<mu, main>>
      /\ Get(n) \in Ids /\ bot' = Job("udp clear", Get(n), NoPort)
    BY <1>23, RemoveUDPCloseDoes
  <2>2. QED
    BY <2>1, <1>0 DEF Job
<1>24. ASSUME RemoveUDPClear
       PROVE  LockShape'
  <2>1. bot.pc = "udp clear" /\ UNCHANGED <<mu, main>> /\ bot' = Idle
    BY <1>24, RemoveUDPClearDoes
  <2>2. QED
    BY <2>1, <1>0 DEF Idle
<1>25. ASSUME NEW n \in Names, NEW m \in Modes, bot.pc = "idle", ForwardPersist(n, m)
       PROVE  LockShape'
  <2>1. bot.pc = "idle" /\ UNCHANGED <<mu, main>>
      /\ Get(n) \in Ids /\ bot' = Job("forward set", Get(n), m)
    BY <1>25, ForwardPersistDoes
  <2>2. QED
    BY <2>1, <1>0 DEF Job
<1>26. ASSUME ForwardSet
       PROVE  LockShape'
  <2>1. bot.pc = "forward set" /\ UNCHANGED <<mu, main>> /\ bot' = Idle
    BY <1>26, ForwardSetDoes
  <2>2. QED
    BY <2>1, <1>0 DEF Idle
<1>27. ASSUME UpdateFails
       PROVE  LockShape'
  BY <1>27, <1>0 DEF UpdateFails, Return, Idle
<1>28. CASE UNCHANGED <<mu, main, bot>>
  BY <1>28, <1>0
<1> HIDE DEF LockShape, Adding, Removing, Working
<1>29. QED
  BY <1>1, <1>2, <1>3, <1>4, <1>5, <1>6, <1>7, <1>8, <1>9, <1>10, <1>11, <1>12, <1>13,
     <1>14, <1>15, <1>16, <1>17, <1>18, <1>19, <1>20, <1>21, <1>22, <1>23, <1>24,
     <1>25, <1>26, <1>27, <1>28
     DEF Next, MainStep, Command, NewCommand, cmdAdd, handleCallback, cmdRestart,
         cmdAddUDP, cmdRemoveUDP, cmdForward, BotStep, Exit, Crash, vars, StartOne,
         BootBackend, ShutdownOne

(* What has not been inserted yet is nowhere.                              *)
LEMMA FreshStep ==
    ManagerInv /\ [Next]_vars => Fresh'
<1> SUFFICES ASSUME ManagerInv, [Next]_vars, NEW d \in Ids, d > lastId'
             PROVE  rows'[d] = NoRow /\ model'[d] = NoRow /\ life'[d] = "none" /\ ~fwd'[d]
  BY DEF Fresh
<1>0. d > lastId => /\ rows[d] = NoRow /\ model[d] = NoRow /\ life[d] = "none" /\ ~fwd[d]
                    /\ bot.pc \in Adding \union Removing \union Working => bot.id # d
                    /\ main \in {"boot", "drain"} => d \notin todo
                    /\ \A n \in Names : Get(n) # NoId => Get(n) # d
  <2>1. d > lastId => rows[d] = NoRow /\ model[d] = NoRow /\ life[d] = "none" /\ ~fwd[d]
    BY DEF ManagerInv, RowShape, Fresh
  <2>2. main = "drain" => \A i \in todo : model[i] # NoRow
    BY DEF ManagerInv, BootShape, TodoShape, Needed
  <2>3. QED
    BY <2>1, <2>2, JobFacts, NoRowFacts DEF WhatIsThere
<1>a. /\ rows \in Table /\ model \in Table /\ lastId \in Int /\ d \in Int
      /\ life \in [Ids -> {"none", "running", "stopped"}] /\ fwd \in [Ids -> BOOLEAN]
  BY BoundsAssumption DEF ManagerInv, Types, Ids
<1>1. ASSUME NEW i \in Ids, StartOne(i)
       PROVE  rows'[d] = NoRow /\ model'[d] = NoRow /\ life'[d] = "none" /\ ~fwd'[d]
  <2>1. /\ i \in todo /\ main = "boot" /\ rows[i] \in Rows
        /\ rows' = rows /\ lastId' = lastId
    BY <1>1, StartOneDoes
  <2>2. CASE UNCHANGED <<model, life, fwd>>
    BY <2>1, <2>2, <1>0
  <2>3. CASE Started(i, rows[i])
    BY <2>1, <2>3, <1>0, <1>a, StartedFacts
  <2>4. QED
    BY <1>1, <2>2, <2>3, StartOneDoes
<1>2. ASSUME NEW i \in Ids, ShutdownOne(i)
       PROVE  rows'[d] = NoRow /\ model'[d] = NoRow /\ life'[d] = "none" /\ ~fwd'[d]
  BY <1>2, <1>0, <1>a DEF ShutdownOne
<1>3. ASSUME NoRuntime, main' = "off", UNCHANGED <<rows, lastId, boots>>
       PROVE  rows'[d] = NoRow /\ model'[d] = NoRow /\ life'[d] = "none" /\ ~fwd'[d]
  BY <1>3, <1>0, <1>a DEF NoRuntime, Off
<1>4. ASSUME NEW n \in Names, NEW p \in Ports, NEW u \in UdpPorts, bot.pc = "idle",
             AddPersist(n, p, u)
       PROVE  rows'[d] = NoRow /\ model'[d] = NoRow /\ life'[d] = "none" /\ ~fwd'[d]
  <2>1. /\ rows' = [rows EXCEPT ![lastId + 1] =
                    [name |-> n, port |-> p, udp |-> u, mode |-> Raw]]
        /\ lastId' = lastId + 1 /\ UNCHANGED <<model, life, fwd>>
    BY <1>4, AddPersistDoes
  <2>2. QED
    BY <2>1, <1>0, <1>a DEF Table
<1>5. ASSUME AddRollback
       PROVE  rows'[d] = NoRow /\ model'[d] = NoRow /\ life'[d] = "none" /\ ~fwd'[d]
  <2>1. bot.id \in Ids /\ DeleteBackend(bot.id) /\ UNCHANGED <<lastId, model, life,
      fwd>>
    BY <1>5, JobFacts DEF AddRollback, WhatIsThere, Adding
  <2>2. \A j \in Ids : j # bot.id => rows'[j] = rows[j]
    BY <2>1, DeleteDoes
  <2>3. QED
    BY <1>5, <2>1, <2>2, <1>0 DEF AddRollback, Adding
<1>6. ASSUME AddStart
       PROVE  rows'[d] = NoRow /\ model'[d] = NoRow /\ life'[d] = "none" /\ ~fwd'[d]
  <2>1. /\ bot.pc = "add start" /\ UNCHANGED <<rows, lastId>> /\ bot.id \in Ids
        /\ rows[bot.id] \in Rows /\ Started(bot.id, rows[bot.id])
    BY <1>6, AddStartDoes
  <2>2. bot.id # d
    BY <2>1, <1>0 DEF Adding
  <2>3. QED
    BY <2>1, <2>2, <1>0, <1>a, StartedFacts
<1>7. ASSUME RemoveStop
       PROVE  rows'[d] = NoRow /\ model'[d] = NoRow /\ life'[d] = "none" /\ ~fwd'[d]
  BY <1>7, <1>0, <1>a DEF RemoveStop, Job, Adding, Removing, Working
<1>8. ASSUME RemoveDelete
       PROVE  rows'[d] = NoRow /\ model'[d] = NoRow /\ life'[d] = "none" /\ ~fwd'[d]
  <2>1. bot.id \in Ids /\ DeleteBackend(bot.id) /\ UNCHANGED <<lastId, model, life,
      fwd>>
    BY <1>8, JobFacts DEF RemoveDelete, WhatIsThere, Removing
  <2>2. \A j \in Ids : j # bot.id => rows'[j] = rows[j]
    BY <2>1, DeleteDoes
  <2>3. QED
    BY <1>8, <2>1, <2>2, <1>0 DEF RemoveDelete, Removing
<1>9. ASSUME RestartStop
       PROVE  rows'[d] = NoRow /\ model'[d] = NoRow /\ life'[d] = "none" /\ ~fwd'[d]
  BY <1>9, <1>0, <1>a DEF RestartStop, Job, Adding, Removing, Working
<1>10. ASSUME RestartStart
       PROVE  rows'[d] = NoRow /\ model'[d] = NoRow /\ life'[d] = "none" /\ ~fwd'[d]
  <2>1. /\ bot.pc = "restart start" /\ UNCHANGED <<rows, lastId>> /\ bot.id \in Ids
        /\ model[bot.id] \in Rows
    BY <1>10, RestartStartDoes
  <2>2. bot.id # d
    BY <2>1, <1>0 DEF Working
  <2>3. CASE UNCHANGED <<model, life, fwd>>
    BY <2>1, <2>3, <1>0
  <2>4. CASE Started(bot.id, model[bot.id])
    BY <2>1, <2>2, <2>4, <1>0, <1>a, StartedFacts
  <2>5. QED
    BY <1>10, <2>3, <2>4, RestartStartDoes
<1>11. ASSUME AddUDPPersist
       PROVE  rows'[d] = NoRow /\ model'[d] = NoRow /\ life'[d] = "none" /\ ~fwd'[d]
  <2>1. bot.pc = "udp persist" /\ UNCHANGED <<lastId, life, fwd>>
    BY <1>11, AddUDPPersistDoes, NoRowFacts
  <2>2. \A j \in Ids : j # bot.id => rows'[j] = rows[j] /\ model'[j] = model[j]
    BY <1>11, AddUDPPersistDoes DEF SameBut
  <2>3. QED
    BY <2>1, <2>2, <1>0, <1>a DEF Working
<1>12. ASSUME AddUDPStart
       PROVE  rows'[d] = NoRow /\ model'[d] = NoRow /\ life'[d] = "none" /\ ~fwd'[d]
  BY <1>12, <1>0, <1>a
     DEF AddUDPStart, Outcomes, Return, Idle, Adding, Removing, Working
<1>13. ASSUME NEW n \in Names, bot.pc = "idle", RemoveUDPClose(n)
       PROVE  rows'[d] = NoRow /\ model'[d] = NoRow /\ life'[d] = "none" /\ ~fwd'[d]
  <2>1. Get(n) # NoId /\ UNCHANGED <<rows, lastId,
      life>> /\ fwd' = [fwd EXCEPT ![Get(n)] = FALSE]
    BY <1>13, RemoveUDPCloseDoes, NoRowFacts
  <2>2. \A j \in Ids : j # Get(n) => model'[j] = model[j]
    BY <1>13, RemoveUDPCloseDoes DEF SameBut
  <2>3. QED
    BY <2>1, <2>2, <1>0, <1>a DEF Working
<1>14. ASSUME RemoveUDPClear
       PROVE  rows'[d] = NoRow /\ model'[d] = NoRow /\ life'[d] = "none" /\ ~fwd'[d]
  <2>1. bot.pc = "udp clear" /\ UNCHANGED <<lastId, model, life, fwd>>
    BY <1>14, RemoveUDPClearDoes, NoRowFacts
  <2>2. \A j \in Ids : j # bot.id => rows'[j] = rows[j]
    BY <1>14, RemoveUDPClearDoes DEF SameBut
  <2>3. QED
    BY <2>1, <2>2, <1>0, <1>a DEF Working
<1>15. ASSUME NEW n \in Names, NEW m \in Modes, bot.pc = "idle", ForwardPersist(n, m)
       PROVE  rows'[d] = NoRow /\ model'[d] = NoRow /\ life'[d] = "none" /\ ~fwd'[d]
  <2>1. Get(n) # NoId /\ UNCHANGED <<lastId, model, life, fwd>>
    BY <1>15, ForwardPersistDoes, NoRowFacts
  <2>2. \A j \in Ids : j # Get(n) => rows'[j] = rows[j]
    BY <1>15, ForwardPersistDoes DEF SameBut
  <2>3. QED
    BY <2>1, <2>2, <1>0, <1>a DEF Working
<1>16. ASSUME ForwardSet
       PROVE  rows'[d] = NoRow /\ model'[d] = NoRow /\ life'[d] = "none" /\ ~fwd'[d]
  <2>1. bot.pc = "forward set" /\ UNCHANGED <<rows, lastId, life, fwd>>
    BY <1>16, ForwardSetDoes, NoRowFacts
  <2>2. \A j \in Ids : j # bot.id => model'[j] = model[j]
    BY <1>16, ForwardSetDoes DEF SameBut
  <2>3. QED
    BY <2>1, <2>2, <1>0, <1>a DEF Working
<1>17. CASE UNCHANGED <<rows, lastId, model, life, fwd>>
  BY <1>17, <1>0, <1>a
<1>18. QED
  BY <1>1, <1>2, <1>3, <1>4, <1>5, <1>6, <1>7, <1>8, <1>9, <1>10, <1>11, <1>12, <1>13,
     <1>14, <1>15, <1>16, <1>17
     DEF Next, MainStep, Command, NewCommand, cmdAdd, handleCallback, cmdRestart,
         cmdAddUDP, cmdRemoveUDP, cmdForward, BotStep, Exit, Crash, vars, Boot,
         BootDone, Signal, ShutdownBegin, ShutdownEnd, BotExit, AddPublish,
         RemoveLookup, RemoveNamed, RemoveLookupId, RemoveNotFound, RestartLookup,
         AddUDPCheck, UpdateFails

(* No name is stored twice: that is what UNIQUE keeps out.                 *)
LEMMA NamesUniqueStep ==
    ManagerInv /\ [Next]_vars => NamesUnique'
<1> SUFFICES ASSUME ManagerInv, [Next]_vars, NEW d \in Ids, NEW e \in Ids,
                    d # e, rows'[d] # NoRow, rows'[e] # NoRow
             PROVE  rows'[d].name # rows'[e].name
  BY DEF NamesUnique
<1>0. /\ d # e /\ rows[d] # NoRow /\ rows[e] # NoRow => rows[d].name # rows[e].name
      /\ rows \in Table
  BY DEF ManagerInv, RowShape, NamesUnique, Types
<1>1. ASSUME NEW n \in Names, NEW p \in Ports, NEW u \in UdpPorts, bot.pc = "idle",
             AddPersist(n, p, u)
       PROVE  rows'[d].name # rows'[e].name
  <2> DEFINE row == [name |-> n, port |-> p, udp |-> u, mode |-> Raw]
  <2>1. /\ rows' = [rows EXCEPT ![lastId + 1] = row] /\ row.name = n
        /\ \A i \in Ids : rows[i] # NoRow => rows[i].name # n
    BY <1>1, AddPersistDoes
  <2> HIDE DEF row
  <2>2. QED
    BY <2>1, <1>0 DEF Table
<1>2. ASSUME AddRollback
       PROVE  rows'[d].name # rows'[e].name
  <2>1. bot.id \in Ids /\ DeleteBackend(bot.id)
    BY <1>2, JobFacts DEF AddRollback, WhatIsThere, Adding
  <2>2. QED
    BY <2>1, <1>0, DeleteDoes, NoRowFacts
<1>3. ASSUME RemoveDelete
       PROVE  rows'[d].name # rows'[e].name
  <2>1. bot.id \in Ids /\ DeleteBackend(bot.id)
    BY <1>3, JobFacts DEF RemoveDelete, WhatIsThere, Removing
  <2>2. QED
    BY <2>1, <1>0, DeleteDoes, NoRowFacts
<1>4. ASSUME AddUDPPersist
       PROVE  rows'[d].name # rows'[e].name
  BY <1>4, <1>0, AddUDPPersistDoes DEF SameBut
<1>5. ASSUME RemoveUDPClear
       PROVE  rows'[d].name # rows'[e].name
  BY <1>5, <1>0, RemoveUDPClearDoes DEF SameBut
<1>6. ASSUME NEW n \in Names, NEW m \in Modes, bot.pc = "idle", ForwardPersist(n, m)
       PROVE  rows'[d].name # rows'[e].name
  BY <1>6, <1>0, ForwardPersistDoes DEF SameBut
<1>7. CASE UNCHANGED <<rows>>
  BY <1>7, <1>0
<1>8. QED
  BY <1>1, <1>2, <1>3, <1>4, <1>5, <1>6, <1>7
     DEF Next, MainStep, Command, NewCommand, cmdAdd, handleCallback, cmdRestart,
         cmdAddUDP, cmdRemoveUDP, cmdForward, BotStep, Exit, Crash, vars, Boot,
         StartOne, BootBackend, BootDone, Signal, ShutdownBegin, ShutdownOne,
         ShutdownEnd, BotExit, NoRuntime, AddStart, AddPublish, RemoveLookup,
         RemoveNamed, RemoveLookupId, RemoveNotFound, RemoveStop, RestartLookup,
         RestartStop, RestartStart, AddUDPCheck, AddUDPStart, RemoveUDPClose,
         ForwardSet, UpdateFails

(* What is started has been given a row.                                   *)
LEMMA RunsFromCopyStep ==
    ManagerInv /\ [Next]_vars => RunsFromCopy'
<1> SUFFICES ASSUME ManagerInv, [Next]_vars, NEW d \in Ids
             PROVE  (life'[d] = "running" => model'[d] # NoRow)
                    /\ (fwd'[d] => model'[d] # NoRow /\ model'[d].udp # NoPort)
  BY DEF RunsFromCopy
<1>0. /\ life[d] = "running" => model[d] # NoRow
      /\ fwd[d] => model[d] # NoRow /\ model[d].udp # NoPort
  BY DEF ManagerInv, CopyShape, RunsFromCopy
<1>a. /\ model \in Table /\ fwd \in [Ids -> BOOLEAN]
      /\ life \in [Ids -> {"none", "running", "stopped"}]
  BY DEF ManagerInv, Types
<1>1. ASSUME NEW i \in Ids, StartOne(i)
       PROVE  (life'[d] = "running" => model'[d] # NoRow)
                    /\ (fwd'[d] => model'[d] # NoRow /\ model'[d].udp # NoPort)
  <2>1. CASE UNCHANGED <<model, life, fwd>>
    BY <2>1, <1>0
  <2>2. CASE rows[i] \in Rows /\ Started(i, rows[i])
    BY <2>2, <1>0, <1>a, StartedFacts, NoRowFacts
  <2>3. QED
    BY <1>1, <2>1, <2>2, StartOneDoes
<1>2. ASSUME NEW i \in Ids, ShutdownOne(i)
       PROVE  (life'[d] = "running" => model'[d] # NoRow)
                    /\ (fwd'[d] => model'[d] # NoRow /\ model'[d].udp # NoPort)
  BY <1>2, <1>0, <1>a DEF ShutdownOne
<1>3. ASSUME NoRuntime, main' = "off", UNCHANGED <<rows, lastId, boots>>
       PROVE  (life'[d] = "running" => model'[d] # NoRow)
                    /\ (fwd'[d] => model'[d] # NoRow /\ model'[d].udp # NoPort)
  BY <1>3, <1>0, <1>a DEF NoRuntime, Off
<1>4. ASSUME AddStart
       PROVE  (life'[d] = "running" => model'[d] # NoRow)
                    /\ (fwd'[d] => model'[d] # NoRow /\ model'[d].udp # NoPort)
  <2>1. bot.id \in Ids /\ rows[bot.id] \in Rows /\ Started(bot.id, rows[bot.id])
    BY <1>4, AddStartDoes
  <2>2. QED
    BY <2>1, <1>0, <1>a, StartedFacts, NoRowFacts
<1>5. ASSUME RemoveStop
       PROVE  (life'[d] = "running" => model'[d] # NoRow)
                    /\ (fwd'[d] => model'[d] # NoRow /\ model'[d].udp # NoPort)
  BY <1>5, <1>0, <1>a DEF RemoveStop, Job
<1>6. ASSUME RestartStop
       PROVE  (life'[d] = "running" => model'[d] # NoRow)
                    /\ (fwd'[d] => model'[d] # NoRow /\ model'[d].udp # NoPort)
  BY <1>6, <1>0, <1>a DEF RestartStop, Job
<1>7. ASSUME RestartStart
       PROVE  (life'[d] = "running" => model'[d] # NoRow)
                    /\ (fwd'[d] => model'[d] # NoRow /\ model'[d].udp # NoPort)
  <2>1. CASE UNCHANGED <<model, life, fwd>>
    BY <2>1, <1>0
  <2>2. CASE Started(bot.id, model[bot.id])
    <3>1. bot.id \in Ids /\ model[bot.id] \in Rows
      BY <1>7, RestartStartDoes
    <3>2. QED
      BY <2>2, <3>1, <1>0, <1>a, StartedFacts, NoRowFacts
  <2>3. QED
    BY <1>7, <2>1, <2>2, RestartStartDoes
<1>8. ASSUME AddUDPPersist
       PROVE  (life'[d] = "running" => model'[d] # NoRow)
                    /\ (fwd'[d] => model'[d] # NoRow /\ model'[d].udp # NoPort)
  <2>1. UNCHANGED <<life, fwd>>
    BY <1>8, AddUDPPersistDoes
  <2>2. /\ bot.id \in Ids /\ model'[bot.id] # NoRow /\ model'[bot.id].udp # NoPort
        /\ \A j \in Ids : j # bot.id => model'[j] = model[j]
    BY <1>8, AddUDPPersistDoes, NoPortAssumption DEF SameBut
  <2>3. QED
    BY <2>1, <2>2, <1>0
<1>9. ASSUME AddUDPStart
       PROVE  (life'[d] = "running" => model'[d] # NoRow)
                    /\ (fwd'[d] => model'[d] # NoRow /\ model'[d].udp # NoPort)
  <2>1. model[bot.id] # NoRow /\ model[bot.id].udp # NoPort
    BY <1>9, JobFacts, NoRowFacts, NoPortAssumption
       DEF AddUDPStart, WhatIsThere, Working, ManagerInv, JobShape, JobFound, JobDone
  <2>2. QED
    BY <1>9, <2>1, <1>0, <1>a DEF AddUDPStart
<1>10. ASSUME NEW n \in Names, bot.pc = "idle", RemoveUDPClose(n)
       PROVE  (life'[d] = "running" => model'[d] # NoRow)
                    /\ (fwd'[d] => model'[d] # NoRow /\ model'[d].udp # NoPort)
  <2>1. life' = life /\ fwd' = [fwd EXCEPT ![Get(n)] = FALSE] /\ Get(n) \in Ids
    BY <1>10, RemoveUDPCloseDoes
  <2>2. /\ model'[Get(n)] # NoRow /\ \A j \in Ids : j # Get(n) => model'[j] = model[j]
    BY <1>10, RemoveUDPCloseDoes DEF SameBut
  <2>3. QED
    BY <2>1, <2>2, <1>0, <1>a
<1>11. ASSUME ForwardSet
       PROVE  (life'[d] = "running" => model'[d] # NoRow)
                    /\ (fwd'[d] => model'[d] # NoRow /\ model'[d].udp # NoPort)
  <2>1. UNCHANGED <<life, fwd>>
    BY <1>11, ForwardSetDoes
  <2>2. /\ bot.id \in Ids /\ model'[bot.id] # NoRow
        /\ model'[bot.id].udp = model[bot.id].udp
        /\ \A j \in Ids : j # bot.id => model'[j] = model[j]
    BY <1>11, ForwardSetDoes DEF SameBut
  <2>3. QED
    BY <2>1, <2>2, <1>0
<1>12. CASE UNCHANGED <<model, life, fwd>>
  BY <1>12, <1>0, <1>a
<1>13. QED
  BY <1>1, <1>2, <1>3, <1>4, <1>5, <1>6, <1>7, <1>8, <1>9, <1>10, <1>11, <1>12
     DEF Next, MainStep, Command, NewCommand, cmdAdd, handleCallback, cmdRestart,
         cmdAddUDP, cmdRemoveUDP, cmdForward, BotStep, Exit, Crash, vars, Boot,
         BootDone, Signal, ShutdownBegin, ShutdownEnd, BotExit, AddPersist,
         AddBackend, AddRollback, AddPublish, RemoveLookup, RemoveNamed,
         RemoveLookupId, RemoveNotFound, RemoveDelete, RestartLookup, AddUDPCheck,
         RemoveUDPClear, ForwardPersist, UpdateFails

(* The row and the copy are changed in step, or only the mode is.          *)
LEMMA CopyAgreesStep ==
    ManagerInv /\ [Next]_vars => CopyAgrees'
<1> SUFFICES ASSUME ManagerInv, [Next]_vars, NEW d \in Ids
             PROVE  CopyOf(d)'
  BY DEF CopyAgrees
<1>0. CopyOf(d)
  BY DEF ManagerInv, CopyShape, CopyAgrees
<1>a. /\ model \in Table /\ rows \in Table /\ fwd \in [Ids -> BOOLEAN]
      /\ life \in [Ids -> {"none", "running", "stopped"}]
  BY DEF ManagerInv, Types
<1> USE DEF CopyOf
<1>1. ASSUME NEW i \in Ids, StartOne(i)
       PROVE  CopyOf(d)'
  <2>1. rows' = rows
    BY <1>1, StartOneDoes
  <2>2. CASE UNCHANGED model
    BY <2>1, <2>2, <1>0
  <2>3. CASE rows[i] \in Rows /\ Started(i, rows[i])
    BY <2>1, <2>3, <1>0, <1>a, StartedFacts
  <2>4. QED
    BY <1>1, <2>2, <2>3, StartOneDoes
<1>2. ASSUME NoRuntime, main' = "off", UNCHANGED <<rows, lastId, boots>>
       PROVE  CopyOf(d)'
  BY <1>2, <1>0, <1>a DEF NoRuntime, Off
<1>3. ASSUME NEW n \in Names, NEW p \in Ports, NEW u \in UdpPorts, bot.pc = "idle",
             AddPersist(n, p, u)
       PROVE  CopyOf(d)'
  <2>1. /\ rows' = [rows EXCEPT ![lastId + 1] =
                    [name |-> n, port |-> p, udp |-> u, mode |-> Raw]]
        /\ model' = model
    BY <1>3, AddPersistDoes
  <2>2. lastId + 1 > lastId /\ lastId + 1 \in Ids
    <3>1. lastId \in Int
      BY BoundsAssumption DEF ManagerInv, Types
    <3>2. lastId + 1 > lastId
      BY <3>1
    <3>3. lastId + 1 \in Ids
      BY <1>3, AddPersistDoes
    <3>4. QED
      BY <3>2, <3>3
  <2>3. model[lastId + 1] = NoRow
    BY <2>2 DEF ManagerInv, RowShape, Fresh
  <2>4. QED
    BY <2>1, <2>3, <1>0, <1>a DEF Table
<1>4. ASSUME AddRollback
       PROVE  CopyOf(d)'
  <2>1. bot.id \in Ids /\ DeleteBackend(bot.id) /\ model' = model
    BY <1>4, JobFacts DEF AddRollback, WhatIsThere, Adding
  <2>2. QED
    BY <2>1, <1>0, DeleteDoes
<1>5. ASSUME AddStart
       PROVE  CopyOf(d)'
  <2>1. /\ bot.id \in Ids /\ rows[bot.id] \in Rows /\ Started(bot.id, rows[bot.id])
        /\ rows' = rows
    BY <1>5, AddStartDoes
  <2>2. QED
    BY <2>1, <1>0, <1>a, StartedFacts
<1>6. ASSUME RemoveDelete
       PROVE  CopyOf(d)'
  <2>1. bot.id \in Ids /\ DeleteBackend(bot.id) /\ model' = model
    BY <1>6, JobFacts DEF RemoveDelete, WhatIsThere, Removing
  <2>2. QED
    BY <2>1, <1>0, DeleteDoes
<1>7. ASSUME RestartStart
       PROVE  CopyOf(d)'
  <2>1. /\ bot.id \in Ids /\ model[bot.id] \in Rows /\ rows' = rows
    BY <1>7, RestartStartDoes
  <2>2. CASE UNCHANGED <<model, life, fwd>>
    BY <2>1, <2>2, <1>0
  <2>3. CASE Started(bot.id, model[bot.id])
    <3>1. model' = [model EXCEPT ![bot.id] = model[bot.id]]
      BY <2>3 DEF Started
    <3>2. QED
      BY <2>1, <3>1, <1>0, <1>a DEF Table
  <2>4. QED
    BY <1>7, <2>2, <2>3, RestartStartDoes
<1>8. ASSUME AddUDPPersist
       PROVE  CopyOf(d)'
  <2>1. /\ model'[bot.id].name = model[bot.id].name
        /\ model'[bot.id].port = model[bot.id].port
        /\ model'[bot.id].udp = bot.arg /\ model[bot.id] # NoRow
        /\ \A j \in Ids : j # bot.id => model'[j] = model[j] /\ rows'[j] = rows[j]
    BY <1>8, AddUDPPersistDoes, NoRowFacts DEF SameBut
  <2>2. \/ rows'[bot.id] = NoRow
        \/ /\ rows'[bot.id].name = rows[bot.id].name
           /\ rows'[bot.id].port = rows[bot.id].port
           /\ rows'[bot.id].udp = bot.arg /\ rows[bot.id] # NoRow
    BY <1>8, AddUDPPersistDoes DEF SameBut
  <2>3. QED
    BY <2>1, <2>2, <1>0
<1>9. ASSUME NEW n \in Names, bot.pc = "idle", RemoveUDPClose(n)
       PROVE  CopyOf(d)'
  <2>1. /\ model'[Get(n)].name = model[Get(n)].name
        /\ model'[Get(n)].port = model[Get(n)].port
        /\ model'[Get(n)].udp = NoPort /\ model[Get(n)] # NoRow /\ rows' = rows
        /\ \A j \in Ids : j # Get(n) => model'[j] = model[j]
    BY <1>9, RemoveUDPCloseDoes, NoRowFacts DEF SameBut
  <2>2. QED
    BY <2>1, <1>0
<1>10. ASSUME RemoveUDPClear
       PROVE  CopyOf(d)'
  <2>1. model[bot.id].udp = NoPort /\ model' = model
    BY <1>10, RemoveUDPClearDoes DEF ManagerInv, JobShape, JobFound, JobDone
  <2>2. \/ rows'[bot.id] = NoRow
        \/ /\ rows'[bot.id].name = rows[bot.id].name
           /\ rows'[bot.id].port = rows[bot.id].port
           /\ rows[bot.id] # NoRow
    BY <1>10, RemoveUDPClearDoes DEF SameBut
  <2>3. \A j \in Ids : j # bot.id => rows'[j] = rows[j]
    BY <1>10, RemoveUDPClearDoes DEF SameBut
  <2>4. QED
    BY <2>1, <2>2, <2>3, <1>0
<1>11. ASSUME NEW n \in Names, NEW m \in Modes, bot.pc = "idle", ForwardPersist(n, m)
       PROVE  CopyOf(d)'
  <2>1. model' = model /\ \A j \in Ids : j # Get(n) => rows'[j] = rows[j]
    BY <1>11, ForwardPersistDoes DEF SameBut
  <2>2. \/ rows'[Get(n)] = NoRow
        \/ /\ rows'[Get(n)].name = rows[Get(n)].name
           /\ rows'[Get(n)].port = rows[Get(n)].port
           /\ rows'[Get(n)].udp = rows[Get(n)].udp /\ rows[Get(n)] # NoRow
    BY <1>11, ForwardPersistDoes DEF SameBut
  <2>3. QED
    BY <2>1, <2>2, <1>0
<1>12. ASSUME ForwardSet
       PROVE  CopyOf(d)'
  <2>1. /\ model'[bot.id].name = model[bot.id].name
        /\ model'[bot.id].port = model[bot.id].port
        /\ model'[bot.id].udp = model[bot.id].udp /\ rows' = rows
        /\ \A j \in Ids : j # bot.id => model'[j] = model[j]
    BY <1>12, ForwardSetDoes DEF SameBut
  <2>2. model[bot.id] # NoRow
    BY <1>12, JobFacts, NoRowFacts DEF ForwardSet, WhatIsThere, Working
  <2>3. QED
    BY <2>1, <2>2, <1>0
<1>13. CASE UNCHANGED <<rows, model>>
  BY <1>13, <1>0, <1>a
<1> HIDE DEF CopyOf
<1>14. QED
  BY <1>1, <1>2, <1>3, <1>4, <1>5, <1>6, <1>7, <1>8, <1>9, <1>10, <1>11, <1>12, <1>13
     DEF Next, MainStep, Command, NewCommand, cmdAdd, handleCallback, cmdRestart,
         cmdAddUDP, cmdRemoveUDP, cmdForward, BotStep, Exit, Crash, vars, Boot,
         BootDone, Signal, ShutdownBegin, ShutdownOne, ShutdownEnd, BotExit,
         AddPublish, RemoveLookup, RemoveNamed, RemoveLookupId, RemoveNotFound,
         RemoveStop, RestartLookup, RestartStop, AddUDPCheck, AddUDPStart, UpdateFails

(* A backend is registered under the key of its name, which it keeps.      *)
LEMMA RegKeysStep ==
    ManagerInv /\ [Next]_vars => RegKeys'
<1> SUFFICES ASSUME ManagerInv, [Next]_vars, NEW k \in Keys, reg'[k] # NoId
             PROVE  model'[reg'[k]] # NoRow /\ Key[model'[reg'[k]].name] = k
  BY DEF RegKeys
<1>0. /\ \A l \in Keys : reg[l] # NoId =>
            reg[l] \in Ids /\ model[reg[l]] # NoRow /\ Key[model[reg[l]].name] = l
      /\ model \in Table /\ reg \in [Keys -> Ids \union {NoId}]
  BY DEF ManagerInv, RegShape, RegKeys, Types
<1>a. /\ model \in Table
      /\ life \in [Ids -> {"none", "running", "stopped"}]
      /\ fwd \in [Ids -> BOOLEAN]
      /\ NoId \notin Ids /\ NoRow \notin Rows
  BY NoRowFacts DEF ManagerInv, Types
<1>1. ASSUME NEW i \in Ids, StartOne(i)
       PROVE  model'[reg'[k]] # NoRow /\ Key[model'[reg'[k]].name] = k
  <2>1. CASE UNCHANGED <<model, reg>>
    BY <2>1, <1>0
  <2>2. CASE /\ Started(i, rows[i])
             /\ reg' = [reg EXCEPT ![Key[rows[i].name]] = i]
    <3>1. rows[i] \in Rows /\ i \in todo /\ main = "boot"
      BY <1>1, StartOneDoes
    <3>2. model'[i] = rows[i] /\ \A j \in Ids : j # i => model'[j] = model[j]
      BY <2>2, <3>1, <1>0, <1>a, StartedFacts
    <3>3. \A l \in Keys : reg[l] # i
      BY <3>1, <1>a DEF ManagerInv, RegShape, RegBoot
    <3>4. QED
      BY <2>2, <3>1, <3>2, <3>3, <1>0, <1>a
  <2>3. QED
    BY <1>1, <2>1, <2>2, StartOneDoes
<1>2. ASSUME NoRuntime, main' = "off", UNCHANGED <<rows, lastId, boots>>
       PROVE  model'[reg'[k]] # NoRow /\ Key[model'[reg'[k]].name] = k
  BY <1>2, <1>0, <1>a DEF NoRuntime, Off
<1>3. ASSUME AddStart
       PROVE  model'[reg'[k]] # NoRow /\ Key[model'[reg'[k]].name] = k
  <2>1. /\ bot.pc = "add start" /\ bot.id \in Ids /\ rows[bot.id] \in Rows
        /\ Started(bot.id, rows[bot.id]) /\ reg' = reg
    BY <1>3, AddStartDoes
  <2>2. reg[k] # bot.id \/ reg[k] = NoId
    BY <2>1 DEF ManagerInv, AddShape, Adding
  <2>3. \A j \in Ids : j # bot.id => model'[j] = model[j]
    BY <2>1, <1>a, StartedFacts
  <2>4. QED
    BY <2>1, <2>2, <2>3, <1>0, <1>a
<1>4. ASSUME AddPublish
       PROVE  model'[reg'[k]] # NoRow /\ Key[model'[reg'[k]].name] = k
  <2>1. bot.id \in Ids /\ model[bot.id] # NoRow
    BY <1>4, JobFacts, NoRowFacts
       DEF AddPublish, WhatIsThere, Adding, ManagerInv, AddShape
  <2>2. QED
    BY <1>4, <2>1, <1>0, <1>a DEF AddPublish
<1>5. ASSUME NEW n \in Names, bot.pc = "idle", RemoveLookup(n)
       PROVE  model'[reg'[k]] # NoRow /\ Key[model'[reg'[k]].name] = k
  BY <1>5, <1>0, <1>a, KeyTypes DEF RemoveLookup, RemoveNamed, Unregistered
<1>6. ASSUME RestartStart
       PROVE  model'[reg'[k]] # NoRow /\ Key[model'[reg'[k]].name] = k
  <2>1. bot.id \in Ids /\ reg' = reg
    BY <1>6, RestartStartDoes
  <2>2. CASE UNCHANGED <<model, life, fwd>>
    BY <2>1, <2>2, <1>0
  <2>3. CASE Started(bot.id, model[bot.id])
    <3>1. model' = [model EXCEPT ![bot.id] = model[bot.id]]
      BY <2>3 DEF Started
    <3>2. QED
      BY <2>1, <3>1, <1>0 DEF Table
  <2>4. QED
    BY <1>6, <2>2, <2>3, RestartStartDoes
<1>7. ASSUME AddUDPPersist
       PROVE  model'[reg'[k]] # NoRow /\ Key[model'[reg'[k]].name] = k
  <2>1. /\ model'[bot.id] # NoRow /\ model'[bot.id].name = model[bot.id].name
        /\ reg' = reg
        /\ \A j \in Ids : j # bot.id => model'[j] = model[j]
    BY <1>7, AddUDPPersistDoes DEF SameBut
  <2>2. QED
    BY <2>1, <1>0
<1>8. ASSUME NEW n \in Names, bot.pc = "idle", RemoveUDPClose(n)
       PROVE  model'[reg'[k]] # NoRow /\ Key[model'[reg'[k]].name] = k
  <2>1. /\ model'[Get(n)] # NoRow /\ model'[Get(n)].name = model[Get(n)].name
        /\ reg' = reg
        /\ \A j \in Ids : j # Get(n) => model'[j] = model[j]
    BY <1>8, RemoveUDPCloseDoes DEF SameBut
  <2>2. QED
    BY <2>1, <1>0
<1>9. ASSUME ForwardSet
       PROVE  model'[reg'[k]] # NoRow /\ Key[model'[reg'[k]].name] = k
  <2>1. /\ model'[bot.id] # NoRow /\ model'[bot.id].name = model[bot.id].name
        /\ reg' = reg
        /\ \A j \in Ids : j # bot.id => model'[j] = model[j]
    BY <1>9, ForwardSetDoes DEF SameBut
  <2>2. QED
    BY <2>1, <1>0
<1>10. CASE UNCHANGED <<model, reg>>
  BY <1>10, <1>0, <1>a
<1>11. QED
  BY <1>1, <1>2, <1>3, <1>4, <1>5, <1>6, <1>7, <1>8, <1>9, <1>10
     DEF Next, MainStep, Command, NewCommand, cmdAdd, handleCallback, cmdRestart,
         cmdAddUDP, cmdRemoveUDP, cmdForward, BotStep, Exit, Crash, vars, Boot,
         BootDone, Signal, ShutdownBegin, ShutdownOne, ShutdownEnd, BotExit,
         AddPersist, AddBackend, AddRollback, RemoveLookupId, RemoveNotFound,
         RemoveStop, RemoveDelete, RestartLookup, RestartStop, AddUDPCheck,
         AddUDPStart, RemoveUDPClear, ForwardPersist, UpdateFails

(* Only Manager.Start changes anything while it runs.                      *)
LEMMA RegBootStep ==
    ManagerInv /\ [Next]_vars => RegBoot'
<1> SUFFICES ASSUME ManagerInv, [Next]_vars, NEW k \in Keys, main' = "boot",
                    reg'[k] # NoId
             PROVE  reg'[k] \notin todo' /\ life'[reg'[k]] = "running"
                      /\ model'[reg'[k]] = rows'[reg'[k]]
  BY DEF RegBoot
<1>0. /\ main = "boot" => /\ bot.pc = "off"
                          /\ reg[k] # NoId => /\ reg[k] \notin todo
                                              /\ life[reg[k]] = "running"
                                              /\ model[reg[k]] = rows[reg[k]]
      /\ main = "off" => reg[k] = NoId
  BY DEF ManagerInv, RegShape, RegBoot, LockShape, BootShape, OffShape, TodoShape
<1>a. /\ life \in [Ids -> {"none", "running", "stopped"}]
      /\ fwd \in [Ids -> BOOLEAN]
      /\ model \in Table /\ reg \in [Keys -> Ids \union {NoId}]
      /\ NoId \notin Ids /\ NoRow \notin Rows
  BY NoRowFacts DEF ManagerInv, Types
<1>1. ASSUME Boot
       PROVE  reg'[k] \notin todo' /\ life'[reg'[k]] = "running"
                      /\ model'[reg'[k]] = rows'[reg'[k]]
  BY <1>1, <1>0 DEF Boot
<1>2. ASSUME NEW i \in Ids, StartOne(i)
       PROVE  reg'[k] \notin todo' /\ life'[reg'[k]] = "running"
                      /\ model'[reg'[k]] = rows'[reg'[k]]
  <2>0. rows[i] \in Rows /\ rows' = rows /\ todo' = todo \ {i} /\ main = "boot"
    BY <1>2, StartOneDoes
  <2>1. CASE UNCHANGED <<model, life, fwd, reg>>
    BY <2>0, <2>1, <1>0
  <2>2. CASE /\ Started(i, rows[i])
             /\ reg' = [reg EXCEPT ![Key[rows[i].name]] = i]
    <3>1. /\ model'[i] = rows[i] /\ life'[i] = "running"
          /\ \A j \in Ids : j # i => model'[j] = model[j] /\ life'[j] = life[j]
      BY <2>0, <2>2, <1>a, StartedFacts
    <3>2. reg'[k] = i \/ reg'[k] = reg[k]
      BY <2>2, <1>a
    <3>3. QED
      BY <2>0, <3>1, <3>2, <1>0, <1>a
  <2>3. QED
    BY <1>2, <2>1, <2>2, StartOneDoes
<1>3. ASSUME BootDone
       PROVE  reg'[k] \notin todo' /\ life'[reg'[k]] = "running"
                      /\ model'[reg'[k]] = rows'[reg'[k]]
  BY <1>3 DEF BootDone
<1>4. ASSUME Signal
       PROVE  reg'[k] \notin todo' /\ life'[reg'[k]] = "running"
                      /\ model'[reg'[k]] = rows'[reg'[k]]
  BY <1>4 DEF Signal
<1>5. ASSUME ShutdownBegin
       PROVE  reg'[k] \notin todo' /\ life'[reg'[k]] = "running"
                      /\ model'[reg'[k]] = rows'[reg'[k]]
  BY <1>5 DEF ShutdownBegin
<1>6. ASSUME NEW i \in Ids, ShutdownOne(i)
       PROVE  reg'[k] \notin todo' /\ life'[reg'[k]] = "running"
                      /\ model'[reg'[k]] = rows'[reg'[k]]
  BY <1>6 DEF ShutdownOne
<1>7. ASSUME ShutdownEnd
       PROVE  reg'[k] \notin todo' /\ life'[reg'[k]] = "running"
                      /\ model'[reg'[k]] = rows'[reg'[k]]
  BY <1>7 DEF ShutdownEnd
<1>8. ASSUME NoRuntime, main' = "off", UNCHANGED <<rows, lastId, boots>>
       PROVE  reg'[k] \notin todo' /\ life'[reg'[k]] = "running"
                      /\ model'[reg'[k]] = rows'[reg'[k]]
  BY <1>8
<1>9. ASSUME NEW n \in Names, NEW p \in Ports, NEW u \in UdpPorts, bot.pc = "idle",
             AddPersist(n, p, u)
       PROVE  reg'[k] \notin todo' /\ life'[reg'[k]] = "running"
                      /\ model'[reg'[k]] = rows'[reg'[k]]
  BY <1>9, <1>0, AddPersistDoes
<1>10. ASSUME AddRollback
       PROVE  reg'[k] \notin todo' /\ life'[reg'[k]] = "running"
                      /\ model'[reg'[k]] = rows'[reg'[k]]
  BY <1>10, <1>0 DEF AddRollback
<1>11. ASSUME AddStart
       PROVE  reg'[k] \notin todo' /\ life'[reg'[k]] = "running"
                      /\ model'[reg'[k]] = rows'[reg'[k]]
  BY <1>11, <1>0, AddStartDoes
<1>12. ASSUME AddPublish
       PROVE  reg'[k] \notin todo' /\ life'[reg'[k]] = "running"
                      /\ model'[reg'[k]] = rows'[reg'[k]]
  BY <1>12, <1>0 DEF AddPublish
<1>13. ASSUME NEW n \in Names, bot.pc = "idle", RemoveLookup(n)
       PROVE  reg'[k] \notin todo' /\ life'[reg'[k]] = "running"
                      /\ model'[reg'[k]] = rows'[reg'[k]]
  BY <1>13, <1>0 DEF RemoveLookup, RemoveNamed
<1>14. ASSUME RemoveStop
       PROVE  reg'[k] \notin todo' /\ life'[reg'[k]] = "running"
                      /\ model'[reg'[k]] = rows'[reg'[k]]
  BY <1>14, <1>0 DEF RemoveStop
<1>15. ASSUME RemoveDelete
       PROVE  reg'[k] \notin todo' /\ life'[reg'[k]] = "running"
                      /\ model'[reg'[k]] = rows'[reg'[k]]
  BY <1>15, <1>0 DEF RemoveDelete
<1>16. ASSUME RestartStop
       PROVE  reg'[k] \notin todo' /\ life'[reg'[k]] = "running"
                      /\ model'[reg'[k]] = rows'[reg'[k]]
  BY <1>16, <1>0 DEF RestartStop
<1>17. ASSUME RestartStart
       PROVE  reg'[k] \notin todo' /\ life'[reg'[k]] = "running"
                      /\ model'[reg'[k]] = rows'[reg'[k]]
  BY <1>17, <1>0, RestartStartDoes
<1>18. ASSUME AddUDPPersist
       PROVE  reg'[k] \notin todo' /\ life'[reg'[k]] = "running"
                      /\ model'[reg'[k]] = rows'[reg'[k]]
  BY <1>18, <1>0, AddUDPPersistDoes
<1>19. ASSUME NEW n \in Names, bot.pc = "idle", RemoveUDPClose(n)
       PROVE  reg'[k] \notin todo' /\ life'[reg'[k]] = "running"
                      /\ model'[reg'[k]] = rows'[reg'[k]]
  BY <1>19, <1>0, RemoveUDPCloseDoes
<1>20. ASSUME RemoveUDPClear
       PROVE  reg'[k] \notin todo' /\ life'[reg'[k]] = "running"
                      /\ model'[reg'[k]] = rows'[reg'[k]]
  BY <1>20, <1>0, RemoveUDPClearDoes
<1>21. ASSUME NEW n \in Names, NEW m \in Modes, bot.pc = "idle", ForwardPersist(n, m)
       PROVE  reg'[k] \notin todo' /\ life'[reg'[k]] = "running"
                      /\ model'[reg'[k]] = rows'[reg'[k]]
  BY <1>21, <1>0, ForwardPersistDoes
<1>22. ASSUME ForwardSet
       PROVE  reg'[k] \notin todo' /\ life'[reg'[k]] = "running"
                      /\ model'[reg'[k]] = rows'[reg'[k]]
  BY <1>22, <1>0, ForwardSetDoes
<1>23. CASE UNCHANGED <<rows, model, life, reg, main, todo>>
  BY <1>23, <1>0, <1>a
<1>24. QED
  BY <1>1, <1>2, <1>3, <1>4, <1>5, <1>6, <1>7, <1>8, <1>9, <1>10, <1>11, <1>12, <1>13,
     <1>14, <1>15, <1>16, <1>17, <1>18, <1>19, <1>20, <1>21, <1>22, <1>23
     DEF Next, MainStep, Command, NewCommand, cmdAdd, handleCallback, cmdRestart,
         cmdAddUDP, cmdRemoveUDP, cmdForward, BotStep, Exit, Crash, vars, BotExit,
         RemoveLookupId, RemoveNotFound, RestartLookup, AddUDPCheck, AddUDPStart,
         UpdateFails

(* A process that ends leaves nothing but the database.                    *)
LEMMA OffStep ==
    ManagerInv /\ [Next]_vars => OffShape'
<1> SUFFICES ASSUME ManagerInv, [Next]_vars
             PROVE  OffShape'
  OBVIOUS
<1>0. /\ OffShape
      /\ main \in {"off", "boot"} => bot.pc = "off"
  BY DEF ManagerInv, BootShape, LockShape
<1> USE DEF OffShape
<1>1. ASSUME Boot
       PROVE  OffShape'
  BY <1>1 DEF Boot
<1>2. ASSUME NEW i \in Ids, StartOne(i)
       PROVE  OffShape'
  BY <1>2, <1>0, StartOneDoes
<1>3. ASSUME BootDone
       PROVE  OffShape'
  BY <1>3 DEF BootDone
<1>4. ASSUME Signal
       PROVE  OffShape'
  BY <1>4 DEF Signal
<1>5. ASSUME ShutdownBegin
       PROVE  OffShape'
  BY <1>5 DEF ShutdownBegin
<1>6. ASSUME NEW i \in Ids, ShutdownOne(i)
       PROVE  OffShape'
  BY <1>6 DEF ShutdownOne
<1>7. ASSUME ShutdownEnd
       PROVE  OffShape'
  BY <1>7 DEF ShutdownEnd
<1>8. ASSUME NoRuntime, main' = "off", UNCHANGED <<rows, lastId, boots>>
       PROVE  OffShape'
  BY <1>8, <1>0 DEF NoRuntime
<1>9. ASSUME AddStart
       PROVE  OffShape'
  BY <1>9, <1>0, AddStartDoes
<1>10. ASSUME AddPublish
       PROVE  OffShape'
  BY <1>10, <1>0 DEF AddPublish
<1>11. ASSUME NEW n \in Names, bot.pc = "idle", RemoveLookup(n)
       PROVE  OffShape'
  BY <1>11, <1>0 DEF RemoveLookup, RemoveNamed
<1>12. ASSUME RemoveStop
       PROVE  OffShape'
  BY <1>12, <1>0 DEF RemoveStop
<1>13. ASSUME RestartStop
       PROVE  OffShape'
  BY <1>13, <1>0 DEF RestartStop
<1>14. ASSUME RestartStart
       PROVE  OffShape'
  BY <1>14, <1>0, RestartStartDoes
<1>15. ASSUME AddUDPPersist
       PROVE  OffShape'
  BY <1>15, <1>0, AddUDPPersistDoes
<1>16. ASSUME AddUDPStart
       PROVE  OffShape'
  BY <1>16, <1>0 DEF AddUDPStart
<1>17. ASSUME NEW n \in Names, bot.pc = "idle", RemoveUDPClose(n)
       PROVE  OffShape'
  BY <1>17, <1>0, RemoveUDPCloseDoes
<1>18. ASSUME ForwardSet
       PROVE  OffShape'
  BY <1>18, <1>0, ForwardSetDoes
<1>19. CASE UNCHANGED <<model, life, fwd, reg, main>>
  BY <1>19, <1>0
<1> HIDE DEF OffShape
<1>20. QED
  BY <1>1, <1>2, <1>3, <1>4, <1>5, <1>6, <1>7, <1>8, <1>9, <1>10, <1>11, <1>12, <1>13,
     <1>14, <1>15, <1>16, <1>17, <1>18, <1>19
     DEF Next, MainStep, Command, NewCommand, cmdAdd, handleCallback, cmdRestart,
         cmdAddUDP, cmdRemoveUDP, cmdForward, BotStep, Exit, Crash, vars, BotExit,
         AddPersist, AddBackend, AddRollback, RemoveLookupId, RemoveNotFound,
         RemoveDelete, RestartLookup, AddUDPCheck, RemoveUDPClear, ForwardPersist,
         UpdateFails

(* While a boot or a shutdown is at work nothing it still needs goes away. *)
LEMMA TodoStep ==
    ManagerInv /\ [Next]_vars => TodoShape'
<1> SUFFICES ASSUME ManagerInv, [Next]_vars, NEW d \in todo'
             PROVE  Needed(d)'
  BY DEF TodoShape
<1>0. d \in todo => /\ main = "boot" => rows[d] # NoRow
                    /\ main = "drain" => model[d] # NoRow
  BY DEF ManagerInv, BootShape, TodoShape, Needed
<1>a. /\ model \in Table /\ rows \in Table /\ todo \subseteq Ids
      /\ life \in [Ids -> {"none", "running", "stopped"}]
      /\ fwd \in [Ids -> BOOLEAN] /\ NoRow \notin Rows
  BY NoRowFacts DEF ManagerInv, Types
<1>b. main \in {"boot", "drain"} => mu = "main" /\ bot.pc \notin Adding
  BY DEF ManagerInv, LockShape
<1> USE DEF Needed
<1>1. ASSUME Boot
       PROVE  Needed(d)'
  BY <1>1 DEF Boot, Stored
<1>2. ASSUME NEW i \in Ids, StartOne(i)
       PROVE  Needed(d)'
  BY <1>2, <1>0, StartOneDoes
<1>3. ASSUME BootDone
       PROVE  Needed(d)'
  BY <1>3, <1>0, <1>a DEF BootDone, Idle
<1>4. ASSUME Signal
       PROVE  Needed(d)'
  BY <1>4, <1>0, <1>a DEF Signal
<1>5. ASSUME ShutdownBegin
       PROVE  Needed(d)'
  BY <1>5 DEF ShutdownBegin, Mapped, ManagerInv, RegShape, RegKeys
<1>6. ASSUME NEW i \in Ids, ShutdownOne(i)
       PROVE  Needed(d)'
  BY <1>6, <1>0, <1>a DEF ShutdownOne
<1>7. ASSUME ShutdownEnd
       PROVE  Needed(d)'
  BY <1>7, <1>0, <1>a DEF ShutdownEnd
<1>8. ASSUME NoRuntime, main' = "off", UNCHANGED <<rows, lastId, boots>>
       PROVE  Needed(d)'
  BY <1>8, <1>0, <1>a DEF NoRuntime, Off
<1>9. ASSUME NEW n \in Names, NEW p \in Ports, NEW u \in UdpPorts, bot.pc = "idle",
             AddPersist(n, p, u)
       PROVE  Needed(d)'
  <2>1. /\ mu = "free" /\ UNCHANGED <<main, todo, model>>
    BY <1>9, AddPersistDoes
  <2>2. QED
    BY <2>1, <1>b
<1>10. ASSUME AddRollback
       PROVE  Needed(d)'
  BY <1>10, <1>b DEF AddRollback, Adding
<1>11. ASSUME AddStart
       PROVE  Needed(d)'
  <2>1. /\ bot.pc = "add start" /\ UNCHANGED <<main, todo>>
    BY <1>11, AddStartDoes
  <2>2. QED
    BY <2>1, <1>b DEF Adding
<1>12. ASSUME RemoveDelete
       PROVE  Needed(d)'
  <2>1. UNCHANGED <<main, todo, model>> /\ main # "boot"
    BY <1>12 DEF RemoveDelete, ManagerInv, LockShape
  <2>2. QED
    BY <2>1, <1>0
<1>13. ASSUME RestartStart
       PROVE  Needed(d)'
  <2>1. /\ bot.id \in Ids /\ model[bot.id] \in Rows /\ UNCHANGED <<main, todo, rows>>
    BY <1>13, RestartStartDoes
  <2>2. CASE UNCHANGED <<model, life, fwd>>
    BY <2>1, <2>2, <1>0
  <2>3. CASE Started(bot.id, model[bot.id])
    <3>1. model' = [model EXCEPT ![bot.id] = model[bot.id]]
      BY <2>3 DEF Started
    <3>2. QED
      BY <2>1, <3>1, <1>0, <1>a DEF Table
  <2>4. QED
    BY <1>13, <2>2, <2>3, RestartStartDoes
<1>14. ASSUME AddUDPPersist
       PROVE  Needed(d)'
  <2>1. /\ model'[bot.id] # NoRow /\ UNCHANGED <<main, todo>> /\ bot.pc = "udp persist"
        /\ \A j \in Ids : j # bot.id => model'[j] = model[j]
    BY <1>14, AddUDPPersistDoes DEF SameBut
  <2>2. main # "boot"
    BY <2>1 DEF ManagerInv, LockShape
  <2>3. QED
    BY <2>1, <2>2, <1>0, <1>a
<1>15. ASSUME NEW n \in Names, bot.pc = "idle", RemoveUDPClose(n)
       PROVE  Needed(d)'
  <2>1. /\ model'[Get(n)] # NoRow /\ UNCHANGED <<main, todo>> /\ bot.pc = "idle"
        /\ \A j \in Ids : j # Get(n) => model'[j] = model[j]
    BY <1>15, RemoveUDPCloseDoes DEF SameBut
  <2>2. main # "boot"
    BY <2>1 DEF ManagerInv, LockShape
  <2>3. QED
    BY <2>1, <2>2, <1>0, <1>a
<1>16. ASSUME RemoveUDPClear
       PROVE  Needed(d)'
  <2>1. UNCHANGED <<main, todo, model>> /\ bot.pc = "udp clear"
    BY <1>16, RemoveUDPClearDoes
  <2>2. main # "boot"
    BY <2>1 DEF ManagerInv, LockShape
  <2>3. QED
    BY <2>1, <2>2, <1>0
<1>17. ASSUME NEW n \in Names, NEW m \in Modes, bot.pc = "idle", ForwardPersist(n, m)
       PROVE  Needed(d)'
  <2>1. UNCHANGED <<main, todo, model>> /\ bot.pc = "idle"
    BY <1>17, ForwardPersistDoes
  <2>2. main # "boot"
    BY <2>1 DEF ManagerInv, LockShape
  <2>3. QED
    BY <2>1, <2>2, <1>0
<1>18. ASSUME ForwardSet
       PROVE  Needed(d)'
  <2>1. /\ model'[bot.id] # NoRow /\ UNCHANGED <<main, todo>> /\ bot.pc = "forward set"
        /\ \A j \in Ids : j # bot.id => model'[j] = model[j]
    BY <1>18, ForwardSetDoes DEF SameBut
  <2>2. main # "boot"
    BY <2>1 DEF ManagerInv, LockShape
  <2>3. QED
    BY <2>1, <2>2, <1>0, <1>a
<1>19. CASE UNCHANGED <<rows, model, main, todo>>
  BY <1>19, <1>0, <1>a
<1> HIDE DEF Needed
<1>20. QED
  BY <1>1, <1>2, <1>3, <1>4, <1>5, <1>6, <1>7, <1>8, <1>9, <1>10, <1>11, <1>12, <1>13,
     <1>14, <1>15, <1>16, <1>17, <1>18, <1>19
     DEF Next, MainStep, Command, NewCommand, cmdAdd, handleCallback, cmdRestart,
         cmdAddUDP, cmdRemoveUDP, cmdForward, BotStep, Exit, Crash, vars, BotExit,
         AddPublish, RemoveLookup, RemoveNamed, RemoveLookupId, RemoveNotFound,
         RemoveStop, RestartLookup, RestartStop, AddUDPCheck, AddUDPStart, UpdateFails

(* A backend is added while its name and its port are free.                *)
LEMMA AddShapeStep ==
    ManagerInv /\ [Next]_vars => AddShape'
<1> SUFFICES ASSUME ManagerInv, [Next]_vars, bot'.pc \in Adding
             PROVE  AddShape'
  BY DEF AddShape
<1>0. bot.pc \in Adding => mu = "bot" /\ main \notin {"boot", "drain"}
  BY DEF ManagerInv, LockShape
<1>a. /\ rows \in Table /\ model \in Table /\ reg \in [Keys -> Ids \union {NoId}]
      /\ life \in [Ids -> {"none", "running", "stopped"}] /\ fwd \in [Ids -> BOOLEAN]
      /\ AddShape /\ NoId \notin Ids /\ NoRow \notin Rows
  BY NoRowFacts DEF ManagerInv, Types
<1>1. ASSUME NEW i \in Ids, StartOne(i)
       PROVE  AddShape'
  <2>1. main = "boot" /\ bot' = bot
    BY <1>1, StartOneDoes
  <2>2. QED
    BY <2>1, <1>0
<1>2. ASSUME BootDone
       PROVE  AddShape'
  BY <1>2 DEF BootDone, Idle, Adding
<1>3. ASSUME NEW i \in Ids, ShutdownOne(i)
       PROVE  AddShape'
  BY <1>3, <1>0 DEF ShutdownOne
<1>4. ASSUME BotExit
       PROVE  AddShape'
  BY <1>4 DEF BotExit, Off, Adding
<1>5. ASSUME NoRuntime, main' = "off", UNCHANGED <<rows, lastId, boots>>
       PROVE  AddShape'
  BY <1>5 DEF NoRuntime, Off, Adding
<1>6. ASSUME NEW n \in Names, NEW p \in Ports, NEW u \in UdpPorts, bot.pc = "idle",
             AddPersist(n, p, u)
       PROVE  AddShape'
  <2> DEFINE new == lastId + 1
             row == [name |-> n, port |-> p, udp |-> u, mode |-> Raw]
  <2>1. /\ new \in Ids /\ rows' = [rows EXCEPT ![new] = row] /\ row # NoRow
        /\ bot' = Job("add start", new, NoPort) /\ UNCHANGED <<model, life, fwd, reg>>
        /\ Get(n) = NoId /\ portFreeLocked(p)
    BY <1>6, AddPersistDoes
  <2>2. row.name = n /\ row.port = p
    OBVIOUS
  <2>3. model[new] = NoRow /\ life[new] = "none" /\ ~fwd[new]
    <3>1. lastId \in Int
      BY BoundsAssumption DEF ManagerInv, Types
    <3>2. new > lastId
      BY <3>1
    <3> HIDE DEF new
    <3>3. QED
      BY <2>1, <3>2 DEF ManagerInv, RowShape, Fresh
  <2> HIDE DEF new, row
  <2>4. rows'[bot'.id] = row /\ bot'.id = new /\ bot'.pc = "add start"
    BY <2>1, <1>a DEF Table, Job
  <2>5. \A k \in Keys : reg[k] # NoId => reg[k] # new /\ model[reg[k]].port # p
    <3>1. \A k \in Keys : reg[k] # NoId => model[reg[k]].port # p
      BY <2>1 DEF portFreeLocked, Mapped
    <3>2. \A k \in Keys : reg[k] # NoId => reg[k] # new
      BY <2>3 DEF ManagerInv, RegShape, RegKeys
    <3>3. QED
      BY <3>1, <3>2
  <2>6. QED
    BY <2>1, <2>2, <2>3, <2>4, <2>5 DEF AddShape, Get
<1>7. ASSUME AddRollback
       PROVE  AddShape'
  BY <1>7 DEF AddRollback, Return, Idle, Adding
<1>8. ASSUME AddStart
       PROVE  AddShape'
  <2>1. /\ bot.pc = "add start" /\ bot.id \in Ids /\ rows[bot.id] \in Rows
        /\ Started(bot.id, rows[bot.id])
        /\ bot' = Job("add publish", bot.id, NoPort)
        /\ rows' = rows /\ reg' = reg
    BY <1>8, AddStartDoes
  <2>2. /\ model'[bot.id] = rows[bot.id]
        /\ \A j \in Ids : j # bot.id => model'[j] = model[j]
    BY <2>1, <1>a, StartedFacts
  <2>3. bot'.pc = "add publish" /\ bot'.id = bot.id /\ bot.pc \in Adding
    BY <2>1 DEF Job, Adding
  <2>4. /\ rows[bot.id] # NoRow /\ reg[Key[rows[bot.id].name]] = NoId
        /\ \A k \in Keys : reg[k] # NoId =>
             /\ reg[k] # bot.id /\ model[reg[k]].port # rows[bot.id].port
             /\ model'[reg[k]] = model[reg[k]]
    BY <2>2, <2>3, <1>a DEF AddShape
  <2>5. QED
    BY <2>1, <2>2, <2>3, <2>4 DEF AddShape
<1>9. ASSUME AddPublish
       PROVE  AddShape'
  BY <1>9 DEF AddPublish, Return, Idle, Adding
<1>10. ASSUME NEW n \in Names, bot.pc = "idle", RemoveLookup(n)
       PROVE  AddShape'
  BY <1>10 DEF RemoveLookup, RemoveNamed, Job, Adding
<1>11. ASSUME NEW i \in Ids, bot.pc = "idle", "remove id" \in Commands,
              RemoveLookupId(i)
       PROVE  AddShape'
  BY <1>11 DEF RemoveLookupId, Job, Adding
<1>12. ASSUME bot.pc = "idle", RemoveNotFound
       PROVE  AddShape'
  BY <1>12 DEF RemoveNotFound, Unlocked, Return, Idle, Adding
<1>13. ASSUME RemoveStop
       PROVE  AddShape'
  BY <1>13 DEF RemoveStop, Job, Adding
<1>14. ASSUME RemoveDelete
       PROVE  AddShape'
  BY <1>14 DEF RemoveDelete, Return, Idle, Adding
<1>15. ASSUME NEW n \in Names, bot.pc = "idle", RestartLookup(n)
       PROVE  AddShape'
  BY <1>15 DEF RestartLookup, Job, Adding
<1>16. ASSUME RestartStop
       PROVE  AddShape'
  BY <1>16 DEF RestartStop, Job, Adding
<1>17. ASSUME RestartStart
       PROVE  AddShape'
  <2>1. bot' = Idle
    BY <1>17, RestartStartDoes
  <2>2. QED
    BY <2>1 DEF Adding, Idle
<1>18. ASSUME NEW n \in Names, NEW u \in Ports, bot.pc = "idle", AddUDPCheck(n, u)
       PROVE  AddShape'
  BY <1>18 DEF AddUDPCheck, Job, Adding
<1>19. ASSUME AddUDPPersist
       PROVE  AddShape'
  <2>1. bot' = Job("udp start", bot.id, bot.arg)
    BY <1>19, AddUDPPersistDoes
  <2>2. QED
    BY <2>1 DEF Adding, Job
<1>20. ASSUME AddUDPStart
       PROVE  AddShape'
  BY <1>20 DEF AddUDPStart, Return, Idle, Adding
<1>21. ASSUME NEW n \in Names, bot.pc = "idle", RemoveUDPClose(n)
       PROVE  AddShape'
  <2>1. bot' = Job("udp clear", Get(n), NoPort)
    BY <1>21, RemoveUDPCloseDoes
  <2>2. QED
    BY <2>1 DEF Adding, Job
<1>22. ASSUME RemoveUDPClear
       PROVE  AddShape'
  <2>1. bot' = Idle
    BY <1>22, RemoveUDPClearDoes
  <2>2. QED
    BY <2>1 DEF Adding, Idle
<1>23. ASSUME NEW n \in Names, NEW m \in Modes, bot.pc = "idle", ForwardPersist(n, m)
       PROVE  AddShape'
  <2>1. bot' = Job("forward set", Get(n), m)
    BY <1>23, ForwardPersistDoes
  <2>2. QED
    BY <2>1 DEF Adding, Job
<1>24. ASSUME ForwardSet
       PROVE  AddShape'
  <2>1. bot' = Idle
    BY <1>24, ForwardSetDoes
  <2>2. QED
    BY <2>1 DEF Adding, Idle
<1>25. ASSUME UpdateFails
       PROVE  AddShape'
  BY <1>25 DEF UpdateFails, Return, Idle, Adding
<1>26. CASE UNCHANGED <<rows, model, life, fwd, reg, bot>>
  BY <1>26, <1>a DEF AddShape, Adding
<1>27. QED
  BY <1>1, <1>2, <1>3, <1>4, <1>5, <1>6, <1>7, <1>8, <1>9, <1>10, <1>11, <1>12, <1>13,
     <1>14, <1>15, <1>16, <1>17, <1>18, <1>19, <1>20, <1>21, <1>22, <1>23, <1>24,
     <1>25, <1>26
     DEF Next, MainStep, Command, NewCommand, cmdAdd, handleCallback, cmdRestart,
         cmdAddUDP, cmdRemoveUDP, cmdForward, BotStep, Exit, Crash, vars, Boot,
         Signal, ShutdownBegin, ShutdownEnd

(* A backend is not taken out of the registry while a command works on it. *)
LEMMA JobFoundStep ==
    ManagerInv /\ [Next]_vars => JobFound'
<1> SUFFICES ASSUME ManagerInv, [Next]_vars, bot'.pc \in Working
             PROVE  \E k \in Keys : reg'[k] = bot'.id
  BY DEF JobFound
<1>0. /\ bot.pc \in Working => \E k \in Keys : reg[k] = bot.id
      /\ main = "boot" => bot.pc = "off"
      /\ \A n \in Names : Key[n] \in Keys
  BY KeyTypes DEF ManagerInv, JobShape, JobFound, LockShape
<1>1. ASSUME NEW i \in Ids, StartOne(i)
       PROVE  \E k \in Keys : reg'[k] = bot'.id
  <2>1. main = "boot" /\ bot' = bot
    BY <1>1, StartOneDoes
  <2>2. QED
    BY <2>1, <1>0 DEF Working
<1>2. ASSUME BootDone
       PROVE  \E k \in Keys : reg'[k] = bot'.id
  BY <1>2 DEF BootDone, Idle, Working
<1>3. ASSUME BotExit
       PROVE  \E k \in Keys : reg'[k] = bot'.id
  BY <1>3 DEF BotExit, Off, Working
<1>4. ASSUME NoRuntime, main' = "off", UNCHANGED <<rows, lastId, boots>>
       PROVE  \E k \in Keys : reg'[k] = bot'.id
  BY <1>4 DEF NoRuntime, Off, Working
<1>5. ASSUME NEW n \in Names, NEW p \in Ports, NEW u \in UdpPorts, bot.pc = "idle",
             AddPersist(n, p, u)
       PROVE  \E k \in Keys : reg'[k] = bot'.id
  <2>1. bot' = Job("add start", lastId + 1, NoPort)
    BY <1>5, AddPersistDoes
  <2>2. QED
    BY <2>1 DEF Job, Working
<1>6. ASSUME AddRollback
       PROVE  \E k \in Keys : reg'[k] = bot'.id
  BY <1>6 DEF AddRollback, Return, Idle, Working
<1>7. ASSUME AddStart
       PROVE  \E k \in Keys : reg'[k] = bot'.id
  <2>1. bot' = Job("add publish", bot.id, NoPort)
    BY <1>7, AddStartDoes
  <2>2. QED
    BY <2>1 DEF Job, Working
<1>8. ASSUME AddPublish
       PROVE  \E k \in Keys : reg'[k] = bot'.id
  BY <1>8 DEF AddPublish, Return, Idle, Working
<1>9. ASSUME NEW n \in Names, bot.pc = "idle", RemoveLookup(n)
       PROVE  \E k \in Keys : reg'[k] = bot'.id
  BY <1>9 DEF RemoveLookup, RemoveNamed, Job, Working
<1>10. ASSUME NEW i \in Ids, bot.pc = "idle", "remove id" \in Commands,
              RemoveLookupId(i)
       PROVE  \E k \in Keys : reg'[k] = bot'.id
  BY <1>10 DEF RemoveLookupId, Job, Working
<1>11. ASSUME bot.pc = "idle", RemoveNotFound
       PROVE  \E k \in Keys : reg'[k] = bot'.id
  BY <1>11 DEF RemoveNotFound, Return, Idle, Working
<1>12. ASSUME RemoveStop
       PROVE  \E k \in Keys : reg'[k] = bot'.id
  BY <1>12 DEF RemoveStop, Job, Working
<1>13. ASSUME RemoveDelete
       PROVE  \E k \in Keys : reg'[k] = bot'.id
  BY <1>13 DEF RemoveDelete, Return, Idle, Working
<1>14. ASSUME NEW n \in Names, bot.pc = "idle", RestartLookup(n)
       PROVE  \E k \in Keys : reg'[k] = bot'.id
  BY <1>14, <1>0 DEF RestartLookup, Get, Job
<1>15. ASSUME RestartStop
       PROVE  \E k \in Keys : reg'[k] = bot'.id
  BY <1>15, <1>0 DEF RestartStop, Job, Working
<1>16. ASSUME RestartStart
       PROVE  \E k \in Keys : reg'[k] = bot'.id
  <2>1. bot' = Idle
    BY <1>16, RestartStartDoes
  <2>2. QED
    BY <2>1 DEF Idle, Working
<1>17. ASSUME NEW n \in Names, NEW u \in Ports, bot.pc = "idle", AddUDPCheck(n, u)
       PROVE  \E k \in Keys : reg'[k] = bot'.id
  BY <1>17, <1>0 DEF AddUDPCheck, Get, Job
<1>18. ASSUME AddUDPPersist
       PROVE  \E k \in Keys : reg'[k] = bot'.id
  <2>1. bot.pc = "udp persist" /\ bot' = Job("udp start", bot.id, bot.arg) /\ reg' = reg
    BY <1>18, AddUDPPersistDoes
  <2>2. QED
    BY <2>1, <1>0 DEF Job, Working
<1>19. ASSUME AddUDPStart
       PROVE  \E k \in Keys : reg'[k] = bot'.id
  BY <1>19 DEF AddUDPStart, Return, Idle, Working
<1>20. ASSUME NEW n \in Names, bot.pc = "idle", RemoveUDPClose(n)
       PROVE  \E k \in Keys : reg'[k] = bot'.id
  <2>1. bot' = Job("udp clear", Get(n), NoPort) /\ reg' = reg
    BY <1>20, RemoveUDPCloseDoes
  <2>2. QED
    BY <2>1, <1>0 DEF Job, Get
<1>21. ASSUME RemoveUDPClear
       PROVE  \E k \in Keys : reg'[k] = bot'.id
  <2>1. bot' = Idle
    BY <1>21, RemoveUDPClearDoes
  <2>2. QED
    BY <2>1 DEF Idle, Working
<1>22. ASSUME NEW n \in Names, NEW m \in Modes, bot.pc = "idle", ForwardPersist(n, m)
       PROVE  \E k \in Keys : reg'[k] = bot'.id
  <2>1. bot' = Job("forward set", Get(n), m) /\ reg' = reg
    BY <1>22, ForwardPersistDoes
  <2>2. QED
    BY <2>1, <1>0 DEF Job, Get
<1>23. ASSUME ForwardSet
       PROVE  \E k \in Keys : reg'[k] = bot'.id
  <2>1. bot' = Idle
    BY <1>23, ForwardSetDoes
  <2>2. QED
    BY <2>1 DEF Idle, Working
<1>24. ASSUME UpdateFails
       PROVE  \E k \in Keys : reg'[k] = bot'.id
  BY <1>24 DEF UpdateFails, Return, Idle, Working
<1>25. CASE UNCHANGED <<reg, bot>>
  BY <1>25, <1>0
<1>26. QED
  BY <1>1, <1>2, <1>3, <1>4, <1>5, <1>6, <1>7, <1>8, <1>9, <1>10, <1>11, <1>12, <1>13,
     <1>14, <1>15, <1>16, <1>17, <1>18, <1>19, <1>20, <1>21, <1>22, <1>23, <1>24,
     <1>25
     DEF Next, MainStep, Command, NewCommand, cmdAdd, handleCallback, cmdRestart,
         cmdAddUDP, cmdRemoveUDP, cmdForward, BotStep, Exit, Crash, vars, Boot,
         Signal, ShutdownBegin, ShutdownOne, ShutdownEnd

(* The steps of a command follow each other.                               *)
LEMMA JobDoneStep ==
    ManagerInv /\ [Next]_vars => JobDone'
<1> SUFFICES ASSUME ManagerInv, [Next]_vars
             PROVE  JobDone'
  OBVIOUS
<1>0. /\ JobDone /\ WhatIsThere /\ (main = "boot" => bot.pc = "off")
  BY JobFacts DEF ManagerInv, JobShape, LockShape
<1>a. /\ rows \in Table /\ model \in Table
      /\ life \in [Ids -> {"none", "running", "stopped"}] /\ fwd \in [Ids -> BOOLEAN]
      /\ NoId \notin Ids /\ NoRow \notin Rows
      /\ \A k \in Keys : reg[k] # NoId => reg[k] \in Ids /\ model[reg[k]] # NoRow
  BY NoRowFacts DEF ManagerInv, Types, RegShape, RegKeys
<1>1. ASSUME NEW i \in Ids, StartOne(i)
       PROVE  JobDone'
  <2>1. main = "boot" /\ bot' = bot
    BY <1>1, StartOneDoes
  <2>2. QED
    BY <2>1, <1>0 DEF JobDone, Removing
<1>2. ASSUME BootDone
       PROVE  JobDone'
  BY <1>2 DEF BootDone, Idle, JobDone, Removing
<1>3. ASSUME NEW i \in Ids, ShutdownOne(i)
       PROVE  JobDone'
  <2>1. bot.pc = "remove delete" => bot.id \in Ids
    BY <1>0 DEF WhatIsThere, Removing
  <2>2. UNCHANGED <<rows, model, bot>>
    BY <1>3 DEF ShutdownOne
  <2>3. bot.pc = "remove delete" => life'[bot.id] # "running" /\ ~fwd'[bot.id]
    BY <1>3, <2>1, <1>0, <1>a DEF ShutdownOne, JobDone
  <2>4. QED
    BY <2>2, <2>3, <1>0 DEF JobDone, Removing
<1>4. ASSUME BotExit
       PROVE  JobDone'
  BY <1>4 DEF BotExit, Off, JobDone, Removing
<1>5. ASSUME NoRuntime, main' = "off", UNCHANGED <<rows, lastId, boots>>
       PROVE  JobDone'
  BY <1>5 DEF NoRuntime, Off, JobDone, Removing
<1>6. ASSUME NEW n \in Names, NEW p \in Ports, NEW u \in UdpPorts, bot.pc = "idle",
             AddPersist(n, p, u)
       PROVE  JobDone'
  <2>1. bot' = Job("add start", lastId + 1, NoPort)
    BY <1>6, AddPersistDoes
  <2>2. QED
    BY <2>1 DEF Job, JobDone, Removing
<1>7. ASSUME AddRollback
       PROVE  JobDone'
  BY <1>7 DEF AddRollback, Return, Idle, JobDone, Removing
<1>8. ASSUME AddStart
       PROVE  JobDone'
  <2>1. bot' = Job("add publish", bot.id, NoPort)
    BY <1>8, AddStartDoes
  <2>2. QED
    BY <2>1 DEF Job, JobDone, Removing
<1>9. ASSUME AddPublish
       PROVE  JobDone'
  BY <1>9 DEF AddPublish, Return, Idle, JobDone, Removing
<1>10. ASSUME NEW n \in Names, bot.pc = "idle", RemoveLookup(n)
       PROVE  JobDone'
  <2>1. model[Get(n)] # NoRow
    BY <1>10, <1>0, <1>a DEF RemoveLookup, RemoveNamed, existsLocked, WhatIsThere
  <2>2. QED
    BY <1>10, <2>1 DEF RemoveLookup, RemoveNamed, Job, JobDone
<1>11. ASSUME NEW i \in Ids, bot.pc = "idle", "remove id" \in Commands,
              RemoveLookupId(i)
       PROVE  JobDone'
  <2>1. model[i] # NoRow
    BY <1>11, <1>a DEF RemoveLookupId, Mapped
  <2>2. QED
    BY <1>11, <2>1 DEF RemoveLookupId, Job, JobDone
<1>12. ASSUME bot.pc = "idle", RemoveNotFound
       PROVE  JobDone'
  BY <1>12 DEF RemoveNotFound, Return, Idle, JobDone, Removing
<1>13. ASSUME RemoveStop
       PROVE  JobDone'
  <2>1. bot.id \in Ids /\ model[bot.id] # NoRow
    BY <1>13, <1>0, <1>a DEF RemoveStop, WhatIsThere, Removing
  <2>2. QED
    BY <1>13, <2>1, <1>a DEF RemoveStop, Job, JobDone
<1>14. ASSUME RemoveDelete
       PROVE  JobDone'
  BY <1>14 DEF RemoveDelete, Return, Idle, JobDone, Removing
<1>15. ASSUME NEW n \in Names, bot.pc = "idle", RestartLookup(n)
       PROVE  JobDone'
  BY <1>15 DEF RestartLookup, Job, JobDone, Removing
<1>16. ASSUME RestartStop
       PROVE  JobDone'
  BY <1>16 DEF RestartStop, Job, JobDone, Removing
<1>17. ASSUME RestartStart
       PROVE  JobDone'
  <2>1. bot' = Idle
    BY <1>17, RestartStartDoes
  <2>2. QED
    BY <2>1 DEF JobDone, Idle, Removing
<1>18. ASSUME NEW n \in Names, NEW u \in Ports, bot.pc = "idle", AddUDPCheck(n, u)
       PROVE  JobDone'
  BY <1>18 DEF AddUDPCheck, Job, JobDone, Removing
<1>19. ASSUME AddUDPPersist
       PROVE  JobDone'
  <2>1. /\ bot' = Job("udp start", bot.id, bot.arg) /\ bot.arg \in Ports
        /\ model'[bot.id].udp = bot.arg
    BY <1>19, AddUDPPersistDoes
  <2>2. QED
    BY <2>1 DEF Job, JobDone, Removing
<1>20. ASSUME AddUDPStart
       PROVE  JobDone'
  BY <1>20 DEF AddUDPStart, Return, Idle, JobDone, Removing
<1>21. ASSUME NEW n \in Names, bot.pc = "idle", RemoveUDPClose(n)
       PROVE  JobDone'
  <2>1. bot' = Job("udp clear", Get(n), NoPort) /\ model'[Get(n)].udp = NoPort
    BY <1>21, RemoveUDPCloseDoes
  <2>2. QED
    BY <2>1 DEF Job, JobDone, Removing
<1>22. ASSUME RemoveUDPClear
       PROVE  JobDone'
  <2>1. bot' = Idle
    BY <1>22, RemoveUDPClearDoes
  <2>2. QED
    BY <2>1 DEF JobDone, Idle, Removing
<1>23. ASSUME NEW n \in Names, NEW m \in Modes, bot.pc = "idle", ForwardPersist(n, m)
       PROVE  JobDone'
  <2>1. /\ bot' = Job("forward set", Get(n), m)
        /\ rows'[Get(n)] # NoRow => rows'[Get(n)].mode = m
    BY <1>23, ForwardPersistDoes
  <2>2. bot'.pc = "forward set" /\ bot'.id = Get(n) /\ bot'.arg = m
    BY <2>1 DEF Job
  <2>3. QED
    BY <2>1, <2>2 DEF JobDone, Removing
<1>24. ASSUME ForwardSet
       PROVE  JobDone'
  <2>1. bot' = Idle
    BY <1>24, ForwardSetDoes
  <2>2. QED
    BY <2>1 DEF JobDone, Idle, Removing
<1>25. ASSUME UpdateFails
       PROVE  JobDone'
  BY <1>25 DEF UpdateFails, Return, Idle, JobDone, Removing
<1>26. CASE UNCHANGED <<rows, model, life, fwd, bot>>
  BY <1>26, <1>0 DEF JobDone, Removing
<1>27. QED
  BY <1>1, <1>2, <1>3, <1>4, <1>5, <1>6, <1>7, <1>8, <1>9, <1>10, <1>11, <1>12, <1>13,
     <1>14, <1>15, <1>16, <1>17, <1>18, <1>19, <1>20, <1>21, <1>22, <1>23, <1>24,
     <1>25, <1>26
     DEF Next, MainStep, Command, NewCommand, cmdAdd, handleCallback, cmdRestart,
         cmdAddUDP, cmdRemoveUDP, cmdForward, BotStep, Exit, Crash, vars, Boot,
         Signal, ShutdownBegin, ShutdownEnd

(* A backend is registered with a port no registered backend has.          *)
LEMMA KeyPortsStep ==
    ManagerInv /\ [Next]_vars => KeyPorts'
<1> SUFFICES ASSUME ManagerInv, [Next]_vars, NEW k \in Keys, NEW l \in Keys, k # l,
                    reg'[k] # NoId, reg'[l] # NoId
             PROVE  model'[reg'[k]].port # model'[reg'[l]].port
  BY DEF KeyPorts
<1>0. /\ reg[k] # NoId /\ reg[l] # NoId => model[reg[k]].port # model[reg[l]].port
      /\ \A j \in Keys : reg[j] # NoId => reg[j] \in Ids
      /\ NoId \notin Ids /\ NoRow \notin Rows
  BY JobFacts, NoRowFacts DEF ManagerInv, KeyPorts, WhatIsThere
<1>a. /\ model \in Table /\ reg \in [Keys -> Ids \union {NoId}]
      /\ life \in [Ids -> {"none", "running", "stopped"}] /\ fwd \in [Ids -> BOOLEAN]
  BY DEF ManagerInv, Types
<1>1. ASSUME NEW i \in Ids, StartOne(i)
       PROVE  model'[reg'[k]].port # model'[reg'[l]].port
  <2>1. CASE UNCHANGED <<model, reg>>
    BY <2>1, <1>0
  <2>2. CASE /\ Started(i, rows[i]) /\ TcpFree(rows[i].port)
             /\ reg' = [reg EXCEPT ![Key[rows[i].name]] = i]
    <3>1. rows[i] \in Rows /\ i \in todo /\ main = "boot"
      BY <1>1, StartOneDoes
    <3>2. model'[i] = rows[i] /\ \A j \in Ids : j # i => model'[j] = model[j]
      BY <2>2, <3>1, <1>a, StartedFacts
    <3>3. \A j \in Keys : reg[j] # NoId =>
             reg[j] # i /\ life[reg[j]] = "running"
      BY <3>1 DEF ManagerInv, RegShape, RegBoot
    <3>4. \A j \in Keys : reg[j] # NoId => model[reg[j]].port # rows[i].port
      BY <2>2, <3>3, <1>0 DEF TcpFree
    <3>5. /\ reg'[k] = reg[k] \/ (reg'[k] = i /\ k = Key[rows[i].name])
          /\ reg'[l] = reg[l] \/ (reg'[l] = i /\ l = Key[rows[i].name])
      BY <2>2, <1>a
    <3>6. QED
      BY <3>2, <3>3, <3>4, <3>5, <1>0
  <2>3. QED
    BY <1>1, <2>1, <2>2, StartOneDoes
<1>2. ASSUME NoRuntime, main' = "off", UNCHANGED <<rows, lastId, boots>>
       PROVE  model'[reg'[k]].port # model'[reg'[l]].port
  BY <1>2, <1>0, <1>a DEF NoRuntime, Off
<1>3. ASSUME AddStart
       PROVE  model'[reg'[k]].port # model'[reg'[l]].port
  <2>1. /\ bot.pc = "add start" /\ bot.id \in Ids /\ rows[bot.id] \in Rows
        /\ Started(bot.id, rows[bot.id]) /\ reg' = reg
    BY <1>3, AddStartDoes
  <2>2. \A j \in Keys : reg[j] # NoId => reg[j] # bot.id
    BY <2>1 DEF ManagerInv, AddShape, Adding
  <2>3. \A j \in Ids : j # bot.id => model'[j] = model[j]
    BY <2>1, <1>a, StartedFacts
  <2>4. QED
    BY <2>1, <2>2, <2>3, <1>0
<1>4. ASSUME AddPublish
       PROVE  model'[reg'[k]].port # model'[reg'[l]].port
  <2>1. /\ model[bot.id] = rows[bot.id]
        /\ \A j \in Keys : reg[j] # NoId => model[reg[j]].port # rows[bot.id].port
    BY <1>4 DEF AddPublish, ManagerInv, AddShape, Adding
  <2>2. model' = model /\ reg' = [reg EXCEPT ![Key[model[bot.id].name]] = bot.id]
    BY <1>4 DEF AddPublish
  <2>3. QED
    BY <2>1, <2>2, <1>0, <1>a
<1>5. ASSUME NEW n \in Names, bot.pc = "idle", RemoveLookup(n)
       PROVE  model'[reg'[k]].port # model'[reg'[l]].port
  BY <1>5, <1>0, <1>a DEF RemoveLookup, RemoveNamed, Unregistered
<1>6. ASSUME RestartStart
       PROVE  model'[reg'[k]].port # model'[reg'[l]].port
  <2>1. bot.id \in Ids /\ reg' = reg
    BY <1>6, RestartStartDoes
  <2>2. CASE UNCHANGED <<model, life, fwd>>
    BY <2>1, <2>2, <1>0
  <2>3. CASE Started(bot.id, model[bot.id])
    <3>1. model' = [model EXCEPT ![bot.id] = model[bot.id]]
      BY <2>3 DEF Started
    <3>2. QED
      BY <2>1, <3>1, <1>0, <1>a DEF Table
  <2>4. QED
    BY <1>6, <2>2, <2>3, RestartStartDoes
<1>7. ASSUME AddUDPPersist
       PROVE  model'[reg'[k]].port # model'[reg'[l]].port
  <2>1. /\ model'[bot.id].port = model[bot.id].port /\ reg' = reg
        /\ \A j \in Ids : j # bot.id => model'[j] = model[j]
    BY <1>7, AddUDPPersistDoes DEF SameBut
  <2>2. QED
    BY <2>1, <1>0
<1>8. ASSUME NEW n \in Names, bot.pc = "idle", RemoveUDPClose(n)
       PROVE  model'[reg'[k]].port # model'[reg'[l]].port
  <2>1. /\ model'[Get(n)].port = model[Get(n)].port /\ reg' = reg
        /\ \A j \in Ids : j # Get(n) => model'[j] = model[j]
    BY <1>8, RemoveUDPCloseDoes DEF SameBut
  <2>2. QED
    BY <2>1, <1>0
<1>9. ASSUME ForwardSet
       PROVE  model'[reg'[k]].port # model'[reg'[l]].port
  <2>1. /\ model'[bot.id].port = model[bot.id].port /\ reg' = reg
        /\ \A j \in Ids : j # bot.id => model'[j] = model[j]
    BY <1>9, ForwardSetDoes DEF SameBut
  <2>2. QED
    BY <2>1, <1>0
<1>10. CASE UNCHANGED <<model, reg>>
  BY <1>10, <1>0, <1>a
<1>11. QED
  BY <1>1, <1>2, <1>3, <1>4, <1>5, <1>6, <1>7, <1>8, <1>9, <1>10
     DEF Next, MainStep, Command, NewCommand, cmdAdd, handleCallback, cmdRestart,
         cmdAddUDP, cmdRemoveUDP, cmdForward, BotStep, Exit, Crash, vars, Boot,
         BootDone, Signal, ShutdownBegin, ShutdownOne, ShutdownEnd, BotExit,
         AddPersist, AddBackend, AddRollback, RemoveLookupId, RemoveNotFound,
         RemoveStop, RemoveDelete, RestartLookup, RestartStop, AddUDPCheck,
         AddUDPStart, RemoveUDPClear, ForwardPersist, UpdateFails

(* The row and the copy get the same mode, one after the other.            *)
LEMMA KeyModesStep ==
    ManagerInv /\ [Next]_vars => KeyModes'
<1> SUFFICES ASSUME ManagerInv, [Next]_vars, NEW k \in Keys
             PROVE  ModeOf(k)'
  BY DEF KeyModes
<1>0. /\ ModeOf(k) /\ (main = "boot" => bot.pc = "off")
      /\ reg[k] # NoId => reg[k] \in Ids
      /\ NoId \notin Ids /\ NoRow \notin Rows
  BY JobFacts, NoRowFacts DEF ManagerInv, KeyModes, LockShape, WhatIsThere
<1>a. /\ model \in Table /\ rows \in Table /\ reg \in [Keys -> Ids \union {NoId}]
      /\ life \in [Ids -> {"none", "running", "stopped"}] /\ fwd \in [Ids -> BOOLEAN]
  BY DEF ManagerInv, Types
<1> USE DEF ModeOf
<1>1. ASSUME NEW i \in Ids, StartOne(i)
       PROVE  ModeOf(k)'
  <2>0. rows[i] \in Rows /\ rows' = rows /\ bot' = bot /\ main = "boot" /\ i \in todo
    BY <1>1, StartOneDoes
  <2>1. CASE UNCHANGED <<model, reg>>
    BY <2>0, <2>1, <1>0
  <2>2. CASE /\ Started(i, rows[i])
             /\ reg' = [reg EXCEPT ![Key[rows[i].name]] = i]
    <3>1. model'[i] = rows[i] /\ \A j \in Ids : j # i => model'[j] = model[j]
      BY <2>0, <2>2, <1>a, StartedFacts
    <3>2. reg'[k] = i \/ reg'[k] = reg[k]
      BY <2>2, <1>a
    <3>3. QED
      BY <2>0, <3>1, <3>2, <1>0
  <2>3. QED
    BY <1>1, <2>1, <2>2, StartOneDoes
<1>2. ASSUME BootDone
       PROVE  ModeOf(k)'
  BY <1>2, <1>0 DEF BootDone, Idle
<1>3. ASSUME BotExit
       PROVE  ModeOf(k)'
  BY <1>3, <1>0 DEF BotExit, Off
<1>4. ASSUME NoRuntime, main' = "off", UNCHANGED <<rows, lastId, boots>>
       PROVE  ModeOf(k)'
  BY <1>4 DEF NoRuntime
<1>5. ASSUME NEW n \in Names, NEW p \in Ports, NEW u \in UdpPorts, bot.pc = "idle",
             AddPersist(n, p, u)
       PROVE  ModeOf(k)'
  <2>1. /\ rows' = [rows EXCEPT ![lastId + 1] =
                    [name |-> n, port |-> p, udp |-> u, mode |-> Raw]]
        /\ UNCHANGED <<model, reg>> /\ lastId + 1 \in Ids
    BY <1>5, AddPersistDoes
  <2>2. reg[k] # NoId => reg[k] # lastId + 1
    <3>1. lastId \in Int
      BY BoundsAssumption DEF ManagerInv, Types
    <3>2. lastId + 1 > lastId
      BY <3>1
    <3>3. model[lastId + 1] = NoRow
      BY <2>1, <3>2 DEF ManagerInv, RowShape, Fresh
    <3>4. QED
      BY <3>3 DEF ManagerInv, RegShape, RegKeys
  <2>3. QED
    BY <1>5, <2>1, <2>2, <1>0, <1>a DEF Table
<1>6. ASSUME AddRollback
       PROVE  ModeOf(k)'
  <2>1. /\ bot.id \in Ids /\ DeleteBackend(bot.id) /\ UNCHANGED <<model, reg>>
        /\ bot.pc # "forward set"
    BY <1>6, JobFacts DEF AddRollback, WhatIsThere, Adding
  <2>2. QED
    BY <2>1, <1>0, DeleteDoes
<1>7. ASSUME AddStart
       PROVE  ModeOf(k)'
  <2>1. /\ bot.pc = "add start" /\ bot.id \in Ids /\ rows[bot.id] \in Rows
        /\ Started(bot.id, rows[bot.id]) /\ reg' = reg /\ rows' = rows
    BY <1>7, AddStartDoes
  <2>2. \A j \in Keys : reg[j] # NoId => reg[j] # bot.id
    BY <2>1 DEF ManagerInv, AddShape, Adding
  <2>3. \A j \in Ids : j # bot.id => model'[j] = model[j]
    BY <2>1, <1>a, StartedFacts
  <2>4. QED
    BY <2>1, <2>2, <2>3, <1>0
<1>8. ASSUME AddPublish
       PROVE  ModeOf(k)'
  <2>1. model[bot.id] = rows[bot.id] /\ bot.pc # "forward set"
    BY <1>8 DEF AddPublish, ManagerInv, AddShape, Adding
  <2>2. /\ UNCHANGED <<rows, model>>
        /\ reg' = [reg EXCEPT ![Key[model[bot.id].name]] = bot.id]
    BY <1>8 DEF AddPublish
  <2>3. QED
    BY <2>1, <2>2, <1>0, <1>a
<1>9. ASSUME NEW n \in Names, bot.pc = "idle", RemoveLookup(n)
       PROVE  ModeOf(k)'
  BY <1>9, <1>0, <1>a DEF RemoveLookup, RemoveNamed, Unregistered, Job
<1>10. ASSUME NEW i \in Ids, bot.pc = "idle", "remove id" \in Commands,
              RemoveLookupId(i)
       PROVE  ModeOf(k)'
  BY <1>10, <1>0 DEF RemoveLookupId, Job
<1>11. ASSUME bot.pc = "idle", RemoveNotFound
       PROVE  ModeOf(k)'
  BY <1>11, <1>0 DEF RemoveNotFound, Return, Idle
<1>12. ASSUME RemoveStop
       PROVE  ModeOf(k)'
  BY <1>12, <1>0 DEF RemoveStop, Job
<1>13. ASSUME RemoveDelete
       PROVE  ModeOf(k)'
  <2>1. /\ bot.id \in Ids /\ DeleteBackend(bot.id) /\ UNCHANGED <<model, reg>>
        /\ bot.pc # "forward set"
    BY <1>13, JobFacts DEF RemoveDelete, WhatIsThere, Removing
  <2>2. QED
    BY <2>1, <1>0, DeleteDoes
<1>14. ASSUME NEW n \in Names, bot.pc = "idle", RestartLookup(n)
       PROVE  ModeOf(k)'
  BY <1>14, <1>0 DEF RestartLookup, Job
<1>15. ASSUME RestartStop
       PROVE  ModeOf(k)'
  BY <1>15, <1>0 DEF RestartStop, Job
<1>16. ASSUME RestartStart
       PROVE  ModeOf(k)'
  <2>1. /\ bot.id \in Ids /\ UNCHANGED <<rows, reg>> /\ bot.pc = "restart start"
    BY <1>16, RestartStartDoes
  <2>2. CASE UNCHANGED <<model, life, fwd>>
    BY <2>1, <2>2, <1>0
  <2>3. CASE Started(bot.id, model[bot.id])
    <3>1. model' = [model EXCEPT ![bot.id] = model[bot.id]]
      BY <2>3 DEF Started
    <3>2. QED
      BY <2>1, <3>1, <1>0, <1>a DEF Table
  <2>4. QED
    BY <1>16, <2>2, <2>3, RestartStartDoes
<1>17. ASSUME NEW n \in Names, NEW u \in Ports, bot.pc = "idle", AddUDPCheck(n, u)
       PROVE  ModeOf(k)'
  BY <1>17, <1>0 DEF AddUDPCheck, Job
<1>18. ASSUME AddUDPPersist
       PROVE  ModeOf(k)'
  <2>1. /\ model'[bot.id].mode = model[bot.id].mode /\ reg' = reg
        /\ rows'[bot.id] # NoRow =>
             rows[bot.id] # NoRow /\ rows'[bot.id].mode = rows[bot.id].mode
        /\ bot.pc = "udp persist"
    BY <1>18, AddUDPPersistDoes
  <2>2. \A j \in Ids : j # bot.id => model'[j] = model[j] /\ rows'[j] = rows[j]
    BY <1>18, AddUDPPersistDoes DEF SameBut
  <2>3. QED
    BY <2>1, <2>2, <1>0
<1>19. ASSUME AddUDPStart
       PROVE  ModeOf(k)'
  BY <1>19, <1>0 DEF AddUDPStart, Return, Idle
<1>20. ASSUME NEW n \in Names, bot.pc = "idle", RemoveUDPClose(n)
       PROVE  ModeOf(k)'
  <2>1. /\ model'[Get(n)].mode = model[Get(n)].mode /\ UNCHANGED <<rows, reg>>
        /\ \A j \in Ids : j # Get(n) => model'[j] = model[j]
    BY <1>20, RemoveUDPCloseDoes DEF SameBut
  <2>2. QED
    BY <1>20, <2>1, <1>0
<1>21. ASSUME RemoveUDPClear
       PROVE  ModeOf(k)'
  <2>1. /\ UNCHANGED <<model, reg>> /\ bot.pc = "udp clear"
        /\ rows'[bot.id] # NoRow =>
             rows[bot.id] # NoRow /\ rows'[bot.id].mode = rows[bot.id].mode
    BY <1>21, RemoveUDPClearDoes
  <2>2. \A j \in Ids : j # bot.id => rows'[j] = rows[j]
    BY <1>21, RemoveUDPClearDoes DEF SameBut
  <2>3. QED
    BY <2>1, <2>2, <1>0
<1>22. ASSUME NEW n \in Names, NEW m \in Modes, bot.pc = "idle", ForwardPersist(n, m)
       PROVE  ModeOf(k)'
  <2>1. /\ UNCHANGED <<model, reg>> /\ bot' = Job("forward set", Get(n), m)
    BY <1>22, ForwardPersistDoes
  <2>2. \A j \in Ids : j # Get(n) => rows'[j] = rows[j]
    BY <1>22, ForwardPersistDoes DEF SameBut
  <2>3. QED
    BY <1>22, <2>1, <2>2, <1>0 DEF Job
<1>23. ASSUME ForwardSet
       PROVE  ModeOf(k)'
  <2>1. /\ UNCHANGED <<rows, reg>> /\ model'[bot.id].mode = bot.arg
        /\ bot.pc = "forward set"
    BY <1>23, ForwardSetDoes
  <2>2. \A j \in Ids : j # bot.id => model'[j] = model[j]
    BY <1>23, ForwardSetDoes DEF SameBut
  <2>3. rows[bot.id] # NoRow => rows[bot.id].mode = bot.arg
    BY <2>1 DEF ManagerInv, JobShape, JobDone
  <2>4. QED
    BY <2>1, <2>2, <2>3, <1>0
<1>24. ASSUME UpdateFails
       PROVE  ModeOf(k)'
  BY <1>24, <1>0 DEF UpdateFails, Return, Idle
<1>25. CASE UNCHANGED <<rows, model, reg, bot>>
  BY <1>25, <1>0, <1>a
<1> HIDE DEF ModeOf
<1>26. QED
  BY <1>1, <1>2, <1>3, <1>4, <1>5, <1>6, <1>7, <1>8, <1>9, <1>10, <1>11, <1>12, <1>13,
     <1>14, <1>15, <1>16, <1>17, <1>18, <1>19, <1>20, <1>21, <1>22, <1>23, <1>24,
     <1>25
     DEF Next, MainStep, Command, NewCommand, cmdAdd, handleCallback, cmdRestart,
         cmdAddUDP, cmdRemoveUDP, cmdForward, BotStep, Exit, Crash, vars, Boot,
         Signal, ShutdownBegin, ShutdownOne, ShutdownEnd

-----------------------------------------------------------------------------
(* The first boot finds an empty database.                                 *)
LEMMA ManagerInit ==
    Init => ManagerInv
<1> SUFFICES ASSUME Init
             PROVE  ManagerInv
  OBVIOUS
<1> USE DEF Init
<1>1. Types
  BY JobTypes, BoundsAssumption DEF Types, Table
<1>2. LockShape
  BY DEF LockShape, Off, Adding, Removing, Working
<1>3. RowShape
  BY DEF RowShape, Fresh, NamesUnique
<1>4. CopyShape
  BY DEF CopyShape, RunsFromCopy, CopyAgrees, CopyOf
<1>5. RegShape /\ KeyPorts /\ KeyModes
  BY DEF RegShape, RegKeys, RegBoot, KeyPorts, KeyModes, ModeOf
<1>6. BootShape
  BY DEF BootShape, OffShape, TodoShape, Needed
<1>7. AddShape /\ JobShape
  BY DEF AddShape, JobShape, JobFound, JobDone, Off, Adding, Removing, Working
<1>8. QED
  BY <1>1, <1>2, <1>3, <1>4, <1>5, <1>6, <1>7 DEF ManagerInv

LEMMA ManagerStep ==
    ManagerInv /\ [Next]_vars => ManagerInv'
  BY TypesStep, LockShapeStep, FreshStep, NamesUniqueStep, RunsFromCopyStep,
     CopyAgreesStep, RegKeysStep, RegBootStep, OffStep, TodoStep, AddShapeStep,
     JobFoundStep, JobDoneStep, KeyPortsStep, KeyModesStep
     DEF ManagerInv, RowShape, CopyShape, RegShape, BootShape, JobShape

(* The invariant of the registry: everything below rests on it.            *)
LEMMA Registry ==
    Spec => []ManagerInv
<1>1. Init => ManagerInv
  BY ManagerInit
<1>2. ManagerInv /\ [Next]_vars => ManagerInv'
  BY ManagerStep
<1>3. QED
  BY <1>1, <1>2, PTL DEF Spec

(* No two registered backends have the same TCP port (manager.go:323, the  *)
(* scan of portFreeLocked, and manager.go:76, the bind of a boot), for     *)
(* every set of names, whether or not they differ in more than case.       *)
THEOREM PortsStayDistinct ==
    Spec => []PortsDistinct
<1>1. ManagerInv => PortsDistinct
  BY DEF ManagerInv, KeyPorts, PortsDistinct, Mapped
<1>2. QED
  BY <1>1, Registry, PTL

(* Between commands the forward mode in use is the stored one: the write   *)
(* and the assignment of SetForwardMode (manager.go:249) are not separated *)
(* by anything that would put a third mode in either place.                *)
THEOREM ModesAgree ==
    Spec => []ModeAgrees
<1>1. ManagerInv => ModeAgrees
  <2> SUFFICES ASSUME ManagerInv, bot.pc = "idle",
                      NEW i \in Mapped \intersect Stored
               PROVE  model[i].mode = rows[i].mode
    BY DEF ModeAgrees
  <2>1. PICK k \in Keys : reg[k] = i /\ reg[k] # NoId
    BY DEF Mapped
  <2>2. rows[i] # NoRow
    BY DEF Stored
  <2>3. QED
    BY <2>1, <2>2 DEF ManagerInv, KeyModes, ModeOf
<1>2. QED
  BY <1>1, Registry, PTL

-----------------------------------------------------------------------------
(* What the rows owe the registry, unless backends are removed by id: a    *)
(* registered backend has a row, so does one that runs or forwards, and    *)
(* what is being removed is not registered any more.                       *)
Kept(k) == reg[k] # NoId => rows[reg[k]] # NoRow
Backed(i) == life[i] = "running" \/ fwd[i] => rows[i] # NoRow
TakenOut == bot.pc \in Removing => \A k \in Keys : reg[k] # bot.id

HasRow == (\A k \in Keys : Kept(k)) /\ (\A i \in Ids : Backed(i)) /\ TakenOut

(* Only what is not registered loses its row.                              *)
LEMMA KeptStep ==
    ManagerInv /\ HasRow /\ [Next]_vars => (\A k \in Keys : Kept(k))'
<1> SUFFICES ASSUME ManagerInv, HasRow, [Next]_vars, NEW k \in Keys
             PROVE  Kept(k)'
  OBVIOUS
<1>0. Kept(k) /\ (reg[k] # NoId => reg[k] \in Ids)
  BY JobFacts DEF HasRow, WhatIsThere
<1>a. /\ model \in Table /\ rows \in Table /\ reg \in [Keys -> Ids \union {NoId}]
      /\ life \in [Ids -> {"none", "running", "stopped"}] /\ fwd \in [Ids -> BOOLEAN]
      /\ NoId \notin Ids /\ NoRow \notin Rows
  BY NoRowFacts DEF ManagerInv, Types
<1> USE DEF Kept
<1>1. ASSUME NEW i \in Ids, StartOne(i)
       PROVE  Kept(k)'
  BY <1>1, <1>0, <1>a, StartOneDoes
<1>2. ASSUME NoRuntime, main' = "off", UNCHANGED <<rows, lastId, boots>>
       PROVE  Kept(k)'
  BY <1>2, <1>0, <1>a DEF NoRuntime, Off
<1>3. ASSUME NEW n \in Names, NEW p \in Ports, NEW u \in UdpPorts, bot.pc = "idle",
             AddPersist(n, p, u)
       PROVE  Kept(k)'
  <2>1. /\ rows' = [rows EXCEPT ![lastId + 1] =
                    [name |-> n, port |-> p, udp |-> u, mode |-> Raw]]
        /\ [name |-> n, port |-> p, udp |-> u, mode |-> Raw] # NoRow /\ reg' = reg
    BY <1>3, AddPersistDoes
  <2>2. QED
    BY <2>1, <1>0, <1>a DEF Table
<1>4. ASSUME AddRollback
       PROVE  Kept(k)'
  <2>1. /\ bot.id \in Ids /\ DeleteBackend(bot.id) /\ reg' = reg
        /\ reg[k] # NoId => reg[k] # bot.id
    BY <1>4, JobFacts DEF AddRollback, WhatIsThere, Adding, ManagerInv, AddShape
  <2>2. QED
    BY <2>1, <1>0, DeleteDoes
<1>5. ASSUME AddPublish
       PROVE  Kept(k)'
  <2>1. rows[bot.id] # NoRow
    BY <1>5 DEF AddPublish, Adding, ManagerInv, AddShape
  <2>2. QED
    BY <1>5, <2>1, <1>0, <1>a DEF AddPublish
<1>6. ASSUME NEW n \in Names, bot.pc = "idle", RemoveLookup(n)
       PROVE  Kept(k)'
  BY <1>6, <1>0, <1>a DEF RemoveLookup, RemoveNamed, Unregistered
<1>7. ASSUME RemoveDelete
       PROVE  Kept(k)'
  <2>1. /\ bot.id \in Ids /\ DeleteBackend(bot.id) /\ reg' = reg
        /\ reg[k] # bot.id
    BY <1>7, JobFacts DEF RemoveDelete, WhatIsThere, Removing, HasRow, TakenOut
  <2>2. QED
    BY <2>1, <1>0, DeleteDoes
<1>8. ASSUME AddUDPPersist
       PROVE  Kept(k)'
  <2>1. /\ rows'[bot.id] = rows[bot.id] \/ rows'[bot.id] # NoRow
        /\ \A j \in Ids : j # bot.id => rows'[j] = rows[j]
        /\ reg' = reg
    BY <1>8, AddUDPPersistDoes DEF SameBut
  <2>2. QED
    BY <2>1, <1>0
<1>9. ASSUME RemoveUDPClear
       PROVE  Kept(k)'
  <2>1. /\ rows'[bot.id] = rows[bot.id] \/ rows'[bot.id] # NoRow
        /\ \A j \in Ids : j # bot.id => rows'[j] = rows[j]
        /\ reg' = reg
    BY <1>9, RemoveUDPClearDoes DEF SameBut
  <2>2. QED
    BY <2>1, <1>0
<1>10. ASSUME NEW n \in Names, NEW m \in Modes, bot.pc = "idle", ForwardPersist(n, m)
       PROVE  Kept(k)'
  <2>1. /\ rows'[Get(n)] = rows[Get(n)] \/ rows'[Get(n)] # NoRow
        /\ \A j \in Ids : j # Get(n) => rows'[j] = rows[j]
        /\ reg' = reg
    BY <1>10, ForwardPersistDoes DEF SameBut
  <2>2. QED
    BY <2>1, <1>0
<1>11. CASE UNCHANGED <<rows, reg>>
  BY <1>11, <1>0, <1>a
<1> HIDE DEF Kept
<1>12. QED
  BY <1>1, <1>2, <1>3, <1>4, <1>5, <1>6, <1>7, <1>8, <1>9, <1>10, <1>11
     DEF Next, MainStep, Command, NewCommand, cmdAdd, handleCallback, cmdRestart,
         cmdAddUDP, cmdRemoveUDP, cmdForward, BotStep, Exit, Crash, vars, Boot,
         BootDone, Signal, ShutdownBegin, ShutdownOne, ShutdownEnd, BotExit, AddStart,
         RemoveLookupId, RemoveNotFound, RemoveStop, RestartLookup, RestartStop,
         RestartStart, AddUDPCheck, AddUDPStart, RemoveUDPClose, ForwardSet,
         UpdateFails

(* Only what has been shut down loses its row.                             *)
LEMMA BackedStep ==
    ManagerInv /\ HasRow /\ [Next]_vars => (\A i \in Ids : Backed(i))'
<1> SUFFICES ASSUME ManagerInv, HasRow, [Next]_vars, NEW d \in Ids
             PROVE  Backed(d)'
  OBVIOUS
<1>0. Backed(d)
  BY DEF HasRow
<1>a. /\ model \in Table /\ rows \in Table /\ reg \in [Keys -> Ids \union {NoId}]
      /\ life \in [Ids -> {"none", "running", "stopped"}] /\ fwd \in [Ids -> BOOLEAN]
      /\ NoId \notin Ids /\ NoRow \notin Rows
  BY NoRowFacts DEF ManagerInv, Types
<1> USE DEF Backed
<1>1. ASSUME NEW i \in Ids, StartOne(i)
       PROVE  Backed(d)'
  <2>1. rows' = rows /\ rows[i] \in Rows
    BY <1>1, StartOneDoes
  <2>2. CASE UNCHANGED <<model, life, fwd, reg>>
    BY <2>1, <2>2, <1>0
  <2>3. CASE Started(i, rows[i])
    BY <2>1, <2>3, <1>0, <1>a, StartedFacts
  <2>4. QED
    BY <1>1, <2>2, <2>3, StartOneDoes
<1>2. ASSUME NEW i \in Ids, ShutdownOne(i)
       PROVE  Backed(d)'
  BY <1>2, <1>0, <1>a DEF ShutdownOne
<1>3. ASSUME NoRuntime, main' = "off", UNCHANGED <<rows, lastId, boots>>
       PROVE  Backed(d)'
  BY <1>3 DEF NoRuntime
<1>4. ASSUME NEW n \in Names, NEW p \in Ports, NEW u \in UdpPorts, bot.pc = "idle",
             AddPersist(n, p, u)
       PROVE  Backed(d)'
  <2>1. /\ rows' = [rows EXCEPT ![lastId + 1] =
                    [name |-> n, port |-> p, udp |-> u, mode |-> Raw]]
        /\ [name |-> n, port |-> p, udp |-> u, mode |-> Raw] # NoRow
        /\ UNCHANGED <<life, fwd>>
    BY <1>4, AddPersistDoes
  <2>2. QED
    BY <2>1, <1>0, <1>a DEF Table
<1>5. ASSUME AddRollback
       PROVE  Backed(d)'
  <2>1. /\ bot.id \in Ids /\ DeleteBackend(bot.id) /\ UNCHANGED <<life, fwd>>
        /\ life[bot.id] = "none" /\ ~fwd[bot.id]
    BY <1>5, JobFacts DEF AddRollback, WhatIsThere, Adding, ManagerInv, AddShape
  <2>2. QED
    BY <2>1, <1>0, DeleteDoes
<1>6. ASSUME AddStart
       PROVE  Backed(d)'
  <2>1. /\ bot.id \in Ids /\ rows[bot.id] \in Rows /\ rows' = rows
        /\ Started(bot.id, rows[bot.id])
    BY <1>6, AddStartDoes
  <2>2. QED
    BY <2>1, <1>0, <1>a, StartedFacts
<1>7. ASSUME RemoveStop
       PROVE  Backed(d)'
  BY <1>7, <1>0, <1>a DEF RemoveStop, Job
<1>8. ASSUME RemoveDelete
       PROVE  Backed(d)'
  <2>1. /\ bot.id \in Ids /\ DeleteBackend(bot.id) /\ UNCHANGED <<life, fwd>>
        /\ life[bot.id] # "running" /\ ~fwd[bot.id]
    BY <1>8, JobFacts
       DEF RemoveDelete, WhatIsThere, Removing, ManagerInv, JobShape, JobDone
  <2>2. QED
    BY <2>1, <1>0, DeleteDoes
<1>9. ASSUME RestartStop
       PROVE  Backed(d)'
  BY <1>9, <1>0, <1>a DEF RestartStop, Job
<1>10. ASSUME RestartStart
       PROVE  Backed(d)'
  <2>1. /\ bot.id \in Ids /\ model[bot.id] \in Rows /\ rows' = rows
        /\ bot.pc = "restart start"
    BY <1>10, RestartStartDoes
  <2>2. rows[bot.id] # NoRow
    BY <2>1, <1>a DEF ManagerInv, JobShape, JobFound, Working, HasRow, Kept
  <2>3. CASE UNCHANGED <<model, life, fwd>>
    BY <2>1, <2>3, <1>0
  <2>4. CASE Started(bot.id, model[bot.id])
    BY <2>1, <2>2, <2>4, <1>0, <1>a, StartedFacts
  <2>5. QED
    BY <1>10, <2>3, <2>4, RestartStartDoes
<1>11. ASSUME AddUDPPersist
       PROVE  Backed(d)'
  <2>1. /\ rows'[bot.id] = rows[bot.id] \/ rows'[bot.id] # NoRow
        /\ \A j \in Ids : j # bot.id => rows'[j] = rows[j]
        /\ UNCHANGED <<life, fwd>>
    BY <1>11, AddUDPPersistDoes DEF SameBut
  <2>2. QED
    BY <2>1, <1>0
<1>12. ASSUME AddUDPStart
       PROVE  Backed(d)'
  <2>1. rows[bot.id] # NoRow
    BY <1>12, <1>a, JobFacts
       DEF AddUDPStart, ManagerInv, JobShape, JobFound, Working, HasRow, Kept,
           WhatIsThere
  <2>2. QED
    BY <1>12, <2>1, <1>0, <1>a DEF AddUDPStart
<1>13. ASSUME NEW n \in Names, bot.pc = "idle", RemoveUDPClose(n)
       PROVE  Backed(d)'
  <2>1. /\ fwd' = [fwd EXCEPT ![Get(n)] = FALSE] /\ UNCHANGED <<rows, life>>
    BY <1>13, RemoveUDPCloseDoes
  <2>2. QED
    BY <2>1, <1>0, <1>a
<1>14. ASSUME RemoveUDPClear
       PROVE  Backed(d)'
  <2>1. /\ rows'[bot.id] = rows[bot.id] \/ rows'[bot.id] # NoRow
        /\ \A j \in Ids : j # bot.id => rows'[j] = rows[j]
        /\ UNCHANGED <<life, fwd>>
    BY <1>14, RemoveUDPClearDoes DEF SameBut
  <2>2. QED
    BY <2>1, <1>0
<1>15. ASSUME NEW n \in Names, NEW m \in Modes, bot.pc = "idle", ForwardPersist(n, m)
       PROVE  Backed(d)'
  <2>1. /\ rows'[Get(n)] = rows[Get(n)] \/ rows'[Get(n)] # NoRow
        /\ \A j \in Ids : j # Get(n) => rows'[j] = rows[j]
        /\ UNCHANGED <<life, fwd>>
    BY <1>15, ForwardPersistDoes DEF SameBut
  <2>2. QED
    BY <2>1, <1>0
<1>16. CASE UNCHANGED <<rows, life, fwd>>
  BY <1>16, <1>0, <1>a
<1> HIDE DEF Backed
<1>17. QED
  BY <1>1, <1>2, <1>3, <1>4, <1>5, <1>6, <1>7, <1>8, <1>9, <1>10, <1>11, <1>12, <1>13,
     <1>14, <1>15, <1>16
     DEF Next, MainStep, Command, NewCommand, cmdAdd, handleCallback, cmdRestart,
         cmdAddUDP, cmdRemoveUDP, cmdForward, BotStep, Exit, Crash, vars, Boot,
         BootDone, Signal, ShutdownBegin, ShutdownEnd, BotExit, AddPublish,
         RemoveLookup, RemoveNamed, RemoveLookupId, RemoveNotFound, RestartLookup,
         AddUDPCheck, ForwardSet, UpdateFails

(* A backend leaves the registry, under its only key, before it is stopped. *)
LEMMA TakenOutStep ==
    NoRemoveById /\ ManagerInv /\ HasRow /\ [Next]_vars => TakenOut'
<1> SUFFICES ASSUME NoRemoveById, ManagerInv, HasRow, [Next]_vars
             PROVE  TakenOut'
  OBVIOUS
<1>0. TakenOut /\ (main = "boot" => bot.pc = "off")
  BY DEF HasRow, ManagerInv, LockShape
<1>a. /\ model \in Table /\ rows \in Table /\ reg \in [Keys -> Ids \union {NoId}]
      /\ life \in [Ids -> {"none", "running", "stopped"}] /\ fwd \in [Ids -> BOOLEAN]
      /\ NoId \notin Ids /\ NoRow \notin Rows
  BY NoRowFacts DEF ManagerInv, Types
<1> USE DEF TakenOut
<1>1. ASSUME NEW i \in Ids, StartOne(i)
       PROVE  TakenOut'
  <2>1. main = "boot" /\ bot' = bot
    BY <1>1, StartOneDoes
  <2>2. QED
    BY <2>1, <1>0 DEF Removing
<1>2. ASSUME BootDone
       PROVE  TakenOut'
  BY <1>2 DEF BootDone, Idle, Removing
<1>3. ASSUME BotExit
       PROVE  TakenOut'
  BY <1>3 DEF BotExit, Off, Removing
<1>4. ASSUME NoRuntime, main' = "off", UNCHANGED <<rows, lastId, boots>>
       PROVE  TakenOut'
  BY <1>4 DEF NoRuntime, Off, Removing
<1>5. ASSUME NEW n \in Names, NEW p \in Ports, NEW u \in UdpPorts, bot.pc = "idle",
             AddPersist(n, p, u)
       PROVE  TakenOut'
  <2>1. bot' = Job("add start", lastId + 1, NoPort)
    BY <1>5, AddPersistDoes
  <2>2. QED
    BY <2>1 DEF Job, Removing
<1>6. ASSUME AddRollback
       PROVE  TakenOut'
  BY <1>6 DEF AddRollback, Return, Idle, Removing
<1>7. ASSUME AddStart
       PROVE  TakenOut'
  <2>1. bot' = Job("add publish", bot.id, NoPort)
    BY <1>7, AddStartDoes
  <2>2. QED
    BY <2>1 DEF Job, Removing
<1>8. ASSUME AddPublish
       PROVE  TakenOut'
  BY <1>8 DEF AddPublish, Return, Idle, Removing
<1>9. ASSUME NEW n \in Names, bot.pc = "idle", RemoveLookup(n)
       PROVE  TakenOut'
  <2>1. Key[n] \in Keys /\ Get(n) \in Ids /\ Get(n) = reg[Key[n]]
    BY <1>9, KeyTypes, JobFacts
       DEF RemoveLookup, RemoveNamed, existsLocked, WhatIsThere, Get
  <2>2. \A k \in Keys : reg[k] = Get(n) => k = Key[n]
    BY <2>1, <1>a DEF ManagerInv, RegShape, RegKeys
  <2>3. \A k \in Keys : reg'[k] # Get(n)
    BY <1>9, <2>1, <2>2, <1>a DEF RemoveLookup, RemoveNamed, Unregistered
  <2>4. bot'.id = Get(n)
    BY <1>9 DEF RemoveLookup, RemoveNamed, Job
  <2>5. QED
    BY <2>3, <2>4
<1>10. ASSUME NEW i \in Ids, bot.pc = "idle", "remove id" \in Commands,
              RemoveLookupId(i)
       PROVE  TakenOut'
  BY <1>10 DEF NoRemoveById
<1>11. ASSUME bot.pc = "idle", RemoveNotFound
       PROVE  TakenOut'
  BY <1>11 DEF RemoveNotFound, Return, Idle, Removing
<1>12. ASSUME RemoveStop
       PROVE  TakenOut'
  BY <1>12, <1>0 DEF RemoveStop, Job, Removing
<1>13. ASSUME RemoveDelete
       PROVE  TakenOut'
  BY <1>13 DEF RemoveDelete, Return, Idle, Removing
<1>14. ASSUME NEW n \in Names, bot.pc = "idle", RestartLookup(n)
       PROVE  TakenOut'
  BY <1>14 DEF RestartLookup, Job, Removing
<1>15. ASSUME RestartStop
       PROVE  TakenOut'
  BY <1>15 DEF RestartStop, Job, Removing
<1>16. ASSUME RestartStart
       PROVE  TakenOut'
  <2>1. bot' = Idle
    BY <1>16, RestartStartDoes
  <2>2. QED
    BY <2>1 DEF Idle, Removing
<1>17. ASSUME NEW n \in Names, NEW u \in Ports, bot.pc = "idle", AddUDPCheck(n, u)
       PROVE  TakenOut'
  BY <1>17 DEF AddUDPCheck, Job, Removing
<1>18. ASSUME AddUDPPersist
       PROVE  TakenOut'
  <2>1. bot' = Job("udp start", bot.id, bot.arg)
    BY <1>18, AddUDPPersistDoes
  <2>2. QED
    BY <2>1 DEF Job, Removing
<1>19. ASSUME AddUDPStart
       PROVE  TakenOut'
  BY <1>19 DEF AddUDPStart, Return, Idle, Removing
<1>20. ASSUME NEW n \in Names, bot.pc = "idle", RemoveUDPClose(n)
       PROVE  TakenOut'
  <2>1. bot' = Job("udp clear", Get(n), NoPort)
    BY <1>20, RemoveUDPCloseDoes
  <2>2. QED
    BY <2>1 DEF Job, Removing
<1>21. ASSUME RemoveUDPClear
       PROVE  TakenOut'
  <2>1. bot' = Idle
    BY <1>21, RemoveUDPClearDoes
  <2>2. QED
    BY <2>1 DEF Idle, Removing
<1>22. ASSUME NEW n \in Names, NEW m \in Modes, bot.pc = "idle", ForwardPersist(n, m)
       PROVE  TakenOut'
  <2>1. bot' = Job("forward set", Get(n), m)
    BY <1>22, ForwardPersistDoes
  <2>2. QED
    BY <2>1 DEF Job, Removing
<1>23. ASSUME ForwardSet
       PROVE  TakenOut'
  <2>1. bot' = Idle
    BY <1>23, ForwardSetDoes
  <2>2. QED
    BY <2>1 DEF Idle, Removing
<1>24. ASSUME UpdateFails
       PROVE  TakenOut'
  BY <1>24 DEF UpdateFails, Return, Idle, Removing
<1>25. CASE UNCHANGED <<reg, bot>>
  BY <1>25, <1>0
<1> HIDE DEF TakenOut
<1>26. QED
  BY <1>1, <1>2, <1>3, <1>4, <1>5, <1>6, <1>7, <1>8, <1>9, <1>10, <1>11, <1>12, <1>13,
     <1>14, <1>15, <1>16, <1>17, <1>18, <1>19, <1>20, <1>21, <1>22, <1>23, <1>24,
     <1>25
     DEF Next, MainStep, Command, NewCommand, cmdAdd, handleCallback, cmdRestart,
         cmdAddUDP, cmdRemoveUDP, cmdForward, BotStep, Exit, Crash, vars, Boot,
         Signal, ShutdownBegin, ShutdownOne, ShutdownEnd

-----------------------------------------------------------------------------
(* What the registry owes the listeners, if names differ in more than      *)
(* case: whatever runs is registered, or is just being added or removed.   *)
Registered(i) == \E k \in Keys : reg[k] = i
InHand(i) == bot.id = i /\ bot.pc \in {"add publish", "remove stop"}

Found == \A i \in Ids : life[i] = "running" => Registered(i) \/ InHand(i)

(* What starts is registered next, what is taken out is stopped next.      *)
LEMMA FoundStep ==
    KeysDistinct /\ ManagerInv /\ Found /\ [Next]_vars => Found'
<1> SUFFICES ASSUME KeysDistinct, ManagerInv, Found, [Next]_vars, NEW d \in Ids,
                    life'[d] = "running"
             PROVE  Registered(d)' \/ InHand(d)'
  BY DEF Found
<1>0. /\ life[d] = "running" => Registered(d) \/ InHand(d)
      /\ main \in {"off", "boot"} => bot.pc = "off"
  BY DEF Found, ManagerInv, LockShape
<1>a. /\ model \in Table /\ rows \in Table /\ reg \in [Keys -> Ids \union {NoId}]
      /\ life \in [Ids -> {"none", "running", "stopped"}] /\ fwd \in [Ids -> BOOLEAN]
      /\ NoId \notin Ids /\ NoRow \notin Rows
  BY NoRowFacts DEF ManagerInv, Types
<1> USE DEF Registered, InHand
<1>1. ASSUME NEW i \in Ids, StartOne(i)
       PROVE  Registered(d)' \/ InHand(d)'
  <2>1. /\ rows[i] \in Rows /\ i \in todo /\ i \in Ids /\ main = "boot" /\ bot' = bot
    BY <1>1, StartOneDoes
  <2>2. CASE UNCHANGED <<model, life, fwd, reg>>
    BY <2>1, <2>2, <1>0
  <2>3. CASE /\ Started(i, rows[i])
             /\ reg' = [reg EXCEPT ![Key[rows[i].name]] = i]
    <3>1. Key[rows[i].name] \in Keys
      BY <2>1, KeyTypes DEF Rows
    <3>2. CASE d = i
      BY <2>3, <3>1, <3>2, <1>a
    <3>3. CASE d # i
      <4>1. life[d] = "running"
        BY <2>1, <2>3, <3>3, <1>a, StartedFacts
      <4>2. PICK k \in Keys : reg[k] = d
        BY <2>1, <4>1, <1>0
      <4>3. model[d] = rows[d] /\ model[d] # NoRow /\ k = Key[model[d].name]
        BY <2>1, <4>2, <1>a DEF ManagerInv, RegShape, RegKeys, RegBoot
      <4>4. rows[d].name # rows[i].name
        BY <2>1, <3>3, <4>3, <1>a DEF ManagerInv, RowShape, NamesUnique
      <4>5. rows[d].name \in Names /\ rows[i].name \in Names
        BY <2>1, <4>3, <1>a DEF Table, Rows
      <4>6. k # Key[rows[i].name]
        BY <4>3, <4>4, <4>5 DEF KeysDistinct
      <4>7. reg'[k] = d
        BY <2>3, <4>2, <4>6, <1>a
      <4>8. QED
        BY <4>7
    <3>4. QED
      BY <3>2, <3>3
  <2>4. QED
    BY <1>1, <2>2, <2>3, StartOneDoes
<1>2. ASSUME BootDone
       PROVE  Registered(d)' \/ InHand(d)'
  BY <1>2, <1>0, <1>a DEF BootDone, Idle
<1>3. ASSUME NEW i \in Ids, ShutdownOne(i)
       PROVE  Registered(d)' \/ InHand(d)'
  BY <1>3, <1>0, <1>a DEF ShutdownOne
<1>4. ASSUME BotExit
       PROVE  Registered(d)' \/ InHand(d)'
  BY <1>4, <1>0 DEF BotExit
<1>5. ASSUME NoRuntime, main' = "off", UNCHANGED <<rows, lastId, boots>>
       PROVE  Registered(d)' \/ InHand(d)'
  BY <1>5 DEF NoRuntime
<1>6. ASSUME NEW n \in Names, NEW p \in Ports, NEW u \in UdpPorts, bot.pc = "idle",
             AddPersist(n, p, u)
       PROVE  Registered(d)' \/ InHand(d)'
  <2>1. UNCHANGED <<life, reg>> /\ bot.pc = "idle"
    BY <1>6, AddPersistDoes
  <2>2. QED
    BY <2>1, <1>0
<1>7. ASSUME AddRollback
       PROVE  Registered(d)' \/ InHand(d)'
  BY <1>7, <1>0 DEF AddRollback
<1>8. ASSUME AddStart
       PROVE  Registered(d)' \/ InHand(d)'
  <2>1. /\ bot.pc = "add start" /\ bot.id \in Ids /\ rows[bot.id] \in Rows
        /\ Started(bot.id, rows[bot.id]) /\ reg' = reg
        /\ bot' = Job("add publish", bot.id, NoPort)
    BY <1>8, AddStartDoes
  <2>2. \A j \in Ids : j # bot.id => life'[j] = life[j]
    BY <2>1, <1>a, StartedFacts
  <2>3. QED
    BY <2>1, <2>2, <1>0 DEF Job
<1>9. ASSUME AddPublish
       PROVE  Registered(d)' \/ InHand(d)'
  <2>1. /\ bot.id \in Ids /\ model[bot.id] = rows[bot.id] /\ rows[bot.id] \in Rows
        /\ reg[Key[rows[bot.id].name]] = NoId
    BY <1>9, JobFacts DEF AddPublish, WhatIsThere, Adding, ManagerInv, AddShape
  <2>2. Key[rows[bot.id].name] \in Keys
    BY <2>1, KeyTypes DEF Rows
  <2>3. life' = life /\ reg' = [reg EXCEPT ![Key[rows[bot.id].name]] = bot.id]
    BY <1>9, <2>1 DEF AddPublish
  <2>4. reg'[Key[rows[bot.id].name]] = bot.id
    BY <2>2, <2>3, <1>a
  <2>5. \A k \in Keys : reg[k] = d => reg'[k] = d
    BY <2>1, <2>2, <2>3, <1>a
  <2>6. QED
    BY <2>2, <2>3, <2>4, <2>5, <1>0
<1>10. ASSUME NEW n \in Names, bot.pc = "idle", RemoveLookup(n)
       PROVE  Registered(d)' \/ InHand(d)'
  <2>1. /\ reg' = [reg EXCEPT ![Key[n]] = NoId] /\ life' = life
        /\ bot' = Job("remove stop", reg[Key[n]], NoPort)
    BY <1>10 DEF RemoveLookup, RemoveNamed, Unregistered, Get
  <2>2. CASE reg[Key[n]] = d
    BY <2>1, <2>2 DEF Job
  <2>3. CASE reg[Key[n]] # d
    <3>1. \A k \in Keys : reg[k] = d => reg'[k] = d
      BY <2>1, <2>3, <1>a
    <3>2. QED
      BY <1>10, <2>1, <3>1, <1>0
  <2>4. QED
    BY <2>2, <2>3
<1>11. ASSUME NEW i \in Ids, bot.pc = "idle", "remove id" \in Commands,
              RemoveLookupId(i)
       PROVE  Registered(d)' \/ InHand(d)'
  BY <1>11, <1>0, <1>a DEF RemoveLookupId
<1>12. ASSUME bot.pc = "idle", RemoveNotFound
       PROVE  Registered(d)' \/ InHand(d)'
  BY <1>12, <1>0 DEF RemoveNotFound
<1>13. ASSUME RemoveStop
       PROVE  Registered(d)' \/ InHand(d)'
  BY <1>13, <1>0, <1>a DEF RemoveStop
<1>14. ASSUME RemoveDelete
       PROVE  Registered(d)' \/ InHand(d)'
  BY <1>14, <1>0 DEF RemoveDelete
<1>15. ASSUME NEW n \in Names, bot.pc = "idle", RestartLookup(n)
       PROVE  Registered(d)' \/ InHand(d)'
  BY <1>15, <1>0, <1>a DEF RestartLookup
<1>16. ASSUME RestartStop
       PROVE  Registered(d)' \/ InHand(d)'
  BY <1>16, <1>0, <1>a DEF RestartStop
<1>17. ASSUME RestartStart
       PROVE  Registered(d)' \/ InHand(d)'
  <2>1. /\ bot.id \in Ids /\ model[bot.id] \in Rows /\ reg' = reg
        /\ bot.pc = "restart start"
    BY <1>17, RestartStartDoes
  <2>2. Registered(bot.id)
    BY <2>1 DEF ManagerInv, JobShape, JobFound, Working
  <2>3. CASE UNCHANGED <<model, life, fwd>>
    BY <2>1, <2>3, <1>0
  <2>4. CASE Started(bot.id, model[bot.id])
    <3>1. \A j \in Ids : j # bot.id => life'[j] = life[j]
      BY <2>1, <2>4, <1>a, StartedFacts
    <3>2. QED
      BY <2>1, <2>2, <3>1, <1>0
  <2>5. QED
    BY <1>17, <2>3, <2>4, RestartStartDoes
<1>18. ASSUME NEW n \in Names, NEW u \in Ports, bot.pc = "idle", AddUDPCheck(n, u)
       PROVE  Registered(d)' \/ InHand(d)'
  BY <1>18, <1>0, <1>a DEF AddUDPCheck
<1>19. ASSUME AddUDPPersist
       PROVE  Registered(d)' \/ InHand(d)'
  <2>1. UNCHANGED <<life, reg>> /\ bot.pc = "udp persist"
    BY <1>19, AddUDPPersistDoes
  <2>2. QED
    BY <2>1, <1>0
<1>20. ASSUME AddUDPStart
       PROVE  Registered(d)' \/ InHand(d)'
  BY <1>20, <1>0 DEF AddUDPStart
<1>21. ASSUME NEW n \in Names, bot.pc = "idle", RemoveUDPClose(n)
       PROVE  Registered(d)' \/ InHand(d)'
  <2>1. UNCHANGED <<life, reg>> /\ bot.pc = "idle"
    BY <1>21, RemoveUDPCloseDoes
  <2>2. QED
    BY <2>1, <1>0
<1>22. ASSUME RemoveUDPClear
       PROVE  Registered(d)' \/ InHand(d)'
  <2>1. UNCHANGED <<life, reg>> /\ bot.pc = "udp clear"
    BY <1>22, RemoveUDPClearDoes
  <2>2. QED
    BY <2>1, <1>0
<1>23. ASSUME NEW n \in Names, NEW m \in Modes, bot.pc = "idle", ForwardPersist(n, m)
       PROVE  Registered(d)' \/ InHand(d)'
  <2>1. UNCHANGED <<life, reg>> /\ bot.pc = "idle"
    BY <1>23, ForwardPersistDoes
  <2>2. QED
    BY <2>1, <1>0
<1>24. ASSUME ForwardSet
       PROVE  Registered(d)' \/ InHand(d)'
  <2>1. UNCHANGED <<life, reg>> /\ bot.pc = "forward set"
    BY <1>24, ForwardSetDoes
  <2>2. QED
    BY <2>1, <1>0
<1>25. ASSUME UpdateFails
       PROVE  Registered(d)' \/ InHand(d)'
  BY <1>25, <1>0 DEF UpdateFails
<1>26. CASE UNCHANGED <<life, reg, bot>>
  BY <1>26, <1>0, <1>a
<1> HIDE DEF Registered, InHand
<1>27. QED
  BY <1>1, <1>2, <1>3, <1>4, <1>5, <1>6, <1>7, <1>8, <1>9, <1>10, <1>11, <1>12, <1>13,
     <1>14, <1>15, <1>16, <1>17, <1>18, <1>19, <1>20, <1>21, <1>22, <1>23, <1>24,
     <1>25, <1>26
     DEF Next, MainStep, Command, NewCommand, cmdAdd, handleCallback, cmdRestart,
         cmdAddUDP, cmdRemoveUDP, cmdForward, BotStep, Exit, Crash, vars, Boot,
         Signal, ShutdownBegin, ShutdownEnd

-----------------------------------------------------------------------------
(* Manager owns every running backend: what listens can be found in the    *)
(* registry (manager.go:81 at boot, manager.go:198 in Add), unless Add or  *)
(* Remove has it in hand, as long as no two names differ in case only. The *)
(* condition is needed: of two rows whose names do, the later one takes    *)
(* the key of the earlier at the next boot.                                *)
THEOREM NothingOrphaned ==
    ASSUME KeysDistinct
    PROVE  Spec => []NoOrphans
<1>1. Init => Found
  BY DEF Init, Found
<1>2. ManagerInv /\ Found /\ [Next]_vars => Found'
  BY FoundStep
<1>3. ManagerInv /\ Found => NoOrphans
  BY NoRowFacts DEF Found, Registered, InHand, NoOrphans, Mapped
<1>4. QED
  BY <1>1, <1>2, <1>3, Registry, PTL DEF Spec

LEMMA HasRowStep ==
    NoRemoveById /\ ManagerInv /\ HasRow /\ [Next]_vars => HasRow'
  BY KeptStep, BackedStep, TakenOutStep DEF HasRow

(* What the registry, the listeners and the rows promise each other        *)
(* (manager.go:203), as long as nothing is removed by id: such a removal   *)
(* leaves a registered backend without a row. The order of the steps of    *)
(* Add, Remove, AddUDP and RemoveUDP is what this rests on.                *)
THEOREM RowsBackTheRegistry ==
    ASSUME NoRemoveById
    PROVE  Spec => []Inv
<1>1. Init => HasRow
  BY DEF Init, HasRow, Kept, Backed, TakenOut, Off, Removing
<1>2. ManagerInv /\ HasRow /\ [Next]_vars => HasRow'
  BY HasRowStep
<1>3. ManagerInv /\ HasRow => Inv
  <2> SUFFICES ASSUME ManagerInv, HasRow
               PROVE  Inv
    OBVIOUS
  <2>1. TypeOK
    BY DEF ManagerInv, Types, TypeOK, Table, Jobs
  <2>2. MappedHasRow
    <3> SUFFICES ASSUME NEW k \in Keys, reg[k] # NoId
                 PROVE  /\ reg[k] \in Stored
                        /\ rows[reg[k]].name = model[reg[k]].name
                        /\ rows[reg[k]].port = model[reg[k]].port
                        /\ Key[rows[reg[k]].name] = k
      BY DEF MappedHasRow
    <3>1. reg[k] \in Ids /\ rows[reg[k]] # NoRow
      BY JobFacts DEF WhatIsThere, HasRow, Kept
    <3>2. model[reg[k]] # NoRow /\ Key[model[reg[k]].name] = k
      BY DEF ManagerInv, RegShape, RegKeys
    <3>3. QED
      BY <3>1, <3>2 DEF ManagerInv, CopyShape, CopyAgrees, CopyOf, Stored
  <2>3. RunningHasRow
    BY DEF RunningHasRow, HasRow, Backed, Stored
  <2>4. FwdPersisted
    BY DEF FwdPersisted, HasRow, Backed, ManagerInv, CopyShape, RunsFromCopy,
           CopyAgrees, CopyOf
  <2>5. QED
    BY <2>1, <2>2, <2>3, <2>4 DEF Inv
<1>4. QED
  BY <1>1, <1>2, <1>3, Registry, PTL DEF Spec
-----------------------------------------------------------------------------
(* The abstract catalog.                                                   *)

Tcp == {i \in Ids : life[i] = "running"}
Udp == {i \in Ids : fwd[i]}

(* A step of the program that shows neither in the rows nor in a socket.   *)
Unlisted == UNCHANGED <<rows, lastId>> /\ Tcp' = Tcp /\ Udp' = Udp

(* /add-udp has found the backend without UDP, and nobody changes that     *)
(* before it writes the row.                                               *)
AskedNoUdp == bot.pc = "udp persist" => model[bot.id].udp = NoPort

LEMMA AskedNoUdpStep ==
    ManagerInv /\ AskedNoUdp /\ [Next]_vars => AskedNoUdp'
<1> SUFFICES ASSUME ManagerInv, AskedNoUdp, [Next]_vars
             PROVE  AskedNoUdp'
  OBVIOUS
<1> DEFINE Other == bot'.pc # "udp persist"
<1>0. Other => AskedNoUdp'
  BY DEF AskedNoUdp
<1>1. CASE UNCHANGED <<bot, model>>
  BY <1>1 DEF AskedNoUdp
<1>2. ASSUME NEW i \in Ids, StartOne(i) PROVE Other
  <2>1. main = "boot" /\ bot' = bot
    BY <1>2, StartOneDoes
  <2> QED
    BY <2>1 DEF ManagerInv, LockShape
<1>3. ASSUME NEW n \in Names, NEW u \in Ports, AddUDPCheck(n, u) PROVE AskedNoUdp'
  BY <1>3 DEF AddUDPCheck, Job, AskedNoUdp
<1>4. ASSUME NEW n \in Names, NEW p \in Ports, NEW u \in UdpPorts, AddPersist(n, p, u)
      PROVE  Other
  BY <1>4 DEF AddPersist, Job
<1>5. ASSUME NEW n \in Names, RestartLookup(n) PROVE Other
  BY <1>5 DEF RestartLookup, Job
<1>6. ASSUME NEW n \in Names, RemoveUDPClose(n) PROVE Other
  BY <1>6 DEF RemoveUDPClose, Job
<1>7. ASSUME NEW n \in Names, NEW m \in Modes, ForwardPersist(n, m) PROVE Other
  BY <1>7 DEF ForwardPersist, Job
<1>8. handleCallback => Other
  <2>1. ASSUME NEW n \in Names, RemoveLookup(n) PROVE Other
    BY <2>1 DEF RemoveLookup, RemoveNamed, Job
  <2>2. ASSUME NEW i \in Ids, RemoveLookupId(i) PROVE Other
    BY <2>2 DEF RemoveLookupId, Job
  <2>3. RemoveNotFound => Other
    BY DEF RemoveNotFound, Return, Idle
  <2> HIDE DEF Other
  <2> QED
    BY <2>1, <2>2, <2>3 DEF handleCallback
<1>9. BotStep => Other
  <2>1. bot' = Idle => Other
    BY DEF Idle
  <2>2. ASSUME AddStart PROVE Other
    BY <2>2 DEF AddStart, Job
  <2>3. ASSUME RemoveStop PROVE Other
    BY <2>3 DEF RemoveStop, Job
  <2>4. ASSUME RestartStop PROVE Other
    BY <2>4 DEF RestartStop, Job
  <2>5. ASSUME AddUDPPersist PROVE Other
    BY <2>5 DEF AddUDPPersist, Job
  <2> HIDE DEF Other
  <2> QED
    BY <2>1, <2>2, <2>3, <2>4, <2>5
       DEF BotStep, AddRollback, AddPublish, RemoveDelete, RestartStart, AddUDPStart,
           RemoveUDPClear, ForwardSet, UpdateFails, Return
<1>10. BootDone => Other
  BY DEF BootDone, Idle
<1>11. bot' = Off => Other
  BY DEF Off
<1> HIDE DEF Other
<1> QED
  BY <1>0, <1>1, <1>2, <1>3, <1>4, <1>5, <1>6, <1>7, <1>8, <1>9, <1>10, <1>11
     DEF Next, MainStep, NewCommand, cmdAdd, cmdRestart, cmdAddUDP, cmdRemoveUDP,
         cmdForward, BotExit, NoRuntime, Boot, ShutdownOne, ShutdownBegin, ShutdownEnd,
         Exit, Signal, Crash, vars

(* What Backend.start has found free, seen from the rows.                  *)
LEMMA FreeInRows ==
    ASSUME ManagerInv, HasRow, NEW i \in Ids, rows[i] # NoRow
    PROVE  /\ TcpFree(rows[i].port) => Listed!TcpPortFree(i)
           /\ rows[i].udp # NoPort /\ UdpFree(rows[i].udp) => Listed!UdpPortFree(i)
<1>1. \A j \in Tcp : rows[j].port = model[j].port
  BY DEF Tcp, HasRow, Backed, ManagerInv, CopyShape, RunsFromCopy, CopyAgrees, CopyOf
<1>2. \A j \in Udp : rows[j].udp = model[j].udp
  BY DEF Udp, HasRow, Backed, ManagerInv, CopyShape, RunsFromCopy, CopyAgrees, CopyOf
<1> QED
  BY <1>1, <1>2 DEF TcpFree, UdpFree, Listed!TcpPortFree, Listed!UdpPortFree, Tcp, Udp

(* Backend.start opens a backend, with its forwarder or without.           *)
LEMMA StartedOpens ==
    ASSUME ManagerInv, HasRow, NEW i \in Ids, NEW r \in Rows, Started(i, r),
           rows[i] # NoRow, r.port = rows[i].port,
           r.udp # NoPort => r.udp = rows[i].udp,
           TcpFree(r.port), UNCHANGED <<rows, lastId>>
    PROVE  Listed!Open(i)
<1>1. PICK ok \in (IF r.udp = NoPort THEN {FALSE} ELSE Outcomes(UdpFree(r.udp))) :
        fwd' = [fwd EXCEPT ![i] = ok]
  BY DEF Started
<1>2. ok \in BOOLEAN /\ (ok => r.udp # NoPort /\ UdpFree(r.udp))
  BY <1>1 DEF Outcomes
<1>3. Tcp' = Tcp \union {i}
  BY DEF Started, Tcp, ManagerInv, Types
<1>4. CASE ok
  <2>1. Udp' = Udp \union {i} /\ Listed!UdpPortFree(i)
    BY <1>1, <1>2, <1>4, FreeInRows DEF Udp, ManagerInv, Types
  <2> QED
    BY <1>3, <2>1, FreeInRows DEF Listed!Open, Listed!There, Tcp, Udp
<1>5. CASE ~ok
  <2>1. Udp' = Udp \ {i}
    BY <1>1, <1>5 DEF Udp, ManagerInv, Types
  <2> QED
    BY <1>3, <2>1, FreeInRows DEF Listed!Open, Listed!There, Tcp, Udp
<1> QED
  BY <1>2, <1>4, <1>5

LEMMA OpensAreListed ==
    ASSUME ManagerInv, HasRow
    PROVE  /\ \A i \in Ids : StartOne(i) => Listed!Open(i) \/ Unlisted
           /\ AddStart \/ RestartStart => (\E i \in Ids : Listed!Open(i)) \/ Unlisted
<1>1. ASSUME NEW i \in Ids, StartOne(i) PROVE Listed!Open(i) \/ Unlisted
  <2>1. UNCHANGED <<rows, lastId>> /\ rows[i] \in Rows /\ rows[i] # NoRow
    BY <1>1, StartOneDoes, NoRowFacts
  <2>2. CASE UNCHANGED <<model, life, fwd, reg>>
    BY <2>1, <2>2 DEF Unlisted, Tcp, Udp
  <2>3. CASE Started(i, rows[i]) /\ TcpFree(rows[i].port)
    BY <2>1, <2>3, StartedOpens
  <2> QED
    BY <1>1, <2>2, <2>3, StartOneDoes
<1>2. ASSUME AddStart PROVE \E i \in Ids : Listed!Open(i)
  <2>1. PICK i \in Ids : i = bot.id
    BY <1>2, AddStartDoes
  <2>2. /\ rows[i] \in Rows /\ rows[i] # NoRow
        /\ Started(i, rows[i]) /\ UNCHANGED <<rows, lastId>>
    BY <1>2, <2>1, AddStartDoes, NoRowFacts
  <2>3. TcpFree(rows[i].port)
    BY <1>2, <2>1 DEF AddStart, Outcomes
  <2> QED
    BY <2>2, <2>3, StartedOpens
<1>3. ASSUME RestartStart PROVE (\E i \in Ids : Listed!Open(i)) \/ Unlisted
  <2>1. PICK i \in Ids : i = bot.id
    BY <1>3, RestartStartDoes
  <2>2. /\ bot.pc = "restart start" /\ model[i] \in Rows
        /\ UNCHANGED <<rows, lastId>>
    BY <1>3, <2>1, RestartStartDoes
  <2>3. rows[i] # NoRow
    BY <2>1, <2>2, NoRowFacts DEF ManagerInv, JobShape, JobFound, Working, HasRow, Kept
  <2>4. /\ model[i].port = rows[i].port
        /\ model[i].udp # NoPort => model[i].udp = rows[i].udp
    BY <2>2, <2>3, NoRowFacts DEF ManagerInv, CopyShape, CopyAgrees, CopyOf
  <2>5. \/ UNCHANGED <<model, life, fwd>>
        \/ Started(i, model[i]) /\ TcpFree(model[i].port)
    BY <1>3, <2>1 DEF RestartStart, Outcomes, runtime
  <2>6. CASE UNCHANGED <<model, life, fwd>>
    BY <2>2, <2>6 DEF Unlisted, Tcp, Udp
  <2>7. CASE Started(i, model[i]) /\ TcpFree(model[i].port)
    BY <2>2, <2>3, <2>4, <2>7, StartedOpens
  <2> QED
    BY <2>5, <2>6, <2>7
<1> QED
  BY <1>1, <1>2, <1>3

(* A removal, or an /add that does not come up, deletes a row that nothing *)
(* listens on account of, or fails to.                                     *)
LEMMA DeletesAreListed ==
    ASSUME ManagerInv
    PROVE  AddRollback \/ RemoveDelete => (\E i \in Ids : Listed!Delete(i)) \/ Unlisted
<1> SUFFICES ASSUME AddRollback \/ RemoveDelete
             PROVE  (\E i \in Ids : Listed!Delete(i)) \/ Unlisted
  OBVIOUS
<1>1. UNCHANGED <<lastId, life, fwd>> /\ DeleteBackend(bot.id)
  BY DEF AddRollback, RemoveDelete
<1>2. bot.pc = "add start" \/ bot.pc = "remove delete"
  BY DEF AddRollback, RemoveDelete
<1>3. bot.id \in Ids /\ life[bot.id] # "running" /\ ~fwd[bot.id]
  BY <1>2 DEF ManagerInv, LockShape, Adding, Removing, AddShape, JobShape, JobDone
<1>4. PICK i \in Ids : i = bot.id
  BY <1>3
<1>5. CASE UNCHANGED rows
  BY <1>1, <1>5 DEF Unlisted, Tcp, Udp
<1>6. CASE rows' = [rows EXCEPT ![i] = NoRow]
  <2>1. Listed!Delete(i)
    BY <1>1, <1>3, <1>4, <1>6 DEF Listed!Delete
  <2> QED
    BY <2>1
<1> QED
  BY <1>1, <1>4, <1>5, <1>6 DEF DeleteBackend

(* A new row has a new id and a name that is not in the table.             *)
LEMMA CreatesAreListed ==
    ASSUME ManagerInv, NEW n \in Names, NEW p \in Ports, NEW u \in UdpPorts,
           AddPersist(n, p, u)
    PROVE  \E r \in Rows : Listed!Create(r)
<1> DEFINE row == [name |-> n, port |-> p, udp |-> u, mode |-> Raw]
<1>1. PICK r \in Rows : r = row
  BY AddPersistDoes
<1>2. /\ lastId + 1 \in Ids /\ lastId' = lastId + 1
      /\ \A i \in Ids : rows[i] # NoRow => rows[i].name # n
      /\ rows' = [rows EXCEPT ![lastId + 1] = row]
      /\ UNCHANGED <<life, fwd>>
  BY AddPersistDoes
<1>3. r.name = n
  BY <1>1
<1> HIDE DEF row
<1>4. Listed!Create(r)
  BY <1>1, <1>2, <1>3 DEF Listed!Create, Listed!There
<1> QED
  BY <1>4

(* The UDP port of a row changes while its forwarder is closed.            *)
LEMMA UdpWritesAreListed ==
    ASSUME ManagerInv, HasRow, AskedNoUdp
    PROVE  AddUDPPersist \/ RemoveUDPClear =>
             (\E i \in Ids, u \in UdpPorts : Listed!SetUdp(i, u)) \/ Unlisted
<1>1. ASSUME AddUDPPersist PROVE \E i \in Ids, u \in UdpPorts : Listed!SetUdp(i, u)
  <2>1. PICK i \in Ids : i = bot.id
    BY <1>1, AddUDPPersistDoes
  <2>2. PICK u \in UdpPorts : u = bot.arg
    BY <1>1, AddUDPPersistDoes DEF UdpPorts
  <2>3. /\ bot.pc = "udp persist" /\ UNCHANGED <<lastId, life, fwd>>
        /\ rows' = [rows EXCEPT ![i].udp = IF i \in Stored THEN u ELSE @]
    BY <1>1, <2>1, <2>2 DEF AddUDPPersist, UpdateBackendUDP
  <2>4. rows[i] # NoRow
    BY <2>1, <2>3, NoRowFacts DEF ManagerInv, JobShape, JobFound, Working, HasRow, Kept
  <2>5. ~fwd[i]
    BY <2>1, <2>3 DEF AskedNoUdp, ManagerInv, CopyShape, RunsFromCopy
  <2>6. rows' = [rows EXCEPT ![i].udp = u]
    BY <2>3, <2>4 DEF Stored
  <2>7. Listed!SetUdp(i, u)
    BY <2>3, <2>4, <2>5, <2>6 DEF Listed!SetUdp, Listed!There
  <2> QED
    BY <2>7
<1>2. ASSUME RemoveUDPClear PROVE \E i \in Ids, u \in UdpPorts : Listed!SetUdp(i, u)
  <2>1. PICK i \in Ids : i = bot.id
    BY <1>2, RemoveUDPClearDoes
  <2>2. PICK u \in UdpPorts : u = NoPort
    BY DEF UdpPorts
  <2>3. /\ bot.pc = "udp clear" /\ UNCHANGED <<lastId, life, fwd>>
        /\ rows' = [rows EXCEPT ![i].udp = u]
    BY <1>2, <2>1, <2>2 DEF RemoveUDPClear, ClearBackendUDP
  <2>4. rows[i] # NoRow
    BY <2>1, <2>3, NoRowFacts DEF ManagerInv, JobShape, JobFound, Working, HasRow, Kept
  <2>5. ~fwd[i]
    BY <2>1, <2>3 DEF ManagerInv, JobShape, JobDone, CopyShape, RunsFromCopy
  <2>6. Listed!SetUdp(i, u)
    BY <2>3, <2>4, <2>5 DEF Listed!SetUdp, Listed!There
  <2> QED
    BY <2>6
<1> QED
  BY <1>1, <1>2

(* /forward changes a row that is there.                                   *)
LEMMA ModeWritesAreListed ==
    ASSUME ManagerInv, HasRow, NEW n \in Names, NEW m \in Modes, ForwardPersist(n, m)
    PROVE  \E i \in Ids : Listed!SetMode(i, m)
<1>1. PICK i \in Ids : i = Get(n)
  BY ForwardPersistDoes
<1>2. /\ rows' = [rows EXCEPT ![i].mode = IF i \in Stored THEN m ELSE @]
      /\ UNCHANGED <<lastId, life, fwd>>
  BY <1>1 DEF ForwardPersist, UpdateBackendForwardMode
<1>3. rows[i] # NoRow
  BY <1>1, KeyTypes, NoRowFacts DEF Get, HasRow, Kept
<1>4. rows' = [rows EXCEPT ![i].mode = m]
  BY <1>2, <1>3 DEF Stored
<1>5. Listed!SetMode(i, m)
  BY <1>2, <1>3, <1>4 DEF Listed!SetMode, Listed!There
<1> QED
  BY <1>5

(* Backend.shutdown closes both sockets.                                   *)
LEMMA ClosesAreListed ==
    ASSUME ManagerInv, NEW i \in Ids, life' = [life EXCEPT ![i] = "stopped"],
           fwd' = [fwd EXCEPT ![i] = FALSE], UNCHANGED <<rows, lastId>>
    PROVE  Listed!Close(i)
<1>1. Tcp' = Tcp \ {i} /\ Udp' = Udp \ {i}
  BY DEF Tcp, Udp, ManagerInv, Types
<1> QED
  BY <1>1 DEF Listed!Close, Tcp, Udp

(* A forwarder opens on the port of the row, if that is free, and closes   *)
(* by itself.                                                              *)
LEMMA ForwardersAreListed ==
    ASSUME ManagerInv, HasRow
    PROVE  /\ AddUDPStart => \E i \in Ids : Listed!OpenUdp(i) \/ Listed!CloseUdp(i)
           /\ \A n \in Names : RemoveUDPClose(n) => \E i \in Ids : Listed!CloseUdp(i)
<1>1. ASSUME AddUDPStart PROVE \E i \in Ids : Listed!OpenUdp(i) \/ Listed!CloseUdp(i)
  <2>1. bot.pc = "udp start" /\ UNCHANGED <<rows, lastId, model, life>>
    BY <1>1 DEF AddUDPStart
  <2>2. PICK i \in Ids : i = bot.id
    BY <2>1 DEF ManagerInv, LockShape, Working
  <2>3. PICK ok \in Outcomes(UdpFree(bot.arg)) : fwd' = [fwd EXCEPT ![i] = ok]
    BY <1>1, <2>2 DEF AddUDPStart
  <2>4. ok \in BOOLEAN /\ (ok => UdpFree(bot.arg))
    BY <2>3 DEF Outcomes
  <2>5. Tcp' = Tcp
    BY <2>1 DEF Tcp
  <2>6. CASE ok
    <3>1. bot.arg \in Ports /\ model[i].udp = bot.arg /\ model[i] \in Rows
      BY <2>1, <2>2, JobFacts DEF ManagerInv, JobShape, JobDone, WhatIsThere, Working
    <3>2. rows[i] # NoRow
      BY <2>1, <2>2, NoRowFacts DEF ManagerInv, JobShape, JobFound, Working, HasRow, Kept
    <3>3. rows[i].udp = bot.arg /\ bot.arg # NoPort
      BY <3>1, <3>2, NoRowFacts, NoPortAssumption
         DEF ManagerInv, CopyShape, CopyAgrees, CopyOf
    <3>4. Listed!UdpPortFree(i)
      BY <2>4, <2>6, <3>2, <3>3, FreeInRows
    <3>5. Udp' = Udp \union {i}
      BY <2>3, <2>6 DEF Udp, ManagerInv, Types
    <3>6. Listed!OpenUdp(i)
      BY <2>1, <2>5, <3>2, <3>4, <3>5 DEF Listed!OpenUdp, Listed!There, Tcp, Udp
    <3> QED
      BY <3>6
  <2>7. CASE ~ok
    <3>1. Udp' = Udp \ {i}
      BY <2>3, <2>7 DEF Udp, ManagerInv, Types
    <3>2. Listed!CloseUdp(i)
      BY <2>1, <2>5, <3>1 DEF Listed!CloseUdp, Tcp, Udp
    <3> QED
      BY <3>2
  <2> QED
    BY <2>4, <2>6, <2>7
<1>2. ASSUME NEW n \in Names, RemoveUDPClose(n) PROVE \E i \in Ids : Listed!CloseUdp(i)
  <2>1. PICK i \in Ids : i = Get(n)
    BY <1>2, RemoveUDPCloseDoes
  <2>2. fwd' = [fwd EXCEPT ![i] = FALSE] /\ UNCHANGED <<rows, lastId, life>>
    BY <1>2, <2>1, RemoveUDPCloseDoes
  <2>3. Tcp' = Tcp /\ Udp' = Udp \ {i}
    BY <2>2 DEF Tcp, Udp, ManagerInv, Types
  <2>4. Listed!CloseUdp(i)
    BY <2>2, <2>3 DEF Listed!CloseUdp, Tcp, Udp
  <2> QED
    BY <2>4
<1> QED
  BY <1>1, <1>2

(* Every step of the program is a step of the catalog or does not show.    *)
LEMMA CatalogStep ==
    ManagerInv /\ HasRow /\ AskedNoUdp /\ [Next]_vars => Listed!Next \/ Unlisted
<1> SUFFICES ASSUME ManagerInv, HasRow, AskedNoUdp, [Next]_vars
             PROVE  Listed!Next \/ Unlisted
  OBVIOUS
<1>0. ASSUME NEW i \in Ids,
             \/ Listed!Delete(i) \/ Listed!Open(i) \/ Listed!OpenUdp(i)
             \/ Listed!Close(i) \/ Listed!CloseUdp(i)
      PROVE  Listed!Next
  BY <1>0 DEF Listed!Next
<1>1. CASE UNCHANGED <<rows, lastId, life, fwd>>
  BY <1>1 DEF Unlisted, Tcp, Udp
<1>2. CASE NoRuntime /\ UNCHANGED <<rows, lastId>>
  <2>1. Tcp' = {} /\ Udp' = {}
    BY <1>2 DEF NoRuntime, Tcp, Udp
  <2> QED
    BY <1>2, <2>1 DEF Listed!Next, Listed!End, Tcp, Udp
<1>3. ASSUME NEW i \in Ids, StartOne(i) PROVE Listed!Next \/ Unlisted
  BY <1>0, <1>3, OpensAreListed
<1>4. CASE AddStart \/ RestartStart
  BY <1>0, <1>4, OpensAreListed
<1>5. ASSUME NEW n \in Names, NEW p \in Ports, NEW u \in UdpPorts, AddPersist(n, p, u)
      PROVE  Listed!Next
  BY <1>5, CreatesAreListed DEF Listed!Next
<1>6. CASE AddRollback \/ RemoveDelete
  BY <1>0, <1>6, DeletesAreListed
<1>7. CASE AddUDPPersist \/ RemoveUDPClear
  BY <1>7, UdpWritesAreListed DEF Listed!Next
<1>8. CASE AddUDPStart
  BY <1>0, <1>8, ForwardersAreListed
<1>9. ASSUME NEW n \in Names, RemoveUDPClose(n) PROVE Listed!Next
  BY <1>0, <1>9, ForwardersAreListed
<1>10. ASSUME NEW n \in Names, NEW m \in Modes, ForwardPersist(n, m) PROVE Listed!Next
  BY <1>10, ModeWritesAreListed DEF Listed!Next
<1>11. ASSUME NEW i \in Ids, ShutdownOne(i) PROVE Listed!Next
  BY <1>0, <1>11, ClosesAreListed DEF ShutdownOne
<1>12. CASE RemoveStop \/ RestartStop
  <2>1. PICK i \in Ids : i = bot.id
    BY <1>12 DEF RemoveStop, RestartStop, ManagerInv, LockShape, Removing, Working
  <2>2. /\ life' = [life EXCEPT ![i] = "stopped"] /\ fwd' = [fwd EXCEPT ![i] = FALSE]
        /\ UNCHANGED <<rows, lastId>>
    BY <1>12, <2>1 DEF RemoveStop, RestartStop
  <2> QED
    BY <1>0, <2>2, ClosesAreListed
<1> QED
  BY <1>1, <1>2, <1>3, <1>4, <1>5, <1>6, <1>7, <1>8, <1>9, <1>10, <1>11, <1>12
     DEF Next, MainStep, Boot, BootDone, ShutdownBegin, ShutdownEnd, Exit, Signal, Crash,
         BotExit, NewCommand, cmdAdd, handleCallback, cmdRestart, cmdAddUDP, cmdRemoveUDP,
         cmdForward, RemoveLookup, RemoveNamed, RemoveLookupId, RemoveNotFound,
         RestartLookup, AddUDPCheck, BotStep, AddPublish, ForwardSet, UpdateFails, vars

(* As long as nothing is removed by id, the manager implements the abstract *)
(* catalog (manager.go): to whoever sees its rows and its sockets only, a   *)
(* table from which each listener takes its ports, no two on the same, and *)
(* in which no row goes away or changes its UDP port under a listener.     *)
THEOREM CatalogIsKept ==
    ASSUME NoRemoveById
    PROVE  Spec => IsCatalog
<1>1. Init => HasRow /\ AskedNoUdp
  BY DEF Init, HasRow, Kept, Backed, TakenOut, AskedNoUdp, Off, Removing
<1>2. ManagerInv /\ HasRow /\ AskedNoUdp /\ [Next]_vars => (HasRow /\ AskedNoUdp)'
  BY HasRowStep, AskedNoUdpStep
<1>3. Init => Listed!Init
  BY DEF Init, Listed!Init
<1>4. ManagerInv /\ HasRow /\ AskedNoUdp /\ [Next]_vars
        => [Listed!Next]_(Listed!catalogVars)
  BY CatalogStep DEF Unlisted, Tcp, Udp, Listed!catalogVars
<1> QED
  BY <1>1, <1>2, <1>3, <1>4, Registry, PTL DEF Spec, IsCatalog, Listed!Spec
=============================================================================
