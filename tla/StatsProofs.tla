----------------------------- MODULE StatsProofs -----------------------------
(***************************************************************************)
(* Proofs about Stats and the Schema it opens its database with, for every *)
(* set of processes, list of migration files, row ids and hours: a process *)
(* that gets past storage.New finds the whole schema, and the hourly rows  *)
(* account for the traffic that was served.                                *)
(***************************************************************************)
EXTENDS Stats, SumTheorems

(* What migrate knows where process p is: the files before are recorded,   *)
(* and of this one the statements before have run.                         *)
Behind(p) ==
    /\ \A f \in Files : f < file[p] => f \in applied
    /\ file[p] \in Files =>
         \A s \in 1..Statements[file[p]] : s < stmt[p] => <<file[p], s>> \in schema

Recorded == \A f \in applied : \A s \in 1..Statements[f] : <<f, s>> \in schema

SchemaInv ==
    /\ SchemaTypes
    /\ Recorded
    /\ \A p \in Openers : phase[p] # "off" => Behind(p)
    /\ \A p \in Openers : phase[p] = "ready" => file[p] \notin Files

(* A flusher's snapshots follow its counter, and a flush records something.*)
Follows(i) ==
    /\ last[i] =< counter[i]
    /\ snap[i] # None => last[i] < snap[i] /\ snap[i] =< counter[i]

(* A backend that does not run has no counters and no flush.               *)
Quiet(i) == counter[i] = 0 /\ last[i] = 0 /\ snap[i] = None

StatsInv ==
    /\ SchemaInv
    /\ TypeOK
    /\ IsFiniteSet(DOMAIN hourly)
    /\ running # {} => Serving
    /\ \A i \in Ids : Follows(i)
    /\ \A i \in Ids \ running : Quiet(i)
    /\ Accounted

-----------------------------------------------------------------------------
(* The schema.                                                             *)

(* What a step does to the database and the processes that open it.        *)
SchemaNext ==
    \E p \in Openers :
        Open(p) \/ migrate(p) \/ Ready(p) \/ Kill(p) \/ Stop(p)

LEMMA SchemaSteps ==
    ASSUME [Next]_vars
    PROVE  SchemaNext \/ UNCHANGED schemaVars
<1>1. CASE UNCHANGED vars
  BY <1>1 DEF vars
<1>2. ASSUME NEW p \in Openers, OpenDb(p) \/ Opening(p) \/ Ends(p)
      PROVE  SchemaNext
  BY <1>2 DEF OpenDb, Opening, Ends, Boot, SchemaNext
<1>3. ASSUME NEW i \in Ids, Traffic(i) \/ statsFlusher(i) \/ Restart(i) \/ Remove(i)
      PROVE  UNCHANGED schemaVars
  BY <1>3 DEF Traffic, statsFlusher, Snapshot, Flush, FlushFails, FlushTo, Restart, Remove
<1>4. CASE Add \/ NextHour
  BY <1>4 DEF Add, NextHour
<1>5. CASE Exit
  BY <1>5, DaemonAssumption DEF Exit, SchemaNext
<1>6. QED
  BY <1>1, <1>2, <1>3, <1>4, <1>5 DEF Next

(* The first position is behind nothing.                                   *)
LEMMA FilesAreNumbers ==
    /\ Files \subseteq Nat \ {0}
    /\ \A f \in Files : Statements[f] \in Nat \ {0}
    /\ \A n \in Nat \ {0} : n \notin Files => \A f \in Files : f < n
BY StatementsAssumption DEF Files

LEMMA StatementsAre ==
    ASSUME NEW f, NEW s
    PROVE  <<f, s>> \in AllStatements <=> f \in Files /\ s \in 1..Statements[f]
BY DEF AllStatements

(* Behind(p) holds on where the database only gains and p does not move.   *)
LEMMA BehindStays ==
    ASSUME NEW p \in Openers, Behind(p),
           applied \subseteq applied', schema \subseteq schema',
           file'[p] = file[p], stmt'[p] = stmt[p]
    PROVE  Behind(p)'
BY DEF Behind

(* At the beginning of the next file, the files before it are recorded     *)
(* once the one p was at is.                                               *)
LEMMA BehindNext ==
    ASSUME SchemaTypes, NEW p \in Openers, Behind(p), NextFile(p),
           applied \subseteq applied', schema \subseteq schema',
           file[p] \in applied'
    PROVE  Behind(p)'
<1>1. file[p] \in Nat \ {0} /\ file'[p] = file[p] + 1 /\ stmt'[p] = 0
  BY DEF SchemaTypes, NextFile
<1>2. ASSUME NEW f \in Files, f < file'[p] PROVE f \in applied'
  <2>1. f \in Nat
    BY FilesAreNumbers
  <2>2. f < file[p] \/ f = file[p]
    BY <1>1, <1>2, <2>1
  <2>3. QED
    BY <2>2 DEF Behind
<1>3. QED
  BY <1>1, <1>2 DEF Behind

(* Types are kept by every step of a process.                              *)
LEMMA SchemaTypesStep ==
    ASSUME SchemaTypes, NEW p \in Openers,
           Open(p) \/ migrate(p) \/ Ready(p) \/ Kill(p) \/ Stop(p)
    PROVE  SchemaTypes'
<1>1. CASE Open(p)
  BY <1>1 DEF Open, SchemaTypes
<1>2. CASE Look(p)
  BY <1>2 DEF Look, NextFile, SchemaTypes
<1>3. CASE Exec(p)
  BY <1>3 DEF Exec, SchemaTypes
<1>4. CASE ExecFails(p)
  BY <1>4 DEF ExecFails, SchemaTypes
<1>5. CASE Record(p)
  BY <1>5 DEF Record, NextFile, SchemaTypes
<1>6. CASE Ready(p)
  BY <1>6 DEF Ready, SchemaTypes
<1>7. CASE Kill(p)
  BY <1>7, CrashAssumption DEF Kill, SchemaTypes
<1>8. CASE Stop(p)
  BY <1>8 DEF Stop, SchemaTypes
<1>9. QED
  BY <1>1, <1>2, <1>3, <1>4, <1>5, <1>6, <1>7, <1>8 DEF migrate

(* The database never loses a statement or a record of one.                *)
LEMMA SchemaGrows ==
    ASSUME NEW p \in Openers,
           Open(p) \/ migrate(p) \/ Ready(p) \/ Kill(p) \/ Stop(p)
    PROVE  schema \subseteq schema' /\ applied \subseteq applied'
BY DEF Open, migrate, Look, Exec, ExecFails, Record, Ready, Kill, Stop

(* The other processes stay where they are.                                *)
LEMMA OthersStay ==
    ASSUME SchemaTypes, NEW p \in Openers,
           Open(p) \/ migrate(p) \/ Ready(p) \/ Kill(p) \/ Stop(p)
    PROVE  \A q \in Openers \ {p} :
               phase'[q] = phase[q] /\ file'[q] = file[q] /\ stmt'[q] = stmt[q]
BY DEF SchemaTypes, Open, migrate, Look, Exec, ExecFails, Record, Ready, Kill, Stop, NextFile

(* What a file's statements have done is known when the file is recorded.  *)
LEMMA RecordedStep ==
    ASSUME SchemaInv, NEW p \in Openers,
           Open(p) \/ migrate(p) \/ Ready(p) \/ Kill(p) \/ Stop(p)
    PROVE  Recorded'
<1>1. CASE Record(p) /\ file[p] \notin applied
  <2>1. /\ phase[p] = "migrate" /\ file[p] \in Files /\ stmt[p] > Statements[file[p]]
        /\ applied' = applied \union {file[p]} /\ schema' = schema
    BY <1>1 DEF Record, Migrating
  <2>2. \A s \in 1..Statements[file[p]] : <<file[p], s>> \in schema
    <3>1. Statements[file[p]] \in Nat /\ stmt[p] \in Nat
      BY <2>1, FilesAreNumbers DEF SchemaInv, SchemaTypes
    <3>2. \A s \in 1..Statements[file[p]] : s < stmt[p]
      BY <2>1, <3>1
    <3>3. QED
      BY <2>1, <3>2 DEF SchemaInv, Behind
  <2>3. QED
    BY <2>1, <2>2 DEF SchemaInv, Recorded
<1>2. CASE ~(Record(p) /\ file[p] \notin applied)
  <2>1. applied' = applied
    BY <1>2 DEF Open, migrate, Look, Exec, ExecFails, Record, Ready, Kill, Stop
  <2>2. QED
    BY <2>1, SchemaGrows DEF SchemaInv, Recorded
<1>3. QED
  BY <1>1, <1>2

(* The process that steps knows as much of its new position.               *)
LEMMA BehindStep ==
    ASSUME SchemaInv, NEW p \in Openers,
           Open(p) \/ migrate(p) \/ Ready(p) \/ Kill(p) \/ Stop(p),
           phase'[p] # "off"
    PROVE  Behind(p)'
<1>1. SchemaTypes /\ schema \subseteq schema' /\ applied \subseteq applied'
  BY SchemaGrows DEF SchemaInv
<1>2. CASE Open(p)
  <2>1. file'[p] = 1 /\ stmt'[p] = 0
    BY <1>1, <1>2 DEF Open, SchemaTypes
  <2>2. QED
    BY <2>1, FilesAreNumbers DEF Behind
<1>3. CASE Look(p)
  <2>1. phase[p] = "migrate" /\ Behind(p)
    BY <1>3 DEF Look, Migrating, SchemaInv
  <2>2. CASE file[p] \in applied
    BY <1>1, <1>3, <2>1, <2>2, BehindNext DEF Look
  <2>3. CASE file[p] \notin applied
    <3>1. file'[p] = file[p] /\ stmt'[p] = 1
      BY <1>1, <1>3, <2>3 DEF Look, SchemaTypes
    <3>2. QED
      BY <1>1, <2>1, <3>1 DEF Behind
  <2>4. QED
    BY <2>2, <2>3
<1>4. CASE Exec(p)
  <2>1. /\ phase[p] = "migrate" /\ Behind(p) /\ stmt[p] \in Nat
        /\ file'[p] = file[p] /\ stmt'[p] = stmt[p] + 1
        /\ <<file[p], stmt[p]>> \in schema'
    BY <1>1, <1>4 DEF Exec, Migrating, Here, SchemaInv, SchemaTypes
  <2>2. ASSUME file[p] \in Files,
               NEW s \in 1..Statements[file[p]], s < stmt'[p]
        PROVE  <<file[p], s>> \in schema'
    <3>1. s \in Nat /\ (s < stmt[p] \/ s = stmt[p])
      BY <2>1, <2>2
    <3>2. QED
      BY <1>1, <2>1, <2>2, <3>1 DEF Behind
  <2>3. QED
    BY <1>1, <2>1, <2>2 DEF Behind
<1>5. CASE Record(p)
  <2>1. /\ phase[p] = "migrate" /\ Behind(p) /\ file[p] \in applied'
        /\ phase'[p] # "off" => NextFile(p)
    BY <1>1, <1>5 DEF Record, Migrating, SchemaInv, SchemaTypes
  <2>2. QED
    BY <1>1, <2>1, BehindNext
<1>6. CASE Ready(p)
  BY <1>1, <1>6, BehindStays DEF Ready, Migrating, SchemaInv
<1>7. CASE ExecFails(p) \/ Kill(p) \/ Stop(p)
  BY <1>1, <1>7 DEF ExecFails, Kill, Stop, SchemaTypes
<1>8. QED
  BY <1>2, <1>3, <1>4, <1>5, <1>6, <1>7 DEF migrate

LEMMA SchemaInvStep ==
    ASSUME SchemaInv, SchemaNext \/ UNCHANGED schemaVars
    PROVE  SchemaInv'
<1>1. CASE UNCHANGED schemaVars
  BY <1>1 DEF schemaVars, procVars, SchemaInv, SchemaTypes, Recorded, Behind
<1>2. ASSUME NEW p \in Openers,
             Open(p) \/ migrate(p) \/ Ready(p) \/ Kill(p) \/ Stop(p)
      PROVE  SchemaInv'
  <2>1. SchemaTypes' /\ Recorded'
    BY <1>2, SchemaTypesStep, RecordedStep DEF SchemaInv
  <2>2. ASSUME NEW q \in Openers, phase'[q] # "off" PROVE Behind(q)'
    <3>1. CASE q = p
      BY <1>2, <2>2, <3>1, BehindStep
    <3>2. CASE q # p
      <4>1. phase'[q] = phase[q] /\ file'[q] = file[q] /\ stmt'[q] = stmt[q]
        BY <1>2, <3>2, OthersStay DEF SchemaInv
      <4>2. QED
        BY <1>2, <2>2, <4>1, SchemaGrows, BehindStays DEF SchemaInv
    <3>3. QED
      BY <3>1, <3>2
  <2>3. ASSUME NEW q \in Openers, phase'[q] = "ready" PROVE file'[q] \notin Files
    <3>1. CASE q # p
      BY <1>2, <2>3, <3>1, OthersStay DEF SchemaInv
    <3>2. CASE q = p
      BY <1>2, <2>3, <3>2 DEF SchemaInv, SchemaTypes, Open, migrate, Look, Exec, ExecFails,
                              Record, Ready, Kill, Stop, Migrating
    <3>3. QED
      BY <3>1, <3>2
  <2>4. QED
    BY <2>1, <2>2, <2>3 DEF SchemaInv
<1>3. QED
  BY <1>1, <1>2 DEF SchemaNext

LEMMA SchemaInvInit ==
    ASSUME SchemaInit
    PROVE  SchemaInv
BY CrashAssumption DEF SchemaInit, SchemaInv, SchemaTypes, Recorded

(* A process that has nothing left to apply has seen every statement run.  *)
LEMMA CompleteWhenReady ==
    ASSUME SchemaInv
    PROVE  SchemaComplete
<1>1. \A f \in applied : {f} \X (1..Statements[f]) \subseteq schema
  BY DEF SchemaInv, Recorded
<1>2. ASSUME NEW p \in Openers, phase[p] = "ready" PROVE schema = AllStatements
  <2>1. Behind(p) /\ file[p] \in Nat \ {0} /\ file[p] \notin Files
    BY <1>2 DEF SchemaInv, SchemaTypes
  <2>2. \A f \in Files : f \in applied
    BY <2>1, FilesAreNumbers DEF Behind
  <2>3. ASSUME NEW a \in AllStatements PROVE a \in schema
    <3>1. PICK f \in Files : \E s \in 1..Statements[f] : a = <<f, s>>
      BY <2>3 DEF AllStatements
    <3>2. QED
      BY <2>2, <3>1 DEF SchemaInv, Recorded
  <2>4. QED
    BY <2>3 DEF SchemaInv, SchemaTypes
<1>3. QED
  BY <1>1, <1>2 DEF SchemaComplete, ReadyHasSchema

(* Whatever is killed between two statements, and however two openings     *)
(* interleave, storage.New returns only with the whole schema in place,    *)
(* and schema_migrations names only files that have run to their end       *)
(* (storage.go:50 migrate).                                                *)
THEOREM ReadyIsComplete == Spec => []SchemaComplete
<1>1. Init => SchemaInv
  BY SchemaInvInit DEF Init
<1>2. SchemaInv /\ [Next]_vars => SchemaInv'
  BY SchemaSteps, SchemaInvStep
<1>3. SchemaInv => SchemaComplete
  BY CompleteWhenReady
<1>4. QED
  BY <1>1, <1>2, <1>3, PTL DEF Spec

-----------------------------------------------------------------------------
(* The hourly rows.                                                        *)

LEMMA SumIsTotal ==
    ASSUME NEW i
    PROVE  /\ SumStats(i) = Total(hourly, HoursOf(i))
           /\ SumStats(i)' = Total(hourly', HoursOf(i)')
<1>1. SumStats(i) = Total(hourly, HoursOf(i))
  BY DEF SumStats, Total
<1>2. SumStats(i)' = Total(hourly', HoursOf(i)')
  BY DEF SumStats, Total, MapThenSumSet, MapThenFoldSet
<1>3. QED
  BY <1>1, <1>2

(* A backend's hours are finitely many, and their sum is a natural number. *)
LEMMA HoursAreFinite ==
    ASSUME StatsInv, NEW i
    PROVE  /\ IsFiniteSet(HoursOf(i))
           /\ \A k \in HoursOf(i) : hourly[k] \in Nat
           /\ SumStats(i) \in Nat
<1>1. HoursOf(i) \in SUBSET DOMAIN hourly
  BY DEF HoursOf
<1>2. IsFiniteSet(HoursOf(i))
  BY <1>1, FS_Subset DEF StatsInv
<1>3. \A k \in HoursOf(i) : hourly[k] \in Nat
  BY <1>1 DEF StatsInv, TypeOK
<1>4. QED
  BY <1>2, <1>3, SumIsTotal, TotalOfNaturals

(* The sum of a backend whose hours are as they were is what it was.       *)
LEMMA SumStays ==
    ASSUME StatsInv, NEW i, HoursOf(i)' = HoursOf(i),
           \A k \in HoursOf(i) : hourly'[k] = hourly[k]
    PROVE  SumStats(i)' = SumStats(i)
<1>1. Total(hourly, HoursOf(i)) = Total(hourly', HoursOf(i))
  BY HoursAreFinite, TotalIsSame
<1>2. QED
  BY <1>1, SumIsTotal

(* The upsert leaves a table of the same kind, in which backend i has      *)
(* delta more and the others what they had.                                *)
LEMMA RecordAdds ==
    ASSUME StatsInv, NEW i \in Ids, i < nextId, NEW delta \in Nat \ {0}, RecordStat(i, delta)
    PROVE  /\ DOMAIN hourly' = DOMAIN hourly \union {<<i, hour>>}
           /\ IsFiniteSet(DOMAIN hourly')
           /\ \A k \in DOMAIN hourly' : hourly'[k] \in Nat \ {0}
           /\ SumStats(i)' = SumStats(i) + delta
           /\ \A j \in Ids \ {i} : SumStats(j)' = SumStats(j)
<1> DEFINE k == <<i, hour>>
<1>1. /\ DOMAIN hourly' = DOMAIN hourly \union {k}
      /\ hourly'[k] = delta + (IF k \in DOMAIN hourly THEN hourly[k] ELSE 0)
      /\ \A l \in DOMAIN hourly \ {k} : hourly'[l] = hourly[l]
  <2>1. k \in DOMAIN hourly => hourly[k] \in Nat
    BY DEF StatsInv, TypeOK
  <2>2. QED
    BY <2>1 DEF RecordStat
<1>2. /\ IsFiniteSet(DOMAIN hourly')
      /\ \A l \in DOMAIN hourly' : hourly'[l] \in Nat \ {0}
      /\ \A l \in DOMAIN hourly : hourly[l] \in Nat \ {0}
  BY <1>1, FS_AddElement DEF StatsInv, TypeOK
<1>3. SumStats(i)' = SumStats(i) + delta
  <2> DEFINE H == HoursOf(i)
  <2>1. HoursOf(i)' = H \union {k}
    BY <1>1 DEF HoursOf
  <2>2. IsFiniteSet(H) /\ \A l \in H : hourly[l] \in Int /\ hourly'[l] \in Int
    BY <1>1, <1>2, HoursAreFinite DEF HoursOf
  <2>3. \A l \in H \ {k} : hourly'[l] = hourly[l]
    BY <1>1 DEF HoursOf
  <2>4. CASE k \in DOMAIN hourly
    <3>1. k \in H /\ H \union {k} = H /\ hourly'[k] = delta + hourly[k]
      BY <2>4, <1>1 DEF HoursOf
    <3>2. Total(hourly', H) = Total(hourly, H) - hourly[k] + hourly'[k]
      BY <2>2, <2>3, <3>1, TotalOfChanged
    <3>3. Total(hourly, H) \in Int /\ hourly[k] \in Int
      BY <2>2, <3>1, TotalOfOneMore
    <3>4. QED
      BY <2>1, <3>1, <3>2, <3>3, SumIsTotal
  <2>5. CASE k \notin DOMAIN hourly
    <3>1. k \notin H /\ hourly'[k] = delta
      BY <2>5, <1>1 DEF HoursOf
    <3>2. Total(hourly', H \union {k}) = hourly'[k] + Total(hourly', H)
      BY <2>2, <3>1, TotalOfNew
    <3>3. Total(hourly', H) = Total(hourly, H)
      BY <2>2, <2>3, <3>1, TotalIsSame
    <3>4. Total(hourly, H) \in Int
      BY <2>2, TotalOfOneMore
    <3>5. QED
      BY <2>1, <3>1, <3>2, <3>3, <3>4, SumIsTotal
  <2>6. QED
    BY <2>4, <2>5
<1>4. ASSUME NEW j \in Ids \ {i} PROVE SumStats(j)' = SumStats(j)
  <2>1. HoursOf(j)' = HoursOf(j) /\ \A l \in HoursOf(j) : hourly'[l] = hourly[l]
    BY <1>1 DEF HoursOf
  <2>2. QED
    BY <2>1, SumStays
<1>5. QED
  BY <1>1, <1>2, <1>3, <1>4

-----------------------------------------------------------------------------
(* The account of a backend, action by action.                             *)

Account(i) == SumStats(i) + (counter[i] - last[i]) + lost[i] = served[i] + again[i]

(* What the invariant says of one backend ...                              *)
Sound(i) == Follows(i) /\ (i \notin running => Quiet(i)) /\ Account(i)

(* ... and of all of them together.                                        *)
Together ==
    /\ TypeOK
    /\ IsFiniteSet(DOMAIN hourly)
    /\ running # {} => Serving

LEMMA InvIsPointwise ==
    /\ StatsInv <=> SchemaInv /\ Together /\ \A i \in Ids : Sound(i)
    /\ StatsInv' <=> SchemaInv' /\ Together' /\ \A i \in Ids : Sound(i)'
BY DEF StatsInv, Together, Sound, Accounted, Account

LEMMA BackendFacts ==
    ASSUME StatsInv, NEW i \in Ids
    PROVE  /\ counter[i] \in Nat /\ last[i] \in Nat /\ snap[i] \in Nat \union {None}
           /\ served[i] \in Nat /\ lost[i] \in Nat /\ again[i] \in Nat
           /\ SumStats(i) \in Nat /\ None \notin Nat
           /\ Sound(i)
           /\ i \in running => i < nextId /\ i \in rows
<1>1. Sound(i)
  BY InvIsPointwise
<1>2. SumStats(i) \in Nat
  BY HoursAreFinite
<1>3. QED
  BY <1>1, <1>2, TrafficAssumption DEF StatsInv, TypeOK, Ids

(* A backend none of whose counters moves, and whose hours are those it    *)
(* had, is as sound as it was.                                             *)
LEMMA SoundStays ==
    ASSUME StatsInv, NEW i \in Ids,
           counter'[i] = counter[i], last'[i] = last[i], snap'[i] = snap[i],
           lost'[i] = lost[i], served'[i] = served[i], again'[i] = again[i],
           i \in running => i \in running',
           SumStats(i)' = SumStats(i)
    PROVE  Sound(i)'
BY BackendFacts DEF Sound, Follows, Quiet, Account

LEMMA SumsStay ==
    ASSUME StatsInv, hourly' = hourly
    PROVE  \A i \in Ids : SumStats(i)' = SumStats(i)
BY SumStays DEF HoursOf

LEMMA TrafficStep ==
    ASSUME StatsInv, NEW i \in Ids, Traffic(i)
    PROVE  Together' /\ \A j \in Ids : Sound(j)'
<1>1. /\ i \in running /\ Serving
      /\ counter' = [counter EXCEPT ![i] = @ + 1]
      /\ served' = [served EXCEPT ![i] = @ + 1]
      /\ UNCHANGED <<schemaVars, hour, running, last, snap, tableVars, lost, again>>
  BY DEF Traffic
<1>2. Together'
  BY <1>1 DEF StatsInv, Together, TypeOK, SchemaTypes, schemaVars, procVars, tableVars, Serving
<1>3. \A j \in Ids : SumStats(j)' = SumStats(j)
  BY <1>1, SumsStay DEF tableVars
<1>4. Sound(i)'
  <2>1. counter'[i] = counter[i] + 1 /\ served'[i] = served[i] + 1
    BY <1>1 DEF StatsInv, TypeOK
  <2>2. Follows(i)'
    BY <1>1, <2>1, BackendFacts DEF Sound, Follows
  <2>3. Account(i)'
    BY <1>1, <1>3, <2>1, BackendFacts DEF Sound, Account
  <2>4. QED
    BY <1>1, <2>2, <2>3 DEF Sound
<1>5. ASSUME NEW j \in Ids \ {i} PROVE Sound(j)'
  BY <1>1, <1>3, SoundStays DEF StatsInv, TypeOK
<1>6. QED
  BY <1>2, <1>4, <1>5

LEMMA SnapshotStep ==
    ASSUME StatsInv, NEW i \in Ids, Snapshot(i)
    PROVE  Together' /\ \A j \in Ids : Sound(j)'
<1>1. /\ i \in running /\ Serving /\ counter[i] # last[i]
      /\ snap' = [snap EXCEPT ![i] = counter[i]]
      /\ UNCHANGED <<schemaVars, hour, running, counter, last, tableVars, ghostVars>>
  BY DEF Snapshot
<1>2. Together'
  BY <1>1 DEF StatsInv, Together, TypeOK, SchemaTypes, schemaVars, procVars, tableVars,
              ghostVars, Serving
<1>3. \A j \in Ids : SumStats(j)' = SumStats(j)
  BY <1>1, SumsStay DEF tableVars
<1>4. Sound(i)'
  <2>1. snap'[i] = counter[i]
    BY <1>1 DEF StatsInv, TypeOK
  <2>2. Follows(i)'
    BY <1>1, <2>1, BackendFacts DEF Sound, Follows
  <2>3. QED
    BY <1>1, <1>3, <2>2, BackendFacts DEF Sound, Account, ghostVars
<1>5. ASSUME NEW j \in Ids \ {i} PROVE Sound(j)'
  BY <1>1, <1>3, SoundStays DEF StatsInv, TypeOK, ghostVars
<1>6. QED
  BY <1>2, <1>4, <1>5

(* What the two ends of a flush have in common.                            *)
LEMMA FlushDoes ==
    ASSUME StatsInv, NEW i \in Ids, Serving, snap[i] # None, FlushTo(i, snap[i])
    PROVE  /\ i \in running /\ i < nextId /\ snap[i] - last[i] \in Nat \ {0}
           /\ last' = [last EXCEPT ![i] = snap[i]] /\ last'[i] = snap[i]
           /\ snap' = [snap EXCEPT ![i] = None] /\ snap'[i] = None
           /\ UNCHANGED <<schemaVars, hour, running, counter, rows, nextId, served, again>>
<1>1. i \in running /\ i < nextId
  BY BackendFacts DEF Sound, Quiet
<1>2. snap[i] - last[i] \in Nat \ {0}
  BY BackendFacts DEF Sound, Follows
<1>3. QED
  BY <1>1, <1>2 DEF FlushTo, StatsInv, TypeOK

LEMMA FlushStep ==
    ASSUME StatsInv, NEW i \in Ids, Flush(i)
    PROVE  Together' /\ \A j \in Ids : Sound(j)'
<1>1. /\ Serving /\ snap[i] # None /\ RecordStat(i, snap[i] - last[i]) /\ lost' = lost
      /\ FlushTo(i, snap[i])
  BY DEF Flush
<1>2. /\ i \in running /\ i < nextId /\ snap[i] - last[i] \in Nat \ {0}
      /\ last' = [last EXCEPT ![i] = snap[i]] /\ last'[i] = snap[i]
      /\ snap' = [snap EXCEPT ![i] = None] /\ snap'[i] = None
      /\ UNCHANGED <<schemaVars, hour, running, counter, rows, nextId, served, again>>
  BY <1>1, FlushDoes
<1>3. /\ DOMAIN hourly' = DOMAIN hourly \union {<<i, hour>>}
      /\ IsFiniteSet(DOMAIN hourly')
      /\ \A k \in DOMAIN hourly' : hourly'[k] \in Nat \ {0}
      /\ SumStats(i)' = SumStats(i) + (snap[i] - last[i])
      /\ \A j \in Ids \ {i} : SumStats(j)' = SumStats(j)
  BY <1>1, <1>2, RecordAdds
<1>4. Together'
  <2>1. snap[i] \in Nat
    BY <1>1, BackendFacts
  <2>2. DOMAIN hourly' \subseteq (1..(nextId' - 1)) \X Hours
    BY <1>2, <1>3 DEF StatsInv, TypeOK, Ids
  <2>3. QED
    BY <1>1, <1>2, <1>3, <2>1, <2>2 DEF StatsInv, Together, TypeOK, SchemaTypes, schemaVars,
                                        procVars, Serving
<1>5. Sound(i)'
  <2>1. Follows(i)'
    BY <1>1, <1>2, BackendFacts DEF Sound, Follows
  <2>2. Account(i)'
    BY <1>1, <1>2, <1>3, BackendFacts DEF Sound, Account
  <2>3. QED
    BY <1>2, <2>1, <2>2 DEF Sound
<1>6. ASSUME NEW j \in Ids \ {i} PROVE Sound(j)'
  BY <1>1, <1>2, <1>3, SoundStays DEF StatsInv, TypeOK
<1>7. QED
  BY <1>4, <1>5, <1>6

LEMMA FlushFailsStep ==
    ASSUME StatsInv, NEW i \in Ids, FlushFails(i)
    PROVE  Together' /\ \A j \in Ids : Sound(j)'
<1>1. /\ Serving /\ snap[i] # None /\ FlushTo(i, snap[i]) /\ hourly' = hourly
      /\ lost' = [lost EXCEPT ![i] = @ + snap[i] - last[i]]
  BY DEF FlushFails
<1>2. /\ i \in running /\ i < nextId /\ snap[i] - last[i] \in Nat \ {0}
      /\ last' = [last EXCEPT ![i] = snap[i]] /\ last'[i] = snap[i]
      /\ snap' = [snap EXCEPT ![i] = None] /\ snap'[i] = None
      /\ UNCHANGED <<schemaVars, hour, running, counter, rows, nextId, served, again>>
  BY <1>1, FlushDoes
<1>3. \A j \in Ids : SumStats(j)' = SumStats(j)
  BY <1>1, SumsStay
<1>4. snap[i] \in Nat /\ lost'[i] = lost[i] + (snap[i] - last[i]) /\ lost' \in [Ids -> Nat]
  <2>1. snap[i] \in Nat /\ last[i] \in Nat /\ lost[i] \in Nat
    BY <1>1, BackendFacts
  <2>2. lost[i] + snap[i] - last[i] = lost[i] + (snap[i] - last[i])
    BY <2>1
  <2>3. QED
    BY <1>1, <1>2, <2>1, <2>2 DEF StatsInv, TypeOK
<1>5. Together'
  BY <1>1, <1>2, <1>4 DEF StatsInv, Together, TypeOK, SchemaTypes, schemaVars, procVars, Serving
<1>6. Sound(i)'
  <2>1. Follows(i)'
    BY <1>1, <1>2, BackendFacts DEF Sound, Follows
  <2>2. Account(i)'
    BY <1>2, <1>3, <1>4, BackendFacts DEF Sound, Account
  <2>3. QED
    BY <1>2, <2>1, <2>2 DEF Sound
<1>7. ASSUME NEW j \in Ids \ {i} PROVE Sound(j)'
  BY <1>1, <1>2, <1>3, SoundStays DEF StatsInv, TypeOK
<1>8. QED
  BY <1>5, <1>6, <1>7

LEMMA RestartStep ==
    ASSUME StatsInv, NEW i \in Ids, Restart(i)
    PROVE  Together' /\ \A j \in Ids : Sound(j)'
<1>1. /\ Serving /\ i \in running /\ snap[i] = None
      /\ again' = [again EXCEPT ![i] = @ + last[i]]
      /\ last' = [last EXCEPT ![i] = 0]
      /\ UNCHANGED <<schemaVars, hour, running, counter, snap, tableVars, served, lost>>
  BY DEF Restart, FlusherIdle
<1>2. Together'
  BY <1>1 DEF StatsInv, Together, TypeOK, SchemaTypes, schemaVars, procVars, tableVars, Serving
<1>3. \A j \in Ids : SumStats(j)' = SumStats(j)
  BY <1>1, SumsStay DEF tableVars
<1>4. Sound(i)'
  <2>1. last'[i] = 0 /\ again'[i] = again[i] + last[i] /\ snap'[i] = None
    BY <1>1 DEF StatsInv, TypeOK
  <2>2. Follows(i)'
    BY <1>1, <2>1, BackendFacts DEF Follows
  <2>3. Account(i)'
    BY <1>1, <1>3, <2>1, BackendFacts DEF Sound, Account
  <2>4. QED
    BY <1>1, <2>2, <2>3 DEF Sound
<1>5. ASSUME NEW j \in Ids \ {i} PROVE Sound(j)'
  BY <1>1, <1>3, SoundStays DEF StatsInv, TypeOK
<1>6. QED
  BY <1>2, <1>4, <1>5

LEMMA AddStep ==
    ASSUME StatsInv, Add
    PROVE  Together' /\ \A j \in Ids : Sound(j)'
<1>1. /\ Serving /\ nextId \in Ids
      /\ rows' = rows \union {nextId} /\ nextId' = nextId + 1
      /\ running' = running \union {nextId}
      /\ UNCHANGED <<schemaVars, hour, counter, last, snap, hourly, ghostVars>>
  BY DEF Add
<1>2. Together'
  <2>1. /\ nextId' \in 1..(MaxId + 1) /\ rows' \subseteq 1..(nextId' - 1)
        /\ running' \subseteq rows' /\ 1..(nextId - 1) \subseteq 1..(nextId' - 1)
    <3>1. nextId \in 1..MaxId /\ MaxId \in Nat /\ rows \subseteq 1..(nextId - 1)
          /\ running \subseteq rows
      BY <1>1, DaemonAssumption DEF StatsInv, TypeOK, Ids
    <3>2. nextId + 1 \in 1..(MaxId + 1) /\ nextId' - 1 = nextId
          /\ 1..(nextId - 1) \subseteq 1..nextId /\ nextId \in 1..nextId
      BY <1>1, <3>1
    <3>3. QED
      BY <1>1, <3>1, <3>2
  <2>2. DOMAIN hourly' \subseteq (1..(nextId' - 1)) \X Hours
    BY <1>1, <2>1 DEF StatsInv, TypeOK
  <2>3. QED
    BY <1>1, <2>1, <2>2 DEF StatsInv, Together, TypeOK, SchemaTypes, schemaVars, procVars,
                            ghostVars, Serving
<1>3. \A j \in Ids : SumStats(j)' = SumStats(j)
  BY <1>1, SumsStay
<1>4. ASSUME NEW j \in Ids PROVE Sound(j)'
  BY <1>1, <1>3, SoundStays DEF ghostVars
<1>5. QED
  BY <1>2, <1>4

(* Remove takes the hours of one backend away, or none.                    *)
LEMMA RemoveDoes ==
    ASSUME StatsInv, NEW i \in Ids, Remove(i)
    PROVE  /\ Serving /\ i \in running /\ snap[i] = None
           /\ rows' = rows \ {i} /\ running' = running \ {i}
           /\ counter' = [counter EXCEPT ![i] = 0] /\ last' = [last EXCEPT ![i] = 0]
           /\ UNCHANGED <<schemaVars, hour, nextId, snap, served, again>>
           /\ DOMAIN hourly' \subseteq DOMAIN hourly
           /\ \A k \in DOMAIN hourly' : hourly'[k] = hourly[k]
           /\ \A j \in Ids \ {i} : SumStats(j)' = SumStats(j) /\ lost'[j] = lost[j]
           /\ lost' \in [Ids -> Nat] /\ SumStats(i)' \in Int
           /\ SumStats(i)' + lost'[i] = SumStats(i) + (counter[i] - last[i]) + lost[i]
<1> DEFINE gone == IF fk[Daemon] THEN HoursOf(i) ELSE {}
           total == MapThenSumSet(LAMBDA k : hourly[k], gone)
<1>1. /\ Serving /\ i \in running /\ snap[i] = None
      /\ rows' = rows \ {i} /\ running' = running \ {i}
      /\ counter' = [counter EXCEPT ![i] = 0] /\ last' = [last EXCEPT ![i] = 0]
      /\ UNCHANGED <<schemaVars, hour, nextId, snap, served, again>>
      /\ hourly' = [k \in DOMAIN hourly \ gone |-> hourly[k]]
      /\ lost' = [lost EXCEPT ![i] = @ + counter[i] - last[i] + total]
  BY DEF Remove, FlusherIdle
<1>2. total = Total(hourly, gone)
  BY DEF Total
<1>3. total \in Nat /\ SumStats(i)' + total = SumStats(i)
  <2>1. CASE fk[Daemon]
    <3>1. gone = HoursOf(i) /\ HoursOf(i)' = {}
      BY <1>1, <2>1 DEF HoursOf
    <3>2. SumStats(i)' = 0
      BY <3>1, SumIsTotal, TotalOfNone
    <3>3. total = SumStats(i)
      BY <1>2, <3>1, SumIsTotal
    <3>4. QED
      BY <3>2, <3>3, HoursAreFinite
  <2>2. CASE ~fk[Daemon]
    <3>1. gone = {}
      BY <2>2
    <3>2. total = 0
      BY <1>2, <3>1, TotalOfNone
    <3>3. SumStats(i)' = SumStats(i)
      BY <1>1, <3>1, SumStays DEF HoursOf
    <3>4. QED
      BY <3>2, <3>3, HoursAreFinite
  <2>3. QED
    BY <2>1, <2>2
<1> HIDE DEF total
<1>4. ASSUME NEW j \in Ids \ {i} PROVE SumStats(j)' = SumStats(j) /\ lost'[j] = lost[j]
  <2>1. HoursOf(j)' = HoursOf(j) /\ \A k \in HoursOf(j) : hourly'[k] = hourly[k]
    BY <1>1 DEF HoursOf
  <2>2. QED
    BY <1>1, <2>1, SumStays DEF StatsInv, TypeOK
<1>5. counter[i] - last[i] + total \in Nat
      /\ lost'[i] = lost[i] + (counter[i] - last[i] + total)
  <2>1. counter[i] \in Nat /\ last[i] \in Nat /\ lost[i] \in Nat /\ last[i] =< counter[i]
    BY BackendFacts DEF Sound, Follows
  <2>2. lost'[i] = lost[i] + counter[i] - last[i] + total
    BY <1>1 DEF StatsInv, TypeOK
  <2>3. QED
    BY <1>3, <2>1, <2>2
<1>6. lost' \in [Ids -> Nat]
  <2>1. DOMAIN lost' = Ids /\ lost \in [Ids -> Nat] /\ lost' = [lost EXCEPT ![i] = lost'[i]]
    BY <1>1 DEF StatsInv, TypeOK
  <2>2. lost'[i] \in Nat
    BY <1>5, BackendFacts
  <2>3. QED
    BY <2>1, <2>2
<1>7. /\ SumStats(i)' \in Int
      /\ SumStats(i)' + lost'[i] = SumStats(i) + (counter[i] - last[i]) + lost[i]
  <2>1. SumStats(i)' \in Int
    <3>1. HoursOf(i)' \subseteq HoursOf(i) /\ \A k \in HoursOf(i)' : hourly'[k] = hourly[k]
      BY <1>1 DEF HoursOf
    <3>2. IsFiniteSet(HoursOf(i)') /\ \A k \in HoursOf(i)' : hourly'[k] \in Nat
      BY <3>1, HoursAreFinite, FS_Subset
    <3>3. QED
      BY <3>2, SumIsTotal, TotalOfNaturals
  <2>2. QED
    BY <1>3, <1>5, <2>1, BackendFacts
<1>8. /\ DOMAIN hourly' \subseteq DOMAIN hourly
      /\ \A k \in DOMAIN hourly' : hourly'[k] = hourly[k]
  BY <1>1
<1>9. QED
  BY <1>1, <1>4, <1>6, <1>7, <1>8

LEMMA RemoveStep ==
    ASSUME StatsInv, NEW i \in Ids, Remove(i)
    PROVE  Together' /\ \A j \in Ids : Sound(j)'
<1>1. Together'
  <2>1. IsFiniteSet(DOMAIN hourly')
    BY RemoveDoes, FS_Subset DEF StatsInv
  <2>2. /\ rows' \subseteq 1..(nextId' - 1) /\ running' \subseteq rows'
        /\ nextId' \in 1..(MaxId + 1)
        /\ DOMAIN hourly' \subseteq (1..(nextId' - 1)) \X Hours
        /\ \A k \in DOMAIN hourly' : hourly'[k] \in Nat \ {0}
    BY RemoveDoes DEF StatsInv, TypeOK
  <2>3. /\ Serving /\ counter' = [counter EXCEPT ![i] = 0]
        /\ last' = [last EXCEPT ![i] = 0] /\ lost' \in [Ids -> Nat]
        /\ UNCHANGED <<schemaVars, hour, nextId, snap, served, again>>
    BY RemoveDoes
  <2>4. QED
    BY <2>1, <2>2, <2>3 DEF StatsInv, Together, TypeOK, SchemaTypes, schemaVars, procVars,
                            Serving
<1>2. Sound(i)'
  <2>1. counter'[i] = 0 /\ last'[i] = 0 /\ snap'[i] = None
    BY RemoveDoes DEF StatsInv, TypeOK
  <2>2. Follows(i)' /\ Quiet(i)'
    BY <2>1 DEF Follows, Quiet
  <2>3. Account(i)'
    <3>1. /\ SumStats(i)' \in Int
          /\ SumStats(i)' + lost'[i] = SumStats(i) + (counter[i] - last[i]) + lost[i]
          /\ served'[i] = served[i] /\ again'[i] = again[i] /\ lost'[i] \in Nat
          /\ SumStats(i) + (counter[i] - last[i]) + lost[i] = served[i] + again[i]
      BY RemoveDoes, BackendFacts DEF Sound, Account
    <3>2. QED
      BY <2>1, <3>1 DEF Account
  <2>4. QED
    BY <2>2, <2>3 DEF Sound
<1>3. ASSUME NEW j \in Ids \ {i} PROVE Sound(j)'
  BY RemoveDoes, SoundStays DEF StatsInv, TypeOK
<1>4. QED
  BY <1>1, <1>2, <1>3

(* Starting the backends, with everything at zero ...                      *)
LEMMA BootStep ==
    ASSUME StatsInv, SchemaInv', Boot
    PROVE  Together' /\ \A j \in Ids : Sound(j)'
<1>1. /\ running' = rows /\ Migrating(Daemon) /\ Serving'
      /\ UNCHANGED <<hour, counter, last, snap, tableVars, ghostVars>>
  BY DaemonAssumption DEF Boot, Ready, Serving, StatsInv, SchemaInv, SchemaTypes
<1>2. running = {}
  BY <1>1 DEF StatsInv, Serving, Migrating
<1>3. Together'
  BY <1>1 DEF StatsInv, SchemaInv, Together, TypeOK, tableVars, ghostVars
<1>4. \A j \in Ids : SumStats(j)' = SumStats(j)
  BY <1>1, SumsStay DEF tableVars
<1>5. ASSUME NEW j \in Ids PROVE Sound(j)'
  BY <1>1, <1>2, <1>4, SoundStays DEF ghostVars
<1>6. QED
  BY <1>3, <1>5

(* ... and the end of all of them, with what was not flushed.              *)
LEMMA ExitStep ==
    ASSUME StatsInv, SchemaInv', Exit
    PROVE  Together' /\ \A j \in Ids : Sound(j)'
<1>1. /\ running' = {} /\ counter' = Zero /\ last' = Zero /\ snap' = Idle
      /\ lost' = [i \in Ids |-> lost[i] + counter[i] - last[i]]
      /\ UNCHANGED <<hour, tableVars, served, again>>
  BY DEF Exit
<1>2. \A j \in Ids : SumStats(j)' = SumStats(j)
  BY <1>1, SumsStay DEF tableVars
<1>3. ASSUME NEW j \in Ids
      PROVE  lost'[j] \in Nat /\ lost'[j] = lost[j] + (counter[j] - last[j])
  <2>1. lost'[j] = lost[j] + counter[j] - last[j]
    BY <1>1
  <2>2. QED
    BY <2>1, BackendFacts DEF Sound, Follows
<1>4. Together'
  <2>1. lost' \in [Ids -> Nat]
    BY <1>1, <1>3
  <2>2. QED
    BY <1>1, <2>1 DEF StatsInv, SchemaInv, Together, TypeOK, tableVars, Zero, Idle
<1>5. ASSUME NEW j \in Ids PROVE Sound(j)'
  <2>1. counter'[j] = 0 /\ last'[j] = 0 /\ snap'[j] = None
    BY <1>1 DEF Zero, Idle
  <2>2. Account(j)'
    <3>1. served'[j] = served[j] /\ again'[j] = again[j]
      BY <1>1
    <3>2. QED
      BY <1>2, <1>3, <2>1, <3>1, BackendFacts DEF Sound, Account
  <2>3. QED
    BY <2>1, <2>2 DEF Sound, Follows, Quiet
<1>6. QED
  BY <1>4, <1>5

(* What happens in the database and to the other processes is no traffic.  *)
LEMMA ElsewhereStep ==
    ASSUME StatsInv, SchemaInv',
           \/ UNCHANGED vars
           \/ NextHour
           \/ \E p \in Openers : OpenDb(p) \/ Ends(p) \/ (Opening(p) /\ ~Boot)
    PROVE  Together' /\ \A j \in Ids : Sound(j)'
<1>1. /\ UNCHANGED <<runVars, tableVars, ghostVars>>
      /\ hour' \in Hours
  BY DEF vars, statVars, NextHour, OpenDb, Ends, Opening, StatsInv, TypeOK
<1>2. Serving => Serving'
  <2>1. CASE UNCHANGED schemaVars
    BY <2>1 DEF schemaVars, procVars, Serving
  <2>2. ASSUME NEW p \in Openers, Open(p) \/ migrate(p) \/ Ready(p) \/ Kill(p),
               Serving
        PROVE  Serving'
    <3>1. CASE p = Daemon
      <4>1. phase[p] # "ready"
        BY <2>2 DEF Open, migrate, Look, Exec, ExecFails, Record, Ready, Kill, Migrating
      <4>2. QED
        BY <2>2, <3>1, <4>1 DEF Serving
    <3>2. CASE p # Daemon
      BY <2>2, <3>2, DaemonAssumption, OthersStay DEF Serving, StatsInv, SchemaInv
    <3>3. QED
      BY <3>1, <3>2
  <2>3. ASSUME NEW p \in Openers, p # Daemon, Stop(p), Serving
        PROVE  Serving'
    BY <2>3 DEF Stop, Serving, StatsInv, SchemaInv, SchemaTypes
  <2>4. QED
    BY <2>1, <2>2, <2>3 DEF vars, NextHour, OpenDb, Ends, Opening
<1>3. Together'
  BY <1>1, <1>2 DEF StatsInv, SchemaInv, Together, TypeOK, runVars, tableVars, ghostVars
<1>4. \A j \in Ids : SumStats(j)' = SumStats(j)
  BY <1>1, SumsStay DEF tableVars
<1>5. ASSUME NEW j \in Ids PROVE Sound(j)'
  BY <1>1, <1>4, SoundStays DEF runVars, ghostVars
<1>6. QED
  BY <1>3, <1>5

-----------------------------------------------------------------------------

LEMMA StatsInvInit ==
    ASSUME Init
    PROVE  StatsInv
<1>1. SchemaInv
  BY SchemaInvInit DEF Init
<1>2. Together
  <2>1. 1 \in 1..(MaxId + 1)
    BY DaemonAssumption
  <2>2. DOMAIN hourly = {} /\ IsFiniteSet(DOMAIN hourly)
    BY FS_EmptySet DEF Init
  <2>3. QED
    BY <1>1, <2>1, <2>2, TrafficAssumption DEF Init, Together, TypeOK, SchemaInv, Zero, Idle
<1>3. ASSUME NEW i \in Ids PROVE Sound(i)
  <2>1. HoursOf(i) = {}
    BY DEF Init, HoursOf
  <2>2. SumStats(i) = 0
    BY <2>1, SumIsTotal, TotalOfNone
  <2>3. QED
    BY <2>2 DEF Init, Sound, Follows, Quiet, Account, Zero, Idle
<1>4. QED
  BY <1>1, <1>2, <1>3, InvIsPointwise

LEMMA StatsInvStep ==
    ASSUME StatsInv, [Next]_vars
    PROVE  StatsInv'
<1>1. SchemaInv'
  BY SchemaSteps, SchemaInvStep DEF StatsInv
<1>2. SUFFICES Together' /\ \A i \in Ids : Sound(i)'
  BY <1>1, InvIsPointwise
<1>3. ASSUME NEW i \in Ids, Traffic(i) \/ statsFlusher(i) \/ Restart(i) \/ Remove(i)
      PROVE  Together' /\ \A j \in Ids : Sound(j)'
  <2>1. CASE Traffic(i)
    BY <2>1, TrafficStep
  <2>2. CASE Snapshot(i)
    BY <2>2, SnapshotStep
  <2>3. CASE Flush(i)
    BY <2>3, FlushStep
  <2>4. CASE FlushFails(i)
    BY <2>4, FlushFailsStep
  <2>5. CASE Restart(i)
    BY <2>5, RestartStep
  <2>6. CASE Remove(i)
    BY <2>6, RemoveStep
  <2>7. QED
    BY <1>3, <2>1, <2>2, <2>3, <2>4, <2>5, <2>6 DEF statsFlusher
<1>4. CASE Add
  BY <1>4, AddStep
<1>5. CASE Exit
  BY <1>1, <1>5, ExitStep
<1>6. CASE Boot
  BY <1>1, <1>6, BootStep
<1>7. CASE \/ UNCHANGED vars
           \/ NextHour
           \/ \E p \in Openers : OpenDb(p) \/ Ends(p) \/ (Opening(p) /\ ~Boot)
  BY <1>1, <1>7, ElsewhereStep
<1>8. QED
  BY <1>3, <1>4, <1>5, <1>6, <1>7 DEF Next

(* The traffic of a backend is in its hourly rows, unflushed, lost in a    *)
(* failed write, an exit or a removal, or counted again after a restart:   *)
(* through everything that interleaves with a flush and everything that    *)
(* can happen to the process (proxy.go:129 statsFlusher).                  *)
THEOREM TrafficAccounted == Spec => []Inv
<1>1. StatsInv => Inv
  BY DEF StatsInv, Inv
<1>2. QED
  BY <1>1, StatsInvInit, StatsInvStep, PTL DEF Spec

(* So what the rows show too much is exactly what restarts have repeated:  *)
(* proxy.go:126 is right but for them.                                     *)
THEOREM OnlyRestartsOvercount ==
    Spec => [](\A i \in Ids : SumStats(i) =< served[i] + again[i])
<1>1. ASSUME StatsInv, NEW i \in Ids PROVE SumStats(i) =< served[i] + again[i]
  BY <1>1, BackendFacts DEF Sound, Follows, Account
<1>2. StatsInv => \A i \in Ids : SumStats(i) =< served[i] + again[i]
  BY <1>1
<1>3. QED
  BY <1>2, StatsInvInit, StatsInvStep, PTL DEF Spec

(* A new backend starts without hours, also where those of removed ones    *)
(* stay in the table: ids are not used twice (storage.go:98 AddBackend).   *)
THEOREM NewBackendsStartEmpty == Spec => NewIsUncharged
<1>1. StatsInv /\ [Next]_vars => [\A i \in rows' \ rows : HoursOf(i) = {}]_vars
  <2>1. SUFFICES ASSUME StatsInv, [Next]_vars, NEW i \in rows' \ rows
                 PROVE  HoursOf(i) = {}
    OBVIOUS
  <2>2. CASE Add
    <3>1. i = nextId /\ nextId \in Nat
      BY <2>1, <2>2 DEF Add, Ids
    <3>2. ASSUME NEW k \in DOMAIN hourly PROVE k[1] # nextId
      <4>1. k \in (1..(nextId - 1)) \X Hours
        BY <2>1 DEF StatsInv, TypeOK
      <4>2. k[1] \in 1..(nextId - 1)
        BY <4>1
      <4>3. QED
        BY <3>1, <4>2
    <3>3. QED
      BY <3>1, <3>2 DEF HoursOf
  <2>3. CASE ~Add
    <3>1. rows' \subseteq rows
      BY <2>1, <2>3 DEF Next, vars, statVars, tableVars, OpenDb, Opening, Boot, Ends, Traffic,
                        statsFlusher, Snapshot, Flush, FlushFails, FlushTo, Restart, Remove,
                        Exit, NextHour
    <3>2. QED
      BY <2>1, <3>1
  <2>4. QED
    BY <2>2, <2>3
<1>2. QED
  BY <1>1, StatsInvInit, StatsInvStep, PTL DEF Spec, NewIsUncharged
=============================================================================
