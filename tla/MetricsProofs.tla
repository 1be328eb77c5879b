---------------------------- MODULE MetricsProofs ----------------------------
(***************************************************************************)
(* Proofs about Metrics, for every set of goroutines and addresses and any *)
(* retention longer than the window: the two looks of inc and the janitor  *)
(* lose no increment of the window but those of seconds in `swept`, and    *)
(* what sum returns lies between the increments of two windows.            *)
(***************************************************************************)
EXTENDS Metrics, SumTheorems

InEntry == {"read", "insert", "write", "add"}

(* What a call of inc can rely on. While its second may still be in a      *)
(* window: an orphaned entry has been noted; nobody adds the bucket it is  *)
(* about to add; the bucket it is about to count in is there.              *)
Working(p) ==
    /\ pc[p] # "idle" => ip[p] \in IPs
    /\ orphan[p] => pc[p] \in InEntry
    /\ pc[p] \in InEntry /\ ~orphan[p] => ip[p] \in present
    /\ age[p] \in InWindow =>
         /\ orphan[p] => age[p] \in swept[ip[p]]
         /\ pc[p] = "write" /\ ~orphan[p] => age[p] \notin buckets[ip[p]]
         /\ pc[p] = "add" /\ ~orphan[p] => age[p] \in buckets[ip[p]]

(* What the table has of an address: no entry, no bucket; no bucket, no    *)
(* count; and never more than was counted.                                 *)
Entry(i) ==
    /\ i \notin present => buckets[i] = {}
    /\ \A a \in InWindow :
         /\ a \notin buckets[i] => count[i][a] = 0
         /\ count[i][a] =< done[i][a]

(* CountsExact, of one address.                                            *)
Exact(i) ==
    \A a \in InWindow :
        a \notin swept[i] => count[i][a] = done[i][a] /\ (done[i][a] > 0 => a \in buckets[i])

MetricsInv ==
    /\ TypeOK
    /\ \A p \in Procs : Working(p)
    /\ \A i \in IPs : Entry(i) /\ Exact(i)

-----------------------------------------------------------------------------
(* The ages a window reaches are ages a bucket can have, and the janitor   *)
(* leaves them alone.                                                      *)
LEMMA AgeFacts ==
    /\ InWindow \subseteq Ages /\ 0 \in InWindow
    /\ \A a \in InWindow : a \in Nat /\ a =< Keep /\ a # Oldest
    /\ \A a \in Ages : a \in Nat /\ Older(a) \in Ages
    /\ \A a \in Ages : Older(a) \in InWindow =>
         a \in InWindow /\ Older(a) = a + 1
    /\ \A a \in InWindow : a # 0 => a - 1 \in InWindow /\ Older(a - 1) = a
BY WindowAssumption DEF InWindow, Ages, Oldest, Older

LEMMA TypeFacts ==
    ASSUME MetricsInv
    PROVE  /\ \A p \in Procs :
                 /\ pc[p] \in {"idle", "lookup", "read", "insert", "write", "add"}
                 /\ age[p] \in Ages /\ orphan[p] \in BOOLEAN
                 /\ p # Free /\ p # Janitor
                 /\ pc[p] = "write" <=> mu = p
           /\ \A i \in IPs : /\ buckets[i] \in SUBSET Ages /\ swept[i] \in SUBSET Ages
                             /\ \A a \in InWindow : count[i][a] \in Nat /\ done[i][a] \in Nat
BY HoldersAssumption DEF MetricsInv, TypeOK

(* A call that does not move, in an entry whose buckets and sweeps do not  *)
(* change, can rely on what it could.                                      *)
LEMMA WorkingStays ==
    ASSUME NEW p \in Procs, Working(p), present \subseteq present',
           pc'[p] = pc[p], ip'[p] = ip[p], age'[p] = age[p], orphan'[p] = orphan[p],
           buckets' = buckets, swept' = swept
    PROVE  Working(p)'
BY DEF Working

(* An address whose entry does not change is as it was.                    *)
LEMMA EntryStays ==
    ASSUME NEW i \in IPs, Entry(i), Exact(i), present \subseteq present',
           buckets'[i] = buckets[i], count'[i] = count[i], done'[i] = done[i],
           swept'[i] = swept[i]
    PROVE  Entry(i)' /\ Exact(i)'
BY DEF Entry, Exact

-----------------------------------------------------------------------------
(* inc                                                                     *)

(* The steps of inc that leave the counters alone: one goroutine moves on, *)
(* with what it then can rely on.                                          *)
LEMMA MoveOn ==
    ASSUME MetricsInv, NEW p \in Procs, TypeOK', Working(p)',
           \A q \in Procs \ {p} :
               /\ pc'[q] = pc[q] /\ ip'[q] = ip[q]
               /\ age'[q] = age[q] /\ orphan'[q] = orphan[q],
           present \subseteq present',
           UNCHANGED <<buckets, count, done, swept>>
    PROVE  MetricsInv'
<1>1. \A q \in Procs : Working(q)'
  BY WorkingStays DEF MetricsInv
<1>2. \A i \in IPs : Entry(i)' /\ Exact(i)'
  BY EntryStays DEF MetricsInv
<1>3. QED
  BY <1>1, <1>2 DEF MetricsInv

LEMMA BeginStep ==
    ASSUME MetricsInv, NEW p \in Procs, NEW i \in IPs, Begin(p, i)
    PROVE  MetricsInv'
<1>1. /\ pc[p] = "idle"
      /\ pc' = [pc EXCEPT ![p] = "lookup"]
      /\ ip' = [ip EXCEPT ![p] = i] /\ age' = [age EXCEPT ![p] = 0]
      /\ UNCHANGED <<mu, orphan, present, buckets, count, done, swept, alive>>
  BY DEF Begin, entryVars, auxVars
<1>2. TypeOK'
  BY <1>1, AgeFacts DEF MetricsInv, TypeOK
<1>3. Working(p)'
  BY <1>1 DEF MetricsInv, TypeOK, Working, InEntry
<1>4. \A q \in Procs \ {p} : /\ pc'[q] = pc[q] /\ ip'[q] = ip[q]
                             /\ age'[q] = age[q] /\ orphan'[q] = orphan[q]
  BY <1>1 DEF MetricsInv, TypeOK
<1>5. QED
  BY <1>1, <1>2, <1>3, <1>4, MoveOn

LEMMA LookupStep ==
    ASSUME MetricsInv, NEW p \in Procs, Lookup(p)
    PROVE  MetricsInv'
<1>1. /\ pc[p] = "lookup"
      /\ pc' = [pc EXCEPT ![p] = "read"]
      /\ present' = present \union {ip[p]}
      /\ orphan' = [orphan EXCEPT ![p] = FALSE]
      /\ UNCHANGED <<mu, buckets, count, ip, age, done, swept, alive>>
  BY DEF Lookup, auxVars
<1>2. ip[p] \in IPs
  BY <1>1 DEF MetricsInv, Working
<1>3. TypeOK'
  BY <1>1, <1>2 DEF MetricsInv, TypeOK
<1>4. Working(p)'
  BY <1>1, <1>2 DEF MetricsInv, TypeOK, Working, InEntry
<1>5. \A q \in Procs \ {p} : /\ pc'[q] = pc[q] /\ ip'[q] = ip[q]
                             /\ age'[q] = age[q] /\ orphan'[q] = orphan[q]
  BY <1>1 DEF MetricsInv, TypeOK
<1>6. QED
  BY <1>1, <1>3, <1>4, <1>5, MoveOn

LEMMA ReadBucketStep ==
    ASSUME MetricsInv, NEW p \in Procs, ReadBucket(p)
    PROVE  MetricsInv'
<1>1. /\ pc[p] = "read"
      /\ pc' = [pc EXCEPT ![p] = IF HasBucket(p) THEN "add" ELSE "insert"]
      /\ UNCHANGED <<mu, ip, age, orphan, present, buckets, count, done, swept, alive>>
  BY DEF ReadBucket, entryVars, auxVars
<1>2. TypeOK'
  BY <1>1 DEF MetricsInv, TypeOK
<1>3. Working(p)'
  BY <1>1 DEF MetricsInv, TypeOK, Working, InEntry, HasBucket
<1>4. \A q \in Procs \ {p} : /\ pc'[q] = pc[q] /\ ip'[q] = ip[q]
                             /\ age'[q] = age[q] /\ orphan'[q] = orphan[q]
  BY <1>1 DEF MetricsInv, TypeOK
<1>5. QED
  BY <1>1, <1>2, <1>3, <1>4, MoveOn

LEMMA RelookStep ==
    ASSUME MetricsInv, NEW p \in Procs, Relook(p)
    PROVE  MetricsInv'
<1>1. /\ pc[p] = "insert" /\ mu = Free
      /\ IF HasBucket(p) THEN pc' = [pc EXCEPT ![p] = "add"] /\ UNCHANGED mu
                         ELSE pc' = [pc EXCEPT ![p] = "write"] /\ mu' = p
      /\ UNCHANGED <<ip, age, orphan, present, buckets, count, done, swept, alive>>
  BY DEF Relook, entryVars, auxVars
<1>2. TypeOK'
  BY <1>1, HoldersAssumption DEF MetricsInv, TypeOK
<1>3. Working(p)'
  BY <1>1 DEF MetricsInv, TypeOK, Working, InEntry, HasBucket
<1>4. \A q \in Procs \ {p} : /\ pc'[q] = pc[q] /\ ip'[q] = ip[q]
                             /\ age'[q] = age[q] /\ orphan'[q] = orphan[q]
  BY <1>1 DEF MetricsInv, TypeOK
<1>5. QED
  BY <1>1, <1>2, <1>3, <1>4, MoveOn

(* A bucket is added by one goroutine at a time and was not there before,  *)
(* so that the zero in it overwrites nothing.                              *)
LEMMA WriteBucketStep ==
    ASSUME MetricsInv, NEW p \in Procs, WriteBucket(p)
    PROVE  MetricsInv'
<1>0. PICK i \in IPs, a \in Ages : i = ip[p] /\ a = age[p]
  BY TypeFacts DEF WriteBucket, MetricsInv, Working
<1>1. /\ pc[p] = "write" /\ mu = p /\ mu' = Free
      /\ pc' = [pc EXCEPT ![p] = "add"]
      /\ UNCHANGED <<present, ip, age, orphan, done, swept, alive>>
  BY TypeFacts DEF WriteBucket, auxVars
<1>2. \A q \in Procs \ {p} : pc'[q] = pc[q] /\ pc[q] # "write"
  BY <1>1, TypeFacts DEF MetricsInv, TypeOK
<1>3. pc'[p] = "add"
  BY <1>1 DEF MetricsInv, TypeOK
<1>4. CASE orphan[p]
  <2>1. UNCHANGED <<buckets, count>>
    BY <1>4 DEF WriteBucket
  <2>2. TypeOK'
    BY <1>1, <1>2, <1>3, <2>1, HoldersAssumption DEF MetricsInv, TypeOK
  <2>3. Working(p)'
    BY <1>1, <1>3, <1>4, <2>1 DEF MetricsInv, Working, InEntry
  <2>4. QED
    BY <1>1, <1>2, <2>1, <2>2, <2>3, MoveOn
<1>5. CASE ~orphan[p]
  <2>1. /\ buckets' = [buckets EXCEPT ![i] = @ \union {a}]
        /\ count' = IF a \in InWindow THEN [count EXCEPT ![i][a] = 0] ELSE count
    BY <1>0, <1>5 DEF WriteBucket
  <2>2. TypeOK'
    BY <1>1, <1>2, <1>3, <2>1, HoldersAssumption DEF MetricsInv, TypeOK
  <2>3. /\ \A j \in IPs : buckets[j] \subseteq buckets'[j]
        /\ a \in buckets'[i]
        /\ \A j \in IPs : j # i => buckets'[j] = buckets[j] /\ count'[j] = count[j]
        /\ buckets'[i] = buckets[i] \union {a}
        /\ \A b \in InWindow : count'[i][b] = IF b = a THEN 0 ELSE count[i][b]
    BY <1>1, <2>1 DEF MetricsInv, TypeOK
  <2>4. Working(p)'
    BY <1>0, <1>1, <1>3, <1>5, <2>3 DEF MetricsInv, Working, InEntry
  <2>5. ASSUME NEW q \in Procs \ {p} PROVE Working(q)'
    BY <1>1, <1>2, <2>3 DEF MetricsInv, Working, InEntry
  <2>6. ASSUME NEW j \in IPs \ {i} PROVE Entry(j)' /\ Exact(j)'
    BY <1>1, <2>3, EntryStays DEF MetricsInv
  <2>7. Entry(i)' /\ Exact(i)'
    <3>1. /\ i \in present /\ Entry(i) /\ Exact(i)
          /\ a \in InWindow => a \notin buckets[i]
      BY <1>0, <1>1, <1>5 DEF MetricsInv, Working, InEntry
    <3>2. \A b \in InWindow : count[i][b] \in Nat /\ done[i][b] \in Nat
      BY <1>1, TypeFacts
    <3>3. Entry(i)'
      BY <1>1, <2>3, <3>1, <3>2 DEF Entry
    <3>4. Exact(i)'
      BY <1>1, <2>3, <3>1, <3>2 DEF Entry, Exact
    <3>5. QED
      BY <3>3, <3>4
  <2>8. QED
    BY <2>2, <2>4, <2>5, <2>6, <2>7 DEF MetricsInv
<1>6. QED
  BY <1>4, <1>5

(* An increment is made in a bucket that is there, or in an orphaned entry *)
(* whose second has been noted.                                            *)
LEMMA AddStep ==
    ASSUME MetricsInv, NEW p \in Procs, Add(p)
    PROVE  MetricsInv'
<1>0. PICK i \in IPs, a \in Ages : i = ip[p] /\ a = age[p]
  BY TypeFacts DEF Add, MetricsInv, Working
<1>1. /\ pc[p] = "add"
      /\ pc' = [pc EXCEPT ![p] = "idle"]
      /\ ip' = [ip EXCEPT ![p] = NoIP]
      /\ age' = [age EXCEPT ![p] = 0]
      /\ orphan' = [orphan EXCEPT ![p] = FALSE]
      /\ count' = IF a \in InWindow /\ ~orphan[p] THEN [count EXCEPT ![i][a] = @ + 1] ELSE count
      /\ done' = IF a \in InWindow THEN [done EXCEPT ![i][a] = @ + 1] ELSE done
      /\ UNCHANGED <<mu, present, buckets, swept, alive>>
  BY <1>0 DEF Add
<1>2. TypeOK'
  <2>1. count' \in [IPs -> [InWindow -> Nat]] /\ done' \in [IPs -> [InWindow -> Nat]]
    BY <1>1 DEF MetricsInv, TypeOK
  <2>2. QED
    BY <1>1, <2>1, AgeFacts DEF MetricsInv, TypeOK
<1>3. Working(p)'
  BY <1>1 DEF MetricsInv, TypeOK, Working, InEntry
<1>4. ASSUME NEW q \in Procs \ {p} PROVE Working(q)'
  BY <1>1, WorkingStays DEF MetricsInv, TypeOK
<1>5. /\ \A j \in IPs : j # i => count'[j] = count[j] /\ done'[j] = done[j]
      /\ \A b \in InWindow :
           /\ count'[i][b] = count[i][b] + (IF b = a /\ ~orphan[p] THEN 1 ELSE 0)
           /\ done'[i][b] = done[i][b] + (IF b = a THEN 1 ELSE 0)
  <2>1. \A b \in InWindow : count[i][b] \in Nat /\ done[i][b] \in Nat
    BY <1>1, TypeFacts
  <2>2. QED
    BY <1>1, <2>1 DEF MetricsInv, TypeOK
<1>6. ASSUME NEW j \in IPs \ {i} PROVE Entry(j)' /\ Exact(j)'
  BY <1>1, <1>5, EntryStays DEF MetricsInv
<1>7. Entry(i)' /\ Exact(i)'
  <2>1. /\ Entry(i) /\ Exact(i)
        /\ a \in InWindow => IF orphan[p] THEN a \in swept[i] ELSE a \in buckets[i]
    BY <1>0, <1>1 DEF MetricsInv, Working
  <2>2. \A b \in InWindow : count[i][b] \in Nat /\ done[i][b] \in Nat
    BY <1>1, TypeFacts
  <2>3. Entry(i)'
    BY <1>1, <1>5, <2>1, <2>2 DEF Entry
  <2>4. Exact(i)'
    BY <1>1, <1>5, <2>1, <2>2 DEF Exact
  <2>5. QED
    BY <2>3, <2>4
<1>8. QED
  BY <1>2, <1>3, <1>4, <1>6, <1>7 DEF MetricsInv

-----------------------------------------------------------------------------
(* The janitor and the clock.                                              *)

(* prune leaves the buckets of the window alone. An address that loses its *)
(* entry had nothing in the window but what it notes in swept.             *)
LEMMA PruneDoes ==
    ASSUME MetricsInv, prune
    PROVE  /\ mu = Janitor /\ mu' = Free
           /\ UNCHANGED <<pc, ip, age, done, alive>>
           /\ present' \subseteq present
           /\ \A i \in IPs :
                /\ buckets'[i] = {a \in buckets[i] : a =< Keep}
                /\ \A a \in InWindow : /\ a \in buckets'[i] <=> a \in buckets[i]
                                       /\ count'[i][a] = count[i][a]
                /\ swept[i] \subseteq swept'[i]
                /\ i \in present /\ i \notin present' =>
                     /\ buckets'[i] = {}
                     /\ \A p \in Procs : Holds(p, i) => age[p] \in swept'[i]
           /\ \A p \in Procs :
                orphan'[p] = (orphan[p] \/ \E i \in present \ present' : Holds(p, i))
<1> DEFINE kept(i) == {a \in buckets[i] : a =< Keep}
           gone == {i \in present : kept(i) = {}}
<1>1. /\ mu = Janitor /\ mu' = Free
      /\ buckets' = [i \in IPs |-> kept(i)]
      /\ count' = [i \in IPs |-> [a \in InWindow |->
                      IF a \in kept(i) THEN count[i][a] ELSE 0]]
      /\ present' = present \ gone
      /\ orphan' = [p \in Procs |-> orphan[p] \/ \E i \in gone : Holds(p, i)]
      /\ swept' = [i \in IPs |->
                     IF i \in gone THEN swept[i] \union {age[p] : p \in {q \in Procs : Holds(q, i)}}
                                   ELSE swept[i]]
      /\ UNCHANGED <<pc, ip, age, done, alive>>
  BY DEF prune
<1>2. gone = present \ present'
  BY <1>1
<1>3. ASSUME NEW i \in IPs, NEW a \in InWindow
      PROVE  (a \in kept(i) <=> a \in buckets[i]) /\ count'[i][a] = count[i][a]
  <2>1. a \in kept(i) <=> a \in buckets[i]
    BY AgeFacts
  <2>2. a \notin buckets[i] => count[i][a] = 0
    BY DEF MetricsInv, Entry
  <2>3. QED
    BY <1>1, <2>1, <2>2
<1>4. ASSUME NEW i \in IPs
      PROVE  /\ swept[i] \subseteq swept'[i]
             /\ i \in gone => \A p \in Procs : Holds(p, i) => age[p] \in swept'[i]
  BY <1>1
<1>5. QED
  BY <1>1, <1>2, <1>3, <1>4

LEMMA PruneStep ==
    ASSUME MetricsInv, prune
    PROVE  MetricsInv'
<1>1. TypeOK'
  <2> DEFINE kept(i) == {a \in buckets[i] : a =< Keep}
             gone == {i \in present : kept(i) = {}}
  <2>1. /\ mu = Janitor /\ mu' = Free
        /\ buckets' = [i \in IPs |-> kept(i)]
        /\ count' = [i \in IPs |-> [a \in InWindow |->
                        IF a \in kept(i) THEN count[i][a] ELSE 0]]
        /\ present' = present \ gone
        /\ orphan' = [p \in Procs |-> orphan[p] \/ \E i \in gone : Holds(p, i)]
        /\ swept' = [i \in IPs |->
                       IF i \in gone
                         THEN swept[i] \union {age[p] : p \in {q \in Procs : Holds(q, i)}}
                         ELSE swept[i]]
        /\ UNCHANGED <<pc, ip, age, done, alive>>
    BY DEF prune
  <2>2. \A i \in IPs : kept(i) \in SUBSET Ages
    BY TypeFacts
  <2>3. \A i \in IPs : {age[p] : p \in {q \in Procs : Holds(q, i)}} \in SUBSET Ages
    BY TypeFacts
  <2> HIDE DEF kept, gone
  <2>4. buckets' \in [IPs -> SUBSET Ages]
    BY <2>1, <2>2
  <2>5. count' \in [IPs -> [InWindow -> Nat]]
    BY <2>1, TypeFacts
  <2>6. swept' \in [IPs -> SUBSET Ages]
    BY <2>1, <2>3, TypeFacts
  <2>7. orphan' \in [Procs -> BOOLEAN]
    BY <2>1, TypeFacts
  <2>8. QED
    BY <2>1, <2>4, <2>5, <2>6, <2>7, HoldersAssumption DEF MetricsInv, TypeOK
<1>2. ASSUME NEW p \in Procs PROVE Working(p)'
  <2>1. /\ Working(p) /\ pc'[p] = pc[p] /\ ip'[p] = ip[p] /\ age'[p] = age[p]
        /\ pc[p] # "write"
        /\ orphan'[p] = (orphan[p] \/ \E i \in present \ present' : Holds(p, i))
    BY PruneDoes, TypeFacts, HoldersAssumption DEF MetricsInv
  <2>2. CASE ~orphan'[p]
    <3>1. ~orphan[p]
      BY <2>1, <2>2
    <3>2. pc[p] \in InEntry => ip[p] \in present'
      BY <2>1, <2>2, <3>1 DEF Working, Holds, InEntry
    <3>3. pc[p] = "add" /\ age[p] \in InWindow => age[p] \in buckets'[ip[p]]
      BY <2>1, <3>1, PruneDoes DEF Working
    <3>4. QED
      BY <2>1, <2>2, <3>2, <3>3 DEF Working
  <2>3. CASE orphan'[p]
    <3>1. pc[p] \in InEntry
      BY <2>1, <2>3 DEF Working, Holds, InEntry
    <3>2. ip[p] \in IPs
      BY <2>1, <3>1 DEF Working, InEntry
    <3>3. age[p] \in InWindow => age[p] \in swept'[ip[p]]
      <4>1. CASE orphan[p]
        BY <2>1, <3>2, <4>1, PruneDoes DEF Working
      <4>2. CASE ~orphan[p]
        <5>1. Holds(p, ip[p]) /\ ip[p] \in present \ present'
          BY <2>1, <2>3, <4>2 DEF Holds
        <5>2. QED
          BY <3>2, <5>1, PruneDoes
      <4>3. QED
        BY <4>1, <4>2
    <3>4. QED
      BY <2>1, <2>3, <3>1, <3>2, <3>3 DEF Working
  <2>4. QED
    BY <2>2, <2>3
<1>3. ASSUME NEW i \in IPs PROVE Entry(i)' /\ Exact(i)'
  <2>1. /\ Entry(i) /\ Exact(i) /\ done'[i] = done[i]
        /\ \A a \in InWindow : /\ a \in buckets'[i] <=> a \in buckets[i]
                               /\ count'[i][a] = count[i][a]
        /\ swept[i] \subseteq swept'[i]
        /\ i \in present /\ i \notin present' => buckets'[i] = {}
        /\ buckets'[i] \subseteq buckets[i]
    BY PruneDoes DEF MetricsInv
  <2>2. QED
    BY <2>1 DEF Entry, Exact
<1>4. QED
  BY <1>1, <1>2, <1>3 DEF MetricsInv

(* A second later everything of the window is one second older, and the    *)
(* second that begins is empty.                                            *)
LEMMA TickDoes ==
    ASSUME MetricsInv, Tick
    PROVE  /\ UNCHANGED <<mu, present, pc, ip, orphan, alive>>
           /\ \A i \in IPs :
                /\ buckets[i] = {} => buckets'[i] = {}
                /\ \A a \in InWindow :
                     /\ a \in buckets'[i] <=> a # 0 /\ a - 1 \in buckets[i]
                     /\ a \in swept'[i] <=> a # 0 /\ a - 1 \in swept[i]
                     /\ count'[i][a] = IF a = 0 THEN 0 ELSE count[i][a - 1]
                     /\ done'[i][a] = IF a = 0 THEN 0 ELSE done[i][a - 1]
           /\ \A p \in Procs :
                pc[p] # "idle" /\ age'[p] \in InWindow =>
                  age[p] \in InWindow /\ age'[p] = age[p] + 1
<1>1. /\ buckets' = [i \in IPs |-> {Older(a) : a \in buckets[i]}]
      /\ count' = [i \in IPs |-> Shift(count[i])]
      /\ done' = [i \in IPs |-> Shift(done[i])]
      /\ swept' = [i \in IPs |-> {Older(a) : a \in swept[i]} \ {Oldest}]
      /\ age' = [p \in Procs |-> IF pc[p] = "idle" THEN 0 ELSE Older(age[p])]
      /\ UNCHANGED <<mu, present, pc, ip, orphan, alive>>
  BY DEF Tick
<1>2. ASSUME NEW i \in IPs, NEW a \in InWindow, NEW A \in SUBSET Ages
      PROVE  a \in {Older(b) : b \in A} <=> a # 0 /\ a - 1 \in A
  <2>1. ASSUME NEW b \in A, a = Older(b) PROVE a # 0 /\ a - 1 \in A
    <3>1. a = b + 1 /\ b \in Nat
      BY <2>1, AgeFacts
    <3>2. a # 0 /\ a - 1 = b
      BY <3>1
    <3>3. QED
      BY <3>2
  <2>2. a # 0 => Older(a - 1) = a
    BY AgeFacts
  <2>3. QED
    BY <2>1, <2>2
<1>3. ASSUME NEW i \in IPs, NEW a \in InWindow
      PROVE  /\ a \in buckets'[i] <=> a # 0 /\ a - 1 \in buckets[i]
             /\ a \in swept'[i] <=> a # 0 /\ a - 1 \in swept[i]
  <2>1. buckets'[i] = {Older(b) : b \in buckets[i]}
        /\ swept'[i] = {Older(b) : b \in swept[i]} \ {Oldest}
    BY <1>1
  <2>2. a # Oldest
    BY AgeFacts
  <2>3. buckets[i] \in SUBSET Ages /\ swept[i] \in SUBSET Ages
    BY TypeFacts
  <2>4. QED
    BY <1>2, <2>1, <2>2, <2>3
<1>4. ASSUME NEW i \in IPs, NEW a \in InWindow
      PROVE  /\ count'[i][a] = IF a = 0 THEN 0 ELSE count[i][a - 1]
             /\ done'[i][a] = IF a = 0 THEN 0 ELSE done[i][a - 1]
  BY <1>1 DEF Shift
<1>5. ASSUME NEW p \in Procs, pc[p] # "idle", age'[p] \in InWindow
      PROVE  age[p] \in InWindow /\ age'[p] = age[p] + 1
  <2>1. age'[p] = Older(age[p]) /\ age[p] \in Ages
    BY <1>1, <1>5, TypeFacts
  <2>2. QED
    BY <1>5, <2>1, AgeFacts
<1>6. \A i \in IPs : buckets[i] = {} => buckets'[i] = {}
  BY <1>1
<1>7. QED
  BY <1>1, <1>3, <1>4, <1>5, <1>6

LEMMA TickStep ==
    ASSUME MetricsInv, Tick
    PROVE  MetricsInv'
<1>1. TypeOK'
  <2>1. /\ buckets' = [i \in IPs |-> {Older(a) : a \in buckets[i]}]
        /\ count' = [i \in IPs |-> Shift(count[i])]
        /\ done' = [i \in IPs |-> Shift(done[i])]
        /\ swept' = [i \in IPs |-> {Older(a) : a \in swept[i]} \ {Oldest}]
        /\ age' = [p \in Procs |-> IF pc[p] = "idle" THEN 0 ELSE Older(age[p])]
        /\ UNCHANGED <<mu, present, pc, ip, orphan, alive>>
    BY DEF Tick
  <2>2. \A A \in SUBSET Ages : {Older(a) : a \in A} \in SUBSET Ages
    BY AgeFacts
  <2>3. \A f \in [InWindow -> Nat] : Shift(f) \in [InWindow -> Nat]
    BY AgeFacts DEF Shift
  <2>4. buckets' \in [IPs -> SUBSET Ages]
    BY <2>1, <2>2 DEF MetricsInv, TypeOK
  <2>5. swept' \in [IPs -> SUBSET Ages]
    BY <2>1, <2>2 DEF MetricsInv, TypeOK
  <2>6. count' \in [IPs -> [InWindow -> Nat]] /\ done' \in [IPs -> [InWindow -> Nat]]
    BY <2>1, <2>3 DEF MetricsInv, TypeOK
  <2>7. age' \in [Procs -> Ages]
    BY <2>1, AgeFacts, TypeFacts
  <2>8. QED
    BY <2>1, <2>4, <2>5, <2>6, <2>7 DEF MetricsInv, TypeOK
<1>2. ASSUME NEW p \in Procs PROVE Working(p)'
  <2>1. Working(p) /\ pc'[p] = pc[p] /\ ip'[p] = ip[p] /\ orphan'[p] = orphan[p]
        /\ present' = present
    BY TickDoes DEF MetricsInv
  <2>2. CASE pc[p] = "idle" \/ age'[p] \notin InWindow
    BY <2>1, <2>2 DEF Working, InEntry
  <2>3. CASE pc[p] # "idle" /\ age'[p] \in InWindow
    <3>1. age[p] \in InWindow /\ age'[p] = age[p] + 1 /\ ip[p] \in IPs
      BY <2>1, <2>3, TickDoes DEF Working
    <3>2. age'[p] # 0 /\ age'[p] - 1 = age[p]
      BY <3>1, AgeFacts
    <3>3. /\ age'[p] \in buckets'[ip[p]] <=> age[p] \in buckets[ip[p]]
          /\ age'[p] \in swept'[ip[p]] <=> age[p] \in swept[ip[p]]
      BY <2>3, <3>1, <3>2, TickDoes
    <3>4. QED
      BY <2>1, <2>3, <3>1, <3>3 DEF Working
  <2>4. QED
    BY <2>2, <2>3
<1>3. ASSUME NEW i \in IPs PROVE Entry(i)' /\ Exact(i)'
  <2>1. Entry(i) /\ Exact(i) /\ present' = present /\ (buckets[i] = {} => buckets'[i] = {})
    BY TickDoes DEF MetricsInv
  <2>2. ASSUME NEW a \in InWindow
        PROVE  /\ a \notin buckets'[i] => count'[i][a] = 0
               /\ count'[i][a] =< done'[i][a]
               /\ a \notin swept'[i] => /\ count'[i][a] = done'[i][a]
                                        /\ done'[i][a] > 0 => a \in buckets'[i]
    <3>1. /\ a \in buckets'[i] <=> a # 0 /\ a - 1 \in buckets[i]
          /\ a \in swept'[i] <=> a # 0 /\ a - 1 \in swept[i]
          /\ count'[i][a] = IF a = 0 THEN 0 ELSE count[i][a - 1]
          /\ done'[i][a] = IF a = 0 THEN 0 ELSE done[i][a - 1]
      BY TickDoes
    <3>2. CASE a = 0
      BY <3>1, <3>2
    <3>3. CASE a # 0
      <4>1. a - 1 \in InWindow
        BY <3>3, AgeFacts
      <4>2. QED
        BY <2>1, <3>1, <3>3, <4>1 DEF Entry, Exact
    <3>4. QED
      BY <3>2, <3>3
  <2>3. QED
    BY <2>1, <2>2 DEF Entry, Exact
<1>4. QED
  BY <1>1, <1>2, <1>3 DEF MetricsInv

-----------------------------------------------------------------------------

LEMMA MetricsInvInit ==
    ASSUME Init
    PROVE  MetricsInv
BY AgeFacts, HoldersAssumption DEF Init, MetricsInv, TypeOK, Working, Entry, Exact, InEntry

LEMMA MetricsInvStep ==
    ASSUME MetricsInv, [Next]_vars
    PROVE  MetricsInv'
<1>1. ASSUME NEW p \in Procs, inc(p) PROVE MetricsInv'
  BY <1>1, LookupStep, ReadBucketStep, RelookStep, WriteBucketStep, AddStep DEF inc
<1>2. ASSUME NEW p \in Procs, NEW i \in IPs, Begin(p, i) PROVE MetricsInv'
  BY <1>2, BeginStep
<1>3. ASSUME NEW p \in Procs, Fatal(p) PROVE MetricsInv'
  <2>1. UNCHANGED <<mu, incVars, entryVars, auxVars>> /\ alive' = FALSE
    BY <1>3 DEF Fatal
  <2>2. UNCHANGED <<mu, pc, ip, age, orphan, present, buckets, count, done, swept>>
    BY <2>1 DEF incVars, entryVars, auxVars
  <2>3. TypeOK' /\ Working(p)'
    BY <2>1, <2>2 DEF MetricsInv, TypeOK, Working
  <2>4. QED
    BY <2>2, <2>3, MoveOn
<1>4. CASE PruneBegin
  BY <1>4, HoldersAssumption DEF PruneBegin, incVars, entryVars, auxVars, MetricsInv, TypeOK,
                                 Working, Entry, Exact
<1>5. CASE prune
  BY <1>5, PruneStep
<1>6. CASE Tick
  BY <1>6, TickStep
<1>7. CASE UNCHANGED vars
  BY <1>7 DEF vars, MetricsInv, TypeOK, Working, Entry, Exact
<1>8. QED
  BY <1>1, <1>2, <1>3, <1>4, <1>5, <1>6, <1>7 DEF Next

(* The counters of the window are exact for every second whose increments  *)
(* no prune has overtaken (metrics.go:112 inc).                             *)
THEOREM CountersAreExact == Spec => []Inv
<1>1. MetricsInv => Inv
  BY DEF MetricsInv, Inv, CountsExact, Exact
<1>2. QED
  BY <1>1, MetricsInvInit, MetricsInvStep, PTL DEF Spec

LEMMA SandwichOfExact ==
    ASSUME MetricsInv
    PROVE  WindowSandwich
<1> SUFFICES ASSUME NEW i \in IPs, NEW seconds \in 1..Window
             PROVE  /\ sum(i, seconds) =< DoneIn(i, seconds + 1)
                    /\ swept[i] = {} => DoneIn(i, seconds) =< sum(i, seconds)
  BY DEF WindowSandwich
<1> DEFINE S == IF i \in present THEN {a \in buckets[i] : a =< seconds} ELSE {}
<1>1. /\ Entry(i) /\ Exact(i) /\ buckets[i] \in SUBSET Ages
      /\ \A a \in InWindow : count[i][a] \in Nat /\ done[i][a] \in Nat
  BY TypeFacts DEF MetricsInv
<1>2. /\ seconds \in Nat /\ seconds + 1 \in Nat /\ (seconds + 1) - 1 = seconds
      /\ \A a \in Ages : a =< seconds => a \in 0..seconds
      /\ 0..seconds \subseteq InWindow
      /\ \A a \in 0..(seconds - 1) : a \in InWindow /\ a =< seconds
  BY WindowAssumption DEF InWindow, Ages
<1>3. S \subseteq 0..seconds /\ IsFiniteSet(S)
  <2>1. S \subseteq 0..seconds
    BY <1>1, <1>2
  <2>2. IsFiniteSet(0..seconds)
    BY <1>2, FS_Interval
  <2>3. QED
    BY <2>1, <2>2, FS_Subset
<1>4. IsFiniteSet(0..seconds) /\ IsFiniteSet(0..(seconds - 1))
  BY <1>2, FS_Interval
<1>5. sum(i, seconds) = Total(count[i], S)
  <2>1. CASE i \in present
    BY <2>1, TotalIsRecursive DEF sum
  <2>2. CASE i \notin present
    BY <2>2, TotalOfNone DEF sum
  <2>3. QED
    BY <2>1, <2>2
<1>6. /\ DoneIn(i, seconds + 1) = Total(done[i], 0..seconds)
      /\ DoneIn(i, seconds) = Total(done[i], 0..(seconds - 1))
  BY <1>2, TotalIsRecursive DEF DoneIn
<1> HIDE DEF S
<1>7. Total(count[i], S) =< Total(done[i], 0..seconds)
  <2>1. /\ \A a \in S : count[i][a] \in Nat
        /\ \A a \in 0..seconds : done[i][a] \in Nat
        /\ \A a \in S : count[i][a] # 0 => a \in 0..seconds /\ count[i][a] =< done[i][a]
    BY <1>1, <1>2, <1>3 DEF Entry
  <2>2. QED
    BY <1>3, <1>4, <2>1, TotalsCompare
<1>8. ASSUME swept[i] = {}
      PROVE  Total(done[i], 0..(seconds - 1)) =< Total(count[i], S)
  <2>1. ASSUME NEW a \in 0..(seconds - 1), done[i][a] # 0
        PROVE  a \in S /\ done[i][a] =< count[i][a]
    <3>1. a \in InWindow /\ a =< seconds
      BY <1>2
    <3>2. done[i][a] > 0 /\ count[i][a] = done[i][a] /\ a \in buckets[i]
      BY <1>1, <1>8, <2>1, <3>1 DEF Exact
    <3>3. i \in present
      BY <1>1, <3>2 DEF Entry
    <3>4. QED
      BY <1>1, <3>1, <3>2, <3>3 DEF S
  <2>2. /\ \A a \in 0..(seconds - 1) : done[i][a] \in Nat
        /\ \A a \in S : count[i][a] \in Nat
    BY <1>1, <1>2, <1>3
  <2>3. QED
    BY <1>3, <1>4, <2>1, <2>2, TotalsCompare
<1>9. QED
  BY <1>5, <1>6, <1>7, <1>8

(* What a limit compares with its threshold is between the increments of   *)
(* its window and those of one second more (metrics.go:135 sum).           *)
THEOREM SumsAreSandwiched == Spec => []WindowSandwich
<1>1. MetricsInv => WindowSandwich
  BY SandwichOfExact
<1>2. QED
  BY <1>1, MetricsInvInit, MetricsInvStep, PTL DEF Spec
=============================================================================
