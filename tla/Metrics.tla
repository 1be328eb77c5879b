------------------------------- MODULE Metrics -------------------------------
(***************************************************************************)
(* The per-address tracker of internal/metrics: buckets of one second that *)
(* the data path increments (inc), the limits sum over a window (sum) and  *)
(* a janitor prunes. inc looks the entry of the address up under the lock, *)
(* reads its bucket map without it, and may come back for the lock to add  *)
(* a bucket; the other goroutines and the janitor run in between.          *)
(*                                                                         *)
(* Time is kept as ages: how many seconds ago a bucket's second was. The   *)
(* two kinds of a bucket are independent counters of one shape: the module *)
(* follows one.                                                            *)
(***************************************************************************)
EXTENDS Integers, FiniteSets, Functions

CONSTANTS
    Procs,         \* goroutines that count: accept loops, UDP run loops
    IPs,
    Window,        \* the longest window a limit looks at (60 in the code)
    Keep,          \* how old a bucket prune leaves alone (90 in the code)
    MaxPerSecond,  \* bound: increments begun in one second for one address
    Free, Janitor, \* holders of the lock that are not in Procs
    NoIP

ASSUME WindowAssumption == Window \in Nat /\ Keep \in Nat /\ Window < Keep
ASSUME HoldersAssumption == Free \notin Procs /\ Janitor \notin Procs /\ Free # Janitor
ASSUME NoIPAssumption == NoIP \notin IPs

(* Everything beyond Keep is equally old.                                  *)
Oldest == Keep + 1
Ages == 0..Oldest
InWindow == 0..Window

VARIABLES
    mu,       \* who holds perIPTracker.mu over more than one step
    present,  \* the addresses with an entry in perIPTracker.ips
    buckets,  \* ipBucket.strings of that entry: the seconds it has
    count,    \* the counters of its buckets
    pc,       \* where inc is
    ip,       \* the address inc is called for
    age,      \* the age of inc's `second`
    orphan,   \* the entry inc holds is no longer in perIPTracker.ips
    done,     \* increments that have returned, by the second they are of
    swept,    \* seconds whose increments were in hand when prune deleted the entry
    alive     \* the Go runtime has not stopped the process

vars == <<mu, present, buckets, count, pc, ip, age, orphan, done, swept, alive>>
entryVars == <<present, buckets, count>>
incVars == <<pc, ip, age, orphan>>
auxVars == <<done, swept>>

Init ==
    /\ mu = Free
    /\ present = {}
    /\ buckets = [i \in IPs |-> {}]
    /\ count = [i \in IPs |-> [a \in InWindow |-> 0]]
    /\ pc = [p \in Procs |-> "idle"]
    /\ ip = [p \in Procs |-> NoIP]
    /\ age = [p \in Procs |-> 0]
    /\ orphan = [p \in Procs |-> FALSE]
    /\ done = [i \in IPs |-> [a \in InWindow |-> 0]]
    /\ swept = [i \in IPs |-> {}]
    /\ alive = TRUE

(* inc holds the entry of i that is in the map.                            *)
Holds(p, i) == pc[p] \in {"read", "insert", "write", "add"} /\ ip[p] = i /\ ~orphan[p]

-----------------------------------------------------------------------------
(* inc                                                                     *)

InHand(i) == {p \in Procs : pc[p] # "idle" /\ ip[p] = i /\ age[p] = 0}

(* A packet or connection from i; `second` is read first.                  *)
Begin(p, i) ==
    /\ alive
    /\ pc[p] = "idle"
    /\ done[i][0] + Cardinality(InHand(i)) < MaxPerSecond
    /\ pc' = [pc EXCEPT ![p] = "lookup"]
    /\ ip' = [ip EXCEPT ![p] = i]
    /\ age' = [age EXCEPT ![p] = 0]
    /\ UNCHANGED <<mu, orphan, entryVars, auxVars, alive>>

(* The entry is found or made, under the lock.                             *)
Lookup(p) ==
    /\ alive
    /\ pc[p] = "lookup" /\ mu = Free
    /\ pc' = [pc EXCEPT ![p] = "read"]
    /\ present' = present \union {ip[p]}
    /\ orphan' = [orphan EXCEPT ![p] = FALSE]
    /\ UNCHANGED <<mu, buckets, count, ip, age, auxVars, alive>>

(* The bucket p counts in is in the map of its entry. (An orphaned entry   *)
(* has lost all its buckets.)                                              *)
HasBucket(p) == ~orphan[p] /\ age[p] \in buckets[ip[p]]

(* b.strings[second], without the lock.                                    *)
ReadBucket(p) ==
    /\ alive
    /\ pc[p] = "read"
    /\ pc' = [pc EXCEPT ![p] = IF HasBucket(p) THEN "add" ELSE "insert"]
    /\ UNCHANGED <<mu, ip, age, orphan, entryVars, auxVars, alive>>

(* The map p reads is being written: by an inc that adds a bucket, or by a *)
(* prune that deletes one.                                                 *)
Written(p) ==
    \/ \E q \in Procs \ {p} : pc[q] = "write" /\ ip[q] = ip[p] /\ orphan[q] = orphan[p]
    \/ mu = Janitor /\ ~orphan[p] /\ Oldest \in buckets[ip[p]]

(* Undefined in Go: the read may see either map, or the runtime stops the  *)
(* process with "concurrent map read and map write".                       *)
Fatal(p) ==
    /\ alive
    /\ pc[p] = "read"
    /\ Written(p)
    /\ alive' = FALSE
    /\ UNCHANGED <<mu, incVars, entryVars, auxVars>>

(* Variant: no second look.                                                *)
RelookNot(p) ==
    /\ alive
    /\ pc[p] = "insert" /\ mu = Free
    /\ pc' = [pc EXCEPT ![p] = "write"]
    /\ mu' = p
    /\ UNCHANGED <<ip, age, orphan, entryVars, auxVars, alive>>

(* The second look, under the lock ...                                     *)
Relook(p) ==
    /\ alive
    /\ pc[p] = "insert" /\ mu = Free
    /\ IF HasBucket(p) THEN pc' = [pc EXCEPT ![p] = "add"] /\ UNCHANGED mu
                       ELSE pc' = [pc EXCEPT ![p] = "write"] /\ mu' = p
    /\ UNCHANGED <<ip, age, orphan, entryVars, auxVars, alive>>

(* ... and the new bucket, with a zero in it.                              *)
WriteBucket(p) ==
    /\ alive
    /\ pc[p] = "write"
    /\ pc' = [pc EXCEPT ![p] = "add"]
    /\ mu' = Free
    /\ IF orphan[p] THEN UNCHANGED <<buckets, count>>
       ELSE /\ buckets' = [buckets EXCEPT ![ip[p]] = @ \union {age[p]}]
            /\ count' = IF age[p] \in InWindow
                          THEN [count EXCEPT ![ip[p]][age[p]] = 0] ELSE count
    /\ UNCHANGED <<present, ip, age, orphan, auxVars, alive>>

(* slots[kind].Add(1), then the return.                                    *)
Add(p) ==
    /\ alive
    /\ pc[p] = "add"
    /\ pc' = [pc EXCEPT ![p] = "idle"]
    /\ ip' = [ip EXCEPT ![p] = NoIP]
    /\ age' = [age EXCEPT ![p] = 0]
    /\ orphan' = [orphan EXCEPT ![p] = FALSE]
    /\ LET i == ip[p] a == age[p]
       IN /\ count' = IF a \in InWindow /\ ~orphan[p]
                        THEN [count EXCEPT ![i][a] = @ + 1] ELSE count
          /\ done' = IF a \in InWindow THEN [done EXCEPT ![i][a] = @ + 1] ELSE done
    /\ UNCHANGED <<mu, present, buckets, swept, alive>>

-----------------------------------------------------------------------------
(* The janitor.                                                            *)

PruneBegin ==
    /\ alive
    /\ mu = Free
    /\ mu' = Janitor
    /\ UNCHANGED <<entryVars, incVars, auxVars, alive>>

(* Variant: entries without buckets stay in the map.                       *)
PruneBuckets ==
    /\ alive
    /\ mu = Janitor
    /\ mu' = Free
    /\ buckets' = [i \in IPs |-> {a \in buckets[i] : a <= Keep}]
    /\ UNCHANGED <<present, count, incVars, auxVars, alive>>

(* prune: buckets beyond the retention go, and with its last bucket an     *)
(* entry, whoever still holds it.                                          *)
prune ==
    LET kept(i) == {a \in buckets[i] : a <= Keep}
        gone == {i \in present : kept(i) = {}}
    IN /\ alive
       /\ mu = Janitor
       /\ mu' = Free
       /\ buckets' = [i \in IPs |-> kept(i)]
       /\ count' = [i \in IPs |-> [a \in InWindow |->
                       IF a \in kept(i) THEN count[i][a] ELSE 0]]
       /\ present' = present \ gone
       /\ orphan' = [p \in Procs |-> orphan[p] \/ \E i \in gone : Holds(p, i)]
       /\ swept' = [i \in IPs |->
                      IF i \in gone THEN swept[i] \union {age[p] : p \in {q \in Procs : Holds(q, i)}}
                                    ELSE swept[i]]
       /\ UNCHANGED <<pc, ip, age, done, alive>>

-----------------------------------------------------------------------------
(* A second passes.                                                        *)
Older(a) == IF a < Oldest THEN a + 1 ELSE a
Shift(f) == [a \in InWindow |-> IF a = 0 THEN 0 ELSE f[a - 1]]

Tick ==
    /\ alive
    /\ buckets' = [i \in IPs |-> {Older(a) : a \in buckets[i]}]
    /\ count' = [i \in IPs |-> Shift(count[i])]
    /\ done' = [i \in IPs |-> Shift(done[i])]
    /\ swept' = [i \in IPs |-> {Older(a) : a \in swept[i]} \ {Oldest}]
    /\ age' = [p \in Procs |-> IF pc[p] = "idle" THEN 0 ELSE Older(age[p])]
    /\ UNCHANGED <<mu, present, pc, ip, orphan, alive>>

inc(p) == Lookup(p) \/ ReadBucket(p) \/ Relook(p) \/ WriteBucket(p) \/ Add(p)

Next ==
    \/ \E p \in Procs : inc(p) \/ Fatal(p) \/ \E i \in IPs : Begin(p, i)
    \/ PruneBegin \/ prune \/ Tick

Spec == Init /\ [][Next]_vars

(* Time passes, the janitor's ticker fires and gets the lock (sync.Mutex   *)
(* does not starve), calls of inc come to their end. Nobody has to call.   *)
Fairness ==
    /\ WF_vars(Tick)
    /\ SF_vars(PruneBegin) /\ WF_vars(prune)
    /\ \A p \in Procs : SF_vars(Lookup(p)) /\ WF_vars(ReadBucket(p)) /\ SF_vars(Relook(p))
                        /\ WF_vars(WriteBucket(p)) /\ WF_vars(Add(p))

FairSpec == Spec /\ Fairness

-----------------------------------------------------------------------------
(* Variant: the bucket of the running second is left out.                  *)
sumWhole(i, seconds) ==
    IF i \in present
      THEN SumFunctionOnSet(count[i], {a \in buckets[i] : 0 < a /\ a <= seconds}) ELSE 0

(* What sum returns for a window. A bucket as old as the window is wide    *)
(* still counts (now - s <= seconds).                                      *)
sum(i, seconds) ==
    IF i \in present
      THEN SumFunctionOnSet(count[i], {a \in buckets[i] : a <= seconds}) ELSE 0

(* Every variable has its type; the lock is held by who says so.           *)
TypeOK ==
    /\ mu \in Procs \union {Free, Janitor}
    /\ present \subseteq IPs
    /\ buckets \in [IPs -> SUBSET Ages]
    /\ count \in [IPs -> [InWindow -> Nat]]
    /\ pc \in [Procs -> {"idle", "lookup", "read", "insert", "write", "add"}]
    /\ ip \in [Procs -> IPs \union {NoIP}]
    /\ age \in [Procs -> Ages]
    /\ orphan \in [Procs -> BOOLEAN]
    /\ done \in [IPs -> [InWindow -> Nat]]
    /\ swept \in [IPs -> SUBSET Ages]
    /\ alive \in BOOLEAN
    /\ \A p \in Procs : pc[p] = "write" <=> mu = p

(* The two looks of inc make one bucket for each second, and no increment  *)
(* of it is lost between goroutines: the limits see exactly the increments *)
(* that have returned, for every second whose increments no prune has      *)
(* overtaken between inc's lookup and its bucket.                          *)
CountsExact ==
    \A i \in IPs : \A a \in InWindow :
        a \notin swept[i] => count[i][a] = done[i][a] /\ (done[i][a] > 0 => a \in buckets[i])

(* The buckets hold what inc was asked to count, in states of the declared *)
(* types, where the mutex is held by one goroutine at a time.              *)
Inv == TypeOK /\ CountsExact

(* A limit never misses an increment of its window, and never charges an   *)
(* address for what it did more than one second before the window: what    *)
(* sum returns lies between the increments of the last `seconds` buckets   *)
(* and those of one bucket more.                                           *)
DoneIn(i, width) == SumFunctionOnSet(done[i], 0..(width - 1))

WindowSandwich ==
    \A i \in IPs : \A seconds \in 1..Window :
        /\ sum(i, seconds) <= DoneIn(i, seconds + 1)
        /\ swept[i] = {} => DoneIn(i, seconds) <= sum(i, seconds)

(* An address nobody counts for any more is forgotten: the table does not  *)
(* grow with every address ever seen.                                      *)
Forgets ==
    \A i \in IPs :
        <>[](alive /\ \A p \in Procs : ip[p] # i) => <>[](i \notin present)
=============================================================================
