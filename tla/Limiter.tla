------------------------------- MODULE Limiter -------------------------------
(***************************************************************************)
(* The command rate limit of the bot (internal/security): a bucket per     *)
(* admin that is filled up at once when `refill' has passed since it was   *)
(* filled last. Time is counted in ticks; only ages up to Refill matter.   *)
(* Prune, which nothing calls, is left out.                                *)
(***************************************************************************)
EXTENDS Integers

CONSTANTS
    Keys,      \* admins
    Capacity,  \* uses per refill interval
    Refill     \* its length

(* NewLimiter replaces a capacity or an interval that is not positive.     *)
ASSUME LimiterAssumption == Capacity \in Nat \ {0} /\ Refill \in Nat \ {0}

VARIABLES
    tokens,   \* of the bucket of a key
    fillAge,  \* ticks since it was filled, Refill when longer or no bucket
    grants    \* of a key: uses granted at most a < Refill ticks ago

limiterVars == <<tokens, fillAge, grants>>

Ages == 0..(Refill - 1)

LimiterInit ==
    /\ tokens = [k \in Keys |-> 0]
    /\ fillAge = [k \in Keys |-> Refill]
    /\ grants = [k \in Keys |-> [a \in Ages |-> 0]]

(* Uses within one interval, this tick included.                           *)
Recent(k) == grants[k][Refill - 1]

(* A key without a bucket and one whose interval is over start full.       *)
Filled(k) == IF fillAge[k] >= Refill THEN Capacity ELSE tokens[k]

Count(k, granted) ==
    grants' = [grants EXCEPT ![k] = [a \in Ages |-> IF granted THEN @[a] + 1 ELSE @[a]]]

(* Variant: the time of a fill is not kept.                                *)
AllowForgets(k, granted) ==
    /\ granted = (Filled(k) > 0)
    /\ tokens' = [tokens EXCEPT ![k] = IF granted THEN Filled(k) - 1 ELSE 0]
    /\ UNCHANGED fillAge
    /\ Count(k, granted)

(* Allow, with its result.                                                 *)
Allow(k, granted) ==
    /\ granted = (Filled(k) > 0)
    /\ tokens' = [tokens EXCEPT ![k] = IF granted THEN Filled(k) - 1 ELSE 0]
    /\ fillAge' = [fillAge EXCEPT ![k] = IF @ >= Refill THEN 0 ELSE @]
    /\ Count(k, granted)

Tick ==
    /\ fillAge' = [k \in Keys |-> IF fillAge[k] < Refill THEN fillAge[k] + 1 ELSE Refill]
    /\ grants' = [k \in Keys |-> [a \in Ages |-> IF a = 0 THEN 0 ELSE grants[k][a - 1]]]
    /\ UNCHANGED tokens

(* The limiter of a new process is empty; what the old one granted stands. *)
LimiterReset ==
    /\ tokens' = [k \in Keys |-> 0]
    /\ fillAge' = [k \in Keys |-> Refill]

LimiterTypes ==
    /\ tokens \in [Keys -> 0..Capacity]
    /\ fillAge \in [Keys -> 0..Refill]
    /\ grants \in [Keys -> [Ages -> Nat]]

(* Allow refuses only an admin who has had `capacity' uses within the last *)
(* interval: pressing on while refused does not prolong the wait.          *)
RefusalJustified == \A k \in Keys : Filled(k) = 0 => Recent(k) >= Capacity
=============================================================================
