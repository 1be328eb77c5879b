--------------------------------- MODULE Bans ---------------------------------
(***************************************************************************)
(* /ban and /unban: the bot's loop admits a message (internal/telegram,    *)
(* handleUpdate), the ban goes to the store, then to iptables, then to the *)
(* audit log (cmdBan, cmdUnban, internal/security, internal/storage). Each *)
(* call is a step of its own: the process may be killed in between, each   *)
(* call may fail, and the kernel's rules outlive the process but not the   *)
(* host. security.enabled_iptables is on; without it the iptables calls    *)
(* fall away.                                                              *)
(***************************************************************************)
EXTENDS Limiter, Sequences

CONSTANTS
    Ips,
    MaxCommands,  \* bound: bans and unbans that are stored
    MaxBoots      \* bound: starts of the process

ASSUME BansAssumption == MaxCommands \in Nat /\ MaxBoots \in Nat

VARIABLES
    at,      \* "down", the call of ensureChain or of the command that is next, or "idle"
    job,     \* the command: <<"ban" or "unban", ip>>
    bans,    \* the bans table
    audit,   \* audit_log
    chain,   \* MC-PROXY-BAN exists
    jumps,   \* rules in INPUT and OUTPUT that lead to it
    rules,   \* its DROP rules, by direction and address
    boots,
    commands,
    trouble  \* what has gone wrong so far

kernelVars == <<chain, jumps, rules>>
banVars == <<at, job, bans, audit, kernelVars, boots, commands, trouble>>
adminVars == <<limiterVars, banVars>>

Hooks == {"INPUT", "OUTPUT"}
Directions == {"src", "dst"}
Jobs == {"ban", "unban"} \X Ips

NoRules == [d \in Directions |-> [i \in Ips |-> 0]]
NoJumps == [h \in Hooks |-> 0]

BansInit ==
    /\ LimiterInit
    /\ at = "down"
    /\ job \in Jobs
    /\ bans = {} /\ audit = <<>>
    /\ chain = FALSE /\ jumps = NoJumps /\ rules = NoRules
    /\ boots = 0 /\ commands = 0 /\ trouble = {}

-----------------------------------------------------------------------------
(* NewBans and ensureChain.                                                *)

NewBans ==
    /\ at = "down" /\ boots < MaxBoots
    /\ at' = "create"
    /\ boots' = boots + 1
    /\ LimiterReset
    /\ UNCHANGED <<grants, job, bans, audit, kernelVars, commands, trouble>>

(* One iptables call: what it does when it works. Errors are ignored.      *)
Iptables(works, effect, next) ==
    /\ at' = next
    /\ \/ works /\ effect /\ UNCHANGED trouble
       \/ ~works /\ UNCHANGED <<kernelVars, trouble>>
       \/ works /\ UNCHANGED kernelVars /\ trouble' = trouble \union {"failed"}
    /\ UNCHANGED <<limiterVars, job, bans, audit, boots, commands>>

(* -N fails when the chain exists.                                         *)
Create ==
    /\ at = "create"
    /\ Iptables(~chain, chain' = TRUE /\ UNCHANGED <<jumps, rules>>, "INPUT")

(* -I inserts another jump at every start.                                 *)
Insert(h, next) ==
    /\ at = h
    /\ Iptables(chain, jumps' = [jumps EXCEPT ![h] = @ + 1] /\ UNCHANGED <<chain, rules>>, next)

ensureChain == Create \/ Insert("INPUT", "OUTPUT") \/ Insert("OUTPUT", "idle")

-----------------------------------------------------------------------------
(* handleUpdate: messages of others than the admins, Keys, are ignored, and *)
(* only an admin the limiter grants a use gets to dispatch.                *)

(* A denied admin, or a command that does neither ban nor unban.           *)
OtherUpdate(k) ==
    /\ at = "idle"
    /\ \E granted \in BOOLEAN : Allow(k, granted)
    /\ UNCHANGED banVars

(* Variant: an error of the store is ignored.                              *)
StoreUnchecked(op, ip) ==
    bans' \in {bans, IF op = "ban" THEN bans \union {ip} ELSE bans \ {ip}}

(* A ban is an insert or an update, an unban a delete.                     *)
Store(op, ip) == bans' = IF op = "ban" THEN bans \union {ip} ELSE bans \ {ip}

Command(k, op, ip) ==
    /\ at = "idle" /\ commands < MaxCommands
    /\ Allow(k, TRUE)
    /\ commands' = commands + 1
    /\ at' = "src"
    /\ job' = <<op, ip>>
    /\ Store(op, ip)
    /\ trouble' = trouble \union (IF op = "ban" /\ ip \in bans THEN {"repeated"} ELSE {})
    /\ UNCHANGED <<audit, kernelVars, boots>>

(* The store returns an error: so does Ban, and nothing else is done.      *)
CommandUnstored(k, op, ip) ==
    /\ at = "idle"
    /\ Allow(k, TRUE)
    /\ UNCHANGED banVars

(* The rules that -A appends and -D deletes, which fails without a rule.   *)
Rule(d, next) ==
    LET add == job[1] = "ban"
        ip == job[2]
    IN  /\ at = d
        /\ Iptables(chain /\ (add \/ rules[d][ip] > 0),
                    /\ rules' = [rules EXCEPT ![d][ip] = IF add THEN @ + 1 ELSE @ - 1]
                    /\ UNCHANGED <<chain, jumps>>,
                    next)

(* Variant: a ban drops the packets of the address only.                   *)
iptablesSourceOnly ==
    \/ Rule("src", IF job[1] = "ban" THEN "audit" ELSE "dst") \/ Rule("dst", "audit")

iptables == Rule("src", "dst") \/ Rule("dst", "audit")

(* The audit entry, whose error is ignored.                                *)
RecordAudit ==
    /\ at = "audit"
    /\ at' = "idle"
    /\ \/ audit' = Append(audit, job) /\ UNCHANGED trouble
       \/ trouble' = trouble \union {"failed"} /\ UNCHANGED audit
    /\ UNCHANGED <<limiterVars, job, bans, kernelVars, boots, commands>>

-----------------------------------------------------------------------------
(* The process ends, also in the middle of a command ...                   *)
Stop ==
    /\ at # "down"
    /\ at' = "down"
    /\ trouble' = trouble \union (IF at = "idle" THEN {} ELSE {"cut"})
    /\ UNCHANGED <<limiterVars, job, bans, audit, kernelVars, boots, commands>>

(* ... and the host may be started again, which clears the kernel's rules. *)
HostReboot ==
    /\ at = "down" /\ chain
    /\ chain' = FALSE /\ jumps' = NoJumps /\ rules' = NoRules
    /\ trouble' = trouble \union {"wiped"}
    /\ UNCHANGED <<limiterVars, at, job, bans, audit, boots, commands>>

BansNext ==
    \/ NewBans \/ ensureChain
    \/ \E k \in Keys : OtherUpdate(k)
    \/ \E k \in Keys, op \in {"ban", "unban"}, ip \in Ips :
          Command(k, op, ip) \/ CommandUnstored(k, op, ip)
    \/ iptables \/ RecordAudit
    \/ Stop \/ HostReboot
    \/ Tick /\ UNCHANGED banVars

BansSpec == BansInit /\ [][BansNext]_adminVars

-----------------------------------------------------------------------------
(* Properties.                                                             *)

BansTypes ==
    /\ LimiterTypes
    /\ at \in {"down", "create", "idle", "audit"} \union Hooks \union Directions
    /\ job \in Jobs
    /\ bans \subseteq Ips
    /\ audit \in Seq(Jobs)
    /\ chain \in BOOLEAN
    /\ jumps \in [Hooks -> 0..MaxBoots]
    /\ rules \in [Directions -> [Ips -> Nat]]
    /\ boots \in 0..MaxBoots /\ commands \in 0..MaxCommands
    /\ trouble \subseteq {"failed", "cut", "wiped", "repeated"}

(* security.go:141 promises `capacity' uses per interval. Around a refill  *)
(* an admin gets nearly twice as many, and once more for every restart of  *)
(* the process that falls into the interval; never as many as that.        *)
WindowBound == \A k \in Keys : Recent(k) < (boots + 1) * Capacity

(* The limiter in both directions: it grants no more than that, and        *)
(* refuses nobody who had less than its capacity in the last interval.     *)
LimiterInv == WindowBound /\ RefusalJustified

(* No command is in progress.                                              *)
Settled == at \in {"idle", "down"}

(* A stored ban is mirrored to iptables in both directions, unless a call  *)
(* failed, the process was killed in a command, or the host was rebooted,  *)
(* after which nothing adds the rules again.                               *)
BannedIsDropped ==
    Settled /\ trouble \subseteq {"repeated"} =>
        \A d \in Directions, ip \in bans : rules[d][ip] > 0

(* Unban takes away every rule of the address, unless a call failed, the   *)
(* process was killed in a command, or an address was banned twice: -A     *)
(* appends a second rule and -D deletes one.                               *)
FreeIsNotDropped ==
    Settled /\ trouble \subseteq {"wiped"} =>
        \A d \in Directions, ip \in Ips \ bans : rules[d][ip] = 0

(* The kernel comes past the chain in both directions while the daemon     *)
(* takes commands, whatever was cut short in earlier starts.               *)
ChainIsUsed ==
    at \notin {"down", "create"} \union Hooks /\ "failed" \notin trouble =>
        \A h \in Hooks : jumps[h] > 0

(* The kernel's rules mirror the bans table as far as the failures met     *)
(* allow: stored bans are dropped, others are not, and packets come past   *)
(* the chain; in states of the declared types.                             *)
BansInv == BansTypes /\ BannedIsDropped /\ FreeIsNotDropped /\ ChainIsUsed

(* The audit log explains the table: the stored bans are those of the     *)
(* addresses that its entries banned and did not unban later, unless an    *)
(* entry could not be written or the process was killed before it was.     *)
BannedBy(log) ==
    {ip \in Ips : \E n \in DOMAIN log :
        log[n] = <<"ban", ip>> /\ \A m \in DOMAIN log : m > n => log[m] # <<"unban", ip>>}

AuditExplains ==
    Settled /\ trouble \intersect {"failed", "cut"} = {} => BannedBy(audit) = bans
=============================================================================
