------------------------------ MODULE Firewall ------------------------------
(***************************************************************************)
(* The firewall operations and Sentinel on a ufw host: operators ban,      *)
(* unban, open and close ports and switch the firewall, while the          *)
(* scheduler's `sentinel.scan` pass lifts expired bans and places new      *)
(* ones.  Nothing serialises them: every ufw command and every database    *)
(* call is an action.  ufw's rules and the tables outlive the agent.       *)
(*                                                                         *)
(* ufw numbers its rules from the top, `insert 1` puts one in front, and   *)
(* `delete N` removes whatever is the N-th at that moment.                 *)
(***************************************************************************)
EXTENDS Naturals, Sequences, FiniteSets, SequencesExt

CONSTANTS
  Addrs,       \* addresses that may be banned
  Protected,   \* those refusal_reason spares: own, the client's, allowlisted
  Ports,
  Ssh,         \* the port sshd answers on
  Web,         \* 80 and 443 if something serves the web, else empty
  Panel,       \* the port the panel is reached on, or None behind its vhost
  Refused,     \* ports fw.port.open will not open (25 when main.cf is the panel's)
  Own,         \* ufw rules the operator wrote before
  Callers,     \* requests that may be in flight at once
  Tick,        \* the sentinel.scan pass
  None,
  MaxBans,     \* bound: rows of sentinel_bans
  MaxRules,    \* bound: rules in ufw
  MaxCalls,    \* bound: operator calls
  MaxMishaps   \* bound: crashes and failed commands or queries

Procs == Callers \cup {Tick}
Rows  == 1..MaxBans
Rules == [mark : {"ban", "port", "own"}, deny : Addrs \cup {None}, allow : Ports \cup {None}]

BanRule(a)   == [mark |-> "ban", deny |-> a, allow |-> None]
PortRule(p)  == [mark |-> "port", deny |-> None, allow |-> p]

ASSUME FirewallAssumption ==
  /\ Protected \subseteq Addrs /\ Ssh \in Ports /\ Web \subseteq Ports
  /\ Panel \in Ports \cup {None} /\ Refused \subseteq Ports
  /\ Own \in Seq(Rules) /\ \A i \in 1..Len(Own) : Own[i].mark = "own"
  /\ Tick \notin Callers /\ None \notin Addrs \cup Ports
  /\ MaxBans \in Nat /\ MaxRules \in Nat /\ MaxCalls \in Nat /\ MaxMishaps \in Nat

VARIABLES
  \* --- ufw -------------------------------------------------------------
  rules,     \* in ufw's order
  active,
  \* --- SQLite ----------------------------------------------------------
  ports,     \* fw_rules
  ip,        \* sentinel_bans.ip, None before the row exists
  until,     \* "never" (expires_at NULL), "ahead" or "passed"
  lifted,    \* lifted_at is set
  enabled,   \* sentinel.enabled
  \* --- agent memory ----------------------------------------------------
  pc,        \* where a call or the pass is
  addr,      \* the address it works on
  nums,      \* rule numbers it has read and not deleted yet
  term,      \* expires_at of the ban it places: "never" or "ahead"
  todo,      \* rows, addresses or ports it has still to handle
  armed,     \* sentinel.enabled as the pass read it
  \* --- what the properties observe --------------------------------------
  byScan,    \* rows Sentinel placed
  strays,    \* deletions that hit another rule than the one that was read
  missed,    \* addresses whose rows are closed although a rule may be left: the
             \* pass's unban failed, ufw was stopped, or a ban came after the listing
  calls, mishaps

ufwVars  == <<rules, active>>
dbVars   == <<ports, ip, until, lifted, enabled, byScan>>
callVars == <<pc, addr, nums, term, todo, armed>>
vars     == <<ufwVars, dbVars, callVars, strays, missed, calls, mishaps>>

Stages == {"idle", "listing", "deleting", "lifting", "recording", "closing", "opening",
           "noting", "notingDoor", "reaping", "judging", "banning"}

TypeOK ==
  /\ rules \in Seq(Rules) /\ active \in BOOLEAN
  /\ ports \in SUBSET Ports /\ ip \in [Rows -> Addrs \cup {None}]
  /\ until \in [Rows -> {"never", "ahead", "passed"}] /\ lifted \in [Rows -> BOOLEAN]
  /\ enabled \in BOOLEAN /\ byScan \in [Rows -> BOOLEAN]
  /\ pc \in [Procs -> Stages] /\ addr \in [Procs -> Addrs \cup Ports \cup {None}]
  /\ nums \in [Procs -> SUBSET (Nat \ {0})] /\ term \in [Procs -> {"never", "ahead"}]
  /\ todo \in [Procs -> SUBSET (Rows \cup Addrs \cup Ports)] /\ armed \in BOOLEAN
  /\ strays \in Nat /\ missed \in SUBSET Addrs
  /\ calls \in Nat /\ mishaps \in Nat

\* ufw is installed and stopped; Sentinel is off until an operator turns it on.
Init ==
  /\ rules = Own /\ active = FALSE
  /\ ports = {} /\ ip = [r \in Rows |-> None] /\ until = [r \in Rows |-> "never"]
  /\ lifted = [r \in Rows |-> FALSE] /\ enabled = FALSE /\ byScan = [r \in Rows |-> FALSE]
  /\ pc = [p \in Procs |-> "idle"] /\ addr = [p \in Procs |-> None]
  /\ nums = [p \in Procs |-> {}] /\ term = [p \in Procs |-> "ahead"]
  /\ todo = [p \in Procs |-> {}] /\ armed = FALSE
  /\ strays = 0 /\ missed = {} /\ calls = 0 /\ mishaps = 0

Call(c) == pc[c] = "idle" /\ calls < MaxCalls /\ calls' = calls + 1
Mishap  == mishaps < MaxMishaps /\ mishaps' = mishaps + 1
Goto(p, s) == pc' = [pc EXCEPT ![p] = s]

\* Where a call goes when it is done with one address: the pass has others.
Rest(p, s) == IF p = Tick THEN s ELSE "idle"

Admits(q) == \E i \in 1..Len(rules) : rules[i].allow = q
FirstAllow(q, i) == rules[i].allow = q /\ \A j \in 1..(i - 1) : rules[j].allow # q

\* The model has room for one more ban.
Room ==
  /\ Len(rules) < MaxRules
  /\ Cardinality({p \in Procs : pc[p] = "recording"}) < Cardinality({r \in Rows : ip[r] = None})

\* Open rows of an address; is_banned looks at those that have not expired.
OpenRows(a) == {r \in Rows : ip[r] = a /\ ~lifted[r]}
IsBanned(a) == \E r \in OpenRows(a) : until[r] # "passed"

-----------------------------------------------------------------------------
(* Bans.  fw.ban and the pass insert a rule, then record it; fw.unban and  *)
(* the reaper list the rules, delete them by number, then close the rows.  *)

\* The address is unbanned without its rules being seen to, if `b` holds.
Miss(a, b) == missed' = IF b THEN missed \cup {a} ELSE missed

\* An unban of the address is past its listing.
Unbanning(a) == \E p \in Procs : pc[p] \in {"deleting", "lifting"} /\ addr[p] = a

\* fw.ban, after its guard: the backend first.
Ban(c, a) ==
  /\ Call(c) /\ a \notin Protected /\ Room
  /\ rules' = <<BanRule(a)>> \o rules
  /\ addr' = [addr EXCEPT ![c] = a]
  /\ \E t \in {"never", "ahead"} : term' = [term EXCEPT ![c] = t]
  /\ Goto(c, "recording") /\ Miss(a, Unbanning(a))
  /\ UNCHANGED <<active, dbVars, nums, todo, armed, strays, mishaps>>

\* record_ban: a fresh row per ban.  An error ends the call, or the pass.
RecordBan(p) ==
  /\ pc[p] = "recording"
  /\ \/ /\ \E r \in Rows :
             /\ ip[r] = None /\ \A s \in 1..(r - 1) : ip[s] # None
             /\ ip' = [ip EXCEPT ![r] = addr[p]]
             /\ until' = [until EXCEPT ![r] = term[p]]
             /\ byScan' = [byScan EXCEPT ![r] = p = Tick]
        /\ Goto(p, Rest(p, "judging"))
        /\ UNCHANGED mishaps
     \/ /\ Mishap /\ Goto(p, "idle")
        /\ UNCHANGED <<ip, until, byScan>>
  /\ UNCHANGED <<ufwVars, ports, lifted, enabled, addr, nums, term, todo, armed, strays, missed,
                 calls>>

Unban(c, a) ==
  /\ Call(c)
  /\ addr' = [addr EXCEPT ![c] = a] /\ Goto(c, "listing")
  /\ UNCHANGED <<ufwVars, dbVars, nums, term, todo, armed, strays, missed, mishaps>>

\* Mutant: numbers counted from nought.
BanIndicesFromNought(a) == {i - 1 : i \in {j \in 1..Len(rules) : active /\ rules[j] = BanRule(a)}}

\* ufw_ban_indices over `status numbered`, which lists nothing while ufw is stopped.
BanIndices(a) == {i \in 1..Len(rules) : active /\ rules[i] = BanRule(a)}

\* unban_ip: read the numbers.  The pass only logs an error and goes on.
ListRules(p) ==
  /\ pc[p] = "listing"
  /\ \/ /\ nums' = [nums EXCEPT ![p] = BanIndices(addr[p])]
        /\ Miss(addr[p], ~active)
        /\ Goto(p, "deleting") /\ UNCHANGED mishaps
     \/ /\ Mishap /\ Miss(addr[p], p = Tick)
        /\ Goto(p, Rest(p, "lifting")) /\ UNCHANGED nums
  /\ UNCHANGED <<ufwVars, dbVars, addr, term, todo, armed, strays, calls>>

\* unban_ip: one `ufw --force delete N` per number, highest first.
DeleteRule(p) ==
  /\ pc[p] = "deleting"
  /\ \E n \in nums[p] :
     /\ \A m \in nums[p] : m <= n
     /\ \/ /\ n <= Len(rules)
           /\ rules' = RemoveAt(rules, n)
           /\ strays' = strays + (IF rules[n] = BanRule(addr[p]) THEN 0 ELSE 1)
           /\ nums' = [nums EXCEPT ![p] = @ \ {n}]
           /\ UNCHANGED <<pc, missed, mishaps>>
        \/ /\ (n > Len(rules) /\ UNCHANGED mishaps) \/ Mishap
           /\ Miss(addr[p], p = Tick)
           /\ nums' = [nums EXCEPT ![p] = {}] /\ Goto(p, Rest(p, "lifting"))
           /\ UNCHANGED <<rules, strays>>
  /\ UNCHANGED <<active, dbVars, addr, term, todo, armed, calls>>

Deleted(p) ==
  /\ pc[p] = "deleting" /\ nums[p] = {}
  /\ Goto(p, "lifting")
  /\ UNCHANGED <<ufwVars, dbVars, addr, nums, term, todo, armed, strays, missed, calls, mishaps>>

\* lift_bans_for: every open row of the address.  An error ends the pass.
LiftBans(p) ==
  /\ pc[p] = "lifting"
  /\ \/ /\ lifted' = [r \in Rows |-> lifted[r] \/ ip[r] = addr[p]]
        /\ Goto(p, Rest(p, "reaping")) /\ UNCHANGED mishaps
     \/ Mishap /\ Goto(p, "idle") /\ UNCHANGED lifted
  /\ UNCHANGED <<ufwVars, ports, ip, until, enabled, byScan, addr, nums, term, todo, armed,
                 strays, missed, calls>>

\* The time of a ban has passed.
Expire(r) ==
  /\ ip[r] # None /\ until[r] = "ahead"
  /\ until' = [until EXCEPT ![r] = "passed"]
  /\ UNCHANGED <<ufwVars, ports, ip, lifted, enabled, byScan, callVars, strays, missed, calls,
                 mishaps>>

-----------------------------------------------------------------------------
(* sentinel_tick_with: reap what has expired, then ban whoever offends.    *)

ExpiredBans == {r \in Rows : ip[r] # None /\ ~lifted[r] /\ until[r] = "passed"}

\* Mutant: the switch is looked at before the reaper runs.
StartTickArmed ==
  /\ pc[Tick] = "idle" /\ enabled
  /\ armed' = enabled
  /\ todo' = [todo EXCEPT ![Tick] = ExpiredBans]
  /\ Goto(Tick, "reaping")
  /\ UNCHANGED <<ufwVars, dbVars, addr, nums, term, strays, missed, calls, mishaps>>

\* Settings and expired rows are read; the reaper comes before the switch.
StartTick ==
  /\ pc[Tick] = "idle"
  /\ enabled \/ ExpiredBans # {}
  /\ armed' = enabled
  /\ todo' = [todo EXCEPT ![Tick] = ExpiredBans]
  /\ Goto(Tick, "reaping")
  /\ UNCHANGED <<ufwVars, dbVars, addr, nums, term, strays, missed, calls, mishaps>>

\* Mutant: the row is closed and ufw is left to expire its rule, as firewalld would.
ReapRowOnly ==
  /\ pc[Tick] = "reaping"
  /\ \E r \in todo[Tick] :
       /\ addr' = [addr EXCEPT ![Tick] = ip[r]]
       /\ todo' = [todo EXCEPT ![Tick] = @ \ {r}]
  /\ Goto(Tick, "lifting")
  /\ UNCHANGED <<ufwVars, dbVars, nums, term, armed, strays, missed, calls, mishaps>>

\* The next expired row: an address with two of them is unbanned twice.
Reap ==
  /\ pc[Tick] = "reaping"
  /\ \E r \in todo[Tick] :
       /\ addr' = [addr EXCEPT ![Tick] = ip[r]]
       /\ todo' = [todo EXCEPT ![Tick] = @ \ {r}]
  /\ Goto(Tick, "listing")
  /\ UNCHANGED <<ufwVars, dbVars, nums, term, armed, strays, missed, calls, mishaps>>

\* Nothing is left to reap: stop if Sentinel is off, else count the offenders.  An
\* error of the journal or of failed_logins_since ends the pass.
Collect ==
  /\ pc[Tick] = "reaping" /\ todo[Tick] = {}
  /\ \/ ~armed /\ Goto(Tick, "idle") /\ UNCHANGED <<todo, mishaps>>
     \/ /\ armed /\ Goto(Tick, "judging")
        /\ \E S \in SUBSET (Addrs \ Protected) : todo' = [todo EXCEPT ![Tick] = S]
        /\ UNCHANGED mishaps
     \/ armed /\ Mishap /\ Goto(Tick, "idle") /\ UNCHANGED todo
  /\ UNCHANGED <<ufwVars, dbVars, addr, nums, term, armed, strays, missed, calls>>

\* Mutant: an address that serves a ban is banned again.
JudgeAll(a) ==
  /\ pc[Tick] = "judging" /\ a \in todo[Tick]
  /\ todo' = [todo EXCEPT ![Tick] = @ \ {a}]
  /\ addr' = [addr EXCEPT ![Tick] = a] /\ Goto(Tick, "banning")
  /\ UNCHANGED <<ufwVars, dbVars, nums, term, armed, strays, missed, calls, mishaps>>

\* is_banned: an address that serves a ban is left alone; an error ends the pass.
Judge(a) ==
  /\ pc[Tick] = "judging" /\ a \in todo[Tick]
  /\ \/ /\ todo' = [todo EXCEPT ![Tick] = @ \ {a}]
        /\ \/ ~IsBanned(a) /\ addr' = [addr EXCEPT ![Tick] = a] /\ Goto(Tick, "banning")
           \/ IsBanned(a) /\ UNCHANGED <<addr, pc>>
        /\ UNCHANGED mishaps
     \/ Mishap /\ Goto(Tick, "idle") /\ todo' = [todo EXCEPT ![Tick] = {}] /\ UNCHANGED addr
  /\ UNCHANGED <<ufwVars, dbVars, nums, term, armed, strays, missed, calls>>

\* ban_ip by the pass, always with a TTL; a failure is logged and skipped.
ScanBan ==
  /\ pc[Tick] = "banning"
  /\ \/ /\ Room
        /\ rules' = <<BanRule(addr[Tick])>> \o rules
        /\ term' = [term EXCEPT ![Tick] = "ahead"]
        /\ Goto(Tick, "recording") /\ Miss(addr[Tick], Unbanning(addr[Tick])) /\ UNCHANGED mishaps
     \/ Mishap /\ Goto(Tick, "judging") /\ UNCHANGED <<rules, term, missed>>
     \/ ~Room /\ Goto(Tick, "judging") /\ UNCHANGED <<rules, term, missed, mishaps>>
  /\ UNCHANGED <<active, dbVars, addr, nums, todo, armed, strays, calls>>

EndTick ==
  /\ pc[Tick] = "judging" /\ todo[Tick] = {}
  /\ Goto(Tick, "idle")
  /\ UNCHANGED <<ufwVars, dbVars, addr, nums, term, todo, armed, strays, missed, calls, mishaps>>

\* sentinel.settings.set.
SetSentinel ==
  /\ calls < MaxCalls /\ calls' = calls + 1
  /\ enabled' = ~enabled
  /\ UNCHANGED <<ufwVars, ports, ip, until, lifted, byScan, callVars, strays, missed, mishaps>>

TickStep ==
  \/ StartTick \/ Reap \/ Collect \/ (\E a \in Addrs : Judge(a)) \/ ScanBan \/ EndTick
  \/ RecordBan(Tick) \/ ListRules(Tick) \/ DeleteRule(Tick) \/ Deleted(Tick) \/ LiftBans(Tick)

-----------------------------------------------------------------------------
(* Ports and the switch.                                                   *)

\* ufw allow: a duplicate is skipped.
Allow(q) == rules' = IF Admits(q) THEN rules ELSE Append(rules, PortRule(q))

\* fw.port.open: the backend, then record_fw_rule.
PortOpen(c, q) ==
  /\ Call(c) /\ q \notin Refused /\ Len(rules) < MaxRules
  /\ Allow(q)
  /\ addr' = [addr EXCEPT ![c] = q] /\ Goto(c, "noting")
  /\ UNCHANGED <<active, dbVars, nums, term, todo, armed, strays, missed, mishaps>>

\* record_fw_rule, for fw.port.open and for fw.enable.
NotePort(c) ==
  /\ pc[c] \in {"noting", "notingDoor"}
  /\ \/ /\ ports' = ports \cup {addr[c]}
        /\ Goto(c, IF pc[c] = "noting" THEN "idle" ELSE "opening")
        /\ UNCHANGED mishaps
     \/ Mishap /\ Goto(c, "idle") /\ UNCHANGED ports
  /\ UNCHANGED <<ufwVars, ip, until, lifted, enabled, byScan, addr, nums, term, todo, armed,
                 strays, missed, calls>>

\* Mutant: the panel's own port may be closed like any other.
PortCloseAny(c, q) ==
  /\ Call(c)
  /\ \/ \E i \in 1..Len(rules) : FirstAllow(q, i) /\ rules' = RemoveAt(rules, i)
     \/ ~Admits(q) /\ UNCHANGED rules
  /\ addr' = [addr EXCEPT ![c] = q] /\ Goto(c, "closing")
  /\ UNCHANGED <<active, dbVars, nums, term, todo, armed, strays, missed, mishaps>>

\* fw.port.close: never the panel's port.  `ufw delete allow` goes by the shape of
\* the rule, whoever wrote it; a rule that is not there is no error.
PortClose(c, q) ==
  /\ Call(c) /\ q # Panel
  /\ \/ \E i \in 1..Len(rules) : FirstAllow(q, i) /\ rules' = RemoveAt(rules, i)
     \/ ~Admits(q) /\ UNCHANGED rules
  /\ addr' = [addr EXCEPT ![c] = q] /\ Goto(c, "closing")
  /\ UNCHANGED <<active, dbVars, nums, term, todo, armed, strays, missed, mishaps>>

\* forget_fw_rule.
ForgetPort(c) ==
  /\ pc[c] = "closing" /\ Goto(c, "idle")
  /\ \/ ports' = ports \ {addr[c]} /\ UNCHANGED mishaps
     \/ Mishap /\ UNCHANGED ports
  /\ UNCHANGED <<ufwVars, ip, until, lifted, enabled, byScan, addr, nums, term, todo, armed,
                 strays, missed, calls>>

\* What must be reachable when a default-deny firewall comes up.
Doors == {Ssh} \cup Web \cup ({Panel} \ {None})

\* fw.enable on a stopped firewall: read the rules once and open the doors that are
\* shut (without `allow_ssh`, a shut SSH port is a refusal that changes nothing).
Enable(c) ==
  /\ Call(c) /\ ~active
  /\ todo' = [todo EXCEPT ![c] = {q \in Doors : ~Admits(q)}]
  /\ Goto(c, "opening")
  /\ UNCHANGED <<ufwVars, dbVars, addr, nums, term, armed, strays, missed, mishaps>>

\* open_before_start for one door.
OpenDoor(c) ==
  /\ pc[c] = "opening" /\ Len(rules) < MaxRules
  /\ \E q \in todo[c] :
       /\ Allow(q)
       /\ addr' = [addr EXCEPT ![c] = q]
       /\ todo' = [todo EXCEPT ![c] = @ \ {q}]
  /\ Goto(c, "notingDoor")
  /\ UNCHANGED <<active, dbVars, nums, term, armed, strays, missed, calls, mishaps>>

\* ufw_switch(true), once every door is open.
SwitchOn(c) ==
  /\ pc[c] = "opening" /\ todo[c] = {}
  /\ Goto(c, "idle")
  /\ \/ active' = TRUE /\ UNCHANGED mishaps
     \/ Mishap /\ UNCHANGED active
  /\ UNCHANGED <<rules, dbVars, addr, nums, term, todo, armed, strays, missed, calls>>

\* fw.disable: rules and rows stay.
Disable(c) ==
  /\ Call(c) /\ active
  /\ active' = FALSE
  /\ UNCHANGED <<rules, dbVars, callVars, strays, missed, mishaps>>

CallStep(c) ==
  \/ RecordBan(c) \/ ListRules(c) \/ DeleteRule(c) \/ Deleted(c) \/ LiftBans(c)
  \/ NotePort(c) \/ ForgetPort(c) \/ OpenDoor(c) \/ SwitchOn(c)

\* The agent dies; ufw and the tables stay.
Crash ==
  /\ Mishap
  /\ pc' = [p \in Procs |-> "idle"] /\ nums' = [p \in Procs |-> {}]
  /\ todo' = [p \in Procs |-> {}]
  /\ UNCHANGED <<ufwVars, dbVars, addr, term, armed, strays, missed, calls>>

Next ==
  \/ \E c \in Callers :
       \/ CallStep(c) \/ Enable(c) \/ Disable(c)
       \/ \E a \in Addrs : Ban(c, a) \/ Unban(c, a)
       \/ \E q \in Ports : PortOpen(c, q) \/ PortClose(c, q)
  \/ \E r \in Rows : Expire(r)
  \/ TickStep \/ SetSentinel \/ Crash

Spec == Init /\ [][Next]_vars

\* The scheduler runs the pass every minute, its commands time out, time passes.
Fairness == WF_vars(TickStep) /\ \A r \in Rows : WF_vars(Expire(r))

FairSpec == Spec /\ Fairness

-----------------------------------------------------------------------------
(* Properties.                                                             *)

\* "Re-banning would reset its TTL every minute and turn a one-hour ban into a
\* permanent one": Sentinel never holds two unexpired bans against one address.
OneSentence ==
  \A r, s \in Rows :
    /\ byScan[r] /\ byScan[s] /\ ip[r] = ip[s]
    /\ until[r] = "ahead" /\ until[s] = "ahead" /\ ~lifted[r] /\ ~lifted[s]
    => r = s

\* "Never lock the operator out": while a firewall the panel started is up, it
\* admits the panel's port, whatever was opened, closed, banned or cut short
\* meanwhile, as long as no deletion by number hit another rule.
PanelReachable ==
  active /\ strays = 0 /\ Panel # None => Admits(Panel)

Termed(a) == \E r \in OpenRows(a) : until[r] # "never"
Denied(a) == \E i \in 1..Len(rules) : rules[i] = BanRule(a)

\* "Turning the defence off must not be what makes its bans permanent": Sentinel on
\* or off and through crashes, every ban with a term is closed in the end, and ufw
\* has let the address in again by then or lets it in later.  Three things may leave
\* a rule behind (`missed`, `strays`): the pass's unban failed or met a stopped ufw,
\* another ban of the address came between its listing and its last write, or a
\* number it had read no longer stood for the rule.
BansEnd ==
  /\ \A r \in Rows : (ip[r] # None /\ until[r] # "never") ~> lifted[r]
  /\ \A a \in Addrs : Termed(a) ~> (~Denied(a) \/ a \in missed \/ strays > 0)

-----------------------------------------------------------------------------
(* What the code says of itself and TLC refutes.                           *)

\* expires_at: "NULL means permanent - only ever an operator's deliberate choice",
\* so the pass never closes such a row.
PermanentBanStands ==
  [][\A r \in Rows : ip[r] # None /\ until[r] = "never" /\ ~lifted[r] /\ pc[Tick] = "lifting"
       /\ pc'[Tick] # "lifting" => ~lifted'[r]]_vars

\* sentinel_tick: "this reaper is the only thing that ever lifts a ufw ban", so an
\* address whose bans are all closed is not denied for good.
ClosedBansLetIn ==
  \A a \in Addrs :
    (\E r \in Rows : ip[r] = a) /\ OpenRows(a) = {} ~> (~Denied(a) \/ OpenRows(a) # {})

\* FwBackend: "A backend must never remove a rule it did not create".
OwnRulesStay ==
  [][\A i \in 1..Len(rules) : rules[i].mark = "own" => \E j \in 1..Len(rules') : rules'[j] = rules[i]]_vars
=============================================================================
