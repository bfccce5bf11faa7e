---------------------------- MODULE Certificates ----------------------------
(***************************************************************************)
(* The life of a site's certificate: rows in `certificates`, the PEM files *)
(* on disk, and what the web server has loaded.  `cert.issue` (HTTP-01)    *)
(* and `cert.issue_wildcard` (DNS-01) are run by operators and by the      *)
(* scheduler's renewal pass, without a lock between them.                  *)
(*                                                                         *)
(* Time is abstract: a row's not_after is fresh, due (inside RENEW_WINDOW) *)
(* or lapsed, and its next_attempt_at is in the future (`held`) or not.    *)
(***************************************************************************)
EXTENDS Naturals

CONSTANTS
  Sites,
  Operators,    \* people who may issue a certificate by hand
  Scheduler,    \* the renewal pass
  MayWildcard,  \* is a DNS credential stored, so that wildcards are possible
  Certified,    \* does row 1 start as the live certificate of its site
  MaxRows,      \* bound: rows ever created
  MaxCrashes    \* bound: agent crashes

ASSUME CertificatesAssumption ==
  /\ Scheduler \notin Operators
  /\ MayWildcard \in BOOLEAN /\ Certified \in BOOLEAN
  /\ MaxRows \in Nat \ {0} /\ MaxCrashes \in Nat

Rows    == 1..MaxRows
NoRow   == 0
Issuers == Operators \cup {Scheduler}

VARIABLES
  \* --- table certificates ---------------------------------------------
  status,   \* "none" while the row does not exist
  owner,    \* site_id; any site while the row does not exist
  wild,     \* covers_a_wildcard(domains)
  expiry,   \* not_after: "unset", "fresh", "due" or "lapsed"
  held,     \* next_attempt_at is in the future
  staging,  \* was it ordered from the staging directory (kept in no column)
  \* --- disk and web server --------------------------------------------
  chain, key,   \* the row whose fullchain.pem and privkey.pem are on disk
  live,         \* the row whose certificate the server has in memory
  \* --- agent memory ---------------------------------------------------
  pc,       \* how far an issuer has got
  cert,     \* the row it is issuing
  work,     \* rows the renewal pass has read and not yet handled
  due,      \* the row it is handling
  crashes

rowVars  == <<status, owner, wild, expiry, held, staging>>
diskVars == <<chain, key, live>>
memVars  == <<pc, cert, work, due>>
vars     == <<rowVars, diskVars, memVars, crashes>>

CertStatus == {"pending", "active", "failed", "expired", "superseded"}
Stages     == {"idle", "ordering", "issued", "halfwritten", "written", "reloaded", "recorded",
               "holding", "marking"}

TypeOK ==
  /\ status \in [Rows -> CertStatus \cup {"none"}]
  /\ owner \in [Rows -> Sites] /\ wild \in [Rows -> BOOLEAN]
  /\ expiry \in [Rows -> {"unset", "fresh", "due", "lapsed"}]
  /\ held \in [Rows -> BOOLEAN]
  /\ chain \in [Sites -> Rows \cup {NoRow}] /\ key \in [Sites -> Rows \cup {NoRow}]
  /\ live \in [Sites -> Rows \cup {NoRow}]
  /\ pc \in [Issuers -> Stages] /\ cert \in [Issuers -> Rows \cup {NoRow}]
  /\ staging \in [Rows -> BOOLEAN]
  /\ work \in SUBSET Rows /\ due \in Rows \cup {NoRow} /\ crashes \in Nat

\* A fresh panel, or one whose first site already has its certificate.
Init ==
  /\ status = [r \in Rows |-> IF Certified /\ r = 1 THEN "active" ELSE "none"]
  /\ owner \in [Rows -> Sites] /\ wild = [r \in Rows |-> FALSE]
  /\ expiry = [r \in Rows |-> IF Certified /\ r = 1 THEN "fresh" ELSE "unset"]
  /\ held = [r \in Rows |-> FALSE] /\ staging = [r \in Rows |-> FALSE]
  /\ live = [s \in Sites |-> IF Certified /\ owner[1] = s THEN 1 ELSE NoRow]
  /\ chain = live /\ key = live
  /\ pc = [i \in Issuers |-> "idle"] /\ cert = [i \in Issuers |-> NoRow]
  /\ work = {} /\ due = NoRow /\ crashes = 0

-----------------------------------------------------------------------------
(* Statements on the table.                                                *)

\* create_certificate: a pending row with no expiry, ids in order.
CreateCertificate(r, s, w, st) ==
  /\ status[r] = "none" /\ \A q \in Rows : q < r => status[q] # "none"
  /\ status' = [status EXCEPT ![r] = "pending"]
  /\ owner' = [owner EXCEPT ![r] = s]
  /\ wild' = [wild EXCEPT ![r] = w]
  /\ staging' = [staging EXCEPT ![r] = st]
  /\ UNCHANGED <<expiry, held>>

\* Mutant: the certificate being replaced stays active.
ReplacedLeavesActive == {"pending", "expired"}

Replaced == {"active", "pending", "expired"}

\* certificate_issued, one transaction: activate r and retire what it replaces.
CertificateIssued(r) ==
  /\ status' = [q \in Rows |->
       IF q = r THEN "active"
       ELSE IF owner[q] = owner[r] /\ status[q] \in Replaced THEN "superseded"
       ELSE status[q]]
  /\ expiry' = [expiry EXCEPT ![r] = "fresh"]
  /\ held' = [held EXCEPT ![r] = FALSE]
  /\ UNCHANGED <<owner, wild, staging>>

\* certificate_failed keeps an active row active.
CertificateFailed(r) ==
  /\ status' = [status EXCEPT ![r] = IF @ = "active" THEN "active" ELSE "failed"]
  /\ UNCHANGED <<owner, wild, expiry, held, staging>>

\* Mutant: a failed row is not offered for renewal.
ScannedNotFailed == {"active", "expired"}

\* Statuses in which certificates_to_renew looks at a row.
Scanned == {"active", "expired", "failed"}

\* Mutant: the backoff is written and never read.
RenewableIgnoresBackoff(r) == status[r] \in Scanned /\ expiry[r] \in {"due", "lapsed"}

\* certificates_to_renew.
Renewable(r) == status[r] \in Scanned /\ expiry[r] \in {"due", "lapsed"} /\ ~held[r]

-----------------------------------------------------------------------------
(* One issuance, by cert.issue or by cert.issue_wildcard.                  *)

\* The operator's request, up to the row that exists before the attempt.
Request(i, r, s, w, st) ==
  /\ i \in Operators /\ pc[i] = "idle" /\ (w => MayWildcard)
  /\ CreateCertificate(r, s, w, st)
  /\ pc' = [pc EXCEPT ![i] = "ordering"]
  /\ cert' = [cert EXCEPT ![i] = r]
  /\ UNCHANGED <<diskVars, work, due, crashes>>

\* Is issuer i running cert.issue_wildcard rather than cert.issue.
Wildcard(i) == cert[i] \in Rows /\ wild[cert[i]]

\* Where an issuance goes when its operation returns an error: the scheduler
\* has bookkeeping to do, an operator reads the task.
AfterError(i) == IF i = Scheduler THEN "holding" ELSE "idle"

\* The CA refuses, or never answers in time.
OrderFails(i) ==
  /\ pc[i] = "ordering"
  /\ CertificateFailed(cert[i])
  /\ pc' = [pc EXCEPT ![i] = AfterError(i)]
  /\ UNCHANGED <<diskVars, cert, work, due, crashes>>

\* Mutant: a rehearsal is installed like any other order.
OrderSucceedsInstalls(i) ==
  /\ pc[i] = "ordering"
  /\ pc' = [pc EXCEPT ![i] = "issued"]
  /\ UNCHANGED <<rowVars, diskVars, cert, work, due, crashes>>

\* Only cert.issue asks write_issued whether the order was a rehearsal: then the
\* operation succeeds here, with nothing written and the row left alone.
OrderSucceeds(i) ==
  /\ pc[i] = "ordering"
  /\ pc' = [pc EXCEPT ![i] = IF staging[cert[i]] /\ ~Wildcard(i) THEN "idle" ELSE "issued"]
  /\ UNCHANGED <<rowVars, diskVars, cert, work, due, crashes>>

\* A `?` after the row was created, or a certificate_failed that could not be
\* written: the row stays as it is.
Aborts(i) ==
  /\ pc[i] \in {"ordering", "issued", "halfwritten", "written", "reloaded", "recorded"}
  /\ pc' = [pc EXCEPT ![i] = AfterError(i)]
  /\ UNCHANGED <<rowVars, diskVars, cert, work, due, crashes>>

\* write_certificate renames one file after the other.
WriteChain(i) ==
  /\ pc[i] = "issued"
  /\ chain' = [chain EXCEPT ![owner[cert[i]]] = cert[i]]
  /\ pc' = [pc EXCEPT ![i] = "halfwritten"]
  /\ UNCHANGED <<rowVars, key, live, cert, work, due, crashes>>

WriteKey(i) ==
  /\ pc[i] = "halfwritten"
  /\ key' = [key EXCEPT ![owner[cert[i]]] = cert[i]]
  /\ pc' = [pc EXCEPT ![i] = "written"]
  /\ UNCHANGED <<rowVars, chain, live, cert, work, due, crashes>>

\* A reload reads every site's pair again, and refuses all of them over one key
\* that does not belong to its chain.
ReloadServer == chain = key /\ live' = chain

\* The vhost is rendered and the server reloads: before the row is recorded in
\* cert.issue, after it for a wildcard.
Reload(i) ==
  /\ pc[i] = IF Wildcard(i) THEN "recorded" ELSE "written"
  /\ ReloadServer
  /\ pc' = [pc EXCEPT ![i] = IF Wildcard(i) THEN "idle" ELSE "reloaded"]
  /\ UNCHANGED <<rowVars, chain, key, cert, work, due, crashes>>

\* certificate_issued: last for cert.issue, before the reload for a wildcard.
Record(i) ==
  /\ pc[i] = IF Wildcard(i) THEN "written" ELSE "reloaded"
  /\ CertificateIssued(cert[i])
  /\ pc' = [pc EXCEPT ![i] = IF Wildcard(i) THEN "recorded" ELSE "idle"]
  /\ UNCHANGED <<diskVars, cert, work, due, crashes>>

-----------------------------------------------------------------------------
(* renew_certificates: one pass over the rows that were due at its start.  *)

ReadDue ==
  /\ pc[Scheduler] = "idle" /\ work = {}
  /\ work' = {r \in Rows : Renewable(r)} /\ work' # {}
  /\ due' = NoRow
  /\ UNCHANGED <<rowVars, diskVars, pc, cert, crashes>>

\* The next row: an issuance of the same kind for the same site, or an error
\* before it has a row of its own (no DNS credential, a database error).
RenewNext(r) ==
  /\ pc[Scheduler] = "idle"
  /\ \E d \in work :
       /\ work' = work \ {d} /\ due' = d
       /\ CreateCertificate(r, owner[d], wild[d], FALSE)
  /\ pc' = [pc EXCEPT ![Scheduler] = "ordering"]
  /\ cert' = [cert EXCEPT ![Scheduler] = r]
  /\ UNCHANGED <<diskVars, crashes>>

RenewRefused ==
  /\ pc[Scheduler] = "idle"
  /\ \E d \in work : work' = work \ {d} /\ due' = d
  /\ pc' = [pc EXCEPT ![Scheduler] = "holding"]
  /\ UNCHANGED <<rowVars, diskVars, cert, crashes>>

\* set_certificate_next_attempt, then certificate_failed, on the row that was due;
\* either write may fail, and the pass goes on.
HoldBack ==
  /\ pc[Scheduler] = "holding"
  /\ held' \in {held, [held EXCEPT ![due] = TRUE]}
  /\ pc' = [pc EXCEPT ![Scheduler] = "marking"]
  /\ UNCHANGED <<status, owner, wild, expiry, staging, diskVars, cert, work, due, crashes>>

MarkFailed ==
  /\ pc[Scheduler] = "marking"
  /\ CertificateFailed(due) \/ UNCHANGED rowVars
  /\ pc' = [pc EXCEPT ![Scheduler] = "idle"]
  /\ UNCHANGED <<diskVars, cert, work, due, crashes>>

\* cert.expire-stale.
ExpireStale ==
  /\ \E r \in Rows : status[r] = "active" /\ expiry[r] = "lapsed"
  /\ status' = [r \in Rows |-> IF status[r] = "active" /\ expiry[r] = "lapsed" THEN "expired" ELSE status[r]]
  /\ UNCHANGED <<owner, wild, expiry, held, staging, diskVars, memVars, crashes>>

-----------------------------------------------------------------------------
(* Time, and the agent dying.                                              *)

TimePasses(r) ==
  /\ \/ expiry[r] = "fresh" /\ expiry' = [expiry EXCEPT ![r] = "due"]
     \/ expiry[r] = "due" /\ expiry' = [expiry EXCEPT ![r] = "lapsed"]
  /\ UNCHANGED <<status, owner, wild, held, staging, diskVars, memVars, crashes>>

HoldEnds(r) ==
  /\ held[r] /\ held' = [held EXCEPT ![r] = FALSE]
  /\ UNCHANGED <<status, owner, wild, expiry, staging, diskVars, memVars, crashes>>

\* Any other operation that applies a vhost reloads the server too.
ReloadElsewhere == ReloadServer /\ UNCHANGED <<rowVars, chain, key, memVars, crashes>>

Crash ==
  /\ crashes < MaxCrashes /\ crashes' = crashes + 1
  /\ pc' = [i \in Issuers |-> "idle"] /\ cert' = [i \in Issuers |-> NoRow]
  /\ work' = {} /\ due' = NoRow
  /\ UNCHANGED <<rowVars, diskVars>>

IssuerStep(i) ==
  \/ \E r \in Rows, s \in Sites, w, st \in BOOLEAN : Request(i, r, s, w, st)
  \/ OrderFails(i) \/ OrderSucceeds(i) \/ Aborts(i)
  \/ WriteChain(i) \/ WriteKey(i) \/ Reload(i) \/ Record(i)

Next ==
  \/ \E i \in Issuers : IssuerStep(i)
  \/ \E r \in Rows : RenewNext(r) \/ TimePasses(r) \/ HoldEnds(r)
  \/ ReadDue \/ RenewRefused \/ HoldBack \/ MarkFailed \/ ExpireStale
  \/ ReloadElsewhere \/ Crash

Spec == Init /\ [][Next]_vars

-----------------------------------------------------------------------------
(* Properties.                                                             *)

\* certificate_issued: "a crash between them would otherwise leave either two active
\* certificates or none".  However issuances interleave, a site has one active row.
OneActive ==
  \A q, r \in Rows : status[q] = "active" /\ status[r] = "active" /\ owner[q] = owner[r] => q = r

\* "one bad night on an already-lapsed certificate ended its auto-renewal for good":
\* a site that has had a certificate always has a row the renewal pass will look at.
NeverForgotten ==
  \A q \in Rows : status[q] # "none" /\ expiry[q] # "unset" =>
    \E r \in Rows : owner[r] = owner[q] /\ status[r] \in Scanned /\ expiry[r] # "unset"

\* "a failing certificate must wait out its backoff": the pass never starts on a row
\* that is held back, even though it works from a list read earlier.
HeldRowsWait ==
  [][pc[Scheduler] = "idle" /\ pc'[Scheduler] # "idle" => ~held[due']]_vars

Rehearsal(r) == staging[r] /\ ~wild[r]

\* write_issued: "a rehearsal that changes what visitors are served is not a rehearsal",
\* and it "must not be reported as the certificate the site is serving": whatever else is
\* being issued, no reload by anybody serves one and no row of one becomes active.
RehearsalNotServed ==
  /\ \A s \in Sites : live[s] # NoRow => ~Rehearsal(live[s])
  /\ \A r \in Rows : status[r] = "active" => ~Rehearsal(r)

-----------------------------------------------------------------------------
(* What the code says of itself and TLC refutes.                           *)

\* cert.issue_wildcard's input: "a staging certificate must never be installed on a
\* live site".
StagingNeverInstalled ==
  \A s \in Sites : live[s] # NoRow => ~staging[live[s]]

\* certificate_issued is to "retire whatever it replaces": otherwise a site "has three
\* rows the renewal scheduler considers live and renews separately".
RetiresWhatItReplaces ==
  \A q, r \in Rows :
    /\ owner[q] = owner[r]
    /\ status[q] \in Scanned /\ expiry[q] # "unset"
    /\ status[r] \in Scanned /\ expiry[r] # "unset"
    => q = r
=============================================================================
