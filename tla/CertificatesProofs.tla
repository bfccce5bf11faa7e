------------------------- MODULE CertificatesProofs -------------------------
(***************************************************************************)
(* TLAPS proofs about certificate rows, for any number of sites, operators *)
(* and rows, and for every interleaving of their issuances.                *)
(***************************************************************************)
EXTENDS Certificates, TLAPS

\* A row that does not exist has no expiry; the first rows are the oldest.
RowsStartUnset == \A r \in Rows : status[r] = "none" => expiry[r] = "unset"

\* An issuance in progress has its row.
IssuanceHasRow == \A i \in Issuers : pc[i] \notin {"idle", "holding", "marking"} => cert[i] \in Rows

\* The rows of a pass are not held back, and the one in hand is no longer listed.
WorkIsFree == due \notin work /\ \A r \in work : ~held[r]

\* What is installed, or on its way there, exists and is no rehearsal.
Installable(r) == status[r] # "none" /\ ~Rehearsal(r)
Installing     == {"issued", "halfwritten", "written", "reloaded", "recorded"}
RehearsalInv ==
  /\ \A s \in Sites : live[s] # NoRow => Installable(live[s])
  /\ \A s \in Sites : chain[s] # NoRow => Installable(chain[s])
  /\ \A r \in Rows : status[r] = "active" => ~Rehearsal(r)
  /\ \A i \in Issuers : pc[i] = "ordering" => status[cert[i]] # "none"
  /\ \A i \in Issuers : pc[i] \in Installing => Installable(cert[i])

-----------------------------------------------------------------------------
\* Every row has a known status, every file on disk belongs to a row.
THEOREM TypeCorrect == Spec => []TypeOK
<1> USE DEF Stages, CertStatus, Rows, NoRow, Issuers
<1>1. Init => TypeOK
  BY CertificatesAssumption DEF Init, TypeOK
<1>2. TypeOK /\ [Next]_vars => TypeOK'
  <2> SUFFICES ASSUME TypeOK, [Next]_vars PROVE TypeOK'
    OBVIOUS
  <2>1. ASSUME NEW i \in Issuers, NEW r \in Rows, NEW s \in Sites, NEW w \in BOOLEAN, NEW st \in BOOLEAN, Request(i, r, s, w, st)
       PROVE  TypeOK'
    BY <2>1 DEF TypeOK, Request, CreateCertificate, diskVars
  <2>2. ASSUME NEW i \in Issuers, OrderFails(i)
       PROVE  TypeOK'
    BY <2>2 DEF TypeOK, OrderFails, CertificateFailed, AfterError, diskVars
  <2>3. ASSUME NEW i \in Issuers, OrderSucceeds(i)
       PROVE  TypeOK'
    BY <2>3 DEF TypeOK, OrderSucceeds, rowVars, diskVars
  <2>4. ASSUME NEW i \in Issuers, Aborts(i)
       PROVE  TypeOK'
    BY <2>4 DEF TypeOK, Aborts, AfterError, rowVars, diskVars
  <2>5. ASSUME NEW i \in Issuers, WriteChain(i)
       PROVE  TypeOK'
    BY <2>5 DEF TypeOK, WriteChain, rowVars
  <2>6. ASSUME NEW i \in Issuers, WriteKey(i)
       PROVE  TypeOK'
    BY <2>6 DEF TypeOK, WriteKey, rowVars
  <2>7. ASSUME NEW i \in Issuers, Reload(i)
       PROVE  TypeOK'
    BY <2>7 DEF TypeOK, Reload, ReloadServer, rowVars
  <2>8. ASSUME NEW i \in Issuers, Record(i)
       PROVE  TypeOK'
    BY <2>8 DEF TypeOK, Record, CertificateIssued, diskVars
  <2>9. ASSUME NEW r \in Rows, RenewNext(r)
       PROVE  TypeOK'
    BY <2>9 DEF TypeOK, RenewNext, CreateCertificate, diskVars
  <2>10. ASSUME NEW r \in Rows, TimePasses(r)
       PROVE  TypeOK'
    BY <2>10 DEF TypeOK, TimePasses, diskVars, memVars
  <2>11. ASSUME NEW r \in Rows, HoldEnds(r)
       PROVE  TypeOK'
    BY <2>11 DEF TypeOK, HoldEnds, diskVars, memVars
  <2>12. CASE ReadDue
    BY <2>12 DEF TypeOK, ReadDue, Renewable, rowVars, diskVars
  <2>13. CASE RenewRefused
    BY <2>13 DEF TypeOK, RenewRefused, rowVars, diskVars
  <2>14. CASE HoldBack
    BY <2>14 DEF TypeOK, HoldBack, diskVars
  <2>15. CASE MarkFailed
    BY <2>15 DEF TypeOK, MarkFailed, CertificateFailed, rowVars, diskVars
  <2>16. CASE ExpireStale
    BY <2>16 DEF TypeOK, ExpireStale, diskVars, memVars
  <2>17. CASE Crash
    BY <2>17 DEF TypeOK, Crash, rowVars, diskVars
  <2>18. CASE ReloadElsewhere
    BY <2>18 DEF TypeOK, ReloadElsewhere, ReloadServer, rowVars, memVars
  <2>19. CASE UNCHANGED vars
    BY <2>19 DEF TypeOK, vars, rowVars, diskVars, memVars
  <2> QED
    BY <2>1, <2>2, <2>3, <2>4, <2>5, <2>6, <2>7, <2>8, <2>9, <2>10, <2>11, <2>12, <2>13, <2>14, <2>15, <2>16, <2>17, <2>18, <2>19
       DEF Next, IssuerStep
<1> QED
  BY <1>1, <1>2, PTL DEF Spec

-----------------------------------------------------------------------------
\* The bookkeeping the other invariants rest on.
LEMMA Bookkeeping == Spec => [](RowsStartUnset /\ IssuanceHasRow)
<1>1. Init => RowsStartUnset /\ IssuanceHasRow
  BY DEF Init, RowsStartUnset, IssuanceHasRow
<1>2. TypeOK /\ RowsStartUnset /\ IssuanceHasRow /\ [Next]_vars => IssuanceHasRow'
  <2> SUFFICES ASSUME TypeOK, RowsStartUnset, IssuanceHasRow, [Next]_vars PROVE IssuanceHasRow'
    OBVIOUS
  <2> USE DEF Issuers
  <2>1. ASSUME NEW i \in Issuers, NEW r \in Rows, NEW s \in Sites, NEW w \in BOOLEAN, NEW st \in BOOLEAN, Request(i, r, s, w, st)
       PROVE  IssuanceHasRow'
    BY <2>1 DEF IssuanceHasRow, TypeOK, Request, CreateCertificate, diskVars
  <2>2. ASSUME NEW i \in Issuers, OrderFails(i)
       PROVE  IssuanceHasRow'
    BY <2>2 DEF IssuanceHasRow, TypeOK, OrderFails, CertificateFailed, AfterError, diskVars
  <2>3. ASSUME NEW i \in Issuers, OrderSucceeds(i)
       PROVE  IssuanceHasRow'
    BY <2>3 DEF IssuanceHasRow, TypeOK, OrderSucceeds, rowVars, diskVars
  <2>4. ASSUME NEW i \in Issuers, Aborts(i)
       PROVE  IssuanceHasRow'
    BY <2>4 DEF IssuanceHasRow, TypeOK, Aborts, AfterError, rowVars, diskVars
  <2>5. ASSUME NEW i \in Issuers, WriteChain(i)
       PROVE  IssuanceHasRow'
    BY <2>5 DEF IssuanceHasRow, TypeOK, WriteChain, rowVars
  <2>6. ASSUME NEW i \in Issuers, WriteKey(i)
       PROVE  IssuanceHasRow'
    BY <2>6 DEF IssuanceHasRow, TypeOK, WriteKey, rowVars
  <2>7. ASSUME NEW i \in Issuers, Reload(i)
       PROVE  IssuanceHasRow'
    BY <2>7 DEF IssuanceHasRow, TypeOK, Reload, ReloadServer, rowVars
  <2>8. ASSUME NEW i \in Issuers, Record(i)
       PROVE  IssuanceHasRow'
    BY <2>8 DEF IssuanceHasRow, TypeOK, Record, CertificateIssued, diskVars
  <2>9. ASSUME NEW r \in Rows, RenewNext(r)
       PROVE  IssuanceHasRow'
    BY <2>9 DEF IssuanceHasRow, TypeOK, RenewNext, CreateCertificate, diskVars
  <2>10. ASSUME NEW r \in Rows, TimePasses(r)
       PROVE  IssuanceHasRow'
    BY <2>10 DEF IssuanceHasRow, TypeOK, TimePasses, diskVars, memVars
  <2>11. ASSUME NEW r \in Rows, HoldEnds(r)
       PROVE  IssuanceHasRow'
    BY <2>11 DEF IssuanceHasRow, TypeOK, HoldEnds, diskVars, memVars
  <2>12. CASE ReadDue
    BY <2>12 DEF IssuanceHasRow, TypeOK, ReadDue, Renewable, rowVars, diskVars
  <2>13. CASE RenewRefused
    BY <2>13 DEF IssuanceHasRow, TypeOK, RenewRefused, rowVars, diskVars
  <2>14. CASE HoldBack
    BY <2>14 DEF IssuanceHasRow, TypeOK, HoldBack, diskVars
  <2>15. CASE MarkFailed
    BY <2>15 DEF IssuanceHasRow, TypeOK, MarkFailed, CertificateFailed, rowVars, diskVars
  <2>16. CASE ExpireStale
    BY <2>16 DEF IssuanceHasRow, TypeOK, ExpireStale, diskVars, memVars
  <2>17. CASE Crash
    BY <2>17 DEF IssuanceHasRow, TypeOK, Crash, rowVars, diskVars
  <2>18. CASE ReloadElsewhere
    BY <2>18 DEF IssuanceHasRow, TypeOK, ReloadElsewhere, ReloadServer, rowVars, memVars
  <2>19. CASE UNCHANGED vars
    BY <2>19 DEF IssuanceHasRow, TypeOK, vars, rowVars, diskVars, memVars
  <2> QED
    BY <2>1, <2>2, <2>3, <2>4, <2>5, <2>6, <2>7, <2>8, <2>9, <2>10, <2>11, <2>12, <2>13, <2>14, <2>15, <2>16, <2>17, <2>18, <2>19
       DEF Next, IssuerStep
<1>3. TypeOK /\ RowsStartUnset /\ IssuanceHasRow /\ [Next]_vars => RowsStartUnset'
  <2> SUFFICES ASSUME TypeOK, RowsStartUnset, IssuanceHasRow, [Next]_vars PROVE RowsStartUnset'
    OBVIOUS
  <2>1. ASSUME NEW i \in Issuers, NEW r \in Rows, NEW s \in Sites, NEW w \in BOOLEAN, NEW st \in BOOLEAN, Request(i, r, s, w, st)
       PROVE  RowsStartUnset'
    BY <2>1 DEF RowsStartUnset, IssuanceHasRow, TypeOK, Request, CreateCertificate, diskVars
  <2>2. ASSUME NEW i \in Issuers, OrderFails(i)
       PROVE  RowsStartUnset'
    BY <2>2 DEF RowsStartUnset, IssuanceHasRow, TypeOK, OrderFails, CertificateFailed, AfterError, diskVars
  <2>3. ASSUME NEW i \in Issuers, OrderSucceeds(i)
       PROVE  RowsStartUnset'
    BY <2>3 DEF RowsStartUnset, IssuanceHasRow, TypeOK, OrderSucceeds, rowVars, diskVars
  <2>4. ASSUME NEW i \in Issuers, Aborts(i)
       PROVE  RowsStartUnset'
    BY <2>4 DEF RowsStartUnset, IssuanceHasRow, TypeOK, Aborts, AfterError, rowVars, diskVars
  <2>5. ASSUME NEW i \in Issuers, WriteChain(i)
       PROVE  RowsStartUnset'
    BY <2>5 DEF RowsStartUnset, IssuanceHasRow, TypeOK, WriteChain, rowVars
  <2>6. ASSUME NEW i \in Issuers, WriteKey(i)
       PROVE  RowsStartUnset'
    BY <2>6 DEF RowsStartUnset, IssuanceHasRow, TypeOK, WriteKey, rowVars
  <2>7. ASSUME NEW i \in Issuers, Reload(i)
       PROVE  RowsStartUnset'
    BY <2>7 DEF RowsStartUnset, IssuanceHasRow, TypeOK, Reload, ReloadServer, rowVars
  <2>8. ASSUME NEW i \in Issuers, Record(i)
       PROVE  RowsStartUnset'
    BY <2>8 DEF RowsStartUnset, IssuanceHasRow, TypeOK, Record, CertificateIssued, diskVars
  <2>9. ASSUME NEW r \in Rows, RenewNext(r)
       PROVE  RowsStartUnset'
    BY <2>9 DEF RowsStartUnset, IssuanceHasRow, TypeOK, RenewNext, CreateCertificate, diskVars
  <2>10. ASSUME NEW r \in Rows, TimePasses(r)
       PROVE  RowsStartUnset'
    BY <2>10 DEF RowsStartUnset, IssuanceHasRow, TypeOK, TimePasses, diskVars, memVars
  <2>11. ASSUME NEW r \in Rows, HoldEnds(r)
       PROVE  RowsStartUnset'
    BY <2>11 DEF RowsStartUnset, IssuanceHasRow, TypeOK, HoldEnds, diskVars, memVars
  <2>12. CASE ReadDue
    BY <2>12 DEF RowsStartUnset, IssuanceHasRow, TypeOK, ReadDue, Renewable, rowVars, diskVars
  <2>13. CASE RenewRefused
    BY <2>13 DEF RowsStartUnset, IssuanceHasRow, TypeOK, RenewRefused, rowVars, diskVars
  <2>14. CASE HoldBack
    BY <2>14 DEF RowsStartUnset, IssuanceHasRow, TypeOK, HoldBack, diskVars
  <2>15. CASE MarkFailed
    BY <2>15 DEF RowsStartUnset, IssuanceHasRow, TypeOK, MarkFailed, CertificateFailed, rowVars, diskVars
  <2>16. CASE ExpireStale
    BY <2>16 DEF RowsStartUnset, IssuanceHasRow, TypeOK, ExpireStale, diskVars, memVars
  <2>17. CASE Crash
    BY <2>17 DEF RowsStartUnset, IssuanceHasRow, TypeOK, Crash, rowVars, diskVars
  <2>18. CASE ReloadElsewhere
    BY <2>18 DEF RowsStartUnset, IssuanceHasRow, TypeOK, ReloadElsewhere, ReloadServer, rowVars, memVars
  <2>19. CASE UNCHANGED vars
    BY <2>19 DEF RowsStartUnset, IssuanceHasRow, TypeOK, vars, rowVars, diskVars, memVars
  <2> QED
    BY <2>1, <2>2, <2>3, <2>4, <2>5, <2>6, <2>7, <2>8, <2>9, <2>10, <2>11, <2>12, <2>13, <2>14, <2>15, <2>16, <2>17, <2>18, <2>19
       DEF Next, IssuerStep
<1> QED
  BY <1>1, <1>2, <1>3, TypeCorrect, PTL DEF Spec

\* However issuances interleave and wherever they stop, a site has at most one
\* active certificate.
THEOREM OneActiveRow == Spec => []OneActive
<1>1. Init => OneActive
  BY DEF Init, OneActive
<1>2. TypeOK /\ IssuanceHasRow /\ OneActive /\ [Next]_vars => OneActive'
  <2> SUFFICES ASSUME TypeOK, IssuanceHasRow, OneActive, [Next]_vars PROVE OneActive'
    OBVIOUS
  <2>1. ASSUME NEW i \in Issuers, NEW r \in Rows, NEW s \in Sites, NEW w \in BOOLEAN, NEW st \in BOOLEAN, Request(i, r, s, w, st)
       PROVE  OneActive'
    BY <2>1 DEF OneActive, TypeOK, Request, CreateCertificate, diskVars
  <2>2. ASSUME NEW i \in Issuers, OrderFails(i)
       PROVE  OneActive'
    BY <2>2 DEF OneActive, TypeOK, OrderFails, CertificateFailed, AfterError, diskVars
  <2>3. ASSUME NEW i \in Issuers, OrderSucceeds(i)
       PROVE  OneActive'
    BY <2>3 DEF OneActive, TypeOK, OrderSucceeds, rowVars, diskVars
  <2>4. ASSUME NEW i \in Issuers, Aborts(i)
       PROVE  OneActive'
    BY <2>4 DEF OneActive, TypeOK, Aborts, AfterError, rowVars, diskVars
  <2>5. ASSUME NEW i \in Issuers, WriteChain(i)
       PROVE  OneActive'
    BY <2>5 DEF OneActive, TypeOK, WriteChain, rowVars
  <2>6. ASSUME NEW i \in Issuers, WriteKey(i)
       PROVE  OneActive'
    BY <2>6 DEF OneActive, TypeOK, WriteKey, rowVars
  <2>7. ASSUME NEW i \in Issuers, Reload(i)
       PROVE  OneActive'
    BY <2>7 DEF OneActive, TypeOK, Reload, ReloadServer, rowVars
  <2>8. ASSUME NEW i \in Issuers, Record(i)
       PROVE  OneActive'
    <3>1. cert[i] \in Rows
      BY <2>8 DEF IssuanceHasRow, Record
    <3> QED
      BY <2>8, <3>1 DEF OneActive, TypeOK, Record, CertificateIssued, Replaced
  <2>9. ASSUME NEW r \in Rows, RenewNext(r)
       PROVE  OneActive'
    BY <2>9 DEF OneActive, TypeOK, RenewNext, CreateCertificate, diskVars
  <2>10. ASSUME NEW r \in Rows, TimePasses(r)
       PROVE  OneActive'
    BY <2>10 DEF OneActive, TypeOK, TimePasses, diskVars, memVars
  <2>11. ASSUME NEW r \in Rows, HoldEnds(r)
       PROVE  OneActive'
    BY <2>11 DEF OneActive, TypeOK, HoldEnds, diskVars, memVars
  <2>12. CASE ReadDue
    BY <2>12 DEF OneActive, TypeOK, ReadDue, Renewable, rowVars, diskVars
  <2>13. CASE RenewRefused
    BY <2>13 DEF OneActive, TypeOK, RenewRefused, rowVars, diskVars
  <2>14. CASE HoldBack
    BY <2>14 DEF OneActive, TypeOK, HoldBack, diskVars
  <2>15. CASE MarkFailed
    BY <2>15 DEF OneActive, TypeOK, MarkFailed, CertificateFailed, rowVars, diskVars
  <2>16. CASE ExpireStale
    BY <2>16 DEF OneActive, TypeOK, ExpireStale, diskVars, memVars
  <2>17. CASE Crash
    BY <2>17 DEF OneActive, TypeOK, Crash, rowVars, diskVars
  <2>18. CASE ReloadElsewhere
    BY <2>18 DEF OneActive, TypeOK, ReloadElsewhere, ReloadServer, rowVars, memVars
  <2>19. CASE UNCHANGED vars
    BY <2>19 DEF OneActive, TypeOK, vars, rowVars, diskVars, memVars
  <2> QED
    BY <2>1, <2>2, <2>3, <2>4, <2>5, <2>6, <2>7, <2>8, <2>9, <2>10, <2>11, <2>12, <2>13, <2>14, <2>15, <2>16, <2>17, <2>18, <2>19
       DEF Next, IssuerStep
<1> QED
  BY <1>1, <1>2, TypeCorrect, Bookkeeping, PTL DEF Spec

\* A site that has had a certificate never drops out of certificates_to_renew.
THEOREM SiteNeverForgotten == Spec => []NeverForgotten
<1>1. Init => NeverForgotten
  BY DEF Init, NeverForgotten, Scanned
<1>2. TypeOK /\ RowsStartUnset /\ IssuanceHasRow /\ NeverForgotten /\ [Next]_vars => NeverForgotten'
  <2> SUFFICES ASSUME TypeOK, RowsStartUnset, IssuanceHasRow, NeverForgotten, [Next]_vars
               PROVE  NeverForgotten'
    OBVIOUS
  <2>1. ASSUME NEW i \in Issuers, NEW r \in Rows, NEW s \in Sites, NEW w \in BOOLEAN, NEW st \in BOOLEAN, Request(i, r, s, w, st)
       PROVE  NeverForgotten'
    <3> SUFFICES ASSUME NEW q \in Rows, status'[q] # "none", expiry'[q] # "unset"
                 PROVE  \E x \in Rows : owner'[x] = owner'[q] /\ status'[x] \in Scanned /\ expiry'[x] # "unset"
      BY DEF NeverForgotten
    <3>1. status[q] # "none" /\ expiry[q] # "unset"
      BY <2>1 DEF Request, CreateCertificate, TypeOK, RowsStartUnset
    <3>2. PICK x \in Rows : owner[x] = owner[q] /\ status[x] \in Scanned /\ expiry[x] # "unset"
      BY <3>1 DEF NeverForgotten
    <3>3. owner'[x] = owner'[q] /\ status'[x] \in Scanned /\ expiry'[x] # "unset"
      BY <2>1, <3>1, <3>2 DEF Request, CreateCertificate, TypeOK, Scanned, RowsStartUnset
    <3> QED
      BY <3>3
  <2>2. ASSUME NEW i \in Issuers, OrderFails(i)
       PROVE  NeverForgotten'
    <3> SUFFICES ASSUME NEW q \in Rows, status'[q] # "none", expiry'[q] # "unset"
                 PROVE  \E x \in Rows : owner'[x] = owner'[q] /\ status'[x] \in Scanned /\ expiry'[x] # "unset"
      BY DEF NeverForgotten
    <3>1. status[q] # "none" /\ expiry[q] # "unset"
      BY <2>2 DEF OrderFails, CertificateFailed, TypeOK, RowsStartUnset
    <3>2. PICK x \in Rows : owner[x] = owner[q] /\ status[x] \in Scanned /\ expiry[x] # "unset"
      BY <3>1 DEF NeverForgotten
    <3>3. owner'[x] = owner'[q] /\ status'[x] \in Scanned /\ expiry'[x] # "unset"
      BY <2>2, <3>1, <3>2 DEF OrderFails, CertificateFailed, TypeOK, Scanned, RowsStartUnset
    <3> QED
      BY <3>3
  <2>3. ASSUME NEW i \in Issuers, OrderSucceeds(i)
       PROVE  NeverForgotten'
    BY <2>3 DEF NeverForgotten, Scanned, OrderSucceeds, rowVars, diskVars
  <2>4. ASSUME NEW i \in Issuers, Aborts(i)
       PROVE  NeverForgotten'
    BY <2>4 DEF NeverForgotten, Scanned, Aborts, AfterError, rowVars, diskVars
  <2>5. ASSUME NEW i \in Issuers, WriteChain(i)
       PROVE  NeverForgotten'
    BY <2>5 DEF NeverForgotten, Scanned, WriteChain, rowVars
  <2>6. ASSUME NEW i \in Issuers, WriteKey(i)
       PROVE  NeverForgotten'
    BY <2>6 DEF NeverForgotten, Scanned, WriteKey, rowVars
  <2>7. ASSUME NEW i \in Issuers, Reload(i)
       PROVE  NeverForgotten'
    BY <2>7 DEF NeverForgotten, Scanned, Reload, ReloadServer, rowVars
  <2>8. ASSUME NEW i \in Issuers, Record(i)
       PROVE  NeverForgotten'
    <3> SUFFICES ASSUME NEW q \in Rows, status'[q] # "none", expiry'[q] # "unset"
                 PROVE  \E x \in Rows : owner'[x] = owner'[q] /\ status'[x] \in Scanned /\ expiry'[x] # "unset"
      BY DEF NeverForgotten
    <3>1. cert[i] \in Rows
      BY <2>8 DEF IssuanceHasRow, Record
    <3>2. status'[cert[i]] = "active" /\ expiry'[cert[i]] = "fresh" /\ owner' = owner
      BY <2>8, <3>1 DEF Record, CertificateIssued, TypeOK
    <3>3. CASE owner[q] = owner[cert[i]]
      BY <3>1, <3>2, <3>3 DEF Scanned
    <3>4. CASE owner[q] # owner[cert[i]]
      <4>1. status[q] # "none" /\ expiry[q] # "unset"
        BY <2>8, <3>1, <3>4 DEF Record, CertificateIssued, TypeOK
      <4>2. PICK x \in Rows : owner[x] = owner[q] /\ status[x] \in Scanned /\ expiry[x] # "unset"
        BY <4>1 DEF NeverForgotten
      <4>3. status'[x] = status[x] /\ expiry'[x] = expiry[x]
        BY <2>8, <3>1, <3>4, <4>2 DEF Record, CertificateIssued, TypeOK
      <4> QED
        BY <3>2, <4>2, <4>3
    <3> QED
      BY <3>3, <3>4
  <2>9. ASSUME NEW r \in Rows, RenewNext(r)
       PROVE  NeverForgotten'
    <3> SUFFICES ASSUME NEW q \in Rows, status'[q] # "none", expiry'[q] # "unset"
                 PROVE  \E x \in Rows : owner'[x] = owner'[q] /\ status'[x] \in Scanned /\ expiry'[x] # "unset"
      BY DEF NeverForgotten
    <3>1. status[q] # "none" /\ expiry[q] # "unset"
      BY <2>9 DEF RenewNext, CreateCertificate, TypeOK, RowsStartUnset
    <3>2. PICK x \in Rows : owner[x] = owner[q] /\ status[x] \in Scanned /\ expiry[x] # "unset"
      BY <3>1 DEF NeverForgotten
    <3>3. owner'[x] = owner'[q] /\ status'[x] \in Scanned /\ expiry'[x] # "unset"
      BY <2>9, <3>1, <3>2 DEF RenewNext, CreateCertificate, TypeOK, Scanned, RowsStartUnset
    <3> QED
      BY <3>3
  <2>10. ASSUME NEW r \in Rows, TimePasses(r)
       PROVE  NeverForgotten'
    <3> SUFFICES ASSUME NEW q \in Rows, status'[q] # "none", expiry'[q] # "unset"
                 PROVE  \E x \in Rows : owner'[x] = owner'[q] /\ status'[x] \in Scanned /\ expiry'[x] # "unset"
      BY DEF NeverForgotten
    <3>1. status[q] # "none" /\ expiry[q] # "unset"
      BY <2>10 DEF TimePasses, TypeOK, RowsStartUnset
    <3>2. PICK x \in Rows : owner[x] = owner[q] /\ status[x] \in Scanned /\ expiry[x] # "unset"
      BY <3>1 DEF NeverForgotten
    <3>3. owner'[x] = owner'[q] /\ status'[x] \in Scanned /\ expiry'[x] # "unset"
      BY <2>10, <3>1, <3>2 DEF TimePasses, TypeOK, Scanned, RowsStartUnset
    <3> QED
      BY <3>3
  <2>11. ASSUME NEW r \in Rows, HoldEnds(r)
       PROVE  NeverForgotten'
    BY <2>11 DEF NeverForgotten, Scanned, HoldEnds, diskVars, memVars
  <2>12. CASE ReadDue
    BY <2>12 DEF NeverForgotten, Scanned, ReadDue, Renewable, rowVars, diskVars
  <2>13. CASE RenewRefused
    BY <2>13 DEF NeverForgotten, Scanned, RenewRefused, rowVars, diskVars
  <2>14. CASE HoldBack
    BY <2>14 DEF NeverForgotten, Scanned, HoldBack, diskVars
  <2>15. CASE MarkFailed
    <3> SUFFICES ASSUME NEW q \in Rows, status'[q] # "none", expiry'[q] # "unset"
                 PROVE  \E x \in Rows : owner'[x] = owner'[q] /\ status'[x] \in Scanned /\ expiry'[x] # "unset"
      BY DEF NeverForgotten
    <3>1. status[q] # "none" /\ expiry[q] # "unset"
      BY <2>15 DEF MarkFailed, CertificateFailed, rowVars, TypeOK, RowsStartUnset
    <3>2. PICK x \in Rows : owner[x] = owner[q] /\ status[x] \in Scanned /\ expiry[x] # "unset"
      BY <3>1 DEF NeverForgotten
    <3>3. owner'[x] = owner'[q] /\ status'[x] \in Scanned /\ expiry'[x] # "unset"
      BY <2>15, <3>1, <3>2 DEF MarkFailed, CertificateFailed, rowVars, TypeOK, Scanned, RowsStartUnset
    <3> QED
      BY <3>3
  <2>16. CASE ExpireStale
    <3> SUFFICES ASSUME NEW q \in Rows, status'[q] # "none", expiry'[q] # "unset"
                 PROVE  \E x \in Rows : owner'[x] = owner'[q] /\ status'[x] \in Scanned /\ expiry'[x] # "unset"
      BY DEF NeverForgotten
    <3>1. status[q] # "none" /\ expiry[q] # "unset"
      BY <2>16 DEF ExpireStale, TypeOK, RowsStartUnset
    <3>2. PICK x \in Rows : owner[x] = owner[q] /\ status[x] \in Scanned /\ expiry[x] # "unset"
      BY <3>1 DEF NeverForgotten
    <3>3. owner'[x] = owner'[q] /\ status'[x] \in Scanned /\ expiry'[x] # "unset"
      BY <2>16, <3>1, <3>2 DEF ExpireStale, TypeOK, Scanned, RowsStartUnset
    <3> QED
      BY <3>3
  <2>17. CASE Crash
    BY <2>17 DEF NeverForgotten, Scanned, Crash, rowVars, diskVars
  <2>18. CASE ReloadElsewhere
    BY <2>18 DEF NeverForgotten, Scanned, ReloadElsewhere, ReloadServer, rowVars, memVars
  <2>19. CASE UNCHANGED vars
    BY <2>19 DEF NeverForgotten, Scanned, vars, rowVars, diskVars, memVars
  <2> QED
    BY <2>1, <2>2, <2>3, <2>4, <2>5, <2>6, <2>7, <2>8, <2>9, <2>10, <2>11, <2>12, <2>13, <2>14, <2>15, <2>16, <2>17, <2>18, <2>19
       DEF Next, IssuerStep
<1> QED
  BY <1>1, <1>2, TypeCorrect, Bookkeeping, PTL DEF Spec

\* The renewal pass never starts on a row that waits out its backoff.
THEOREM BackoffRespected == Spec => HeldRowsWait
<1>1. Init => WorkIsFree
  BY DEF Init, WorkIsFree
<1>2. TypeOK /\ IssuanceHasRow /\ WorkIsFree /\ [Next]_vars => WorkIsFree'
  <2> SUFFICES ASSUME TypeOK, IssuanceHasRow, WorkIsFree, [Next]_vars PROVE WorkIsFree'
    OBVIOUS
  <2> USE DEF Rows, NoRow
  <2>1. ASSUME NEW i \in Issuers, NEW r \in Rows, NEW s \in Sites, NEW w \in BOOLEAN, NEW st \in BOOLEAN, Request(i, r, s, w, st)
       PROVE  WorkIsFree'
    BY <2>1 DEF WorkIsFree, TypeOK, IssuanceHasRow, Request, CreateCertificate, diskVars
  <2>2. ASSUME NEW i \in Issuers, OrderFails(i)
       PROVE  WorkIsFree'
    BY <2>2 DEF WorkIsFree, TypeOK, IssuanceHasRow, OrderFails, CertificateFailed, AfterError, diskVars
  <2>3. ASSUME NEW i \in Issuers, OrderSucceeds(i)
       PROVE  WorkIsFree'
    BY <2>3 DEF WorkIsFree, TypeOK, IssuanceHasRow, OrderSucceeds, rowVars, diskVars
  <2>4. ASSUME NEW i \in Issuers, Aborts(i)
       PROVE  WorkIsFree'
    BY <2>4 DEF WorkIsFree, TypeOK, IssuanceHasRow, Aborts, AfterError, rowVars, diskVars
  <2>5. ASSUME NEW i \in Issuers, WriteChain(i)
       PROVE  WorkIsFree'
    BY <2>5 DEF WorkIsFree, TypeOK, IssuanceHasRow, WriteChain, rowVars
  <2>6. ASSUME NEW i \in Issuers, WriteKey(i)
       PROVE  WorkIsFree'
    BY <2>6 DEF WorkIsFree, TypeOK, IssuanceHasRow, WriteKey, rowVars
  <2>7. ASSUME NEW i \in Issuers, Reload(i)
       PROVE  WorkIsFree'
    BY <2>7 DEF WorkIsFree, TypeOK, IssuanceHasRow, Reload, ReloadServer, rowVars
  <2>8. ASSUME NEW i \in Issuers, Record(i)
       PROVE  WorkIsFree'
    BY <2>8 DEF WorkIsFree, TypeOK, IssuanceHasRow, Record, CertificateIssued, diskVars
  <2>9. ASSUME NEW r \in Rows, RenewNext(r)
       PROVE  WorkIsFree'
    BY <2>9 DEF WorkIsFree, TypeOK, IssuanceHasRow, RenewNext, CreateCertificate, diskVars
  <2>10. ASSUME NEW r \in Rows, TimePasses(r)
       PROVE  WorkIsFree'
    BY <2>10 DEF WorkIsFree, TypeOK, IssuanceHasRow, TimePasses, diskVars, memVars
  <2>11. ASSUME NEW r \in Rows, HoldEnds(r)
       PROVE  WorkIsFree'
    BY <2>11 DEF WorkIsFree, TypeOK, IssuanceHasRow, HoldEnds, diskVars, memVars
  <2>12. CASE ReadDue
    BY <2>12 DEF WorkIsFree, TypeOK, IssuanceHasRow, ReadDue, Renewable, rowVars, diskVars
  <2>13. CASE RenewRefused
    BY <2>13 DEF WorkIsFree, TypeOK, IssuanceHasRow, RenewRefused, rowVars, diskVars
  <2>14. CASE HoldBack
    BY <2>14 DEF WorkIsFree, TypeOK, IssuanceHasRow, HoldBack, diskVars
  <2>15. CASE MarkFailed
    BY <2>15 DEF WorkIsFree, TypeOK, IssuanceHasRow, MarkFailed, CertificateFailed, rowVars, diskVars
  <2>16. CASE ExpireStale
    BY <2>16 DEF WorkIsFree, TypeOK, IssuanceHasRow, ExpireStale, diskVars, memVars
  <2>17. CASE Crash
    BY <2>17 DEF WorkIsFree, TypeOK, IssuanceHasRow, Crash, rowVars, diskVars
  <2>18. CASE ReloadElsewhere
    BY <2>18 DEF WorkIsFree, TypeOK, IssuanceHasRow, ReloadElsewhere, ReloadServer, rowVars, memVars
  <2>19. CASE UNCHANGED vars
    BY <2>19 DEF WorkIsFree, TypeOK, IssuanceHasRow, vars, rowVars, diskVars, memVars
  <2> QED
    BY <2>1, <2>2, <2>3, <2>4, <2>5, <2>6, <2>7, <2>8, <2>9, <2>10, <2>11, <2>12, <2>13, <2>14, <2>15, <2>16, <2>17, <2>18, <2>19
       DEF Next, IssuerStep
<1>3. TypeOK /\ WorkIsFree /\ [Next]_vars
        => [pc[Scheduler] = "idle" /\ pc'[Scheduler] # "idle" => ~held[due']]_vars
  <2> SUFFICES ASSUME TypeOK, WorkIsFree, [Next]_vars, pc[Scheduler] = "idle", pc'[Scheduler] # "idle"
               PROVE  ~held[due']
    OBVIOUS
  <2> USE CertificatesAssumption DEF Issuers
  <2>1. ASSUME NEW i \in Issuers, NEW r \in Rows, NEW s \in Sites, NEW w \in BOOLEAN, NEW st \in BOOLEAN, Request(i, r, s, w, st)
       PROVE  ~held[due']
    BY <2>1 DEF WorkIsFree, TypeOK, Request, CreateCertificate, diskVars
  <2>2. ASSUME NEW i \in Issuers, OrderFails(i)
       PROVE  ~held[due']
    BY <2>2 DEF WorkIsFree, TypeOK, OrderFails, CertificateFailed, AfterError, diskVars
  <2>3. ASSUME NEW i \in Issuers, OrderSucceeds(i)
       PROVE  ~held[due']
    BY <2>3 DEF WorkIsFree, TypeOK, OrderSucceeds, rowVars, diskVars
  <2>4. ASSUME NEW i \in Issuers, Aborts(i)
       PROVE  ~held[due']
    BY <2>4 DEF WorkIsFree, TypeOK, Aborts, AfterError, rowVars, diskVars
  <2>5. ASSUME NEW i \in Issuers, WriteChain(i)
       PROVE  ~held[due']
    BY <2>5 DEF WorkIsFree, TypeOK, WriteChain, rowVars
  <2>6. ASSUME NEW i \in Issuers, WriteKey(i)
       PROVE  ~held[due']
    BY <2>6 DEF WorkIsFree, TypeOK, WriteKey, rowVars
  <2>7. ASSUME NEW i \in Issuers, Reload(i)
       PROVE  ~held[due']
    BY <2>7 DEF WorkIsFree, TypeOK, Reload, ReloadServer, rowVars
  <2>8. ASSUME NEW i \in Issuers, Record(i)
       PROVE  ~held[due']
    BY <2>8 DEF WorkIsFree, TypeOK, Record, CertificateIssued, diskVars
  <2>9. ASSUME NEW r \in Rows, RenewNext(r)
       PROVE  ~held[due']
    BY <2>9 DEF WorkIsFree, TypeOK, RenewNext, CreateCertificate, diskVars
  <2>10. ASSUME NEW r \in Rows, TimePasses(r)
       PROVE  ~held[due']
    BY <2>10 DEF WorkIsFree, TypeOK, TimePasses, diskVars, memVars
  <2>11. ASSUME NEW r \in Rows, HoldEnds(r)
       PROVE  ~held[due']
    BY <2>11 DEF WorkIsFree, TypeOK, HoldEnds, diskVars, memVars
  <2>12. CASE ReadDue
    BY <2>12 DEF WorkIsFree, TypeOK, ReadDue, Renewable, rowVars, diskVars
  <2>13. CASE RenewRefused
    BY <2>13 DEF WorkIsFree, TypeOK, RenewRefused, rowVars, diskVars
  <2>14. CASE HoldBack
    BY <2>14 DEF WorkIsFree, TypeOK, HoldBack, diskVars
  <2>15. CASE MarkFailed
    BY <2>15 DEF WorkIsFree, TypeOK, MarkFailed, CertificateFailed, rowVars, diskVars
  <2>16. CASE ExpireStale
    BY <2>16 DEF WorkIsFree, TypeOK, ExpireStale, diskVars, memVars
  <2>17. CASE Crash
    BY <2>17 DEF WorkIsFree, TypeOK, Crash, rowVars, diskVars
  <2>18. CASE ReloadElsewhere
    BY <2>18 DEF WorkIsFree, TypeOK, ReloadElsewhere, ReloadServer, rowVars, memVars
  <2>19. CASE UNCHANGED vars
    BY <2>19 DEF WorkIsFree, TypeOK, vars, rowVars, diskVars, memVars
  <2> QED
    BY <2>1, <2>2, <2>3, <2>4, <2>5, <2>6, <2>7, <2>8, <2>9, <2>10, <2>11, <2>12, <2>13, <2>14, <2>15, <2>16, <2>17, <2>18, <2>19
       DEF Next, IssuerStep
<1> QED
  BY <1>1, <1>2, <1>3, TypeCorrect, Bookkeeping, PTL DEF Spec, HeldRowsWait

\* A staging order of cert.issue never reaches the web server, and its row never becomes
\* the site's active one, whoever else issues or reloads.
THEOREM NoRehearsal == Spec => []RehearsalNotServed
<1> USE DEF Rehearsal, Installable, Installing, NoRow
<1>1. Init => RehearsalInv
  BY CertificatesAssumption DEF Init, RehearsalInv, Rows
<1>2. TypeOK /\ IssuanceHasRow /\ RehearsalInv /\ [Next]_vars => RehearsalInv'
  <2> SUFFICES ASSUME TypeOK, IssuanceHasRow, RehearsalInv, [Next]_vars PROVE RehearsalInv'
    OBVIOUS
  <2> USE DEF IssuanceHasRow
  <2>1. ASSUME NEW i \in Issuers, NEW r \in Rows, NEW s \in Sites, NEW w \in BOOLEAN, NEW st \in BOOLEAN, Request(i, r, s, w, st)
       PROVE  RehearsalInv'
    BY <2>1 DEF RehearsalInv, TypeOK, Request, CreateCertificate, diskVars
  <2>2. ASSUME NEW i \in Issuers, OrderFails(i)
       PROVE  RehearsalInv'
    BY <2>2 DEF RehearsalInv, TypeOK, OrderFails, CertificateFailed, AfterError, diskVars
  <2>3. ASSUME NEW i \in Issuers, OrderSucceeds(i)
       PROVE  RehearsalInv'
    BY <2>3 DEF RehearsalInv, TypeOK, OrderSucceeds, Wildcard, rowVars, diskVars
  <2>4. ASSUME NEW i \in Issuers, Aborts(i)
       PROVE  RehearsalInv'
    BY <2>4 DEF RehearsalInv, TypeOK, Aborts, AfterError, rowVars, diskVars
  <2>5. ASSUME NEW i \in Issuers, WriteChain(i)
       PROVE  RehearsalInv'
    BY <2>5 DEF RehearsalInv, TypeOK, WriteChain, rowVars
  <2>6. ASSUME NEW i \in Issuers, WriteKey(i)
       PROVE  RehearsalInv'
    BY <2>6 DEF RehearsalInv, TypeOK, WriteKey, rowVars
  <2>7. ASSUME NEW i \in Issuers, Reload(i)
       PROVE  RehearsalInv'
    BY <2>7 DEF RehearsalInv, TypeOK, Reload, ReloadServer, rowVars
  <2>8. ASSUME NEW i \in Issuers, Record(i)
       PROVE  RehearsalInv'
    BY <2>8 DEF RehearsalInv, TypeOK, Record, CertificateIssued, diskVars
  <2>9. ASSUME NEW r \in Rows, RenewNext(r)
       PROVE  RehearsalInv'
    BY <2>9 DEF RehearsalInv, TypeOK, RenewNext, CreateCertificate, diskVars
  <2>10. ASSUME NEW r \in Rows, TimePasses(r)
       PROVE  RehearsalInv'
    BY <2>10 DEF RehearsalInv, TypeOK, TimePasses, diskVars, memVars
  <2>11. ASSUME NEW r \in Rows, HoldEnds(r)
       PROVE  RehearsalInv'
    BY <2>11 DEF RehearsalInv, TypeOK, HoldEnds, diskVars, memVars
  <2>12. CASE ReadDue
    BY <2>12 DEF RehearsalInv, TypeOK, ReadDue, Renewable, rowVars, diskVars
  <2>13. CASE RenewRefused
    BY <2>13 DEF RehearsalInv, TypeOK, RenewRefused, rowVars, diskVars
  <2>14. CASE HoldBack
    BY <2>14 DEF RehearsalInv, TypeOK, HoldBack, diskVars
  <2>15. CASE MarkFailed
    BY <2>15 DEF RehearsalInv, TypeOK, MarkFailed, CertificateFailed, rowVars, diskVars
  <2>16. CASE ExpireStale
    BY <2>16 DEF RehearsalInv, TypeOK, ExpireStale, diskVars, memVars
  <2>17. CASE Crash
    BY <2>17 DEF RehearsalInv, TypeOK, Crash, rowVars, diskVars
  <2>18. CASE ReloadElsewhere
    BY <2>18 DEF RehearsalInv, TypeOK, ReloadElsewhere, ReloadServer, rowVars, memVars
  <2>19. CASE UNCHANGED vars
    BY <2>19 DEF RehearsalInv, TypeOK, vars, rowVars, diskVars, memVars
  <2> QED
    BY <2>1, <2>2, <2>3, <2>4, <2>5, <2>6, <2>7, <2>8, <2>9, <2>10, <2>11, <2>12, <2>13, <2>14, <2>15, <2>16, <2>17, <2>18, <2>19
       DEF Next, IssuerStep
<1>3. RehearsalInv => RehearsalNotServed
  BY DEF RehearsalInv, RehearsalNotServed
<1> QED
  BY <1>1, <1>2, <1>3, TypeCorrect, Bookkeeping, PTL DEF Spec
=============================================================================
