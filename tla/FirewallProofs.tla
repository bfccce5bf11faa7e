--------------------------- MODULE FirewallProofs ---------------------------
(***************************************************************************)
(* Proofs about the firewall operations and Sentinel, for any number of    *)
(* addresses, ports, callers, bans, rules, calls and mishaps.              *)
(***************************************************************************)
EXTENDS Firewall, SequenceTheorems, TLAPS

\* Deleting by number keeps every other rule.
LEMMA Removal ==
  ASSUME NEW S, NEW s \in Seq(S), NEW n \in 1..Len(s)
  PROVE  /\ RemoveAt(s, n) \in Seq(S)
         /\ \A i \in 1..Len(s) : i # n =>
              \E j \in 1..Len(RemoveAt(s, n)) : RemoveAt(s, n)[j] = s[i]
<1> DEFINE A == SubSeq(s, 1, n - 1)
           B == SubSeq(s, n + 1, Len(s))
<1>1. Len(s) \in Nat /\ n \in Int /\ \A i \in 1..Len(s) : s[i] \in S
  BY ElementOfSeq, LenProperties
<1>2. A \in Seq(S) /\ Len(A) = n - 1 /\ \A i \in 1..(n - 1) : A[i] = s[i]
  <2>1. \A i \in 1..(n - 1) : s[i] \in S
    BY <1>1
  <2> QED
    BY <1>1, <2>1, SubSeqProperties, Z3
<1>3. B \in Seq(S) /\ Len(B) = Len(s) - n /\ \A i \in 1..(Len(s) - n) : B[i] = s[n + i]
  <2>1. \A i \in (n + 1)..Len(s) : s[i] \in S
    BY <1>1
  <2> QED
    BY <1>1, <2>1, SubSeqProperties, Z3
<1> HIDE DEF A, B
<1>4. /\ A \o B \in Seq(S) /\ Len(A \o B) = Len(s) - 1
      /\ \A i \in 1..(Len(s) - 1) : (A \o B)[i] = IF i <= n - 1 THEN A[i] ELSE B[i - (n - 1)]
  BY <1>1, <1>2, <1>3, ConcatProperties
<1>5. ASSUME NEW i \in 1..Len(s), i # n
      PROVE  \E j \in 1..Len(A \o B) : (A \o B)[j] = s[i]
  <2>1. CASE i < n
    <3>1. i \in 1..(Len(s) - 1) /\ i <= n - 1 /\ i \in 1..(n - 1)
      BY <1>1, <2>1
    <3>2. (A \o B)[i] = s[i]
      BY <1>2, <1>4, <3>1
    <3> QED
      BY <1>4, <3>1, <3>2
  <2>2. CASE i > n
    <3>1. i - 1 \in 1..(Len(s) - 1) /\ ~(i - 1 <= n - 1) /\ i - n \in 1..(Len(s) - n)
      BY <1>1, <2>2
    <3>2. (A \o B)[i - 1] = B[(i - 1) - (n - 1)] /\ B[i - n] = s[n + (i - n)]
      BY <1>3, <1>4, <3>1
    <3>3. (i - 1) - (n - 1) = i - n /\ n + (i - n) = i
      BY <1>1
    <3> QED
      BY <1>4, <3>1, <3>2, <3>3
  <2> QED
    BY <1>1, <1>5, <2>1, <2>2
<1>6. RemoveAt(s, n) = A \o B
  BY DEF RemoveAt, A, B
<1> QED
  BY <1>4, <1>5, <1>6

\* A rule put in front keeps the others.
LEMMA Prepending ==
  ASSUME NEW S, NEW s \in Seq(S), NEW e \in S
  PROVE  /\ <<e>> \o s \in Seq(S)
         /\ \A i \in 1..Len(s) : \E j \in 1..Len(<<e>> \o s) : (<<e>> \o s)[j] = s[i]
<1>1. <<e>> \in Seq(S) /\ Len(<<e>>) = 1 /\ Len(s) \in Nat
  BY LenProperties
<1>2. /\ <<e>> \o s \in Seq(S) /\ Len(<<e>> \o s) = 1 + Len(s)
      /\ \A j \in 1..(1 + Len(s)) : (<<e>> \o s)[j] = IF j <= 1 THEN <<e>>[j] ELSE s[j - 1]
  BY <1>1, ConcatProperties
<1>3. ASSUME NEW i \in 1..Len(s)
      PROVE  i + 1 \in 1..(1 + Len(s)) /\ (<<e>> \o s)[i + 1] = s[i]
  <2>1. i + 1 \in 1..(1 + Len(s)) /\ ~(i + 1 <= 1) /\ (i + 1) - 1 = i
    BY <1>1
  <2> QED
    BY <1>2, <2>1
<1> QED
  BY <1>2, <1>3

\* ufw allow adds at the end at most, and the port is admitted then.
LEMMA Allowing ==
  ASSUME rules \in Seq(Rules), NEW q \in Ports, Allow(q)
  PROVE  /\ rules' \in Seq(Rules) /\ Admits(q)'
         /\ \A i \in 1..Len(rules) : \E j \in 1..Len(rules') : rules'[j] = rules[i]
<1>1. PortRule(q) \in Rules /\ PortRule(q).allow = q
  BY FirewallAssumption DEF PortRule, Rules
<1>2. CASE Admits(q)
  BY <1>2 DEF Allow, Admits
<1>3. CASE ~Admits(q)
  <2>1. rules' = Append(rules, PortRule(q))
    BY <1>3 DEF Allow
  <2>2. /\ rules' \in Seq(Rules) /\ Len(rules') = Len(rules) + 1 /\ Len(rules) \in Nat
        /\ \A i \in 1..Len(rules) : rules'[i] = rules[i]
        /\ rules'[Len(rules) + 1] = PortRule(q)
    BY <1>1, <2>1, AppendProperties, LenProperties
  <2>3. Len(rules) + 1 \in 1..Len(rules')
    BY <2>2
  <2> QED
    BY <1>1, <2>2, <2>3 DEF Admits
<1> QED
  BY <1>2, <1>3

\* What a call works on fits what it is doing.
Kinds ==
  /\ \A p \in Procs :
       pc[p] \in {"recording", "banning", "listing", "deleting", "lifting"} => addr[p] \in Addrs
  /\ \A p \in Procs : pc[p] \in {"noting", "notingDoor"} => addr[p] \in Ports
  /\ pc[Tick] \in {"reaping", "listing", "deleting", "lifting"} =>
       todo[Tick] \subseteq {r \in Rows : ip[r] # None}
  /\ \A c \in Callers : todo[c] \subseteq Ports

Base == TypeOK /\ Kinds

\* Every call, pass, failed command and crash keeps what is in hand apart by kind.
THEOREM BaseInvariant == Spec => []Base
<1>1. Init => Base
  <2> SUFFICES ASSUME Init PROVE Base
    OBVIOUS
  <2>1. /\ rules \in Seq(Rules) /\ active \in BOOLEAN /\ enabled \in BOOLEAN /\ armed \in BOOLEAN
        /\ lifted \in [Rows -> BOOLEAN] /\ byScan \in [Rows -> BOOLEAN]
    BY FirewallAssumption DEF Init
  <2>2. /\ ports \in SUBSET Ports /\ ip \in [Rows -> Addrs \cup {None}]
        /\ until \in [Rows -> {"never", "ahead", "passed"}]
    BY DEF Init
  <2>3. /\ pc \in [Procs -> Stages] /\ addr \in [Procs -> Addrs \cup Ports \cup {None}]
        /\ nums \in [Procs -> SUBSET (Nat \ {0})] /\ term \in [Procs -> {"never", "ahead"}]
        /\ todo \in [Procs -> SUBSET (Rows \cup Addrs \cup Ports)]
    BY DEF Init, Stages
  <2>4. strays \in Nat /\ missed \in SUBSET Addrs /\ calls \in Nat /\ mishaps \in Nat
    BY DEF Init
  <2>5. Kinds
    BY DEF Init, Kinds, Procs
  <2> QED
    BY <2>1, <2>2, <2>3, <2>4, <2>5 DEF Base, TypeOK
<1>2. Base /\ [Next]_vars => Base'
  <2> SUFFICES ASSUME TypeOK, Kinds, [Next]_vars
               PROVE  Base'
    BY DEF Base
  <2>1. ASSUME NEW c \in Callers, NEW a \in Addrs, Ban(c, a)
        PROVE  Base'
    <3>0. missed' \in SUBSET Addrs
      BY <2>1 DEF TypeOK, Ban, Miss
    <3>1. calls' \in Nat
      BY <2>1, FirewallAssumption DEF TypeOK, Ban, Call, Goto, Procs
    <3>2. rules' \in Seq(Rules)
      <4>1. BanRule(a) \in Rules
        BY FirewallAssumption DEF BanRule, Rules
      <4> QED
        BY <2>1, <4>1, Prepending DEF Ban, TypeOK
    <3>3. addr' \in [Procs -> Addrs \cup Ports \cup {None}]
      BY <2>1, FirewallAssumption DEF TypeOK, Ban, Call, Goto, Procs
    <3>4. term' \in [Procs -> {"never", "ahead"}]
      BY <2>1, FirewallAssumption DEF TypeOK, Ban, Call, Goto, Procs
    <3>5. pc' \in [Procs -> Stages]
      BY <2>1, FirewallAssumption DEF TypeOK, Ban, Call, Goto, Stages, Procs
    <3>6. TypeOK'
      BY <2>1, <3>0, <3>1, <3>2, <3>3, <3>4, <3>5 DEF TypeOK, Ban, ufwVars, dbVars, callVars
    <3>7. Kinds'
      BY <2>1, FirewallAssumption DEF TypeOK, Kinds, Procs, Ban, Call, Goto, ufwVars,
         dbVars, callVars
    <3> QED
      BY <3>6, <3>7 DEF Base
  <2>2. ASSUME NEW p \in Procs, RecordBan(p)
        PROVE  Base'
    <3>1. ip' \in [Rows -> Addrs \cup {None}]
      BY <2>2, FirewallAssumption DEF TypeOK, RecordBan, Rest, Goto, Mishap, Kinds, Procs
    <3>2. until' \in [Rows -> {"never", "ahead", "passed"}]
      BY <2>2, FirewallAssumption DEF TypeOK, RecordBan, Rest, Goto, Mishap, Procs
    <3>3. byScan' \in [Rows -> BOOLEAN]
      BY <2>2, FirewallAssumption DEF TypeOK, RecordBan, Rest, Goto, Mishap, Procs
    <3>4. pc' \in [Procs -> Stages]
      BY <2>2, FirewallAssumption DEF TypeOK, RecordBan, Rest, Goto, Mishap, Stages, Procs
    <3>5. mishaps' \in Nat
      BY <2>2, FirewallAssumption DEF TypeOK, RecordBan, Rest, Goto, Mishap, Procs
    <3>6. TypeOK'
      BY <2>2, <3>1, <3>2, <3>3, <3>4, <3>5 DEF TypeOK, RecordBan, ufwVars, dbVars,
         callVars
    <3>7. Kinds'
      BY <2>2, FirewallAssumption DEF TypeOK, Kinds, Procs, RecordBan, Rest, Goto, Mishap,
         ufwVars, dbVars, callVars
    <3> QED
      BY <3>6, <3>7 DEF Base
  <2>3. ASSUME NEW c \in Callers, NEW a \in Addrs, Unban(c, a)
        PROVE  Base'
    <3>1. calls' \in Nat
      BY <2>3, FirewallAssumption DEF TypeOK, Unban, Call, Goto, Procs
    <3>2. addr' \in [Procs -> Addrs \cup Ports \cup {None}]
      BY <2>3, FirewallAssumption DEF TypeOK, Unban, Call, Goto, Procs
    <3>3. pc' \in [Procs -> Stages]
      BY <2>3, FirewallAssumption DEF TypeOK, Unban, Call, Goto, Stages, Procs
    <3>4. TypeOK'
      BY <2>3, <3>1, <3>2, <3>3 DEF TypeOK, Unban, ufwVars, dbVars, callVars
    <3>5. Kinds'
      BY <2>3, FirewallAssumption DEF TypeOK, Kinds, Procs, Unban, Call, Goto, ufwVars,
         dbVars, callVars
    <3> QED
      BY <3>4, <3>5 DEF Base
  <2>4. ASSUME NEW p \in Procs, ListRules(p)
        PROVE  Base'
    <3>0. missed' \in SUBSET Addrs
      BY <2>4 DEF TypeOK, Kinds, ListRules, Miss
    <3>1. nums' \in [Procs -> SUBSET (Nat \ {0})]
      BY <2>4, FirewallAssumption DEF TypeOK, ListRules, Rest, Goto, Mishap, BanIndices,
         Procs
    <3>2. pc' \in [Procs -> Stages]
      BY <2>4, FirewallAssumption DEF TypeOK, ListRules, Rest, Goto, Mishap, BanIndices,
         Stages, Procs
    <3>3. mishaps' \in Nat
      BY <2>4, FirewallAssumption DEF TypeOK, ListRules, Rest, Goto, Mishap, BanIndices,
         Procs
    <3>4. TypeOK'
      BY <2>4, <3>0, <3>1, <3>2, <3>3 DEF TypeOK, ListRules, ufwVars, dbVars, callVars
    <3>5. Kinds'
      BY <2>4, FirewallAssumption DEF TypeOK, Kinds, Procs, ListRules, Rest, Goto, Mishap,
         BanIndices, ufwVars, dbVars, callVars
    <3> QED
      BY <3>4, <3>5 DEF Base
  <2>5. ASSUME NEW p \in Procs, DeleteRule(p)
        PROVE  Base'
    <3>0. missed' \in SUBSET Addrs
      BY <2>5 DEF TypeOK, Kinds, DeleteRule, Miss
    <3>1. rules' \in Seq(Rules)
      <4>1. PICK n \in nums[p] : rules' = rules \/ (n <= Len(rules) /\ rules' = RemoveAt(rules, n))
        BY <2>5 DEF DeleteRule
      <4>2. n \in Nat \ {0}
        BY <4>1 DEF TypeOK
      <4> QED
        BY <4>1, <4>2, Removal, LenProperties DEF TypeOK
    <3>2. strays' \in Nat
      BY <2>5, FirewallAssumption DEF TypeOK, DeleteRule, Rest, Goto, Mishap, Procs
    <3>3. nums' \in [Procs -> SUBSET (Nat \ {0})]
      BY <2>5, FirewallAssumption DEF TypeOK, DeleteRule, Rest, Goto, Mishap, Procs
    <3>4. pc' \in [Procs -> Stages]
      BY <2>5, FirewallAssumption DEF TypeOK, DeleteRule, Rest, Goto, Mishap, Stages,
         Procs
    <3>5. mishaps' \in Nat
      BY <2>5, FirewallAssumption DEF TypeOK, DeleteRule, Rest, Goto, Mishap, Procs
    <3>6. TypeOK'
      BY <2>5, <3>0, <3>1, <3>2, <3>3, <3>4, <3>5 DEF TypeOK, DeleteRule, ufwVars, dbVars,
         callVars
    <3>7. Kinds'
      BY <2>5, FirewallAssumption DEF TypeOK, Kinds, Procs, DeleteRule, Rest, Goto,
         Mishap, ufwVars, dbVars, callVars
    <3> QED
      BY <3>6, <3>7 DEF Base
  <2>6. ASSUME NEW p \in Procs, Deleted(p)
        PROVE  Base'
    <3>1. pc' \in [Procs -> Stages]
      BY <2>6, FirewallAssumption DEF TypeOK, Deleted, Rest, Goto, Mishap, Stages, Procs
    <3>2. TypeOK'
      BY <2>6, <3>1 DEF TypeOK, Deleted, ufwVars, dbVars, callVars
    <3>3. Kinds'
      BY <2>6, FirewallAssumption DEF TypeOK, Kinds, Procs, Deleted, Rest, Goto, Mishap,
         ufwVars, dbVars, callVars
    <3> QED
      BY <3>2, <3>3 DEF Base
  <2>7. ASSUME NEW p \in Procs, LiftBans(p)
        PROVE  Base'
    <3>1. lifted' \in [Rows -> BOOLEAN]
      BY <2>7, FirewallAssumption DEF TypeOK, LiftBans, Rest, Goto, Mishap, Procs
    <3>2. pc' \in [Procs -> Stages]
      BY <2>7, FirewallAssumption DEF TypeOK, LiftBans, Rest, Goto, Mishap, Stages, Procs
    <3>3. mishaps' \in Nat
      BY <2>7, FirewallAssumption DEF TypeOK, LiftBans, Rest, Goto, Mishap, Procs
    <3>4. TypeOK'
      BY <2>7, <3>1, <3>2, <3>3 DEF TypeOK, LiftBans, ufwVars, dbVars, callVars
    <3>5. Kinds'
      BY <2>7, FirewallAssumption DEF TypeOK, Kinds, Procs, LiftBans, Rest, Goto, Mishap,
         ufwVars, dbVars, callVars
    <3> QED
      BY <3>4, <3>5 DEF Base
  <2>8. ASSUME NEW r \in Rows, Expire(r)
        PROVE  Base'
    <3>1. until' \in [Rows -> {"never", "ahead", "passed"}]
      BY <2>8, FirewallAssumption DEF TypeOK, Expire, Procs
    <3>2. TypeOK'
      BY <2>8, <3>1 DEF TypeOK, Expire, ufwVars, dbVars, callVars
    <3>3. Kinds'
      BY <2>8 DEF Kinds, Procs, Expire, ufwVars, dbVars, callVars
    <3> QED
      BY <3>2, <3>3 DEF Base
  <2>9. CASE StartTick
    <3>1. armed' \in BOOLEAN
      BY <2>9, FirewallAssumption DEF TypeOK, StartTick, Goto, ExpiredBans, Procs
    <3>2. todo' \in [Procs -> SUBSET (Rows \cup Addrs \cup Ports)]
      BY <2>9, FirewallAssumption DEF TypeOK, StartTick, Goto, ExpiredBans, Procs
    <3>3. pc' \in [Procs -> Stages]
      BY <2>9, FirewallAssumption DEF TypeOK, StartTick, Goto, ExpiredBans, Stages, Procs
    <3>4. TypeOK'
      BY <2>9, <3>1, <3>2, <3>3 DEF TypeOK, StartTick, ufwVars, dbVars, callVars
    <3>5. Kinds'
      BY <2>9, FirewallAssumption DEF TypeOK, Kinds, Procs, StartTick, Goto, ExpiredBans,
         ufwVars, dbVars, callVars
    <3> QED
      BY <3>4, <3>5 DEF Base
  <2>10. CASE Reap
    <3>1. addr' \in [Procs -> Addrs \cup Ports \cup {None}]
      BY <2>10, FirewallAssumption DEF TypeOK, Kinds, Reap, Goto, Procs
    <3>2. todo' \in [Procs -> SUBSET (Rows \cup Addrs \cup Ports)]
      BY <2>10, FirewallAssumption DEF TypeOK, Reap, Goto, Procs
    <3>3. pc' \in [Procs -> Stages]
      BY <2>10, FirewallAssumption DEF TypeOK, Reap, Goto, Stages, Procs
    <3>4. TypeOK'
      BY <2>10, <3>1, <3>2, <3>3 DEF TypeOK, Reap, ufwVars, dbVars, callVars
    <3>5. Kinds'
      BY <2>10, FirewallAssumption DEF TypeOK, Kinds, Procs, Reap, Goto, ufwVars, dbVars,
         callVars
    <3> QED
      BY <3>4, <3>5 DEF Base
  <2>11. CASE Collect
    <3>0. mishaps' \in Nat
      BY <2>11 DEF TypeOK, Collect, Mishap
    <3>1. pc' \in [Procs -> Stages]
      BY <2>11, FirewallAssumption DEF TypeOK, Collect, Goto, Stages, Procs
    <3>2. todo' \in [Procs -> SUBSET (Rows \cup Addrs \cup Ports)]
      BY <2>11, FirewallAssumption DEF TypeOK, Collect, Goto, Procs
    <3>3. TypeOK'
      BY <2>11, <3>0, <3>1, <3>2 DEF TypeOK, Collect, ufwVars, dbVars, callVars
    <3>4. Kinds'
      BY <2>11, FirewallAssumption DEF TypeOK, Kinds, Procs, Collect, Goto, ufwVars,
         dbVars, callVars
    <3> QED
      BY <3>3, <3>4 DEF Base
  <2>12. ASSUME NEW a \in Addrs, Judge(a)
        PROVE  Base'
    <3>0. mishaps' \in Nat
      BY <2>12 DEF TypeOK, Judge, Mishap
    <3>1. todo' \in [Procs -> SUBSET (Rows \cup Addrs \cup Ports)]
      BY <2>12, FirewallAssumption DEF TypeOK, Judge, Goto, Procs
    <3>2. addr' \in [Procs -> Addrs \cup Ports \cup {None}]
      BY <2>12, FirewallAssumption DEF TypeOK, Judge, Goto, Procs
    <3>3. pc' \in [Procs -> Stages]
      BY <2>12, FirewallAssumption DEF TypeOK, Judge, Goto, Stages, Procs
    <3>4. TypeOK'
      BY <2>12, <3>0, <3>1, <3>2, <3>3 DEF TypeOK, Judge, ufwVars, dbVars, callVars
    <3>5. Kinds'
      BY <2>12, FirewallAssumption DEF TypeOK, Kinds, Procs, Judge, Goto, ufwVars, dbVars,
         callVars
    <3> QED
      BY <3>4, <3>5 DEF Base
  <2>13. CASE ScanBan
    <3>0. missed' \in SUBSET Addrs
      BY <2>13 DEF TypeOK, Kinds, ScanBan, Miss, Procs
    <3>1. rules' \in Seq(Rules)
      <4>1. addr[Tick] \in Addrs
        BY <2>13 DEF ScanBan, Kinds, Procs
      <4>2. BanRule(addr[Tick]) \in Rules
        BY <4>1, FirewallAssumption DEF BanRule, Rules
      <4>3. rules \in Seq(Rules)
        BY DEF TypeOK
      <4>4. <<BanRule(addr[Tick])>> \o rules \in Seq(Rules)
        BY <4>2, <4>3, Prepending
      <4>5. rules' = rules \/ rules' = <<BanRule(addr[Tick])>> \o rules
        BY <2>13 DEF ScanBan
      <4> QED
        BY <4>3, <4>4, <4>5
    <3>2. term' \in [Procs -> {"never", "ahead"}]
      BY <2>13, FirewallAssumption DEF TypeOK, ScanBan, Goto, Mishap, Procs
    <3>3. pc' \in [Procs -> Stages]
      BY <2>13, FirewallAssumption DEF TypeOK, ScanBan, Goto, Mishap, Stages, Procs
    <3>4. mishaps' \in Nat
      BY <2>13, FirewallAssumption DEF TypeOK, ScanBan, Goto, Mishap, Procs
    <3>5. TypeOK'
      BY <2>13, <3>0, <3>1, <3>2, <3>3, <3>4 DEF TypeOK, ScanBan, ufwVars, dbVars, callVars
    <3>6. Kinds'
      BY <2>13, FirewallAssumption DEF TypeOK, Kinds, Procs, ScanBan, Goto, Mishap,
         ufwVars, dbVars, callVars
    <3> QED
      BY <3>5, <3>6 DEF Base
  <2>14. CASE EndTick
    <3>1. pc' \in [Procs -> Stages]
      BY <2>14, FirewallAssumption DEF TypeOK, EndTick, Goto, Stages, Procs
    <3>2. TypeOK'
      BY <2>14, <3>1 DEF TypeOK, EndTick, ufwVars, dbVars, callVars
    <3>3. Kinds'
      BY <2>14, FirewallAssumption DEF TypeOK, Kinds, Procs, EndTick, Goto, ufwVars,
         dbVars, callVars
    <3> QED
      BY <3>2, <3>3 DEF Base
  <2>15. CASE SetSentinel
    <3>1. calls' \in Nat
      BY <2>15, FirewallAssumption DEF TypeOK, SetSentinel, Procs
    <3>2. enabled' \in BOOLEAN
      BY <2>15, FirewallAssumption DEF TypeOK, SetSentinel, Procs
    <3>3. TypeOK'
      BY <2>15, <3>1, <3>2 DEF TypeOK, SetSentinel, ufwVars, dbVars, callVars
    <3>4. Kinds'
      BY <2>15 DEF Kinds, Procs, SetSentinel, ufwVars, dbVars, callVars
    <3> QED
      BY <3>3, <3>4 DEF Base
  <2>16. ASSUME NEW c \in Callers, NEW q \in Ports, PortOpen(c, q)
        PROVE  Base'
    <3>1. calls' \in Nat
      BY <2>16, FirewallAssumption DEF TypeOK, PortOpen, Call, Goto, Allow, Procs
    <3>2. rules' \in Seq(Rules)
      BY <2>16, Allowing DEF TypeOK, PortOpen
    <3>3. addr' \in [Procs -> Addrs \cup Ports \cup {None}]
      BY <2>16, FirewallAssumption DEF TypeOK, PortOpen, Call, Goto, Allow, Procs
    <3>4. pc' \in [Procs -> Stages]
      BY <2>16, FirewallAssumption DEF TypeOK, PortOpen, Call, Goto, Allow, Stages, Procs
    <3>5. TypeOK'
      BY <2>16, <3>1, <3>2, <3>3, <3>4 DEF TypeOK, PortOpen, ufwVars, dbVars, callVars
    <3>6. Kinds'
      BY <2>16, FirewallAssumption DEF TypeOK, Kinds, Procs, PortOpen, Call, Goto, Allow,
         ufwVars, dbVars, callVars
    <3> QED
      BY <3>5, <3>6 DEF Base
  <2>17. ASSUME NEW c \in Callers, NotePort(c)
        PROVE  Base'
    <3>1. ports' \in SUBSET Ports
      BY <2>17, FirewallAssumption DEF TypeOK, NotePort, Goto, Mishap, Kinds, Procs
    <3>2. pc' \in [Procs -> Stages]
      BY <2>17, FirewallAssumption DEF TypeOK, NotePort, Goto, Mishap, Stages, Procs
    <3>3. mishaps' \in Nat
      BY <2>17, FirewallAssumption DEF TypeOK, NotePort, Goto, Mishap, Procs
    <3>4. TypeOK'
      BY <2>17, <3>1, <3>2, <3>3 DEF TypeOK, NotePort, ufwVars, dbVars, callVars
    <3>5. Kinds'
      BY <2>17, FirewallAssumption DEF TypeOK, Kinds, Procs, NotePort, Goto, Mishap,
         ufwVars, dbVars, callVars
    <3> QED
      BY <3>4, <3>5 DEF Base
  <2>18. ASSUME NEW c \in Callers, NEW q \in Ports, PortClose(c, q)
        PROVE  Base'
    <3>1. calls' \in Nat
      BY <2>18, FirewallAssumption DEF TypeOK, PortClose, Call, Goto, Procs
    <3>2. rules' \in Seq(Rules)
      BY <2>18, Removal DEF PortClose, TypeOK
    <3>3. addr' \in [Procs -> Addrs \cup Ports \cup {None}]
      BY <2>18, FirewallAssumption DEF TypeOK, PortClose, Call, Goto, Procs
    <3>4. pc' \in [Procs -> Stages]
      BY <2>18, FirewallAssumption DEF TypeOK, PortClose, Call, Goto, Stages, Procs
    <3>5. TypeOK'
      BY <2>18, <3>1, <3>2, <3>3, <3>4 DEF TypeOK, PortClose, ufwVars, dbVars, callVars
    <3>6. Kinds'
      BY <2>18, FirewallAssumption DEF TypeOK, Kinds, Procs, PortClose, Call, Goto,
         ufwVars, dbVars, callVars
    <3> QED
      BY <3>5, <3>6 DEF Base
  <2>19. ASSUME NEW c \in Callers, ForgetPort(c)
        PROVE  Base'
    <3>1. ports' \in SUBSET Ports
      BY <2>19, FirewallAssumption DEF TypeOK, ForgetPort, Goto, Mishap, Kinds, Procs
    <3>2. pc' \in [Procs -> Stages]
      BY <2>19, FirewallAssumption DEF TypeOK, ForgetPort, Goto, Mishap, Stages, Procs
    <3>3. mishaps' \in Nat
      BY <2>19, FirewallAssumption DEF TypeOK, ForgetPort, Goto, Mishap, Procs
    <3>4. TypeOK'
      BY <2>19, <3>1, <3>2, <3>3 DEF TypeOK, ForgetPort, ufwVars, dbVars, callVars
    <3>5. Kinds'
      BY <2>19, FirewallAssumption DEF TypeOK, Kinds, Procs, ForgetPort, Goto, Mishap,
         ufwVars, dbVars, callVars
    <3> QED
      BY <3>4, <3>5 DEF Base
  <2>20. ASSUME NEW c \in Callers, Enable(c)
        PROVE  Base'
    <3>1. calls' \in Nat
      BY <2>20, FirewallAssumption DEF TypeOK, Enable, Call, Goto, Doors, Procs
    <3>2. todo' \in [Procs -> SUBSET (Rows \cup Addrs \cup Ports)]
      BY <2>20, FirewallAssumption DEF TypeOK, Enable, Call, Goto, Doors, Procs
    <3>3. pc' \in [Procs -> Stages]
      BY <2>20, FirewallAssumption DEF TypeOK, Enable, Call, Goto, Doors, Stages, Procs
    <3>4. TypeOK'
      BY <2>20, <3>1, <3>2, <3>3 DEF TypeOK, Enable, ufwVars, dbVars, callVars
    <3>5. Kinds'
      BY <2>20, FirewallAssumption DEF TypeOK, Kinds, Procs, Enable, Call, Goto, Doors,
         ufwVars, dbVars, callVars
    <3> QED
      BY <3>4, <3>5 DEF Base
  <2>21. ASSUME NEW c \in Callers, OpenDoor(c)
        PROVE  Base'
    <3>1. rules' \in Seq(Rules)
      BY <2>21, Allowing DEF TypeOK, OpenDoor, Kinds
    <3>2. addr' \in [Procs -> Addrs \cup Ports \cup {None}]
      BY <2>21, FirewallAssumption DEF TypeOK, Kinds, OpenDoor, Goto, Allow, Procs
    <3>3. todo' \in [Procs -> SUBSET (Rows \cup Addrs \cup Ports)]
      BY <2>21, FirewallAssumption DEF TypeOK, OpenDoor, Goto, Allow, Procs
    <3>4. pc' \in [Procs -> Stages]
      BY <2>21, FirewallAssumption DEF TypeOK, OpenDoor, Goto, Allow, Stages, Procs
    <3>5. TypeOK'
      BY <2>21, <3>1, <3>2, <3>3, <3>4 DEF TypeOK, OpenDoor, ufwVars, dbVars, callVars
    <3>6. Kinds'
      BY <2>21, FirewallAssumption DEF TypeOK, Kinds, Procs, OpenDoor, Goto, Allow,
         ufwVars, dbVars, callVars
    <3> QED
      BY <3>5, <3>6 DEF Base
  <2>22. ASSUME NEW c \in Callers, SwitchOn(c)
        PROVE  Base'
    <3>1. pc' \in [Procs -> Stages]
      BY <2>22, FirewallAssumption DEF TypeOK, SwitchOn, Goto, Mishap, Stages, Procs
    <3>2. active' \in BOOLEAN
      BY <2>22, FirewallAssumption DEF TypeOK, SwitchOn, Goto, Mishap, Procs
    <3>3. mishaps' \in Nat
      BY <2>22, FirewallAssumption DEF TypeOK, SwitchOn, Goto, Mishap, Procs
    <3>4. TypeOK'
      BY <2>22, <3>1, <3>2, <3>3 DEF TypeOK, SwitchOn, ufwVars, dbVars, callVars
    <3>5. Kinds'
      BY <2>22, FirewallAssumption DEF TypeOK, Kinds, Procs, SwitchOn, Goto, Mishap,
         ufwVars, dbVars, callVars
    <3> QED
      BY <3>4, <3>5 DEF Base
  <2>23. ASSUME NEW c \in Callers, Disable(c)
        PROVE  Base'
    <3>1. calls' \in Nat
      BY <2>23, FirewallAssumption DEF TypeOK, Disable, Call, Procs
    <3>2. active' \in BOOLEAN
      BY <2>23, FirewallAssumption DEF TypeOK, Disable, Call, Procs
    <3>3. TypeOK'
      BY <2>23, <3>1, <3>2 DEF TypeOK, Disable, ufwVars, dbVars, callVars
    <3>4. Kinds'
      BY <2>23 DEF Kinds, Procs, Disable, ufwVars, dbVars, callVars
    <3> QED
      BY <3>3, <3>4 DEF Base
  <2>24. CASE Crash
    <3>1. mishaps' \in Nat
      BY <2>24, FirewallAssumption DEF TypeOK, Crash, Mishap, Procs
    <3>2. pc' \in [Procs -> Stages]
      BY <2>24, FirewallAssumption DEF TypeOK, Crash, Mishap, Stages, Procs
    <3>3. nums' \in [Procs -> SUBSET (Nat \ {0})]
      BY <2>24, FirewallAssumption DEF TypeOK, Crash, Mishap, Procs
    <3>4. todo' \in [Procs -> SUBSET (Rows \cup Addrs \cup Ports)]
      BY <2>24, FirewallAssumption DEF TypeOK, Crash, Mishap, Procs
    <3>5. TypeOK'
      BY <2>24, <3>1, <3>2, <3>3, <3>4 DEF TypeOK, Crash, ufwVars, dbVars, callVars
    <3>6. Kinds'
      BY <2>24, FirewallAssumption DEF TypeOK, Kinds, Procs, Crash, Mishap, ufwVars,
         dbVars, callVars
    <3> QED
      BY <3>5, <3>6 DEF Base
  <2>25. CASE UNCHANGED vars
    <3>1. TypeOK'
      BY <2>25 DEF TypeOK, vars, ufwVars, dbVars, callVars
    <3>2. Kinds'
      BY <2>25 DEF Kinds, Procs, vars, ufwVars, dbVars, callVars
    <3> QED
      BY <3>1, <3>2 DEF Base
  <2> QED
    BY <2>1, <2>2, <2>3, <2>4, <2>5, <2>6, <2>7, <2>8, <2>9, <2>10, <2>11, <2>12, <2>13,
       <2>14, <2>15, <2>16, <2>17, <2>18, <2>19, <2>20, <2>21, <2>22, <2>23, <2>24, <2>25
       DEF Next, CallStep, TickStep, Procs
<1> QED
  BY <1>1, <1>2, PTL DEF Spec

\* ufw's rules, the tables and every call in flight keep their types, the numbers a call
\* means to delete included.
THEOREM TypeCorrect == Spec => []TypeOK
BY BaseInvariant, PTL DEF Base

\* While the pass is about to ban an address it has found free, no ban of its own runs.
Sentenced ==
  pc[Tick] \in {"banning", "recording"} =>
    \A r \in Rows : byScan[r] /\ ip[r] = addr[Tick] /\ ~lifted[r] => until[r] # "ahead"

Just == Sentenced /\ OneSentence

\* The pass checks before it bans and nobody else writes bans in its name.
THEOREM JustInvariant == Spec => []Just
<1>1. Init => Just
  BY DEF Init, Just, Sentenced, OneSentence, Procs
<1>2. Base /\ Just /\ [Next]_vars => Just'
  <2> SUFFICES ASSUME TypeOK, Kinds, Sentenced, OneSentence, [Next]_vars
               PROVE  Just'
    BY DEF Base, Just
  <2>1. ASSUME NEW c \in Callers, NEW a \in Addrs, Ban(c, a)
        PROVE  Just'
    <3>1. OneSentence'
      BY <2>1 DEF OneSentence, Ban, ufwVars, dbVars, callVars
    <3>2. Sentenced'
      BY <2>1, FirewallAssumption DEF TypeOK, Kinds, Sentenced, OneSentence, Ban, Call,
         Goto, Procs, ufwVars, dbVars, callVars
    <3> QED
      BY <3>1, <3>2 DEF Just
  <2>2. ASSUME NEW p \in Procs, RecordBan(p)
        PROVE  Just'
    <3>1. Sentenced'
      BY <2>2, FirewallAssumption DEF TypeOK, Kinds, Sentenced, OneSentence, RecordBan,
         Rest, Goto, Mishap, Procs, ufwVars, dbVars, callVars
    <3>2. OneSentence'
      BY <2>2, FirewallAssumption DEF TypeOK, Kinds, Sentenced, OneSentence, RecordBan,
         Rest, Goto, Mishap, Procs, ufwVars, dbVars, callVars
    <3> QED
      BY <3>1, <3>2 DEF Just
  <2>3. ASSUME NEW c \in Callers, NEW a \in Addrs, Unban(c, a)
        PROVE  Just'
    <3>1. OneSentence'
      BY <2>3 DEF OneSentence, Unban, ufwVars, dbVars, callVars
    <3>2. Sentenced'
      BY <2>3, FirewallAssumption DEF TypeOK, Kinds, Sentenced, OneSentence, Unban, Call,
         Goto, Procs, ufwVars, dbVars, callVars
    <3> QED
      BY <3>1, <3>2 DEF Just
  <2>4. ASSUME NEW p \in Procs, ListRules(p)
        PROVE  Just'
    <3>1. OneSentence'
      BY <2>4 DEF OneSentence, ListRules, ufwVars, dbVars, callVars
    <3>2. Sentenced'
      BY <2>4, FirewallAssumption DEF TypeOK, Kinds, Sentenced, OneSentence, ListRules,
         Rest, Goto, Mishap, BanIndices, Procs, ufwVars, dbVars, callVars
    <3> QED
      BY <3>1, <3>2 DEF Just
  <2>5. ASSUME NEW p \in Procs, DeleteRule(p)
        PROVE  Just'
    <3>1. OneSentence'
      BY <2>5 DEF OneSentence, DeleteRule, ufwVars, dbVars, callVars
    <3>2. Sentenced'
      BY <2>5, FirewallAssumption DEF TypeOK, Kinds, Sentenced, OneSentence, DeleteRule,
         Rest, Goto, Mishap, Procs, ufwVars, dbVars, callVars
    <3> QED
      BY <3>1, <3>2 DEF Just
  <2>6. ASSUME NEW p \in Procs, Deleted(p)
        PROVE  Just'
    <3>1. OneSentence'
      BY <2>6 DEF OneSentence, Deleted, ufwVars, dbVars, callVars
    <3>2. Sentenced'
      BY <2>6, FirewallAssumption DEF TypeOK, Kinds, Sentenced, OneSentence, Deleted,
         Rest, Goto, Mishap, Procs, ufwVars, dbVars, callVars
    <3> QED
      BY <3>1, <3>2 DEF Just
  <2>7. ASSUME NEW p \in Procs, LiftBans(p)
        PROVE  Just'
    <3>1. Sentenced'
      BY <2>7, FirewallAssumption DEF TypeOK, Kinds, Sentenced, OneSentence, LiftBans,
         Rest, Goto, Mishap, Procs, ufwVars, dbVars, callVars
    <3>2. OneSentence'
      BY <2>7, FirewallAssumption DEF TypeOK, Kinds, Sentenced, OneSentence, LiftBans,
         Rest, Goto, Mishap, Procs, ufwVars, dbVars, callVars
    <3> QED
      BY <3>1, <3>2 DEF Just
  <2>8. ASSUME NEW r \in Rows, Expire(r)
        PROVE  Just'
    <3>1. Sentenced'
      BY <2>8, FirewallAssumption DEF TypeOK, Kinds, Sentenced, OneSentence, Expire,
         Procs, ufwVars, dbVars, callVars
    <3>2. OneSentence'
      BY <2>8, FirewallAssumption DEF TypeOK, Kinds, Sentenced, OneSentence, Expire,
         Procs, ufwVars, dbVars, callVars
    <3> QED
      BY <3>1, <3>2 DEF Just
  <2>9. CASE StartTick
    <3>1. OneSentence'
      BY <2>9 DEF OneSentence, StartTick, ufwVars, dbVars, callVars
    <3>2. Sentenced'
      BY <2>9, FirewallAssumption DEF TypeOK, Kinds, Sentenced, OneSentence, StartTick,
         Goto, ExpiredBans, Procs, ufwVars, dbVars, callVars
    <3> QED
      BY <3>1, <3>2 DEF Just
  <2>10. CASE Reap
    <3>1. OneSentence'
      BY <2>10 DEF OneSentence, Reap, ufwVars, dbVars, callVars
    <3>2. Sentenced'
      BY <2>10, FirewallAssumption DEF TypeOK, Kinds, Sentenced, OneSentence, Reap, Goto,
         Procs, ufwVars, dbVars, callVars
    <3> QED
      BY <3>1, <3>2 DEF Just
  <2>11. CASE Collect
    <3>1. OneSentence'
      BY <2>11 DEF OneSentence, Collect, ufwVars, dbVars, callVars
    <3>2. Sentenced'
      BY <2>11, FirewallAssumption DEF TypeOK, Kinds, Sentenced, OneSentence, Collect,
         Goto, Procs, ufwVars, dbVars, callVars
    <3> QED
      BY <3>1, <3>2 DEF Just
  <2>12. ASSUME NEW a \in Addrs, Judge(a)
        PROVE  Just'
    <3>1. OneSentence'
      BY <2>12 DEF OneSentence, Judge, ufwVars, dbVars, callVars
    <3>2. Sentenced'
      BY <2>12, FirewallAssumption DEF TypeOK, Sentenced, Judge, IsBanned, OpenRows, Goto, Procs,
         dbVars
    <3> QED
      BY <3>1, <3>2 DEF Just
  <2>13. CASE ScanBan
    <3>1. OneSentence'
      BY <2>13 DEF OneSentence, ScanBan, ufwVars, dbVars, callVars
    <3>2. Sentenced'
      BY <2>13, FirewallAssumption DEF TypeOK, Kinds, Sentenced, OneSentence, ScanBan,
         Goto, Mishap, Procs, ufwVars, dbVars, callVars
    <3> QED
      BY <3>1, <3>2 DEF Just
  <2>14. CASE EndTick
    <3>1. OneSentence'
      BY <2>14 DEF OneSentence, EndTick, ufwVars, dbVars, callVars
    <3>2. Sentenced'
      BY <2>14, FirewallAssumption DEF TypeOK, Kinds, Sentenced, OneSentence, EndTick,
         Goto, Procs, ufwVars, dbVars, callVars
    <3> QED
      BY <3>1, <3>2 DEF Just
  <2>15. CASE SetSentinel
    <3>1. Sentenced' /\ OneSentence'
      BY <2>15 DEF Sentenced, OneSentence, SetSentinel, ufwVars, dbVars, callVars
    <3> QED
      BY <3>1 DEF Just
  <2>16. ASSUME NEW c \in Callers, NEW q \in Ports, PortOpen(c, q)
        PROVE  Just'
    <3>1. OneSentence'
      BY <2>16 DEF OneSentence, PortOpen, ufwVars, dbVars, callVars
    <3>2. Sentenced'
      BY <2>16, FirewallAssumption DEF TypeOK, Kinds, Sentenced, OneSentence, PortOpen,
         Call, Goto, Allow, Procs, ufwVars, dbVars, callVars
    <3> QED
      BY <3>1, <3>2 DEF Just
  <2>17. ASSUME NEW c \in Callers, NotePort(c)
        PROVE  Just'
    <3>1. OneSentence'
      BY <2>17 DEF OneSentence, NotePort, ufwVars, dbVars, callVars
    <3>2. Sentenced'
      BY <2>17, FirewallAssumption DEF TypeOK, Kinds, Sentenced, OneSentence, NotePort,
         Goto, Mishap, Procs, ufwVars, dbVars, callVars
    <3> QED
      BY <3>1, <3>2 DEF Just
  <2>18. ASSUME NEW c \in Callers, NEW q \in Ports, PortClose(c, q)
        PROVE  Just'
    <3>1. OneSentence'
      BY <2>18 DEF OneSentence, PortClose, ufwVars, dbVars, callVars
    <3>2. Sentenced'
      BY <2>18, FirewallAssumption DEF TypeOK, Kinds, Sentenced, OneSentence, PortClose,
         Call, Goto, Procs, ufwVars, dbVars, callVars
    <3> QED
      BY <3>1, <3>2 DEF Just
  <2>19. ASSUME NEW c \in Callers, ForgetPort(c)
        PROVE  Just'
    <3>1. OneSentence'
      BY <2>19 DEF OneSentence, ForgetPort, ufwVars, dbVars, callVars
    <3>2. Sentenced'
      BY <2>19, FirewallAssumption DEF TypeOK, Kinds, Sentenced, OneSentence, ForgetPort,
         Goto, Mishap, Procs, ufwVars, dbVars, callVars
    <3> QED
      BY <3>1, <3>2 DEF Just
  <2>20. ASSUME NEW c \in Callers, Enable(c)
        PROVE  Just'
    <3>1. OneSentence'
      BY <2>20 DEF OneSentence, Enable, ufwVars, dbVars, callVars
    <3>2. Sentenced'
      BY <2>20, FirewallAssumption DEF TypeOK, Kinds, Sentenced, OneSentence, Enable,
         Call, Goto, Doors, Procs, ufwVars, dbVars, callVars
    <3> QED
      BY <3>1, <3>2 DEF Just
  <2>21. ASSUME NEW c \in Callers, OpenDoor(c)
        PROVE  Just'
    <3>1. OneSentence'
      BY <2>21 DEF OneSentence, OpenDoor, ufwVars, dbVars, callVars
    <3>2. Sentenced'
      BY <2>21, FirewallAssumption DEF TypeOK, Kinds, Sentenced, OneSentence, OpenDoor,
         Goto, Allow, Procs, ufwVars, dbVars, callVars
    <3> QED
      BY <3>1, <3>2 DEF Just
  <2>22. ASSUME NEW c \in Callers, SwitchOn(c)
        PROVE  Just'
    <3>1. OneSentence'
      BY <2>22 DEF OneSentence, SwitchOn, ufwVars, dbVars, callVars
    <3>2. Sentenced'
      BY <2>22, FirewallAssumption DEF TypeOK, Kinds, Sentenced, OneSentence, SwitchOn,
         Goto, Mishap, Procs, ufwVars, dbVars, callVars
    <3> QED
      BY <3>1, <3>2 DEF Just
  <2>23. ASSUME NEW c \in Callers, Disable(c)
        PROVE  Just'
    <3>1. Sentenced' /\ OneSentence'
      BY <2>23 DEF Sentenced, OneSentence, Disable, ufwVars, dbVars, callVars
    <3> QED
      BY <3>1 DEF Just
  <2>24. CASE Crash
    <3>1. OneSentence'
      BY <2>24 DEF OneSentence, Crash, ufwVars, dbVars, callVars
    <3>2. Sentenced'
      BY <2>24, FirewallAssumption DEF TypeOK, Kinds, Sentenced, OneSentence, Crash,
         Mishap, Procs, ufwVars, dbVars, callVars
    <3> QED
      BY <3>1, <3>2 DEF Just
  <2>25. CASE UNCHANGED vars
    <3>1. Sentenced' /\ OneSentence'
      BY <2>25 DEF Sentenced, OneSentence, vars, ufwVars, dbVars, callVars
    <3> QED
      BY <3>1 DEF Just
  <2> QED
    BY <2>1, <2>2, <2>3, <2>4, <2>5, <2>6, <2>7, <2>8, <2>9, <2>10, <2>11, <2>12, <2>13,
       <2>14, <2>15, <2>16, <2>17, <2>18, <2>19, <2>20, <2>21, <2>22, <2>23, <2>24, <2>25
       DEF Next, CallStep, TickStep, Procs
<1> QED
  BY <1>1, <1>2, BaseInvariant, PTL DEF Spec

\* Sentinel never stacks a second running ban on an address, whatever operators ban, lift or
\* change while the pass is between its check and its record.
THEOREM OneSentenceEach == Spec => []OneSentence
BY JustInvariant, PTL DEF Just

\* A call that is starting the firewall has the panel's port open or still to open.
DoorKept ==
  \A c \in Callers :
    pc[c] \in {"opening", "notingDoor"} /\ strays = 0 /\ Panel # None
      => Admits(Panel) \/ Panel \in todo[c]

Reached == DoorKept /\ PanelReachable

\* No step shuts the panel's port again unless a deletion by number went astray.
LEMMA PanelStays ==
  ASSUME TypeOK, Kinds, [Next]_vars, strays' = 0, Panel # None, Admits(Panel)
  PROVE  Admits(Panel)'
<1> DEFINE Kept == \A i \in 1..Len(rules) : rules[i].allow = Panel => \E j \in 1..Len(rules') : rules'[j] = rules[i]
<1>1. SUFFICES Kept
  BY DEF Admits
<1>2. ASSUME NEW c \in Callers, NEW a \in Addrs, Ban(c, a)
      PROVE  Kept
  <2>1. BanRule(a) \in Rules
    BY FirewallAssumption DEF BanRule, Rules
  <2> QED
    BY <1>2, <2>1, Prepending DEF Ban, TypeOK
<1>3. CASE ScanBan
  <2>1. addr[Tick] \in Addrs
    BY <1>3 DEF ScanBan, Kinds, Procs
  <2>2. BanRule(addr[Tick]) \in Rules
    BY <2>1, FirewallAssumption DEF BanRule, Rules
  <2>3. rules' = rules \/ rules' = <<BanRule(addr[Tick])>> \o rules
    BY <1>3 DEF ScanBan
  <2>4. rules \in Seq(Rules)
    BY DEF TypeOK
  <2> QED
    BY <2>2, <2>3, <2>4, Prepending
<1>4. ASSUME NEW p \in Procs, DeleteRule(p)
      PROVE  Kept
  <2>1. PICK n \in nums[p] :
          \/ rules' = rules
          \/ /\ n <= Len(rules) /\ rules' = RemoveAt(rules, n)
             /\ strays' = strays + (IF rules[n] = BanRule(addr[p]) THEN 0 ELSE 1)
    BY <1>4 DEF DeleteRule
  <2>2. n \in Nat \ {0}
    BY <2>1 DEF TypeOK
  <2>3. CASE rules' = rules
    BY <2>3
  <2>4. CASE /\ n <= Len(rules) /\ rules' = RemoveAt(rules, n)
             /\ strays' = strays + (IF rules[n] = BanRule(addr[p]) THEN 0 ELSE 1)
    <3>1. n \in 1..Len(rules)
      BY <2>2, <2>4, LenProperties DEF TypeOK
    <3>2. rules[n] = BanRule(addr[p])
      BY <2>4 DEF TypeOK
    <3>3. rules[n].allow # Panel
      BY <3>2 DEF BanRule
    <3> QED
      BY <2>4, <3>1, <3>3, Removal DEF TypeOK
  <2> QED
    BY <2>1, <2>3, <2>4
<1>5. ASSUME NEW c \in Callers, NEW q \in Ports, PortOpen(c, q)
      PROVE  Kept
  BY <1>5, Allowing DEF PortOpen, TypeOK
<1>6. ASSUME NEW c \in Callers, OpenDoor(c)
      PROVE  Kept
  BY <1>6, Allowing DEF OpenDoor, Kinds, TypeOK
<1>7. ASSUME NEW c \in Callers, NEW q \in Ports, PortClose(c, q)
      PROVE  Kept
  <2>1. CASE rules' = rules
    BY <2>1
  <2>2. ASSUME NEW n \in 1..Len(rules), FirstAllow(q, n), rules' = RemoveAt(rules, n)
        PROVE  Kept
    <3>1. rules[n].allow # Panel
      BY <1>7, <2>2 DEF PortClose, FirstAllow
    <3> QED
      BY <2>2, <3>1, Removal DEF TypeOK
  <2> QED
    BY <1>7, <2>1, <2>2 DEF PortClose
<1>8. CASE rules' = rules
  BY <1>8
<1> HIDE DEF Kept
<1> QED
  BY <1>2, <1>3, <1>4, <1>5, <1>6, <1>7, <1>8
     DEF Next, CallStep, TickStep, Procs, RecordBan, Unban, ListRules, Deleted, LiftBans, Expire,
         StartTick, Reap, Collect, Judge, EndTick, SetSentinel, NotePort, ForgetPort, Enable, SwitchOn,
         Disable, Crash, ufwVars, vars

\* A deletion that went astray stays counted.
LEMMA StraysGrow ==
  ASSUME TypeOK, [Next]_vars, strays' = 0
  PROVE  strays = 0
<1>1. ASSUME NEW p \in Procs, DeleteRule(p)
      PROVE  strays = 0
  BY <1>1 DEF DeleteRule, TypeOK
<1>2. CASE strays' = strays
  BY <1>2
<1> QED
  BY <1>1, <1>2
     DEF Next, CallStep, TickStep, Procs, RecordBan, Unban, ListRules, Deleted, LiftBans, Expire,
         StartTick, Reap, Collect, Judge, EndTick, SetSentinel, NotePort, ForgetPort, Enable, SwitchOn,
         Disable, Crash, Ban, ScanBan, PortOpen, PortClose, OpenDoor, vars

\* The firewall is switched on only once every door is open.
THEOREM ReachedInvariant == Spec => []Reached
<1>1. Init => Reached
  BY DEF Init, Reached, DoorKept, PanelReachable, Procs
<1>2. Base /\ Reached /\ [Next]_vars => Reached'
  <2> SUFFICES ASSUME TypeOK, Kinds, DoorKept, PanelReachable, [Next]_vars, strays' = 0,
                      Panel # None
               PROVE  Reached'
    BY DEF Base, Reached, DoorKept, PanelReachable
  <2>1. strays = 0 /\ (Admits(Panel) => Admits(Panel)')
    BY PanelStays, StraysGrow
  <2>2. DoorKept'
    <3> SUFFICES ASSUME NEW c \in Callers, pc'[c] \in {"opening", "notingDoor"}, ~Admits(Panel)'
                 PROVE  Panel \in todo'[c]
      BY DEF DoorKept
    <3>1. ~Admits(Panel) /\ c # Tick /\ c \in Procs
      BY <2>1, FirewallAssumption DEF Procs
    <3>2. CASE pc[c] \in {"opening", "notingDoor"} /\ todo'[c] = todo[c]
      BY <2>1, <3>1, <3>2 DEF DoorKept
    <3>3. CASE Enable(c)
      BY <3>1, <3>3, FirewallAssumption DEF Enable, Doors, TypeOK
    <3>4. CASE OpenDoor(c)
      <4>1. PICK q \in todo[c] : Allow(q) /\ todo' = [todo EXCEPT ![c] = todo[c] \ {q}]
        BY <3>4 DEF OpenDoor
      <4>2. q \in Ports /\ Admits(q)'
        BY <4>1, Allowing DEF Kinds, TypeOK
      <4>3. Panel \in todo[c] /\ q # Panel
        BY <2>1, <3>1, <3>4, <4>2 DEF OpenDoor, DoorKept
      <4> QED
        BY <3>1, <4>1, <4>3 DEF TypeOK
    <3>5. \/ pc[c] \in {"opening", "notingDoor"} /\ todo'[c] = todo[c]
          \/ Enable(c) \/ OpenDoor(c)
      <4> DEFINE Same == pc[c] \in {"opening", "notingDoor"} /\ todo'[c] = todo[c]
      <4>1. ASSUME NEW c0 \in Callers, NEW a \in Addrs, Ban(c0, a)
            PROVE  Same
        BY <3>1, <4>1 DEF TypeOK, Ban, Goto, callVars
      <4>2. ASSUME NEW p \in Procs, RecordBan(p)
            PROVE  Same
        BY <3>1, <4>2 DEF TypeOK, RecordBan, Rest, Goto, callVars
      <4>3. ASSUME NEW c0 \in Callers, NEW a \in Addrs, Unban(c0, a)
            PROVE  Same
        BY <3>1, <4>3 DEF TypeOK, Unban, Goto, callVars
      <4>4. ASSUME NEW p \in Procs, ListRules(p)
            PROVE  Same
        BY <3>1, <4>4 DEF TypeOK, ListRules, Rest, Goto, callVars
      <4>5. ASSUME NEW p \in Procs, DeleteRule(p)
            PROVE  Same
        BY <3>1, <4>5 DEF TypeOK, DeleteRule, Rest, Goto, callVars
      <4>6. ASSUME NEW p \in Procs, Deleted(p)
            PROVE  Same
        BY <3>1, <4>6 DEF TypeOK, Deleted, Rest, Goto, callVars
      <4>7. ASSUME NEW p \in Procs, LiftBans(p)
            PROVE  Same
        BY <3>1, <4>7 DEF TypeOK, LiftBans, Rest, Goto, callVars
      <4>8. ASSUME NEW r \in Rows, Expire(r)
            PROVE  Same
        BY <3>1, <4>8 DEF TypeOK, Expire, callVars
      <4>9. CASE StartTick
        BY <3>1, <4>9 DEF TypeOK, StartTick, Goto, callVars, Procs
      <4>10. CASE Reap
        BY <3>1, <4>10 DEF TypeOK, Reap, Goto, callVars, Procs
      <4>11. CASE Collect
        BY <3>1, <4>11 DEF TypeOK, Collect, Goto, callVars, Procs
      <4>12. ASSUME NEW a \in Addrs, Judge(a)
            PROVE  Same
        BY <3>1, <4>12 DEF TypeOK, Judge, Goto, callVars
      <4>13. CASE ScanBan
        BY <3>1, <4>13 DEF TypeOK, ScanBan, Goto, callVars, Procs
      <4>14. CASE EndTick
        BY <3>1, <4>14 DEF TypeOK, EndTick, Goto, callVars, Procs
      <4>15. CASE SetSentinel
        BY <3>1, <4>15 DEF TypeOK, SetSentinel, callVars, Procs
      <4>16. ASSUME NEW c0 \in Callers, NEW q \in Ports, PortOpen(c0, q)
            PROVE  Same
        BY <3>1, <4>16 DEF TypeOK, PortOpen, Goto, callVars
      <4>17. ASSUME NEW c0 \in Callers, NotePort(c0)
            PROVE  Same
        BY <3>1, <4>17 DEF TypeOK, NotePort, Goto, callVars
      <4>18. ASSUME NEW c0 \in Callers, NEW q \in Ports, PortClose(c0, q)
            PROVE  Same
        BY <3>1, <4>18 DEF TypeOK, PortClose, Goto, callVars
      <4>19. ASSUME NEW c0 \in Callers, ForgetPort(c0)
            PROVE  Same
        BY <3>1, <4>19 DEF TypeOK, ForgetPort, Goto, callVars
      <4>20. ASSUME NEW c0 \in Callers, Enable(c0)
            PROVE  Same \/ Enable(c)
        BY <3>1, <4>20 DEF TypeOK, Enable, Goto, callVars
      <4>21. ASSUME NEW c0 \in Callers, OpenDoor(c0)
            PROVE  Same \/ OpenDoor(c)
        BY <3>1, <4>21 DEF TypeOK, OpenDoor, Goto, callVars
      <4>22. ASSUME NEW c0 \in Callers, SwitchOn(c0)
            PROVE  Same
        BY <3>1, <4>22 DEF TypeOK, SwitchOn, Goto, callVars
      <4>23. ASSUME NEW c0 \in Callers, Disable(c0)
            PROVE  Same
        BY <3>1, <4>23 DEF TypeOK, Disable, callVars
      <4>24. CASE Crash
        BY <3>1, <4>24 DEF TypeOK, Crash, callVars, Procs
      <4>25. CASE UNCHANGED vars
        BY <4>25 DEF vars, callVars
      <4> QED
        BY <4>1, <4>2, <4>3, <4>4, <4>5, <4>6, <4>7, <4>8, <4>9, <4>10, <4>11, <4>12,
           <4>13, <4>14, <4>15, <4>16, <4>17, <4>18, <4>19, <4>20, <4>21, <4>22, <4>23,
           <4>24, <4>25 DEF Next, CallStep, TickStep, Procs
    <3> QED
      BY <3>2, <3>3, <3>4, <3>5
  <2>3. PanelReachable'
    <3>1. CASE active' = active
      BY <2>1, <3>1 DEF PanelReachable
    <3>2. ASSUME NEW c \in Callers, SwitchOn(c)
          PROVE  PanelReachable'
      BY <2>1, <3>2 DEF SwitchOn, DoorKept, PanelReachable
    <3>3. ASSUME NEW c \in Callers, Disable(c)
          PROVE  PanelReachable'
      BY <3>3 DEF Disable, PanelReachable
    <3> QED
      BY <3>1, <3>2, <3>3
         DEF Next, CallStep, TickStep, Procs, RecordBan, Unban, ListRules, Deleted, DeleteRule,
             LiftBans, Expire, StartTick, Reap, Collect, Judge, EndTick, SetSentinel, NotePort,
             ForgetPort, Enable, Crash, Ban, ScanBan, PortOpen, PortClose, OpenDoor, ufwVars, vars
  <2> QED
    BY <2>2, <2>3 DEF Reached
<1> QED
  BY <1>1, <1>2, BaseInvariant, PTL DEF Spec

\* A firewall the panel switched on admits the panel, whatever is banned, unbanned, opened or
\* closed at the same time, until a deletion by number removes another rule than it read.
THEOREM PanelStaysReachable == Spec => []PanelReachable
BY ReachedInvariant, PTL DEF Reached
=============================================================================
