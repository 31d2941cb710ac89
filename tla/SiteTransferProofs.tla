------------------------- MODULE SiteTransferProofs -------------------------
(***************************************************************************)
(* Every property of SiteTransfer, and LoggedIsNotBacklog, for every set   *)
(* of sites, serials and calls and every value of the bounds.              *)
(***************************************************************************)
EXTENDS SiteBacklog, TLAPS

\* Every field of a job is one the tools accept.
LEMMA JobFields ==
  ASSUME NEW j \in Jobs
  PROVE  j.kind \in Kinds /\ j.site \in Sites /\ j.list \in SUBSET Rfs
BY DEF Jobs

\* What a statement of a call sees has the type of the committed table.
LEMMA SeenType ==
  ASSUME TypeOK, NEW c \in Calls
  PROVE  /\ Seen(c) \in [Keys -> Rows \cup {NoRow}]
         /\ SeenLog(c) \subseteq LogRows
         /\ SeenKeys(c) \subseteq KeyRows
         /\ SeenKeyLog(c) \subseteq KeyLogRows
BY DEF TypeOK, Seen, SeenLog, SeenKeys, SeenKeyLog

\* Adding rows to the pending rows of a call keeps their type.
LEMMA AddRowsType ==
  ASSUME TypeOK, NEW c \in Calls, NEW sns \in SUBSET Serials, NEW rows,
         \A sn \in sns : rows[sn] \in Rows \cup {NoRow},
         AddRows(c, sns, rows)
  PROVE  gdirty' \in [Calls -> [Keys -> Rows \cup {NoRow}]]
BY DEF TypeOK, AddRows, Keys

LEMMA AddLogType ==
  ASSUME TypeOK, NEW c \in Calls, NEW sns \in SUBSET Serials, NEW st \in Statuses,
         AddLog(c, sns, st)
  PROVE  ldirty' \in [Calls -> SUBSET LogRows]
<1>1. job[c].site \in Sites
  BY JobFields DEF TypeOK
<1>2. [by : {c}, sn : sns, site : {job[c].site}, st : {st}] \subseteq LogRows
  BY <1>1 DEF LogRows
<1> QED BY <1>2 DEF TypeOK, AddLog

LEMMA ForgetType ==
  ASSUME TypeOK, NEW c \in Calls, Forget(c)
  PROVE  /\ gdirty' \in [Calls -> [Keys -> Rows \cup {NoRow}]]
         /\ ldirty' \in [Calls -> SUBSET LogRows]
         /\ kdirty' \in [Calls -> SUBSET KeyRows]
         /\ kldirty' \in [Calls -> SUBSET KeyLogRows]
BY DEF TypeOK, Forget, NoDirty

LEMMA FlushType ==
  ASSUME TypeOK, NEW c \in Calls, Flush(c)
  PROVE  /\ glob' \in [Keys -> Rows \cup {NoRow}]
         /\ tlog' \subseteq LogRows
         /\ nkeys' \subseteq KeyRows
         /\ klog' \subseteq KeyLogRows
BY SeenType DEF Flush

LEMMA TypeInit == Init => TypeOK
BY ConstantsAssumption
   DEF Init, TypeOK, NoRows, NoDirty, Ended, LogRows, KeyRows, KeyLogRows

LEMMA TypeNext == TypeOK /\ [Next]_vars => TypeOK'
<1> SUFFICES ASSUME TypeOK, [Next]_vars PROVE TypeOK'
  OBVIOUS
<1> USE DEF remoteVars, stageVars, committed, pending, ctlVars
<1>1. ASSUME NEW s \in Sites, NEW sn \in Serials, SiteTest(s, sn) PROVE TypeOK'
  <2> DEFINE last == IF remote[s][sn] = NoRow THEN 0 ELSE remote[s][sn].date
  <2>1. PICK rf \in RfValues, listed \in Listings :
          remote' = [remote EXCEPT ![s][sn] =
                       [rf |-> rf, date |-> last + 1, listed |-> listed]]
    BY <1>1 DEF SiteTest
  <2>2. last + 1 \in 1..MaxDate
    BY <1>1, ConstantsAssumption DEF SiteTest, TypeOK, Units
  <2>3. [rf |-> rf, date |-> last + 1, listed |-> listed] \in Units
    BY <2>2 DEF Units
  <2>4. remote' \in [Sites -> [Serials -> Units \cup {NoRow}]]
    BY <2>1, <2>3 DEF TypeOK
  <2>5. tests' \in 0..MaxTests
    BY <1>1, ConstantsAssumption DEF SiteTest, TypeOK
  <2> QED BY <1>1, <2>4, <2>5 DEF SiteTest, TypeOK
<1>2. ASSUME NEW s \in Sites, NEW pcb \in Pcbs, SiteAllocate(s, pcb) PROVE TypeOK'
  BY <1>2, ConstantsAssumption DEF SiteAllocate, TypeOK
<1>3. ASSUME NEW c \in Calls, CallStep(c) PROVE TypeOK'
  <2> USE DEF Goto
  <2> DEFINE s == job[c].site
  <2>0. s \in Sites
    BY JobFields DEF TypeOK
  <2>00. \A t \in Sites, sn \in Serials :
           remote[t][sn] # NoRow => RowOf(remote[t][sn]) \in Rows
    BY DEF TypeOK, RowOf, Units, Rows
  <2>1. CASE Start(c)
    BY <2>1 DEF Start, TypeOK, Active, Ended, RefreshPcs, WritePcs
  <2>2. CASE TruncateSource(c)
    BY <2>2 DEF TruncateSource, TypeOK, NoRows, RefreshPcs
  <2>3. CASE FillSource(c)
    BY <2>3, <2>00 DEF FillSource, TypeOK, RefreshPcs
  <2>4. CASE TruncateUpdate(c)
    BY <2>4 DEF TruncateUpdate, TypeOK, NoRows, RefreshPcs
  <2>5. CASE FillUpdate(c)
    BY <2>5, <2>00 DEF FillUpdate, TypeOK, RefreshPcs
  <2>6. CASE TruncateSerial(c)
    BY <2>6 DEF TruncateSerial, TypeOK, RefreshPcs
  <2>7. CASE FillSerial(c)
    BY <2>7, <2>0 DEF FillSerial, TypeOK, WritePcs
  <2>8. CASE Insert(c)
    <3>1. gdirty' \in [Calls -> [Keys -> Rows \cup {NoRow}]]
      <4>1. \A sn \in Insertable(c) : src[s][sn] \in Rows \cup {NoRow}
        BY <2>0 DEF TypeOK, Insertable
      <4>2. Insertable(c) \in SUBSET Serials
        BY DEF Insertable
      <4> QED BY <4>1, <4>2, <2>8, AddRowsType DEF Insert
    <3> QED BY <2>8, <3>1 DEF Insert, TypeOK, WritePcs
  <2>9. CASE InsertFirstName(c)
    <3>1. gdirty' \in [Calls -> [Keys -> Rows \cup {NoRow}]]
      <4> DEFINE rows == [sn \in Serials |-> RowOf(remote[PH][sn])]
      <4>1. \A sn \in FirstNameInsertable(c) : rows[sn] \in Rows \cup {NoRow}
        BY <2>00, ConstantsAssumption DEF FirstNameInsertable, FirstNameOnly
      <4>2. FirstNameInsertable(c) \in SUBSET Serials
        BY DEF FirstNameInsertable, FirstNameOnly
      <4>3. AddRows(c, FirstNameInsertable(c), rows)
        BY <2>9 DEF InsertFirstName
      <4> HIDE DEF rows
      <4> QED BY <4>1, <4>2, <4>3, AddRowsType
    <3> QED BY <2>9, <3>1 DEF InsertFirstName, TypeOK, WritePcs
  <2>10. CASE LogTransferred(c)
    <3>1. ldirty' \in [Calls -> SUBSET LogRows]
      <4> DEFINE sns == {sn \in Transferred(c) : ~Logged(SeenLog(c), sn)}
      <4>1. sns \in SUBSET Serials
        BY DEF Transferred
      <4>2. AddLog(c, sns, "T")
        BY <2>10 DEF LogTransferred
      <4> HIDE DEF sns
      <4> QED BY <4>1, <4>2, AddLogType DEF Statuses
    <3> QED BY <2>10, <3>1 DEF LogTransferred, TypeOK, WritePcs
  <2>11. CASE Update(c)
    <3>1. \A k \in Updatable(c) : upd[s][k[2]] \in Rows \cup {NoRow}
      BY <2>0 DEF Updatable, TypeOK, Keys
    <3>2. gdirty' \in [Calls -> [Keys -> Rows \cup {NoRow}]]
      BY <2>11, <3>1 DEF Update, TypeOK
    <3> QED BY <2>11, <3>2 DEF Update, TypeOK, WritePcs
  <2>12. CASE LogRefreshed(c)
    <3>1. ldirty' \in [Calls -> SUBSET LogRows]
      <4> DEFINE sns == {sn \in Serials : /\ upd[job[c].site][sn] # NoRow
                                          /\ HasSerial(Seen(c), sn)
                                          /\ ~Logged(SeenLog(c), sn)}
      <4>1. sns \in SUBSET Serials
        OBVIOUS
      <4>2. AddLog(c, sns, "R")
        BY <2>12 DEF LogRefreshed
      <4> HIDE DEF sns
      <4> QED BY <4>1, <4>2, AddLogType DEF Statuses
    <3> QED BY <2>12, <3>1 DEF LogRefreshed, TypeOK, WritePcs
  <2>13. CASE InsertKeys(c)
    <3>1. PICK batch \in SUBSET ser[s] :
            kdirty' = [kdirty EXCEPT ![c] = @ \cup ({c} \X batch)]
      BY <2>13 DEF InsertKeys
    <3>2. {c} \X batch \subseteq KeyRows
      BY <2>0 DEF KeyRows, TypeOK
    <3>3. kdirty' \in [Calls -> SUBSET KeyRows]
      BY <3>1, <3>2 DEF TypeOK
    <3> QED BY <2>13, <3>3 DEF InsertKeys, TypeOK, WritePcs
  <2>14. CASE LogKeys(c)
    <3> DEFINE new == {[by |-> c, pcb |-> p, site |-> s] : p \in CopiedKeys(c)}
    <3>1. new \subseteq KeyLogRows
      BY <2>0 DEF KeyLogRows, TypeOK, CopiedKeys
    <3>2. kldirty' = [kldirty EXCEPT ![c] = @ \cup new]
      BY <2>14 DEF LogKeys
    <3> HIDE DEF new
    <3>3. kldirty' \in [Calls -> SUBSET KeyLogRows]
      BY <3>1, <3>2 DEF TypeOK
    <3> QED BY <2>14, <3>3 DEF LogKeys, TypeOK, WritePcs
  <2>15. CASE AuditEnd(c)
    BY <2>15 DEF AuditEnd, TypeOK, WritePcs
  <2>16. CASE Commit(c)
    <3>1. audit' \in [Calls -> {"none", "End", "Error"}]
      BY <2>16 DEF Commit, TypeOK
    <3> QED BY <2>16, <3>1, FlushType, ForgetType DEF Commit, TypeOK, Ended
  <2>17. CASE Rollback(c)
    BY <2>17, ForgetType DEF Rollback, TypeOK, Ended
  <2>18. CASE ErrorCommit(c)
    <3>1. audit' \in [Calls -> {"none", "End", "Error"}]
      BY <2>18 DEF ErrorCommit, TypeOK
    <3> QED BY <2>18, <3>1, FlushType, ForgetType DEF ErrorCommit, TypeOK, Ended
  <2> QED
    BY <1>3, <2>1, <2>2, <2>3, <2>4, <2>5, <2>6, <2>7, <2>8, <2>9, <2>10, <2>11,
       <2>12, <2>13, <2>14, <2>15, <2>16, <2>17, <2>18 DEF CallStep
<1>4. CASE UNCHANGED vars
  BY <1>4 DEF vars, TypeOK
<1> QED BY <1>1, <1>2, <1>3, <1>4 DEF Next

\* Every reachable state is well typed.
THEOREM TypeCorrect == Spec => []TypeOK
BY TypeInit, TypeNext, PTL DEF Spec

-----------------------------------------------------------------------------
(* NoLostUnit.  The invariant has to speak of the pending writes too: what *)
(* a call has logged but not committed has a row that this call sees, so   *)
(* that a commit, also the one of the error handler, carries both.         *)

Covered(table, log) == \A e \in log : HasSerial(table, e.sn)

UnitInv == NoLostUnit /\ \A c \in Calls : Covered(Seen(c), ldirty[c])

\* A table that keeps every row still covers the log.
LEMMA CoveredGrows ==
  ASSUME NEW log, NEW table, NEW wider, Covered(table, log),
         \A k \in Keys : table[k] # NoRow => wider[k] # NoRow,
         log \subseteq LogRows
  PROVE  Covered(wider, log)
<1> SUFFICES ASSUME NEW e \in log PROVE HasSerial(wider, e.sn)
  BY DEF Covered
<1>1. PICK by \in Calls : table[<<by, e.sn>>] # NoRow
  BY DEF Covered, HasSerial
<1>2. <<by, e.sn>> \in Keys
  BY DEF Keys, LogRows
<1> QED BY <1>1, <1>2 DEF HasSerial

\* A call sees every committed row.
LEMMA SeenGrows ==
  ASSUME NEW c \in Calls, NEW k \in Keys, glob[k] # NoRow
  PROVE  Seen(c)[k] # NoRow
BY DEF Seen

LEMMA UnitInvInit == Init => UnitInv
BY DEF Init, UnitInv, NoLostUnit, Covered

\* A statement that rewrites or adds pending rows loses none.
LEMMA UnitInvRows ==
  ASSUME TypeOK, UnitInv, NEW c \in Calls,
         UNCHANGED <<glob, tlog, ldirty>>,
         NEW new, gdirty' = [gdirty EXCEPT ![c] = new],
         \A k \in Keys : gdirty[c][k] # NoRow => new[k] # NoRow
  PROVE  UnitInv'
<1>1. NoLostUnit'
  BY DEF UnitInv, NoLostUnit, HasSerial
<1>2. ASSUME NEW d \in Calls PROVE Covered(Seen(d), ldirty[d])'
  <2>1. \A k \in Keys : Seen(d)[k] # NoRow => Seen(d)'[k] # NoRow
    BY DEF Seen, TypeOK
  <2>2. Covered(Seen(d), ldirty[d]) /\ ldirty[d] \subseteq LogRows
    BY DEF UnitInv, TypeOK
  <2>3. Covered(Seen(d)', ldirty[d])
    BY <2>1, <2>2, CoveredGrows
  <2> QED BY <2>3 DEF Covered, HasSerial
<1> QED BY <1>1, <1>2 DEF UnitInv

\* A log statement names only serials that its call sees in the table.
LEMMA UnitInvLog ==
  ASSUME TypeOK, UnitInv, NEW c \in Calls, NEW st,
         UNCHANGED <<glob, tlog, gdirty>>,
         NEW sns \in SUBSET Serials, AddLog(c, sns, st),
         \A sn \in sns : HasSerial(Seen(c), sn)
  PROVE  UnitInv'
<1>1. NoLostUnit'
  BY DEF UnitInv, NoLostUnit, HasSerial
<1>2. ASSUME NEW d \in Calls, NEW e \in ldirty'[d] PROVE HasSerial(Seen(d), e.sn)
  <2>1. CASE e \in ldirty[d]
    BY <2>1 DEF UnitInv, Covered
  <2>2. CASE e \notin ldirty[d]
    <3>1. d = c /\ e \in [by : {c}, sn : sns, site : {job[c].site}, st : {st}]
      BY <1>2, <2>2 DEF AddLog, TypeOK
    <3> QED BY <3>1
  <2> QED BY <2>1, <2>2
<1>3. \A d \in Calls : Seen(d)' = Seen(d)
  BY DEF Seen
<1> QED BY <1>1, <1>2, <1>3 DEF UnitInv, Covered, HasSerial

\* A commit makes rows and log durable together.
LEMMA UnitInvFlush ==
  ASSUME TypeOK, UnitInv, NEW c \in Calls, Flush(c), Forget(c)
  PROVE  UnitInv'
<1>1. \A k \in Keys : glob[k] # NoRow => glob'[k] # NoRow
  BY SeenGrows DEF Flush
<1>2. NoLostUnit'
  <2>1. Covered(glob', tlog)
    <3>1. Covered(glob, tlog) /\ tlog \subseteq LogRows
      BY DEF UnitInv, NoLostUnit, Covered, TypeOK
    <3> QED BY <1>1, <3>1, CoveredGrows
  <2>2. Covered(glob', ldirty[c])
    BY DEF UnitInv, Flush
  <2> QED BY <2>1, <2>2 DEF NoLostUnit, Covered, Flush, SeenLog, HasSerial
<1>3. ASSUME NEW d \in Calls PROVE Covered(Seen(d), ldirty[d])'
  <2>1. CASE d = c
    BY <2>1 DEF Forget, Covered, TypeOK
  <2>2. CASE d # c
    <3>1. gdirty'[d] = gdirty[d] /\ ldirty'[d] = ldirty[d]
      BY <2>2 DEF Forget, TypeOK
    <3>2. \A k \in Keys : Seen(d)[k] # NoRow => Seen(d)'[k] # NoRow
      BY <1>1, <3>1 DEF Seen
    <3>3. Covered(Seen(d), ldirty[d]) /\ ldirty[d] \subseteq LogRows
      BY DEF UnitInv, TypeOK
    <3>4. Covered(Seen(d)', ldirty[d])
      BY <3>2, <3>3, CoveredGrows
    <3> QED BY <3>1, <3>4 DEF Covered, HasSerial
  <2> QED BY <2>1, <2>2
<1> QED BY <1>2, <1>3 DEF UnitInv

LEMMA UnitInvRollback ==
  ASSUME TypeOK, UnitInv, NEW c \in Calls, Forget(c), UNCHANGED <<glob, tlog>>
  PROVE  UnitInv'
<1>1. NoLostUnit'
  BY DEF UnitInv, NoLostUnit, HasSerial
<1>2. ASSUME NEW d \in Calls PROVE Covered(Seen(d), ldirty[d])'
  <2>1. CASE d = c
    BY <2>1 DEF Forget, Covered, TypeOK
  <2>2. CASE d # c
    <3>1. gdirty'[d] = gdirty[d] /\ ldirty'[d] = ldirty[d]
      BY <2>2 DEF Forget, TypeOK
    <3>2. Seen(d)' = Seen(d)
      BY <3>1 DEF Seen
    <3> QED BY <3>1, <3>2 DEF UnitInv, Covered, HasSerial
  <2> QED BY <2>1, <2>2
<1> QED BY <1>1, <1>2 DEF UnitInv

LEMMA UnitInvNext == TypeOK /\ UnitInv /\ [Next]_vars => UnitInv'
<1> SUFFICES ASSUME TypeOK, UnitInv, [Next]_vars PROVE UnitInv'
  OBVIOUS
<1> USE DEF remoteVars, stageVars, committed, pending, ctlVars
<1>0. ASSUME UNCHANGED <<glob, tlog, gdirty, ldirty>> PROVE UnitInv'
  <2>1. \A d \in Calls : Seen(d)' = Seen(d)
    BY <1>0 DEF Seen
  <2> QED BY <1>0, <2>1 DEF UnitInv, NoLostUnit, Covered, HasSerial
<1>1. ASSUME NEW s \in Sites, NEW sn \in Serials, SiteTest(s, sn) PROVE UnitInv'
  BY <1>0, <1>1 DEF SiteTest
<1>2. ASSUME NEW s \in Sites, NEW pcb \in Pcbs, SiteAllocate(s, pcb) PROVE UnitInv'
  BY <1>0, <1>2 DEF SiteAllocate
<1>3. ASSUME NEW c \in Calls, CallStep(c) PROVE UnitInv'
  <2>1. CASE Start(c)
    BY <1>0, <2>1 DEF Start
  <2>2. CASE TruncateSource(c) \/ FillSource(c)
    BY <1>0, <2>2 DEF TruncateSource, FillSource
  <2>3. CASE TruncateUpdate(c) \/ FillUpdate(c)
    BY <1>0, <2>3 DEF TruncateUpdate, FillUpdate
  <2>4. CASE TruncateSerial(c) \/ FillSerial(c)
    BY <1>0, <2>4 DEF TruncateSerial, FillSerial
  <2>5. CASE Insert(c)
    <3> DEFINE new == [k \in Keys |-> IF k[1] = c /\ k[2] \in Insertable(c)
                                      THEN src[job[c].site][k[2]] ELSE gdirty[c][k]]
    <3>1. gdirty' = [gdirty EXCEPT ![c] = new]
      BY <2>5 DEF Insert, AddRows
    <3>2. \A k \in Keys : gdirty[c][k] # NoRow => new[k] # NoRow
      BY DEF Insertable
    <3>3. UNCHANGED <<glob, tlog, ldirty>>
      BY <2>5 DEF Insert
    <3> HIDE DEF new
    <3> QED BY <3>1, <3>2, <3>3, UnitInvRows
  <2>6. CASE InsertFirstName(c)
    <3> DEFINE rows == [sn \in Serials |-> RowOf(remote[PH][sn])]
               new == [k \in Keys |-> IF k[1] = c /\ k[2] \in FirstNameInsertable(c)
                                      THEN rows[k[2]] ELSE gdirty[c][k]]
    <3>1. gdirty' = [gdirty EXCEPT ![c] = new]
      BY <2>6 DEF InsertFirstName, AddRows
    <3>2. \A k \in Keys : gdirty[c][k] # NoRow => new[k] # NoRow
      <4>1. \A sn \in FirstNameInsertable(c) : rows[sn] \in Rows
        BY ConstantsAssumption
           DEF FirstNameInsertable, FirstNameOnly, RowOf, TypeOK, Units, Rows
      <4> HIDE DEF rows
      <4> QED BY <4>1, ConstantsAssumption
    <3>3. UNCHANGED <<glob, tlog, ldirty>>
      BY <2>6 DEF InsertFirstName
    <3> HIDE DEF new
    <3> QED BY <3>1, <3>2, <3>3, UnitInvRows
  <2>7. CASE LogTransferred(c)
    <3> DEFINE sns == {sn \in Transferred(c) : ~Logged(SeenLog(c), sn)}
    <3>1. sns \in SUBSET Serials /\ \A sn \in sns : HasSerial(Seen(c), sn)
      BY DEF Transferred
    <3>2. AddLog(c, sns, "T") /\ UNCHANGED <<glob, tlog, gdirty>>
      BY <2>7 DEF LogTransferred
    <3> HIDE DEF sns
    <3> QED BY <3>1, <3>2, UnitInvLog
  <2>8. CASE Update(c)
    <3> DEFINE new == [k \in Keys |-> IF k \in Updatable(c)
                                      THEN upd[job[c].site][k[2]] ELSE gdirty[c][k]]
    <3>1. gdirty' = [gdirty EXCEPT ![c] = new]
      BY <2>8 DEF Update
    <3>2. \A k \in Keys : gdirty[c][k] # NoRow => new[k] # NoRow
      BY DEF Updatable
    <3>3. UNCHANGED <<glob, tlog, ldirty>>
      BY <2>8 DEF Update
    <3> HIDE DEF new
    <3> QED BY <3>1, <3>2, <3>3, UnitInvRows
  <2>9. CASE LogRefreshed(c)
    <3> DEFINE sns == {sn \in Serials : /\ upd[job[c].site][sn] # NoRow
                                        /\ HasSerial(Seen(c), sn)
                                        /\ ~Logged(SeenLog(c), sn)}
    <3>1. sns \in SUBSET Serials /\ \A sn \in sns : HasSerial(Seen(c), sn)
      OBVIOUS
    <3>2. AddLog(c, sns, "R") /\ UNCHANGED <<glob, tlog, gdirty>>
      BY <2>9 DEF LogRefreshed
    <3> HIDE DEF sns
    <3> QED BY <3>1, <3>2, UnitInvLog
  <2>10. CASE InsertKeys(c)
    BY <1>0, <2>10 DEF InsertKeys
  <2>11. CASE LogKeys(c) \/ AuditEnd(c)
    BY <1>0, <2>11 DEF LogKeys, AuditEnd
  <2>12. CASE Commit(c)
    BY <2>12, UnitInvFlush DEF Commit
  <2>13. CASE Rollback(c)
    BY <2>13, UnitInvRollback DEF Rollback
  <2>14. CASE ErrorCommit(c)
    BY <2>14, UnitInvFlush DEF ErrorCommit
  <2> QED
    BY <1>3, <2>1, <2>2, <2>3, <2>4, <2>5, <2>6, <2>7, <2>8, <2>9, <2>10, <2>11,
       <2>12, <2>13, <2>14 DEF CallStep
<1>4. CASE UNCHANGED vars
  BY <1>0, <1>4 DEF vars
<1> QED BY <1>1, <1>2, <1>3, <1>4 DEF Next

\* Whatever statement fails and whatever the error handler commits, a unit the
\* transfer log names has its row in the global table.
THEOREM NoUnitIsLost == Spec => []NoLostUnit
<1>1. Init => TypeOK /\ UnitInv
  BY TypeInit, UnitInvInit
<1>2. TypeOK /\ UnitInv /\ [Next]_vars => (TypeOK /\ UnitInv)'
  BY TypeNext, UnitInvNext
<1>3. UnitInv => NoLostUnit
  BY DEF UnitInv
<1> QED BY <1>1, <1>2, <1>3, PTL DEF Spec

-----------------------------------------------------------------------------
(* NoLostKey, along the same argument.                                     *)

KeysCovered(rows, log) == \A e \in log : Allocated(rows, e.pcb)

KeyInv == NoLostKey /\ \A c \in Calls : KeysCovered(SeenKeys(c), kldirty[c])

LEMMA KeyInvInit == Init => KeyInv
BY DEF Init, KeyInv, NoLostKey, KeysCovered

LEMMA KeyInvFlush ==
  ASSUME TypeOK, KeyInv, NEW c \in Calls, Flush(c), Forget(c)
  PROVE  KeyInv'
<1>1. nkeys \subseteq nkeys'
  BY DEF Flush, SeenKeys
<1>2. NoLostKey'
  <2>1. KeysCovered(nkeys', klog)
    BY <1>1 DEF KeyInv, NoLostKey, KeysCovered, Allocated
  <2>2. KeysCovered(nkeys', kldirty[c])
    BY DEF KeyInv, Flush
  <2> QED BY <2>1, <2>2 DEF NoLostKey, KeysCovered, Flush, SeenKeyLog, Allocated
<1>3. ASSUME NEW d \in Calls PROVE KeysCovered(SeenKeys(d), kldirty[d])'
  <2>1. CASE d = c
    BY <2>1 DEF Forget, KeysCovered, TypeOK
  <2>2. CASE d # c
    <3>1. kdirty'[d] = kdirty[d] /\ kldirty'[d] = kldirty[d]
      BY <2>2 DEF Forget, TypeOK
    <3>2. SeenKeys(d) \subseteq SeenKeys(d)'
      BY <1>1, <3>1 DEF SeenKeys
    <3> QED BY <3>1, <3>2 DEF KeyInv, KeysCovered, Allocated
  <2> QED BY <2>1, <2>2
<1> QED BY <1>2, <1>3 DEF KeyInv

LEMMA KeyInvRollback ==
  ASSUME TypeOK, KeyInv, NEW c \in Calls, Forget(c), UNCHANGED <<nkeys, klog>>
  PROVE  KeyInv'
<1>1. NoLostKey'
  BY DEF KeyInv, NoLostKey, Allocated
<1>2. ASSUME NEW d \in Calls PROVE KeysCovered(SeenKeys(d), kldirty[d])'
  <2>1. CASE d = c
    BY <2>1 DEF Forget, KeysCovered, TypeOK
  <2>2. CASE d # c
    <3>1. kdirty'[d] = kdirty[d] /\ kldirty'[d] = kldirty[d]
      BY <2>2 DEF Forget, TypeOK
    <3> QED BY <3>1 DEF KeyInv, KeysCovered, Allocated, SeenKeys
  <2> QED BY <2>1, <2>2
<1> QED BY <1>1, <1>2 DEF KeyInv

LEMMA KeyInvNext == TypeOK /\ KeyInv /\ [Next]_vars => KeyInv'
<1> SUFFICES ASSUME TypeOK, KeyInv, [Next]_vars PROVE KeyInv'
  OBVIOUS
<1> USE DEF remoteVars, stageVars, committed, pending, ctlVars
<1>0. ASSUME UNCHANGED <<nkeys, klog, kdirty, kldirty>> PROVE KeyInv'
  BY <1>0 DEF KeyInv, NoLostKey, KeysCovered, Allocated, SeenKeys
<1>1. ASSUME NEW s \in Sites, NEW sn \in Serials, SiteTest(s, sn) PROVE KeyInv'
  BY <1>0, <1>1 DEF SiteTest
<1>2. ASSUME NEW s \in Sites, NEW pcb \in Pcbs, SiteAllocate(s, pcb) PROVE KeyInv'
  BY <1>0, <1>2 DEF SiteAllocate
<1>3. ASSUME NEW c \in Calls, CallStep(c) PROVE KeyInv'
  <2>1. CASE Start(c)
    BY <1>0, <2>1 DEF Start
  <2>2. CASE TruncateSource(c) \/ FillSource(c)
    BY <1>0, <2>2 DEF TruncateSource, FillSource
  <2>3. CASE TruncateUpdate(c) \/ FillUpdate(c)
    BY <1>0, <2>3 DEF TruncateUpdate, FillUpdate
  <2>4. CASE TruncateSerial(c) \/ FillSerial(c)
    BY <1>0, <2>4 DEF TruncateSerial, FillSerial
  <2>5. CASE Insert(c) \/ InsertFirstName(c) \/ Update(c)
    BY <1>0, <2>5 DEF Insert, InsertFirstName, Update
  <2>6. CASE LogTransferred(c) \/ LogRefreshed(c) \/ AuditEnd(c)
    BY <1>0, <2>6 DEF LogTransferred, LogRefreshed, AuditEnd
  <2>7. CASE InsertKeys(c)
    <3>1. UNCHANGED <<nkeys, klog, kldirty>>
      BY <2>7 DEF InsertKeys
    <3>2. \A d \in Calls : SeenKeys(d) \subseteq SeenKeys(d)'
      BY <2>7 DEF InsertKeys, SeenKeys, TypeOK
    <3> QED BY <3>1, <3>2 DEF KeyInv, NoLostKey, KeysCovered, Allocated
  <2>8. CASE LogKeys(c)
    <3> DEFINE new == {[by |-> c, pcb |-> p, site |-> job[c].site] : p \in CopiedKeys(c)}
    <3>1. UNCHANGED <<nkeys, klog, kdirty>>
      BY <2>8 DEF LogKeys
    <3>2. kldirty' = [kldirty EXCEPT ![c] = @ \cup new]
      BY <2>8 DEF LogKeys
    <3>3. \A e \in new : Allocated(SeenKeys(c), e.pcb)
      BY DEF CopiedKeys
    <3> HIDE DEF new
    <3>4. ASSUME NEW d \in Calls, NEW e \in kldirty'[d]
          PROVE  Allocated(SeenKeys(d), e.pcb)
      <4>1. CASE e \in kldirty[d]
        BY <4>1 DEF KeyInv, KeysCovered
      <4>2. CASE e \notin kldirty[d]
        <5>1. d = c /\ e \in new
          BY <3>2, <3>4, <4>2 DEF TypeOK
        <5> QED BY <3>3, <5>1
      <4> QED BY <4>1, <4>2
    <3> QED BY <3>1, <3>4 DEF KeyInv, NoLostKey, KeysCovered, Allocated, SeenKeys
  <2>9. CASE Commit(c)
    BY <2>9, KeyInvFlush DEF Commit
  <2>10. CASE Rollback(c)
    BY <2>10, KeyInvRollback DEF Rollback
  <2>11. CASE ErrorCommit(c)
    BY <2>11, KeyInvFlush DEF ErrorCommit
  <2> QED
    BY <1>3, <2>1, <2>2, <2>3, <2>4, <2>5, <2>6, <2>7, <2>8, <2>9, <2>10, <2>11
       DEF CallStep
<1>4. CASE UNCHANGED vars
  BY <1>0, <1>4 DEF vars
<1> QED BY <1>1, <1>2, <1>3, <1>4 DEF Next

\* A PCB that the serial log names has been allocated.
THEOREM NoKeyIsLost == Spec => []NoLostKey
<1>1. Init => TypeOK /\ KeyInv
  BY TypeInit, KeyInvInit
<1>2. TypeOK /\ KeyInv /\ [Next]_vars => (TypeOK /\ KeyInv)'
  BY TypeNext, KeyInvNext
<1>3. KeyInv => NoLostKey
  BY DEF KeyInv
<1> QED BY <1>1, <1>2, <1>3, PTL DEF Spec

-----------------------------------------------------------------------------
(* SerialTwiceOnlyByOverlap.  Pending rows count as much as committed ones *)
(* (HasRow); a call that is not open has none; and a pending row under the *)
(* key of another call is an update of a row that call has committed.      *)

HasRow(a, sn) == glob[<<a, sn>>] # NoRow \/ gdirty[a][<<a, sn>>] # NoRow

OverlapInv ==
  /\ \A a \in Calls : pc[a] \in Ended => \A k \in Keys : gdirty[a][k] = NoRow
  /\ \A a \in Calls : pc[a] = "idle" => met[a] = {}
  /\ \A a, b \in Calls : a # b /\ {a, b} \subseteq Active => b \in met[a]
  /\ \A a, b \in Calls, sn \in Serials :
       a # b /\ gdirty[b][<<a, sn>>] # NoRow => glob[<<a, sn>>] # NoRow
  /\ \A a, b \in Calls, sn \in Serials :
       a # b /\ HasRow(a, sn) /\ HasRow(b, sn) => b \in met[a]

\* No call opens or ends in this step.
Stays ==
  \A d \in Calls : pc'[d] = pc[d] \/ (pc[d] \notin Ended /\ pc'[d] \notin Ended)

LEMMA OverlapInit == Init => OverlapInv
BY DEF Init, OverlapInv, HasRow, NoDirty, Keys, Active, Ended

\* A step of an open call that neither ends it nor touches the tables.
LEMMA OverlapQuiet ==
  ASSUME TypeOK, OverlapInv, UNCHANGED <<glob, gdirty, met>>,
         Stays
  PROVE  OverlapInv'
BY DEF OverlapInv, HasRow, Active, Stays, Ended

\* The insert statements add a row only for a serial the call sees nowhere.
LEMMA OverlapAddRows ==
  ASSUME TypeOK, OverlapInv, NEW c \in Active,
         NEW sns \in SUBSET Serials, NEW rows, AddRows(c, sns, rows),
         \A sn \in sns : ~HasSerial(Seen(c), sn),
         UNCHANGED <<glob, met>>,
         Stays
  PROVE  OverlapInv'
<1>1. c \in Calls
  BY DEF Active
<1>2. \A d \in Calls, k \in Keys :
        gdirty'[d][k] # gdirty[d][k] => d = c /\ k[1] = c /\ k[2] \in sns
  BY <1>1 DEF AddRows, TypeOK
<1>3. \A sn \in sns, b \in Calls : glob[<<b, sn>>] = NoRow
  BY SeenGrows, <1>1 DEF HasSerial, Keys
<1>4. ASSUME NEW a \in Calls, pc'[a] \in Ended PROVE \A k \in Keys : gdirty'[a][k] = NoRow
  BY <1>2, <1>4 DEF OverlapInv, Active, Stays
<1>5. ASSUME NEW a \in Calls, NEW b \in Calls, NEW sn \in Serials,
             a # b, gdirty'[b][<<a, sn>>] # NoRow
      PROVE  glob'[<<a, sn>>] # NoRow
  <2>1. <<a, sn>> \in Keys
    BY DEF Keys
  <2>2. gdirty'[b][<<a, sn>>] = gdirty[b][<<a, sn>>]
    BY <1>2, <1>5, <2>1
  <2> QED BY <1>5, <2>2 DEF OverlapInv
<1>6. ASSUME NEW a \in Calls, NEW b \in Calls, NEW sn \in Serials,
             a # b, HasRow(a, sn)', HasRow(b, sn)'
      PROVE  b \in met'[a]
  <2>1. <<a, sn>> \in Keys /\ <<b, sn>> \in Keys
    BY DEF Keys
  <2>2. ASSUME NEW d \in Calls, HasRow(d, sn)', ~HasRow(d, sn) PROVE d = c /\ sn \in sns
    <3>1. <<d, sn>> \in Keys
      BY DEF Keys
    <3> QED BY <1>2, <2>2, <3>1 DEF HasRow
  <2>3. CASE HasRow(a, sn) /\ HasRow(b, sn)
    BY <1>6, <2>3 DEF OverlapInv
  <2>4. CASE ~HasRow(a, sn) \/ ~HasRow(b, sn)
    <3>1. PICK e \in {a, b} : HasRow(e, sn) \/ e = c
      BY <1>6, <2>2
    <3>2. c \in {a, b} /\ sn \in sns
      BY <1>6, <2>2, <2>4
    <3>3. \A d \in {a, b} : d # c => d \in Active
      <4> TAKE d \in {a, b}
      <4> HAVE d # c
      <4>1. HasRow(d, sn)
        BY <1>6, <2>2
      <4>2. gdirty[d][<<d, sn>>] # NoRow
        BY <1>3, <3>2, <4>1 DEF HasRow
      <4> QED BY <4>2, <2>1 DEF OverlapInv, Active
    <3>4. {a, b} \subseteq Active
      BY <3>3
    <3> QED BY <1>6, <3>4 DEF OverlapInv
  <2> QED BY <2>3, <2>4
<1> QED BY <1>4, <1>5, <1>6 DEF OverlapInv, Active, Stays, Ended

\* An update rewrites rows the call sees.
LEMMA OverlapUpdate ==
  ASSUME TypeOK, OverlapInv, NEW c \in Calls, Update(c)
  PROVE  OverlapInv'
<1>0. c \in Active /\ UNCHANGED <<glob, met>>
      /\ Stays
  BY DEF Update, Goto, TypeOK, Active, Ended, committed, Stays
<1>1. \A d \in Calls, k \in Keys :
        gdirty'[d][k] # gdirty[d][k] => d = c /\ Seen(c)[k] # NoRow
  BY DEF Update, Updatable, TypeOK
<1>2. \A d \in Calls, k \in Keys :
        gdirty'[d][k] # NoRow => gdirty[d][k] # NoRow \/ (d = c /\ glob[k] # NoRow)
  BY <1>1 DEF Seen
<1>3. \A a, b \in Calls, sn \in Serials :
        a # b /\ gdirty'[b][<<a, sn>>] # NoRow => glob'[<<a, sn>>] # NoRow
  BY <1>0, <1>2 DEF OverlapInv, Keys
<1>4. \A a \in Calls, sn \in Serials : HasRow(a, sn)' => HasRow(a, sn)
  BY <1>0, <1>2 DEF HasRow, Keys
<1>5. \A a \in Calls : pc'[a] \in Ended => \A k \in Keys : gdirty'[a][k] = NoRow
  BY <1>0, <1>1 DEF OverlapInv, Active, Stays
<1> QED BY <1>0, <1>3, <1>4, <1>5 DEF OverlapInv, Active, Stays, Ended

\* The end of a call moves its pending rows under their own keys, or drops them.
LEMMA OverlapEnd ==
  ASSUME TypeOK, OverlapInv, NEW c \in Active, Forget(c), UNCHANGED met,
         glob' = glob \/ glob' = Seen(c),
         NEW end \in {"done", "raised"}, pc' = [pc EXCEPT ![c] = end]
  PROVE  OverlapInv'
<1>0. c \in Calls
  BY DEF Active
<1>1. \A d \in Calls : gdirty'[d] = IF d = c THEN NoDirty ELSE gdirty[d]
  BY DEF Forget, TypeOK
<1>2. \A k \in Keys : glob[k] # NoRow => glob'[k] # NoRow
  BY <1>0, SeenGrows
<1>3. \A a \in Calls, sn \in Serials : glob'[<<a, sn>>] # NoRow => HasRow(a, sn)
  BY <1>0 DEF Seen, HasRow, OverlapInv, Keys
<1>4. \A a \in Calls, sn \in Serials : HasRow(a, sn)' => HasRow(a, sn)
  BY <1>1, <1>3 DEF HasRow, NoDirty, Keys
<1>5. \A a \in Calls : pc'[a] \in Ended => \A k \in Keys : gdirty'[a][k] = NoRow
  BY <1>0, <1>1 DEF OverlapInv, NoDirty, TypeOK, Active
<1>6. \A a, b \in Calls, sn \in Serials :
        a # b /\ gdirty'[b][<<a, sn>>] # NoRow => glob'[<<a, sn>>] # NoRow
  BY <1>1, <1>2 DEF OverlapInv, NoDirty, Keys
<1>7. Active' \subseteq Active
  BY DEF Active, TypeOK, Ended
<1>8. \A a \in Calls : pc'[a] = "idle" => pc[a] = "idle"
  BY DEF TypeOK
<1> QED BY <1>8, <1>4, <1>5, <1>6, <1>7 DEF OverlapInv

LEMMA OverlapNext == TypeOK /\ OverlapInv /\ [Next]_vars => OverlapInv'
<1> SUFFICES ASSUME TypeOK, OverlapInv, [Next]_vars PROVE OverlapInv'
  OBVIOUS
<1> USE DEF remoteVars, stageVars, committed, pending, ctlVars
<1>1. ASSUME NEW s \in Sites, NEW sn \in Serials, SiteTest(s, sn) PROVE OverlapInv'
  BY <1>1, OverlapQuiet DEF SiteTest, Stays
<1>2. ASSUME NEW s \in Sites, NEW pcb \in Pcbs, SiteAllocate(s, pcb) PROVE OverlapInv'
  BY <1>2, OverlapQuiet DEF SiteAllocate, Stays
<1>3. ASSUME NEW c \in Calls, CallStep(c) PROVE OverlapInv'
  <2>0. ASSUME NEW here, NEW there, Goto(c, here, there),
               here \notin Ended, there \notin Ended
        PROVE  Stays /\ c \in Active
    BY <2>0 DEF Goto, TypeOK, Active, Stays
  <2>1. CASE Start(c)
    <3>1. UNCHANGED <<glob, gdirty>>
      BY <2>1 DEF Start
    <3>2. Active' = Active \cup {c} /\ c \notin Active
      BY <2>1 DEF Start, Active, Ended, TypeOK
    <3>3. \A a \in Calls : met[a] \subseteq met'[a]
      BY <2>1 DEF Start, OverlapInv
    <3>4. \A a, b \in Active' : a # b => b \in met'[a]
      BY <2>1, <3>2 DEF Start, OverlapInv, Active
    <3>5. \A a \in Calls : pc'[a] = "idle" => met'[a] = {}
      BY <2>1 DEF OverlapInv, Start, Active, Ended, TypeOK
    <3> QED BY <3>1, <3>2, <3>3, <3>4, <3>5 DEF OverlapInv, HasRow, Active
  <2>2. CASE TruncateSource(c) \/ FillSource(c)
    BY <2>0, <2>2, OverlapQuiet DEF TruncateSource, FillSource, Ended
  <2>3. CASE TruncateUpdate(c) \/ FillUpdate(c)
    BY <2>0, <2>3, OverlapQuiet DEF TruncateUpdate, FillUpdate, Ended
  <2>4. CASE TruncateSerial(c) \/ FillSerial(c)
    BY <2>0, <2>4, OverlapQuiet DEF TruncateSerial, FillSerial, Ended
  <2>5. CASE Insert(c)
    <3>1. Stays /\ c \in Active
      BY <2>0, <2>5 DEF Insert, Ended
    <3>2. Insertable(c) \in SUBSET Serials
          /\ \A sn \in Insertable(c) : ~HasSerial(Seen(c), sn)
      BY DEF Insertable
    <3> QED BY <2>5, <3>1, <3>2, OverlapAddRows DEF Insert
  <2>6. CASE InsertFirstName(c)
    <3>1. Stays /\ c \in Active
      BY <2>0, <2>6 DEF InsertFirstName, Ended
    <3>2. FirstNameInsertable(c) \in SUBSET Serials
          /\ \A sn \in FirstNameInsertable(c) : ~HasSerial(Seen(c), sn)
      BY DEF FirstNameInsertable, FirstNameOnly
    <3> QED BY <2>6, <3>1, <3>2, OverlapAddRows DEF InsertFirstName
  <2>7. CASE Update(c)
    BY <2>7, OverlapUpdate
  <2>8. CASE LogTransferred(c) \/ LogRefreshed(c)
    BY <2>0, <2>8, OverlapQuiet DEF LogTransferred, LogRefreshed, Ended
  <2>9. CASE InsertKeys(c) \/ LogKeys(c) \/ AuditEnd(c)
    BY <2>0, <2>9, OverlapQuiet DEF InsertKeys, LogKeys, AuditEnd, Ended
  <2>10. CASE Commit(c)
    <3>1. c \in Active
      BY <2>10 DEF Commit, Goto, Active, Ended
    <3>2. PICK there \in {"done", "raised"} : Goto(c, "commit", there)
      BY <2>10 DEF Commit
    <3> QED BY <2>10, <3>1, <3>2, OverlapEnd DEF Commit, Flush, Goto, Ended
  <2>11. CASE Rollback(c)
    BY <2>11, OverlapEnd DEF Rollback, Ended
  <2>12. CASE ErrorCommit(c)
    BY <2>12, OverlapEnd DEF ErrorCommit, Flush, Ended
  <2> QED
    BY <1>3, <2>1, <2>2, <2>3, <2>4, <2>5, <2>6, <2>7, <2>8, <2>9, <2>10, <2>11, <2>12
       DEF CallStep
<1>4. CASE UNCHANGED vars
  BY <1>4, OverlapQuiet DEF vars, Stays
<1> QED BY <1>1, <1>2, <1>3, <1>4 DEF Next

\* Only calls that were open together can both have inserted a serial.
THEOREM SerialTwiceNeedsOverlap == Spec => []SerialTwiceOnlyByOverlap
<1>1. Init => TypeOK /\ OverlapInv
  BY TypeInit, OverlapInit
<1>2. TypeOK /\ OverlapInv /\ [Next]_vars => (TypeOK /\ OverlapInv)'
  BY TypeNext, OverlapNext
<1>3. OverlapInv => SerialTwiceOnlyByOverlap
  BY DEF OverlapInv, SerialTwiceOnlyByOverlap, HasRow
<1> QED BY <1>1, <1>2, <1>3, PTL DEF Spec

-----------------------------------------------------------------------------
(* What a step of one call leaves alone of the others; used by the proofs  *)
(* below.                                                                  *)

\* What was read, written and noted for call d is not touched by call c, and
\* committed rows and log lines stay.
Untouched(d) ==
  /\ pc'[d] = pc[d] /\ audit'[d] = audit[d]
  /\ gdirty'[d] = gdirty[d] /\ ldirty'[d] = ldirty[d]
  /\ kdirty'[d] = kdirty[d] /\ kldirty'[d] = kldirty[d]

Grows ==
  /\ job' = job /\ \A d \in Calls : met[d] \subseteq met'[d]
  /\ tlog \subseteq tlog' /\ nkeys \subseteq nkeys' /\ klog \subseteq klog'

LEMMA OthersUntouched ==
  ASSUME TypeOK, OverlapInv, NEW c \in Calls, CallStep(c)
  PROVE  Grows /\ \A d \in Calls : d # c => Untouched(d)
<1> USE DEF Grows, Untouched, remoteVars, stageVars, committed, pending, TypeOK
<1>1. CASE Start(c)
  BY <1>1 DEF Start, OverlapInv
<1>2. CASE TruncateSource(c) \/ FillSource(c) \/ TruncateUpdate(c)
  BY <1>2 DEF TruncateSource, FillSource, TruncateUpdate, Goto
<1>3. CASE FillUpdate(c) \/ TruncateSerial(c) \/ FillSerial(c)
  BY <1>3 DEF FillUpdate, TruncateSerial, FillSerial, Goto
<1>4. CASE Insert(c) \/ InsertFirstName(c) \/ Update(c)
  BY <1>4 DEF Insert, InsertFirstName, Update, AddRows, Goto
<1>5. CASE LogTransferred(c) \/ LogRefreshed(c)
  BY <1>5 DEF LogTransferred, LogRefreshed, AddLog, Goto
<1>6. CASE InsertKeys(c) \/ LogKeys(c) \/ AuditEnd(c)
  BY <1>6 DEF InsertKeys, LogKeys, AuditEnd, Goto
<1>7. CASE Commit(c)
  BY <1>7 DEF Commit, Flush, Forget, Goto, SeenLog, SeenKeys, SeenKeyLog
<1>8. CASE Rollback(c)
  BY <1>8 DEF Rollback, Forget
<1>9. CASE ErrorCommit(c)
  BY <1>9 DEF ErrorCommit, Flush, Forget, SeenLog, SeenKeys, SeenKeyLog
<1> QED
  BY <1>1, <1>2, <1>3, <1>4, <1>5, <1>6, <1>7, <1>8, <1>9 DEF CallStep

\* A call commits no first row under the key of another.
LEMMA OthersAddNoRow ==
  ASSUME TypeOK, OverlapInv, NEW c \in Calls, CallStep(c),
         NEW d \in Calls, d # c, NEW sn \in Serials, glob[<<d, sn>>] = NoRow
  PROVE  glob'[<<d, sn>>] = NoRow
<1> USE DEF stageVars, committed
<1>1. glob' = glob \/ glob' = Seen(c)
  BY DEF CallStep, Start, TruncateSource, FillSource, TruncateUpdate, FillUpdate,
         TruncateSerial, FillSerial, Insert, InsertFirstName, LogTransferred, Update,
         LogRefreshed, InsertKeys, LogKeys, AuditEnd, Commit, Flush, Rollback, ErrorCommit
<1>2. <<d, sn>> \in Keys
  BY DEF Keys
<1> QED BY <1>1, <1>2 DEF Seen, OverlapInv

-----------------------------------------------------------------------------
(* EndedCallLogsItsRows.  A call's own rows are pending until it ends.     *)
(* While no refresh of its site runs beside it, what it inserted stays     *)
(* staged until its log statement has named it.                            *)

\* Only a force refresh refreshes the views and copies keys; a call commits its
\* record when it ends.
KindAt(c) ==
  /\ pc[c] \in RefreshPcs \cup {"keys", "logKeys", "audit"} => job[c].kind = "force"
  /\ pc[c] = "firstName" => job[c].kind = "ph"
  /\ pc[c] \notin {"done", "raised"} => audit[c] = "none"

OwnRowAt(c, sn) ==
  /\ pc[c] \notin {"done", "raised"} => glob[<<c, sn>>] = NoRow
  /\ pc[c] \in RefreshPcs \cup {"insert"} => gdirty[c][<<c, sn>>] = NoRow
  /\ job[c].kind # "ph" /\ Undisturbed(c) /\ gdirty[c][<<c, sn>>] # NoRow =>
       IF pc[c] = "log"
       THEN src[job[c].site][sn] # NoRow /\ InList(c, gdirty[c][<<c, sn>>].rf)
       ELSE Logged(SeenLog(c), sn)

LogInv ==
  /\ \A c \in Calls : KindAt(c)
  /\ \A c \in Calls, sn \in Serials : OwnRowAt(c, sn)
  /\ EndedCallLogsItsRows

\* No refresh runs beside a call that is not disturbed.
LEMMA UndisturbedStage ==
  ASSUME TypeOK, OverlapInv, NEW c \in Calls, CallStep(c), KindAt(c),
         pc[c] \in RefreshPcs,
         NEW d \in Active, d # c, Undisturbed(d)
  PROVE  job[c].site # job[d].site
<1>1. c \in Active /\ d \in Calls
  BY DEF Active, RefreshPcs, Ended
<1>2. c \in met[d]
  BY <1>1 DEF OverlapInv
<1> QED BY <1>2 DEF Undisturbed, KindAt

LEMMA OthersStage ==
  ASSUME TypeOK, OverlapInv, NEW c \in Calls, CallStep(c), KindAt(c),
         NEW d \in Active, d # c, Undisturbed(d)
  PROVE  /\ src'[job[d].site] = src[job[d].site]
         /\ upd'[job[d].site] = upd[job[d].site]
         /\ ser'[job[d].site] = ser[job[d].site]
<1> USE DEF stageVars, TypeOK
<1>0. job[d].site \in Sites
  BY JobFields DEF Active
<1>1. pc[c] \in RefreshPcs => job[c].site # job[d].site
  BY UndisturbedStage
<1>2. CASE TruncateSource(c) \/ FillSource(c) \/ TruncateUpdate(c)
  BY <1>0, <1>1, <1>2 DEF TruncateSource, FillSource, TruncateUpdate, Goto, RefreshPcs
<1>3. CASE FillUpdate(c) \/ TruncateSerial(c) \/ FillSerial(c)
  BY <1>0, <1>1, <1>3 DEF FillUpdate, TruncateSerial, FillSerial, Goto, RefreshPcs
<1>4. CASE UNCHANGED stageVars
  BY <1>4
<1> QED
  BY <1>2, <1>3, <1>4
     DEF CallStep, Start, Insert, InsertFirstName, LogTransferred, Update,
         LogRefreshed, InsertKeys, LogKeys, AuditEnd, Commit, Rollback, ErrorCommit

LEMMA KindNext ==
  ASSUME TypeOK, \A d \in Calls : KindAt(d), NEW c \in Calls, CallStep(c),
         Grows, \A d \in Calls : d # c => Untouched(d)
  PROVE  \A d \in Calls : KindAt(d)'
<1>1. ASSUME NEW d \in Calls, d # c PROVE KindAt(d)'
  BY <1>1 DEF KindAt, Untouched, Grows
<1>2. KindAt(c)'
  <2> USE DEF KindAt, RefreshPcs, Grows, Goto, TypeOK, committed, Active, Ended
  <2>1. CASE Start(c)
    BY <2>1 DEF Start
  <2>2. CASE TruncateSource(c) \/ FillSource(c) \/ TruncateUpdate(c)
    BY <2>2 DEF TruncateSource, FillSource, TruncateUpdate
  <2>3. CASE FillUpdate(c) \/ TruncateSerial(c) \/ FillSerial(c)
    BY <2>3 DEF FillUpdate, TruncateSerial, FillSerial
  <2>4. CASE Insert(c) \/ InsertFirstName(c) \/ Update(c)
    BY <2>4, ZenonT(30) DEF Insert, InsertFirstName, Update
  <2>5. CASE LogTransferred(c) \/ LogRefreshed(c)
    BY <2>5 DEF LogTransferred, LogRefreshed
  <2>6. CASE InsertKeys(c) \/ LogKeys(c) \/ AuditEnd(c)
    BY <2>6 DEF InsertKeys, LogKeys, AuditEnd
  <2>7. CASE Commit(c) \/ Rollback(c) \/ ErrorCommit(c)
    BY <2>7 DEF Commit, Rollback, ErrorCommit
  <2> QED BY <2>1, <2>2, <2>3, <2>4, <2>5, <2>6, <2>7 DEF CallStep
<1> QED BY <1>1, <1>2

\* The rows of another call stay as logged as they were.
LEMMA OwnRowOthers ==
  ASSUME TypeOK, OverlapInv, NEW c \in Calls, CallStep(c), KindAt(c),
         Grows, NEW d \in Calls, d # c, Untouched(d),
         NEW sn \in Serials, OwnRowAt(d, sn)
  PROVE  OwnRowAt(d, sn)'
<1> USE DEF OwnRowAt, Untouched, Grows
<1>1. pc[d] \notin {"done", "raised"} => glob'[<<d, sn>>] = NoRow
  BY OthersAddNoRow
<1>2. Undisturbed(d)' => Undisturbed(d)
  BY DEF Undisturbed
<1>3. pc[d] = "log" /\ Undisturbed(d) => src'[job[d].site] = src[job[d].site]
  BY OthersStage DEF Active, Ended
<1>4. Logged(SeenLog(d), sn) => Logged(SeenLog(d), sn)'
  BY DEF Logged, SeenLog
<1>5. \A r : InList(d, r)' = InList(d, r)
  BY DEF InList
<1> QED BY <1>1, <1>2, <1>3, <1>4, <1>5

\* A step of call c that adds no row under the key of c keeps the log it has.
LEMMA OwnRowQuiet ==
  ASSUME TypeOK, NEW c \in Calls, NEW sn \in Serials, OwnRowAt(c, sn), Grows,
         glob'[<<c, sn>>] = glob[<<c, sn>>],
         pc[c] \notin {"idle", "done", "raised", "log"},
         pc'[c] \notin {"idle", "done", "raised", "log"},
         pc'[c] \in RefreshPcs \cup {"insert"} => pc[c] \in RefreshPcs,
         gdirty'[c][<<c, sn>>] # NoRow => gdirty[c][<<c, sn>>] # NoRow,
         ldirty[c] \subseteq ldirty'[c]
  PROVE  OwnRowAt(c, sn)'
<1>1. Undisturbed(c)' => Undisturbed(c)
  BY DEF Undisturbed, Grows
<1>2. Logged(SeenLog(c), sn) => Logged(SeenLog(c), sn)'
  BY DEF Logged, SeenLog, Grows
<1> QED BY <1>1, <1>2 DEF OwnRowAt, Grows

\* What Insert adds is staged and on the list of its call.
LEMMA OwnRowInsert ==
  ASSUME TypeOK, NEW c \in Calls, NEW sn \in Serials, OwnRowAt(c, sn), Grows, Insert(c)
  PROVE  OwnRowAt(c, sn)'
<1> USE DEF Insert, committed, stageVars
<1>1. pc[c] = "insert" /\ pc'[c] = (IF job[c].kind = "ph" THEN "firstName" ELSE "log")
  BY DEF Goto, TypeOK
<1>2. gdirty[c][<<c, sn>>] = NoRow
  BY <1>1 DEF OwnRowAt
<1>3. <<c, sn>> \in Keys
  BY DEF Keys
<1>4. gdirty'[c][<<c, sn>>] = IF sn \in Insertable(c) THEN src[job[c].site][sn] ELSE NoRow
  BY <1>2, <1>3 DEF AddRows, TypeOK
<1>5. gdirty'[c][<<c, sn>>] # NoRow =>
        src'[job'[c].site][sn] # NoRow /\ InList(c, gdirty[c][<<c, sn>>].rf)'
  BY <1>4 DEF Insertable, InList
<1> QED BY <1>1, <1>5 DEF OwnRowAt, RefreshPcs

\* The log statement names every row its call has inserted.
LEMMA OwnRowLog ==
  ASSUME TypeOK, NEW c \in Calls, NEW sn \in Serials, OwnRowAt(c, sn), Grows,
         LogTransferred(c)
  PROVE  OwnRowAt(c, sn)'
<1> USE DEF LogTransferred, committed, stageVars
<1>1. pc[c] = "log" /\ pc'[c] = (IF job[c].kind = "ph" THEN "commit" ELSE "update")
  BY DEF Goto, TypeOK
<1>2. Undisturbed(c)' => Undisturbed(c)
  BY DEF Undisturbed, Grows
<1>3. ASSUME job[c].kind # "ph", Undisturbed(c), gdirty[c][<<c, sn>>] # NoRow
      PROVE  Logged(SeenLog(c), sn)'
  <2>1. src[job[c].site][sn] # NoRow /\ InList(c, gdirty[c][<<c, sn>>].rf)
    BY <1>1, <1>3 DEF OwnRowAt
  <2>2. Seen(c)[<<c, sn>>] = gdirty[c][<<c, sn>>]
    BY <1>3 DEF Seen, Keys
  <2>3. sn \in Transferred(c)
    BY <1>3, <2>1, <2>2 DEF Transferred, HasSerial, InList
  <2>4. CASE Logged(SeenLog(c), sn)
    BY <2>4 DEF Logged, SeenLog, AddLog, TypeOK
  <2>5. CASE ~Logged(SeenLog(c), sn)
    <3> DEFINE sns == {x \in Transferred(c) : ~Logged(SeenLog(c), x)}
               e == [by |-> c, sn |-> sn, site |-> job[c].site, st |-> "T"]
    <3>1. sn \in sns
      BY <2>3, <2>5
    <3>2. AddLog(c, sns, "T")
      OBVIOUS
    <3> HIDE DEF sns
    <3>3. e \in ldirty'[c]
      BY <3>1, <3>2 DEF AddLog, TypeOK
    <3> QED BY <3>3 DEF Logged, SeenLog
  <2> QED BY <2>4, <2>5
<1> QED BY <1>1, <1>2, <1>3 DEF OwnRowAt, RefreshPcs, Grows

LEMMA OwnRowNext ==
  ASSUME TypeOK, OverlapInv, LogInv, NEW c \in Calls, CallStep(c), Grows,
         NEW sn \in Serials
  PROVE  OwnRowAt(c, sn)'
<1> USE DEF remoteVars, stageVars, committed, pending, TypeOK, Goto
<1>0. OwnRowAt(c, sn) /\ KindAt(c) /\ <<c, sn>> \in Keys
  BY DEF LogInv, Keys
<1>1. CASE Start(c)
  BY <1>0, <1>1 DEF Start, OwnRowAt, OverlapInv, Ended, RefreshPcs
<1>2. CASE TruncateSource(c) \/ FillSource(c) \/ TruncateUpdate(c)
  BY <1>0, <1>2, OwnRowQuiet DEF TruncateSource, FillSource, TruncateUpdate, RefreshPcs
<1>3. CASE FillUpdate(c) \/ TruncateSerial(c) \/ FillSerial(c)
  BY <1>0, <1>3, OwnRowQuiet DEF FillUpdate, TruncateSerial, FillSerial, RefreshPcs
<1>4. CASE Insert(c)
  BY <1>0, <1>4, OwnRowInsert
<1>5. CASE InsertFirstName(c)
  BY <1>0, <1>5 DEF InsertFirstName, OwnRowAt, KindAt, Grows, RefreshPcs
<1>6. CASE LogTransferred(c)
  BY <1>0, <1>6, OwnRowLog
<1>7. CASE Update(c)
  <2>1. gdirty'[c][<<c, sn>>] # NoRow => gdirty[c][<<c, sn>>] # NoRow
    <3>1. glob[<<c, sn>>] = NoRow
      BY <1>0, <1>7 DEF Update, OwnRowAt
    <3> QED BY <1>0, <1>7, <3>1 DEF Update, Updatable, Seen
  <2> QED BY <1>0, <1>7, <2>1, OwnRowQuiet DEF Update, RefreshPcs
<1>8. CASE LogRefreshed(c)
  <2>1. ldirty[c] \subseteq ldirty'[c]
    BY <1>8 DEF LogRefreshed, AddLog
  <2> QED BY <1>0, <1>8, <2>1, OwnRowQuiet DEF LogRefreshed, RefreshPcs
<1>9. CASE InsertKeys(c) \/ LogKeys(c) \/ AuditEnd(c)
  BY <1>0, <1>9, OwnRowQuiet DEF InsertKeys, LogKeys, AuditEnd, RefreshPcs
<1>10. CASE Commit(c) \/ Rollback(c) \/ ErrorCommit(c)
  <2>1. pc'[c] \in {"done", "raised"} /\ gdirty'[c][<<c, sn>>] = NoRow
    BY <1>0, <1>10 DEF Commit, Rollback, ErrorCommit, Forget, NoDirty
  <2> QED BY <2>1 DEF OwnRowAt, RefreshPcs
<1> QED
  BY <1>1, <1>2, <1>3, <1>4, <1>5, <1>6, <1>7, <1>8, <1>9, <1>10 DEF CallStep

\* A call that ends with its answer or its "End" record has logged what it commits.
LEMMA EndedLogsNext ==
  ASSUME TypeOK, OverlapInv, LogInv, NEW c \in Calls, CallStep(c), Grows,
         \A d \in Calls : d # c => Untouched(d)
  PROVE  EndedCallLogsItsRows'
<1> SUFFICES ASSUME NEW d \in Calls, NEW sn \in Serials,
                    pc'[d] = "done" \/ audit'[d] = "End",
                    (job[d].kind # "ph")', Undisturbed(d)', glob'[<<d, sn>>] # NoRow
             PROVE  Logged(tlog', sn)
  BY DEF EndedCallLogsItsRows
<1>0. OwnRowAt(d, sn) /\ KindAt(d) /\ <<d, sn>> \in Keys
  BY DEF LogInv, Keys
<1>1. job[d].kind # "ph" /\ Undisturbed(d)
  BY DEF Undisturbed, Grows
<1>2. CASE d # c
  <2>1. glob[<<d, sn>>] # NoRow
    BY <1>2, OthersAddNoRow
  <2>2. Logged(tlog, sn)
    BY <1>1, <1>2, <2>1 DEF Untouched, LogInv, EndedCallLogsItsRows
  <2> QED BY <2>2 DEF Logged, Grows
<1>3. CASE d = c
  <2>1. pc[c] \notin {"done", "raised"}
    BY DEF CallStep, Start, TruncateSource, FillSource, TruncateUpdate, FillUpdate,
           TruncateSerial, FillSerial, Insert, InsertFirstName, LogTransferred, Update,
           LogRefreshed, InsertKeys, LogKeys, AuditEnd, Commit, Rollback, ErrorCommit,
           Goto, Active, Ended
  <2>2. glob[<<c, sn>>] = NoRow /\ audit[c] = "none"
    BY <1>0, <1>3, <2>1 DEF OwnRowAt, KindAt
  <2>3. Commit(c)
    <3>1. ~ErrorCommit(c)
      BY <1>3 DEF ErrorCommit, TypeOK
    <3>2. ~Rollback(c)
      BY <1>3, <2>2 DEF Rollback, TypeOK, committed
    <3>3. pc'[c] # "done" => Commit(c) \/ UNCHANGED audit
      BY <3>1, <3>2
         DEF CallStep, Start, TruncateSource, FillSource, TruncateUpdate, FillUpdate,
             TruncateSerial, FillSerial, Insert, InsertFirstName, LogTransferred, Update,
             LogRefreshed, InsertKeys, LogKeys, AuditEnd, committed
    <3>4. pc'[c] = "done" => Commit(c)
      BY <3>1, <3>2
         DEF CallStep, Start, TruncateSource, FillSource, TruncateUpdate, FillUpdate,
             TruncateSerial, FillSerial, Insert, InsertFirstName, LogTransferred, Update,
             LogRefreshed, InsertKeys, LogKeys, AuditEnd, Goto, TypeOK
    <3> QED BY <1>3, <2>2, <3>3, <3>4
  <2>4. pc[c] = "commit" /\ glob' = Seen(c) /\ tlog' = SeenLog(c)
    BY <2>3 DEF Commit, Goto, Flush
  <2>5. gdirty[c][<<c, sn>>] # NoRow
    BY <1>0, <1>3, <2>2, <2>4 DEF Seen
  <2>6. Logged(SeenLog(c), sn)
    BY <1>0, <1>1, <1>3, <2>4, <2>5 DEF OwnRowAt
  <2> QED BY <2>4, <2>6
<1> QED BY <1>2, <1>3

LEMMA LogInit == Init => LogInv
BY DEF Init, LogInv, KindAt, OwnRowAt, EndedCallLogsItsRows, NoDirty, Keys,
       RefreshPcs, Ended

\* A step of the sites, or none, changes nothing a call has read or written.
LEMMA SiteStep ==
  ASSUME TypeOK, [Next]_vars, ~(\E c \in Calls : CallStep(c))
  PROVE  UNCHANGED <<stageVars, committed, pending, ctlVars>>
BY DEF Next, SiteTest, SiteAllocate, vars

LEMMA LogNext == TypeOK /\ OverlapInv /\ LogInv /\ [Next]_vars => LogInv'
<1> SUFFICES ASSUME TypeOK, OverlapInv, LogInv, [Next]_vars PROVE LogInv'
  OBVIOUS
<1>1. ASSUME NEW c \in Calls, CallStep(c) PROVE LogInv'
  <2>1. Grows /\ \A d \in Calls : d # c => Untouched(d)
    BY <1>1, OthersUntouched
  <2>2. \A d \in Calls : KindAt(d)'
    BY <1>1, <2>1, KindNext DEF LogInv
  <2>3. ASSUME NEW d \in Calls, NEW sn \in Serials PROVE OwnRowAt(d, sn)'
    <3>1. CASE d = c
      BY <1>1, <2>1, <3>1, OwnRowNext
    <3>2. CASE d # c
      BY <1>1, <2>1, <3>2, OwnRowOthers DEF LogInv
    <3> QED BY <3>1, <3>2
  <2>4. EndedCallLogsItsRows'
    BY <1>1, <2>1, EndedLogsNext
  <2> QED BY <2>2, <2>3, <2>4 DEF LogInv
<1>2. CASE ~(\E c \in Calls : CallStep(c))
  <2>1. UNCHANGED <<stageVars, committed, pending, ctlVars>>
    BY <1>2, SiteStep
  <2> QED
    BY <2>1 DEF LogInv, KindAt, OwnRowAt, EndedCallLogsItsRows, Undisturbed, InList,
                Logged, SeenLog, stageVars, committed, pending, ctlVars
<1> QED BY <1>1, <1>2

\* What a call that answered "copied" or wrote its "End" record inserted is in the
\* transfer log, unless a refresh of its site ran beside it.
THEOREM EndedCallsLogTheirRows == Spec => []EndedCallLogsItsRows
<1>1. Init => TypeOK /\ OverlapInv /\ LogInv
  BY TypeInit, OverlapInit, LogInit
<1>2. TypeOK /\ OverlapInv /\ LogInv /\ [Next]_vars => (TypeOK /\ OverlapInv /\ LogInv)'
  BY TypeNext, OverlapNext, LogNext
<1>3. LogInv => EndedCallLogsItsRows
  BY DEF LogInv
<1> QED BY <1>1, <1>2, <1>3, PTL DEF Spec

-----------------------------------------------------------------------------
(* KeyTwiceOnlyByFailureOrOverlap.  Pending keys count as committed ones   *)
(* do; what a call that is not excused has committed is in the serial log. *)

MetBoth == \A a, b \in Calls : b \in met[a] => a \in met[b]

KeyRow(c, p) == <<c, p>> \in nkeys \/ <<c, p>> \in kdirty[c]

KeysAt(c) ==
  /\ pc[c] \notin {"logKeys", "audit", "commit"} => kdirty[c] = {}
  /\ kdirty[c] \subseteq {c} \X Pcbs
  /\ \A p \in Pcbs : <<c, p>> \in nkeys => pc[c] \in {"done", "raised"}
  /\ Undisturbed(c) =>
       /\ \A p \in Pcbs : <<c, p>> \in kdirty[c] =>
            IF pc[c] = "logKeys" THEN p \in ser[job[c].site]
            ELSE KeyLogged(SeenKeyLog(c), p)
       /\ \A p \in Pcbs : <<c, p>> \in nkeys /\ audit[c] # "Error" => KeyLogged(klog, p)

Excused(c) == audit[c] = "Error" \/ ~Undisturbed(c)

KeyPairs ==
  \A a, b \in Calls, p \in Pcbs :
    a # b /\ KeyRow(a, p) /\ KeyRow(b, p) => b \in met[a] \/ Excused(a) \/ Excused(b)

TwiceInv == MetBoth /\ (\A c \in Calls : KeysAt(c)) /\ KeyPairs

\* A commit adds the pending keys of its call and no others.
LEMMA NewKeys ==
  ASSUME TypeOK, NEW c \in Calls, CallStep(c)
  PROVE  nkeys' = nkeys \/ nkeys' = nkeys \cup kdirty[c]
BY DEF CallStep, Start, TruncateSource, FillSource, TruncateUpdate, FillUpdate,
       TruncateSerial, FillSerial, Insert, InsertFirstName, LogTransferred, Update,
       LogRefreshed, InsertKeys, LogKeys, AuditEnd, Commit, Flush, Rollback, ErrorCommit,
       SeenKeys, committed

LEMMA KeysOthers ==
  ASSUME TypeOK, OverlapInv, NEW c \in Calls, CallStep(c), KindAt(c), KeysAt(c),
         Grows, NEW d \in Calls, d # c, Untouched(d), KeysAt(d)
  PROVE  KeysAt(d)'
<1>1. \A p \in Pcbs : <<d, p>> \in nkeys' => <<d, p>> \in nkeys
  BY NewKeys DEF KeysAt
<1>2. Undisturbed(d)' => Undisturbed(d)
  BY DEF Undisturbed, Grows
<1>3. pc[d] = "logKeys" /\ Undisturbed(d) => ser'[job[d].site] = ser[job[d].site]
  BY OthersStage DEF Active, Ended
<1>4. \A p \in Pcbs : /\ KeyLogged(SeenKeyLog(d), p) => KeyLogged(SeenKeyLog(d), p)'
                      /\ KeyLogged(klog, p) => KeyLogged(klog', p)
  BY DEF KeyLogged, SeenKeyLog, Untouched, Grows
<1>5. \A p \in Pcbs : KeyLogged(klog, p)' = KeyLogged(klog', p)
  BY DEF KeyLogged
<1> QED BY <1>1, <1>2, <1>3, <1>4, <1>5 DEF KeysAt, Untouched, Grows

\* A statement before the keys are copied.
LEMMA KeysNone ==
  ASSUME NEW c \in Calls, KeysAt(c), UNCHANGED <<kdirty, nkeys>>,
         pc[c] \notin {"logKeys", "audit", "commit", "done", "raised"}
  PROVE  KeysAt(c)'
BY DEF KeysAt

LEMMA KeysInsert ==
  ASSUME TypeOK, NEW c \in Calls, KeysAt(c), InsertKeys(c)
  PROVE  KeysAt(c)'
<1> USE DEF InsertKeys, committed, stageVars
<1>1. pc[c] = "keys" /\ pc'[c] = "logKeys"
  BY DEF Goto, TypeOK
<1>2. PICK batch \in SUBSET ser[job[c].site] :
        kdirty' = [kdirty EXCEPT ![c] = @ \cup ({c} \X batch)]
  OBVIOUS
<1>3. kdirty'[c] = {c} \X batch
  BY <1>1, <1>2 DEF KeysAt, TypeOK
<1>4. batch \subseteq Pcbs
  <2>1. job[c].site \in Sites
    BY JobFields DEF TypeOK
  <2> QED BY <1>2, <2>1 DEF TypeOK
<1> QED BY <1>1, <1>3, <1>4 DEF KeysAt

\* The log statement names every key its call has taken.
LEMMA KeysLog ==
  ASSUME TypeOK, NEW c \in Calls, KeysAt(c), LogKeys(c)
  PROVE  KeysAt(c)'
<1> USE DEF LogKeys, committed, stageVars
<1>1. pc[c] = "logKeys" /\ pc'[c] = "audit"
  BY DEF Goto, TypeOK
<1>2. ASSUME Undisturbed(c), NEW p \in Pcbs, <<c, p>> \in kdirty[c]
      PROVE  KeyLogged(SeenKeyLog(c), p)'
  <2>1. p \in ser[job[c].site]
    BY <1>1, <1>2 DEF KeysAt
  <2>2. Allocated(SeenKeys(c), p)
    BY <1>2 DEF Allocated, SeenKeys
  <2> DEFINE new == {[by |-> c, pcb |-> q, site |-> job[c].site] : q \in CopiedKeys(c)}
  <2>3. kldirty'[c] = kldirty[c] \cup new
    BY DEF TypeOK
  <2>4. CASE KeyLogged(SeenKeyLog(c), p)
    BY <2>3, <2>4 DEF KeyLogged, SeenKeyLog
  <2>5. CASE ~KeyLogged(SeenKeyLog(c), p)
    <3>1. [by |-> c, pcb |-> p, site |-> job[c].site] \in new
      BY <2>1, <2>2, <2>5 DEF CopiedKeys
    <3> HIDE DEF new
    <3> QED BY <2>3, <3>1 DEF KeyLogged, SeenKeyLog
  <2> QED BY <2>4, <2>5
<1>3. Undisturbed(c)' => Undisturbed(c)
  BY DEF Undisturbed
<1> QED BY <1>1, <1>2, <1>3 DEF KeysAt

\* A commit makes keys and serial log durable together.
LEMMA KeysEnd ==
  ASSUME TypeOK, NEW c \in Calls, KeysAt(c), Commit(c) \/ Rollback(c) \/ ErrorCommit(c)
  PROVE  KeysAt(c)'
<1> USE DEF committed, stageVars
<1>1. pc'[c] \in {"done", "raised"} /\ kdirty'[c] = {}
  BY DEF Commit, Rollback, ErrorCommit, Forget, Goto, TypeOK
<1>2. pc[c] \notin {"done", "raised"}
  BY DEF Commit, Rollback, ErrorCommit, Goto, Active, Ended
<1>3. CASE Rollback(c)
  BY <1>1, <1>2, <1>3 DEF Rollback, KeysAt
<1>4. CASE ErrorCommit(c)
  BY <1>1, <1>4 DEF ErrorCommit, KeysAt, TypeOK
<1>5. CASE Commit(c)
  <2>1. pc[c] = "commit" /\ nkeys' = SeenKeys(c) /\ klog' = SeenKeyLog(c)
        /\ met' = met /\ job' = job
    BY <1>5 DEF Commit, Flush, Goto
  <2>2. Undisturbed(c)' => Undisturbed(c)
    BY <2>1 DEF Undisturbed
  <2>3. ASSUME Undisturbed(c), NEW p \in Pcbs, <<c, p>> \in nkeys' PROVE KeyLogged(klog, p)'
    <3>1. <<c, p>> \in kdirty[c]
      BY <1>2, <2>1, <2>3 DEF SeenKeys, KeysAt
    <3>2. KeyLogged(SeenKeyLog(c), p)
      BY <2>1, <2>3, <3>1 DEF KeysAt
    <3> QED BY <2>1, <3>2 DEF KeyLogged
  <2> QED BY <1>1, <2>2, <2>3 DEF KeysAt
<1> QED BY <1>3, <1>4, <1>5

LEMMA KeysNext ==
  ASSUME TypeOK, NEW c \in Calls, CallStep(c), KeysAt(c)
  PROVE  KeysAt(c)'
<1> USE DEF pending, committed, stageVars, Goto
<1>1. CASE Start(c) \/ TruncateSource(c) \/ FillSource(c) \/ TruncateUpdate(c)
  BY <1>1, KeysNone DEF Start, TruncateSource, FillSource, TruncateUpdate
<1>2. CASE FillUpdate(c) \/ TruncateSerial(c) \/ FillSerial(c)
  BY <1>2, KeysNone DEF FillUpdate, TruncateSerial, FillSerial
<1>3. CASE Insert(c) \/ InsertFirstName(c) \/ Update(c)
  BY <1>3, KeysNone DEF Insert, InsertFirstName, Update
<1>4. CASE LogTransferred(c) \/ LogRefreshed(c)
  BY <1>4, KeysNone DEF LogTransferred, LogRefreshed
<1>5. CASE InsertKeys(c)
  BY <1>5, KeysInsert
<1>6. CASE LogKeys(c)
  BY <1>6, KeysLog
<1>7. CASE AuditEnd(c)
  BY <1>7 DEF AuditEnd, KeysAt, Undisturbed, KeyLogged, SeenKeyLog, TypeOK
<1>8. CASE Commit(c) \/ Rollback(c) \/ ErrorCommit(c)
  BY <1>8, KeysEnd
<1> QED BY <1>1, <1>2, <1>3, <1>4, <1>5, <1>6, <1>7, <1>8 DEF CallStep

\* Keys are taken by InsertKeys alone.
LEMMA NewKeyRow ==
  ASSUME TypeOK, OverlapInv, TwiceInv, NEW c \in Calls, CallStep(c),
         NEW d \in Calls, NEW p \in Pcbs, KeyRow(d, p)', ~KeyRow(d, p)
  PROVE  d = c /\ InsertKeys(c) /\ ~KeyLogged(SeenKeyLog(c), p)
<1> USE DEF committed, pending, TypeOK
<1>1. nkeys' \subseteq nkeys \cup kdirty[c] /\ kdirty[c] \subseteq {c} \X Pcbs
  BY NewKeys DEF TwiceInv, KeysAt
<1>2. <<d, p>> \in kdirty'[d] /\ <<d, p>> \notin kdirty[d]
  BY <1>1 DEF KeyRow
<1>3. InsertKeys(c)
  BY <1>2, ZenonT(30) DEF CallStep, Start, TruncateSource, FillSource, TruncateUpdate, FillUpdate,
              TruncateSerial, FillSerial, Insert, InsertFirstName, LogTransferred, Update,
              LogRefreshed, LogKeys, AuditEnd, Commit, Rollback, ErrorCommit, Forget
<1>4. PICK batch \in SUBSET {q \in ser[job[c].site] : ~KeyLogged(SeenKeyLog(c), q)} :
        kdirty' = [kdirty EXCEPT ![c] = @ \cup ({c} \X batch)]
  BY <1>3 DEF InsertKeys
<1> QED BY <1>2, <1>3, <1>4

LEMMA ExcusedStays ==
  ASSUME TypeOK, OverlapInv, LogInv, NEW c \in Calls, CallStep(c), Grows,
         \A d \in Calls : d # c => Untouched(d), NEW d \in Calls, Excused(d)
  PROVE  Excused(d)'
<1>1. ~Undisturbed(d) => ~Undisturbed(d)'
  BY DEF Undisturbed, Grows
<1>2. CASE d # c
  BY <1>1, <1>2 DEF Excused, Untouched
<1>3. CASE d = c
  <2>1. pc[c] \notin {"done", "raised"}
    BY DEF CallStep, Start, TruncateSource, FillSource, TruncateUpdate, FillUpdate,
           TruncateSerial, FillSerial, Insert, InsertFirstName, LogTransferred, Update,
           LogRefreshed, InsertKeys, LogKeys, AuditEnd, Commit, Rollback, ErrorCommit,
           Goto, Active, Ended
  <2>2. audit[c] # "Error"
    BY <2>1 DEF LogInv, KindAt
  <2> QED BY <1>1, <1>3, <2>2 DEF Excused
<1> QED BY <1>2, <1>3

\* A key is taken once more only beside, or after, an excused call.
LEMMA KeyPairsNext ==
  ASSUME TypeOK, OverlapInv, LogInv, TwiceInv, NEW c \in Calls, CallStep(c), Grows,
         \A d \in Calls : d # c => Untouched(d), MetBoth'
  PROVE  KeyPairs'
<1> SUFFICES ASSUME NEW a \in Calls, NEW b \in Calls, NEW p \in Pcbs,
                    a # b, KeyRow(a, p)', KeyRow(b, p)'
             PROVE  b \in met'[a] \/ Excused(a)' \/ Excused(b)'
  BY DEF KeyPairs
<1>1. \A d \in {a, b} : Excused(d) => Excused(d)'
  BY ExcusedStays
<1>2. CASE KeyRow(a, p) /\ KeyRow(b, p)
  BY <1>1, <1>2 DEF TwiceInv, KeyPairs, Grows
<1>3. ASSUME NEW d \in {a, b}, NEW e \in {a, b}, d # e, ~KeyRow(d, p)
      PROVE  d \in met'[e] \/ Excused(e)'
  <2>1. d = c /\ InsertKeys(c) /\ ~KeyLogged(SeenKeyLog(c), p)
    BY <1>3, NewKeyRow
  <2>2. KeyRow(e, p)
    BY <1>3, <2>1, NewKeyRow
  <2>3. CASE <<e, p>> \in kdirty[e]
    <3>1. {c, e} \subseteq Active
      BY <2>1, <2>3 DEF TwiceInv, KeysAt, Active, Ended, InsertKeys, Goto
    <3>2. c \in met[e]
      BY <1>3, <2>1, <3>1 DEF OverlapInv
    <3> QED BY <2>1, <3>2 DEF Grows
  <2>4. CASE <<e, p>> \in nkeys
    <3>1. ~KeyLogged(klog, p)
      BY <2>1 DEF KeyLogged, SeenKeyLog
    <3>2. Excused(e)
      BY <2>4, <3>1 DEF TwiceInv, KeysAt, Excused
    <3> QED BY <1>1, <3>2
  <2> QED BY <2>2, <2>3, <2>4 DEF KeyRow
<1>4. b \in met'[a] <=> a \in met'[b]
  BY DEF MetBoth
<1> QED BY <1>2, <1>3, <1>4

LEMMA MetBothNext ==
  ASSUME TypeOK, OverlapInv, MetBoth, NEW c \in Calls, CallStep(c)
  PROVE  MetBoth'
<1>1. CASE Start(c)
  <2>1. c \notin Active /\ \A d \in Calls : c \notin met[d]
    BY <1>1 DEF Start, Active, Ended, OverlapInv, MetBoth
  <2> QED BY <1>1, <2>1 DEF Start, MetBoth, Active
<1>2. CASE UNCHANGED met
  BY <1>2 DEF MetBoth
<1> QED
  BY <1>1, <1>2
     DEF CallStep, TruncateSource, FillSource, TruncateUpdate, FillUpdate, TruncateSerial,
         FillSerial, Insert, InsertFirstName, LogTransferred, Update, LogRefreshed,
         InsertKeys, LogKeys, AuditEnd, Commit, Rollback, ErrorCommit

LEMMA TwiceInit == Init => TwiceInv
BY DEF Init, TwiceInv, MetBoth, KeysAt, KeyPairs, KeyRow

LEMMA TwiceNext == TypeOK /\ OverlapInv /\ LogInv /\ TwiceInv /\ [Next]_vars => TwiceInv'
<1> SUFFICES ASSUME TypeOK, OverlapInv, LogInv, TwiceInv, [Next]_vars PROVE TwiceInv'
  OBVIOUS
<1>1. ASSUME NEW c \in Calls, CallStep(c) PROVE TwiceInv'
  <2>1. Grows /\ \A d \in Calls : d # c => Untouched(d)
    BY <1>1, OthersUntouched
  <2>2. MetBoth'
    BY <1>1, MetBothNext DEF TwiceInv
  <2>3. ASSUME NEW d \in Calls PROVE KeysAt(d)'
    <3>1. CASE d = c
      BY <1>1, <3>1, KeysNext DEF TwiceInv
    <3>2. CASE d # c
      BY <1>1, <2>1, <3>2, KeysOthers DEF TwiceInv, LogInv
    <3> QED BY <3>1, <3>2
  <2>4. KeyPairs'
    BY <1>1, <2>1, <2>2, KeyPairsNext
  <2> QED BY <2>2, <2>3, <2>4 DEF TwiceInv
<1>2. CASE ~(\E c \in Calls : CallStep(c))
  <2>1. UNCHANGED <<stageVars, committed, pending, ctlVars>>
    BY <1>2, SiteStep
  <2> QED
    BY <2>1 DEF TwiceInv, MetBoth, KeysAt, KeyPairs, KeyRow, Excused, Undisturbed,
                KeyLogged, SeenKeyLog, stageVars, committed, pending, ctlVars
<1> QED BY <1>1, <1>2

\* A PCB is allocated twice only by calls that were open together, after the error
\* handler of one committed half its work, or beside a refresh of the same site.
THEOREM KeyTwiceNeedsFailureOrOverlap == Spec => []KeyTwiceOnlyByFailureOrOverlap
<1>1. Init => TypeOK /\ OverlapInv /\ LogInv /\ TwiceInv
  BY TypeInit, OverlapInit, LogInit, TwiceInit
<1>2. TypeOK /\ OverlapInv /\ LogInv /\ TwiceInv /\ [Next]_vars =>
        (TypeOK /\ OverlapInv /\ LogInv /\ TwiceInv)'
  BY TypeNext, OverlapNext, LogNext, TwiceNext
<1>3. TwiceInv => KeyTwiceOnlyByFailureOrOverlap
  BY DEF TwiceInv, KeyPairs, KeyRow, KeyTwiceOnlyByFailureOrOverlap, Excused
<1> QED BY <1>1, <1>2, <1>3, PTL DEF Spec

-----------------------------------------------------------------------------
(* SoloRefreshNeverOlder.  What the update view of a lone refresh holds is *)
(* newer than the row of its serial, and so is what the update has written.*)

SoloAt(c) ==
  /\ pc[c] \in RefreshPcs \cup {"insert", "firstName", "log", "update"} =>
       \A a \in Calls, sn \in Serials : a # c => gdirty[c][<<a, sn>>] = NoRow
  /\ job[c].kind = "force" /\ met[c] = {} /\ OneRowPerSerial =>
       /\ pc[c] \in {"ser", "serFill", "insert", "log", "update"} =>
            \A a \in Calls, sn \in Serials :
              upd[job[c].site][sn] # NoRow /\ glob[<<a, sn>>] # NoRow
                => upd[job[c].site][sn].date > glob[<<a, sn>>].date
       /\ \A k \in Keys : gdirty[c][k] # NoRow /\ glob[k] # NoRow
                            => gdirty[c][k].date >= glob[k].date

SoloInv == \A c \in Calls : SoloAt(c)

\* The insert statements add rows under the key of their own call.
LEMMA AddRowsOwn ==
  ASSUME TypeOK, NEW c \in Calls, NEW sns, NEW rows, AddRows(c, sns, rows),
         NEW k \in Keys, k[1] # c
  PROVE  gdirty'[c][k] = gdirty[c][k]
BY DEF TypeOK, AddRows

\* Up to its update, a call has rows pending under its own keys only.
LEMMA ForeignNone ==
  ASSUME TypeOK, OverlapInv, NEW c \in Calls, SoloAt(c), CallStep(c),
         pc'[c] \in RefreshPcs \cup {"insert", "firstName", "log", "update"},
         NEW a \in Calls, a # c, NEW sn \in Serials
  PROVE  gdirty'[c][<<a, sn>>] = NoRow
<1> USE DEF pending, Goto, TypeOK, RefreshPcs, SoloAt, Keys
<1>1. CASE Start(c)
  BY <1>1 DEF Start, OverlapInv, Ended
<1>2. CASE TruncateSource(c) \/ FillSource(c) \/ TruncateUpdate(c)
  BY <1>2 DEF TruncateSource, FillSource, TruncateUpdate
<1>3. CASE FillUpdate(c) \/ TruncateSerial(c) \/ FillSerial(c)
  BY <1>3 DEF FillUpdate, TruncateSerial, FillSerial
<1>4. CASE Insert(c) \/ InsertFirstName(c)
  <2>1. <<a, sn>> \in Keys /\ <<a, sn>>[1] # c
    OBVIOUS
  <2>2. gdirty'[c][<<a, sn>>] = gdirty[c][<<a, sn>>]
    BY <1>4, <2>1, AddRowsOwn DEF Insert, InsertFirstName
  <2> QED BY <1>4, <2>2 DEF Insert, InsertFirstName
<1>5. CASE LogTransferred(c)
  BY <1>5 DEF LogTransferred
<1>6. CASE Update(c) \/ LogRefreshed(c) \/ InsertKeys(c) \/ LogKeys(c) \/ AuditEnd(c)
  BY <1>6 DEF Update, LogRefreshed, InsertKeys, LogKeys, AuditEnd
<1>7. CASE Commit(c) \/ Rollback(c) \/ ErrorCommit(c)
  BY <1>7 DEF Commit, Rollback, ErrorCommit
<1> QED BY <1>1, <1>2, <1>3, <1>4, <1>5, <1>6, <1>7 DEF CallStep

\* The update view of a lone refresh, from its fill to the update.
LEMMA NewerStaged ==
  ASSUME TypeOK, OverlapInv, LogInv, NEW c \in Calls, SoloAt(c), CallStep(c), Grows,
         glob' = glob, job[c].kind = "force", met[c] = {}, OneRowPerSerial,
         pc'[c] \in {"ser", "serFill", "insert", "log", "update"},
         NEW a \in Calls, NEW sn \in Serials,
         upd'[job[c].site][sn] # NoRow, glob[<<a, sn>>] # NoRow
  PROVE  upd'[job[c].site][sn].date > glob[<<a, sn>>].date
<1> USE DEF stageVars, Goto, TypeOK, SoloAt
<1>0. job[c].site \in Sites
  BY JobFields
<1>1. CASE FillUpdate(c)
  <2> DEFINE s == job[c].site
  <2>1. upd'[s][sn] = (IF remote[s][sn] # NoRow /\ remote[s][sn].listed /\ OlderInGlobal(s, sn)
                       THEN RowOf(remote[s][sn]) ELSE NoRow)
    BY <1>0, <1>1 DEF FillUpdate
  <2>2. OlderInGlobal(s, sn) /\ upd'[s][sn].date = remote[s][sn].date
        /\ remote[s][sn].date \in Int
    BY <1>0, <2>1 DEF RowOf, Units
  <2>3. PICK b \in Calls : glob[<<b, sn>>] # NoRow /\ glob[<<b, sn>>].date < remote[s][sn].date
    BY <2>2 DEF OlderInGlobal
  <2>4. a = b
    BY <2>3 DEF OneRowPerSerial
  <2>5. glob[<<a, sn>>].date \in Int
    BY DEF Keys, Rows
  <2> QED BY <2>2, <2>3, <2>4, <2>5
<1>2. CASE TruncateSerial(c) \/ FillSerial(c)
  BY <1>2 DEF TruncateSerial, FillSerial
<1>3. CASE Insert(c) \/ LogTransferred(c)
  BY <1>3 DEF Insert, LogTransferred
<1>4. CASE Start(c) \/ TruncateSource(c) \/ FillSource(c) \/ TruncateUpdate(c) \/ InsertFirstName(c)
  BY <1>4 DEF Start, TruncateSource, FillSource, TruncateUpdate, InsertFirstName, LogInv, KindAt
<1>5. CASE Update(c) \/ LogRefreshed(c) \/ InsertKeys(c) \/ LogKeys(c) \/ AuditEnd(c)
  BY <1>5 DEF Update, LogRefreshed, InsertKeys, LogKeys, AuditEnd
<1>6. CASE Commit(c) \/ Rollback(c) \/ ErrorCommit(c)
  BY <1>6 DEF Commit, Rollback, ErrorCommit
<1> QED BY <1>1, <1>2, <1>3, <1>4, <1>5, <1>6 DEF CallStep

\* What a lone refresh has pending for a committed row is not older.
LEMMA NewerPending ==
  ASSUME TypeOK, OverlapInv, LogInv, NEW c \in Calls, SoloAt(c), CallStep(c), Grows,
         glob' = glob, job[c].kind = "force", met[c] = {}, OneRowPerSerial,
         NEW k \in Keys, gdirty'[c][k] # NoRow, glob[k] # NoRow
  PROVE  gdirty'[c][k].date >= glob[k].date
<1> USE DEF TypeOK, SoloAt, pending
<1>0. k[1] \in Calls /\ k[2] \in Serials /\ k = <<k[1], k[2]>>
  BY DEF Keys
<1>1. CASE gdirty'[c][k] = gdirty[c][k]
  BY <1>1
<1>2. CASE gdirty'[c][k] # gdirty[c][k]
  <2>1. CASE Insert(c) \/ InsertFirstName(c)
    <3>1. k[1] = c
      BY <1>2, <2>1, AddRowsOwn DEF Insert, InsertFirstName
    <3>2. pc[c] \notin {"done", "raised"}
      BY <2>1 DEF Insert, InsertFirstName, Goto
    <3>3. glob[k] = NoRow
      BY <1>0, <3>1, <3>2 DEF LogInv, OwnRowAt
    <3> QED BY <3>3
  <2>2. CASE Update(c)
    <3>1. pc[c] = "update" /\ gdirty'[c][k] = upd[job[c].site][k[2]]
      BY <1>2, <2>2 DEF Update, Goto
    <3>2. upd[job[c].site][k[2]].date > glob[k].date
      BY <1>0, <3>1
    <3>3. upd[job[c].site][k[2]].date \in Int /\ glob[k].date \in Int
      <4>1. job[c].site \in Sites
        BY JobFields
      <4> QED BY <1>0, <3>1, <4>1 DEF Rows
    <3> QED BY <3>1, <3>2, <3>3
  <2>3. CASE Commit(c) \/ Rollback(c) \/ ErrorCommit(c)
    BY <2>3 DEF Commit, Rollback, ErrorCommit, Forget, NoDirty
  <2>4. CASE UNCHANGED gdirty
    BY <1>2, <2>4
  <2> QED
    BY <2>1, <2>2, <2>3, <2>4
       DEF CallStep, Start, TruncateSource, FillSource, TruncateUpdate, FillUpdate,
           TruncateSerial, FillSerial, LogTransferred, LogRefreshed, InsertKeys, LogKeys,
           AuditEnd
<1> QED BY <1>1, <1>2

\* No other call takes a step while a call is open that has met none and will not.
LEMMA AloneInStep ==
  ASSUME TypeOK, OverlapInv, NEW c \in Calls, CallStep(c), NEW d \in Active, d # c
  PROVE  met'[d] # {}
<1>1. CASE c \in Active
  <2>1. c \in met[d] /\ met[d] \subseteq met'[d]
    BY <1>1, OthersUntouched DEF OverlapInv, Grows, Active
  <2> QED BY <2>1
<1>2. CASE c \notin Active
  <2>1. Start(c)
    BY <1>2 DEF CallStep, TruncateSource, FillSource, TruncateUpdate, FillUpdate,
           TruncateSerial, FillSerial, Insert, InsertFirstName, LogTransferred, Update,
           LogRefreshed, InsertKeys, LogKeys, AuditEnd, Commit, Rollback, ErrorCommit,
           Goto, Active, Ended
  <2> QED BY <2>1 DEF Start, Active
<1> QED BY <1>1, <1>2

LEMMA SoloNext == TypeOK /\ OverlapInv /\ LogInv /\ SoloInv /\ [Next]_vars => SoloInv'
<1> SUFFICES ASSUME TypeOK, OverlapInv, LogInv, SoloInv, [Next]_vars, NEW d \in Calls
             PROVE  SoloAt(d)'
  BY DEF SoloInv
<1>0. SoloAt(d)
  BY DEF SoloInv
<1>1. ASSUME NEW c \in Calls, CallStep(c) PROVE SoloAt(d)'
  <2>1. Grows /\ \A e \in Calls : e # c => Untouched(e)
    BY <1>1, OthersUntouched
  <2>2. CASE d # c
    <3>1. pc'[d] = pc[d] /\ gdirty'[d] = gdirty[d] /\ job' = job
      BY <2>1, <2>2 DEF Untouched, Grows
    <3>2. pc[d] \notin Ended => met'[d] # {}
      BY <1>1, <2>2, AloneInStep DEF Active
    <3>3. pc[d] \in Ended => \A k \in Keys : gdirty[d][k] = NoRow
      BY DEF OverlapInv
    <3> QED BY <1>0, <3>1, <3>2, <3>3 DEF SoloAt, Ended
  <2>3. CASE d = c
    <3>1. pc'[c] \in RefreshPcs \cup {"insert", "firstName", "log", "update"} =>
            \A a \in Calls, sn \in Serials : a # c => gdirty'[c][<<a, sn>>] = NoRow
      BY <1>0, <1>1, <2>3, ForeignNone
    <3>2. CASE glob' = glob
      <4> SUFFICES ASSUME job[c].kind = "force", met'[c] = {}, OneRowPerSerial
                   PROVE  /\ pc'[c] \in {"ser", "serFill", "insert", "log", "update"} =>
                               \A a \in Calls, sn \in Serials :
                                 upd'[job[c].site][sn] # NoRow /\ glob[<<a, sn>>] # NoRow
                                   => upd'[job[c].site][sn].date > glob[<<a, sn>>].date
                          /\ \A k \in Keys : gdirty'[c][k] # NoRow /\ glob[k] # NoRow
                                               => gdirty'[c][k].date >= glob[k].date
        BY <2>1, <2>3, <3>1, <3>2 DEF SoloAt, OneRowPerSerial, Grows
      <4>1. met[c] = {}
        BY <2>1 DEF Grows
      <4> QED BY <1>0, <1>1, <2>1, <2>3, <3>2, <4>1, NewerStaged, NewerPending
    <3>3. CASE glob' # glob
      <4>1. pc'[c] \in {"done", "raised"} /\ gdirty'[c] = NoDirty
        BY <1>1, <3>3, ZenonT(30)
           DEF CallStep, Start, TruncateSource, FillSource, TruncateUpdate, FillUpdate,
               TruncateSerial, FillSerial, Insert, InsertFirstName, LogTransferred, Update,
               LogRefreshed, InsertKeys, LogKeys, AuditEnd, Commit, Rollback, ErrorCommit,
               Forget, Goto, TypeOK, committed
      <4> QED BY <2>3, <4>1 DEF SoloAt, RefreshPcs, NoDirty
    <3> QED BY <3>2, <3>3
  <2> QED BY <2>2, <2>3
<1>2. CASE ~(\E c \in Calls : CallStep(c))
  <2>1. UNCHANGED <<stageVars, committed, pending, ctlVars>>
    BY <1>2, SiteStep
  <2> QED BY <1>0, <2>1 DEF SoloAt, OneRowPerSerial, stageVars, committed, pending, ctlVars
<1> QED BY <1>1, <1>2

LEMMA SoloInit == Init => SoloInv
BY DEF Init, SoloInv, SoloAt, NoDirty, NoRows, Keys, RefreshPcs, Ended

\* What a lone refresh commits is not older than what it replaces.
LEMMA SoloStep ==
  ASSUME TypeOK, OverlapInv, LogInv, SoloInv, [Next]_vars,
         NEW c \in Calls, NEW k \in Keys,
         job[c].kind = "force", met[c] = {}, pc'[c] # pc[c], OneRowPerSerial, glob[k] # NoRow
  PROVE  glob'[k] # NoRow /\ glob'[k].date >= glob[k].date
<1>0. glob[k].date \in Int
  BY DEF TypeOK, Rows
<1>1. PICK d \in Calls : CallStep(d)
  BY SiteStep DEF ctlVars
<1>2. d = c
  BY <1>1, OthersUntouched DEF Untouched
<1>3. CASE glob' = glob
  BY <1>0, <1>3
<1>4. CASE glob' = Seen(c)
  <2>1. CASE gdirty[c][k] = NoRow
    BY <1>0, <1>4, <2>1 DEF Seen
  <2>2. CASE gdirty[c][k] # NoRow
    <3>1. gdirty[c][k].date >= glob[k].date
      BY <2>2 DEF SoloInv, SoloAt
    <3> QED BY <1>4, <2>2, <3>1 DEF Seen
  <2> QED BY <2>1, <2>2
<1> QED
  BY <1>1, <1>2, <1>3, <1>4
     DEF CallStep, Start, TruncateSource, FillSource, TruncateUpdate, FillUpdate,
         TruncateSerial, FillSerial, Insert, InsertFirstName, LogTransferred, Update,
         LogRefreshed, InsertKeys, LogKeys, AuditEnd, Commit, Flush, Rollback, ErrorCommit,
         committed

\* A force refresh that has the database to itself never replaces a global row by an
\* older one.
THEOREM SoloRefreshKeepsNewer == Spec => SoloRefreshNeverOlder
<1> DEFINE Inv == TypeOK /\ OverlapInv /\ LogInv /\ SoloInv
<1>1. Init => Inv
  BY TypeInit, OverlapInit, LogInit, SoloInit
<1>2. Inv /\ [Next]_vars => Inv'
  BY TypeNext, OverlapNext, LogNext, SoloNext
<1>3. Inv /\ [Next]_vars =>
        [\A c \in Calls, k \in Keys :
           /\ job[c].kind = "force" /\ met[c] = {} /\ pc'[c] # pc[c]
           /\ OneRowPerSerial
           /\ glob[k] # NoRow
           => glob'[k] # NoRow /\ glob'[k].date >= glob[k].date]_vars
  BY SoloStep
<1> QED BY <1>1, <1>2, <1>3, PTL DEF Spec, SoloRefreshNeverOlder

-----------------------------------------------------------------------------
\* The backlog that the daily check counts never holds a unit the transfer log names.
THEOREM BacklogIsNotLogged == Spec => []LoggedIsNotBacklog
<1>1. Init => TypeOK /\ UnitInv
  BY TypeInit, UnitInvInit
<1>2. TypeOK /\ UnitInv /\ [Next]_vars => (TypeOK /\ UnitInv)'
  BY TypeNext, UnitInvNext
<1>3. UnitInv => LoggedIsNotBacklog
  BY DEF UnitInv, NoLostUnit, LoggedIsNotBacklog, Eligible, Staged, Logged
<1> QED BY <1>1, <1>2, <1>3, PTL DEF Spec

=============================================================================
