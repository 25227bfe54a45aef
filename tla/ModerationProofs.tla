--------------------------- MODULE ModerationProofs ---------------------------
(***************************************************************************)
(* Proofs about Moderation, for any users, contents, administrators to     *)
(* begin with, requests at once, request ids and bounds: an administrator  *)
(* remains, a user has one open report of a target, the audit explains the *)
(* state and the reports, and the notifications tell what happened.        *)
(***************************************************************************)
EXTENDS Moderation, FiniteSetTheorems, TLAPS

\* An unfinished report holds its key, and no two reports hold one key.
KeysHeld ==
  /\ \A r \in DOMAIN reports : reports[r].status \in Unfinished => reports[r].active
  /\ \A r, s \in DOMAIN reports :
       /\ reports[r].active /\ reports[s].active
       /\ reports[r].reporter = reports[s].reporter /\ reports[r].target = reports[s].target
       => r = s

ModerationInv == ModerationTypeOK /\ AdministratorRemains /\ KeysHeld

\* The steps of ModerationNext, one by one.
LEMMA Steps ==
  ASSUME ModerationNext
  PROVE  \/ \E h \in Handlers, request \in ReportRequest : ReportLooks(h, request)
         \/ \E h \in Handlers, a \in Users : RequireAdmin(h, a)
         \/ \E h \in Handlers : CreateReport(h)
         \/ \E h \in Handlers : Refused(h)
         \/ \E h \in Handlers, q \in RequestIDs, r \in DOMAIN reports : AssignReport(h, r, q)
         \/ \E h \in Handlers, q \in RequestIDs, r \in DOMAIN reports : RejectReport(h, r, q)
         \/ \E h \in Handlers, q \in RequestIDs, r \in DOMAIN reports,
               action \in Lowering \cup Raising :
              ResolveReport(h, r, action, q)
         \/ \E h \in Handlers, q \in RequestIDs, t \in Targets, action \in Lowering \cup Raising,
               r \in 0..Len(reports) : ModerateTarget(h, t, action, r, q)
         \/ \E c \in Contents : DeleteContent(c)
         \/ \E u \in Users : Grant(u)
         \/ \E u \in Users : Revoke(u)
  BY DEF ModerationNext

-----------------------------------------------------------------------------
(***************************************************************************)
(* Types.                                                                  *)
(***************************************************************************)

LEMMA InitTypes == ModerationInit => ModerationTypeOK
  BY ModerationAssumption DEF ModerationInit, ModerationTypeOK, Targets

LEMMA EndsTypes ==
  ASSUME ModerationTypeOK, NEW h \in Handlers, Ends(h)
  PROVE  pending' \in [Handlers -> Users \cup ReportRequest \cup {None}]
  BY DEF ModerationTypeOK, Ends

LEMMA SignedTypes ==
  ASSUME ModerationTypeOK, NEW a \in Users, NEW q \in RequestIDs,
         NEW operation \in {"create", "assign", "resolve"} \cup Lowering \cup Raising,
         Signed(a, operation, q)
  PROVE  receipts' \subseteq Receipt
  BY DEF ModerationTypeOK, Signed, Receipt

LEMMA AuditTypes ==
  ASSUME ModerationTypeOK, NEW row \in AuditRow, Audited(row)
  PROVE  /\ audit' \in Seq(AuditRow) /\ Len(audit') <= MaxActions
         /\ Len(audit) + 1 \in 1..MaxActions
  <1>1. audit \in Seq(AuditRow) /\ Len(audit) < MaxActions /\ audit' = Append(audit, row)
    BY DEF ModerationTypeOK, Audited
  <1> QED  BY <1>1, ModerationAssumption

LEMMA EmitTypes ==
  ASSUME NEW to \in Users, NEW by, NEW about, NEW id, NEW what,
         \/ about = "report" /\ id \in 1..MaxReports /\ what \in Finished
         \/ about = "action" /\ id \in 1..MaxActions /\ what \in Lowering \cup Raising
  PROVE  Emit(to, by, about, id, what) \subseteq Notice
  BY DEF Emit, Notice

LEMMA OwnerTypes == \A t \in Targets : OwnerOf(t) \in Users
  BY ModerationAssumption DEF OwnerOf, Targets

\* What an action on a target does.
LEMMA ApplyTypes ==
  ASSUME ModerationTypeOK, NEW a \in Users, NEW t \in Targets, NEW q \in RequestIDs,
         NEW action \in Lowering \cup Raising, NEW r \in 0..Len(reports), Apply(a, t, action, r, q)
  PROVE  /\ down' \subseteq Targets
         /\ audit' \in Seq(AuditRow) /\ Len(audit') <= MaxActions
         /\ Len(audit) + 1 \in 1..MaxActions
         /\ Told(a, t, action) \subseteq Notice
  <1> DEFINE row == [actor |-> a, report |-> r, target |-> t, action |-> action,
                     before |-> Before(t, action), after |-> After(action), request |-> q]
  <1>1. r \in 0..MaxReports
    <2>1. Len(reports) \in Nat /\ Len(reports) <= MaxReports
      BY DEF ModerationTypeOK
    <2> QED  BY <2>1, ModerationAssumption
  <1>2. row \in AuditRow
    BY <1>1 DEF AuditRow, Before, StateOf, After
  <1>3. Audited(row)
    BY DEF Apply
  <1>4. audit' \in Seq(AuditRow) /\ Len(audit') <= MaxActions /\ Len(audit) + 1 \in 1..MaxActions
    BY <1>2, <1>3, AuditTypes
  <1>5. Told(a, t, action) \subseteq Notice
    <2>1. Emit(OwnerOf(t), a, "action", Len(audit) + 1, action) \subseteq Notice
      BY <1>4, OwnerTypes, EmitTypes
    <2> QED  BY <2>1 DEF Told
  <1>6. down' \subseteq Targets
    BY DEF Apply, ModerationTypeOK
  <1> QED  BY <1>4, <1>5, <1>6

\* A row of reports that is put in the place of another.
LEMMA ReportReplaced ==
  ASSUME ModerationTypeOK, NEW r \in DOMAIN reports, NEW row \in Report,
         reports' = [reports EXCEPT ![r] = row]
  PROVE  /\ reports' \in Seq(Report) /\ Len(reports') = Len(reports) /\ Len(reports') <= MaxReports
         /\ DOMAIN reports' = DOMAIN reports
         /\ reports'[r] = row
         /\ \A s \in DOMAIN reports : s # r => reports'[s] = reports[s]
  <1>1. reports \in Seq(Report) /\ Len(reports) <= MaxReports /\ r \in 1..Len(reports)
    BY DEF ModerationTypeOK
  <1> QED  BY <1>1

LEMMA ReportTypes ==
  ASSUME ModerationTypeOK, NEW r \in DOMAIN reports
  PROVE  /\ reports[r] \in Report
         /\ r \in 1..MaxReports /\ r \in 0..Len(reports)
         /\ reports[r].reporter \in Users /\ reports[r].target \in Targets
  <1>1. reports \in Seq(Report) /\ Len(reports) <= MaxReports /\ r \in 1..Len(reports)
    BY DEF ModerationTypeOK
  <1>2. reports[r] \in Report
    BY <1>1
  <1>3. r \in 1..MaxReports /\ r \in 0..Len(reports)
    BY <1>1, ModerationAssumption
  <1> QED  BY <1>2, <1>3 DEF Report

\* What the three actions on a report make of its row.
LEMMA NewRow ==
  ASSUME ModerationTypeOK, NEW r \in DOMAIN reports, NEW a \in Users,
         NEW status \in Finished, NEW action \in 0..MaxActions
  PROVE  /\ Taken(reports[r], a) \in Report
         /\ Taken(reports[r], a).active = reports[r].active
         /\ Taken(reports[r], a).reporter = reports[r].reporter
         /\ Taken(reports[r], a).target = reports[r].target
         /\ Ended(reports[r], status, action) \in Report
         /\ Ended(reports[r], status, action).active = FALSE
         /\ Ended(reports[r], status, action).status = status
  <1>1. reports[r] \in Report
    BY ReportTypes
  <1> QED  BY <1>1 DEF Report, Taken, Ended, Unfinished

LEMMA LooksTypes ==
  ASSUME ModerationTypeOK, NEW h \in Handlers, NEW request \in Users \cup ReportRequest,
         LetIn(h, request)
  PROVE  ModerationTypeOK'
  <1>1. pending' = [pending EXCEPT ![h] = request]
        /\ UNCHANGED <<admins, down, deleted, reportVars, audit, notices>>
    BY DEF LetIn
  <1> QED  BY <1>1 DEF ModerationTypeOK, reportVars

LEMMA CreateTypes ==
  ASSUME ModerationTypeOK, NEW h \in Handlers, CreateReport(h)
  PROVE  ModerationTypeOK'
  <1> DEFINE p == pending[h]
             row == [reporter |-> p.reporter, target |-> p.target, status |-> "open",
                     assigned |-> None, action |-> 0, active |-> TRUE]
  <1>1. /\ p \in ReportRequest /\ Len(reports) < MaxReports
        /\ reports' = Append(reports, row)
        /\ Signed(p.reporter, "create", p.request) /\ Ends(h)
        /\ UNCHANGED <<admins, down, deleted, audit, notices>>
    BY DEF CreateReport
  <1>2. p.reporter \in Users /\ p.target \in Targets /\ p.request \in RequestIDs
    BY <1>1, ModerationAssumption DEF ReportRequest
  <1>3. row \in Report
    BY <1>2, ModerationAssumption DEF Report, Unfinished
  <1>4. reports' \in Seq(Report) /\ Len(reports') <= MaxReports
    <2>1. reports \in Seq(Report)
      BY DEF ModerationTypeOK
    <2> QED  BY <1>1, <1>3, <2>1, ModerationAssumption
  <1>5. receipts' \subseteq Receipt
    BY <1>1, <1>2, SignedTypes
  <1>6. pending' \in [Handlers -> Users \cup ReportRequest \cup {None}]
    BY <1>1, EndsTypes
  <1> QED  BY <1>1, <1>4, <1>5, <1>6 DEF ModerationTypeOK

LEMMA AssignTypes ==
  ASSUME ModerationTypeOK, NEW h \in Handlers, NEW q \in RequestIDs, NEW r \in DOMAIN reports,
         AssignReport(h, r, q)
  PROVE  ModerationTypeOK'
  <1> DEFINE a == pending[h]
             row == [actor |-> a, report |-> r, target |-> reports[r].target, action |-> "assign",
                     before |-> "open", after |-> "investigating", request |-> q]
  <1>1. /\ a \in Users
        /\ reports' = [reports EXCEPT ![r] = Taken(reports[r], a)]
        /\ Audited(row) /\ Signed(a, "assign", q) /\ Ends(h)
        /\ UNCHANGED <<admins, down, deleted, notices>>
    BY DEF AssignReport
  <1>2. Taken(reports[r], a) \in Report
    <2>1. "resolved" \in Finished /\ 0 \in 0..MaxActions
      BY ModerationAssumption DEF Finished
    <2> QED  BY <1>1, <2>1, NewRow
  <1>3. reports' \in Seq(Report) /\ Len(reports') <= MaxReports
    BY <1>1, <1>2, ReportReplaced
  <1>4. row \in AuditRow
    <2>1. r \in 0..MaxReports /\ reports[r].target \in Targets
      BY ReportTypes, ModerationAssumption
    <2> QED  BY <1>1, <2>1 DEF AuditRow
  <1>5. audit' \in Seq(AuditRow) /\ Len(audit') <= MaxActions
    BY <1>1, <1>4, AuditTypes
  <1>6. receipts' \subseteq Receipt
    BY <1>1, SignedTypes
  <1>7. pending' \in [Handlers -> Users \cup ReportRequest \cup {None}]
    BY <1>1, EndsTypes
  <1> QED  BY <1>1, <1>3, <1>5, <1>6, <1>7 DEF ModerationTypeOK

LEMMA RejectTypes ==
  ASSUME ModerationTypeOK, NEW h \in Handlers, NEW q \in RequestIDs, NEW r \in DOMAIN reports,
         RejectReport(h, r, q)
  PROVE  ModerationTypeOK'
  <1> DEFINE a == pending[h]
             told == Emit(reports[r].reporter, a, "report", r, "rejected")
  <1>1. /\ a \in Users
        /\ reports' = [reports EXCEPT ![r] = Ended(reports[r], "rejected", 0)]
        /\ notices' = notices \cup told
        /\ Signed(a, "resolve", q) /\ Ends(h)
        /\ UNCHANGED <<admins, down, deleted, audit>>
    BY DEF RejectReport
  <1>2. "rejected" \in Finished /\ 0 \in 0..MaxActions
    BY ModerationAssumption DEF Finished
  <1>3. Ended(reports[r], "rejected", 0) \in Report
    BY <1>1, <1>2, NewRow
  <1>4. reports' \in Seq(Report) /\ Len(reports') <= MaxReports
    BY <1>1, <1>3, ReportReplaced
  <1>5. told \subseteq Notice
    BY <1>2, ReportTypes, EmitTypes
  <1>6. notices' \subseteq Notice
    BY <1>1, <1>5 DEF ModerationTypeOK
  <1>7. receipts' \subseteq Receipt
    BY <1>1, SignedTypes
  <1>8. pending' \in [Handlers -> Users \cup ReportRequest \cup {None}]
    BY <1>1, EndsTypes
  <1> QED  BY <1>1, <1>4, <1>6, <1>7, <1>8 DEF ModerationTypeOK

LEMMA ResolveTypes ==
  ASSUME ModerationTypeOK, NEW h \in Handlers, NEW q \in RequestIDs, NEW r \in DOMAIN reports,
         NEW action \in Lowering \cup Raising, ResolveReport(h, r, action, q)
  PROVE  ModerationTypeOK'
  <1> DEFINE a == pending[h]
             t == reports[r].target
             told == Emit(reports[r].reporter, a, "report", r, "resolved")
             row == Ended(reports[r], "resolved", Len(audit) + 1)
  <1>1. /\ a \in Users /\ Apply(a, t, action, r, q)
        /\ reports' = [reports EXCEPT ![r] = row]
        /\ notices' = notices \cup Told(a, t, action) \cup told
        /\ Signed(a, "resolve", q) /\ Ends(h)
    BY DEF ResolveReport
  <1>2. /\ reports[r].reporter \in Users /\ t \in Targets
        /\ r \in 1..MaxReports /\ r \in 0..Len(reports)
    BY ReportTypes
  <1>3. /\ down' \subseteq Targets /\ Told(a, t, action) \subseteq Notice
        /\ audit' \in Seq(AuditRow) /\ Len(audit') <= MaxActions /\ Len(audit) + 1 \in 1..MaxActions
    BY <1>1, <1>2, ApplyTypes
  <1>4. "resolved" \in Finished /\ Len(audit) + 1 \in 0..MaxActions
    BY <1>3 DEF Finished
  <1>5. row \in Report
    BY <1>1, <1>4, NewRow
  <1>6. reports' \in Seq(Report) /\ Len(reports') <= MaxReports
    BY <1>1, <1>5, ReportReplaced
  <1>7. told \subseteq Notice
    BY <1>2, <1>4, EmitTypes
  <1>8. notices' \subseteq Notice
    BY <1>1, <1>3, <1>7 DEF ModerationTypeOK
  <1>9. receipts' \subseteq Receipt
    BY <1>1, SignedTypes
  <1>10. pending' \in [Handlers -> Users \cup ReportRequest \cup {None}]
    BY <1>1, EndsTypes
  <1>11. admins' = admins /\ deleted' = deleted
    BY <1>1 DEF Apply
  <1> QED  BY <1>3, <1>6, <1>8, <1>9, <1>10, <1>11 DEF ModerationTypeOK

LEMMA ModerateTypes ==
  ASSUME ModerationTypeOK, NEW h \in Handlers, NEW q \in RequestIDs, NEW t \in Targets,
         NEW action \in Lowering \cup Raising, NEW r \in 0..Len(reports),
         ModerateTarget(h, t, action, r, q)
  PROVE  ModerationTypeOK'
  <1> DEFINE a == pending[h]
  <1>1. /\ a \in Users /\ Apply(a, t, action, r, q)
        /\ notices' = notices \cup Told(a, t, action)
        /\ Signed(a, action, q) /\ Ends(h) /\ UNCHANGED reports
    BY DEF ModerateTarget
  <1>2. /\ down' \subseteq Targets /\ Told(a, t, action) \subseteq Notice
        /\ audit' \in Seq(AuditRow) /\ Len(audit') <= MaxActions
    BY <1>1, ApplyTypes
  <1>3. receipts' \subseteq Receipt
    BY <1>1, SignedTypes
  <1>4. pending' \in [Handlers -> Users \cup ReportRequest \cup {None}]
    BY <1>1, EndsTypes
  <1>5. admins' = admins /\ deleted' = deleted
    BY <1>1 DEF Apply
  <1> QED  BY <1>1, <1>2, <1>3, <1>4, <1>5 DEF ModerationTypeOK

LEMMA StepTypes == ASSUME ModerationTypeOK, [ModerationNext]_moderationVars PROVE ModerationTypeOK'
  <1>1. CASE UNCHANGED moderationVars
    BY <1>1 DEF ModerationTypeOK, moderationVars, reportVars
  <1>2. ASSUME NEW h \in Handlers, NEW request \in ReportRequest, ReportLooks(h, request)
        PROVE  ModerationTypeOK'
    BY <1>2, LooksTypes DEF ReportLooks
  <1>3. ASSUME NEW h \in Handlers, NEW a \in Users, RequireAdmin(h, a)
        PROVE  ModerationTypeOK'
    BY <1>3, LooksTypes DEF RequireAdmin
  <1>4. ASSUME NEW h \in Handlers, Refused(h) PROVE ModerationTypeOK'
    BY <1>4, EndsTypes DEF Refused, ModerationTypeOK, reportVars
  <1>5. ASSUME NEW c \in Contents, DeleteContent(c) PROVE ModerationTypeOK'
    BY <1>5 DEF DeleteContent, ModerationTypeOK, reportVars
  <1>6. ASSUME NEW u \in Users, Grant(u) \/ Revoke(u) PROVE ModerationTypeOK'
    BY <1>6 DEF Grant, Revoke, ModerationTypeOK, reportVars
  <1> QED  BY <1>1, <1>2, <1>3, <1>4, <1>5, <1>6, CreateTypes, AssignTypes, RejectTypes,
              ResolveTypes, ModerateTypes, Steps

\* Every table keeps its shape: reports, the audit, receipts, notices, and what
\* the requests in hand were let in with.
THEOREM ModerationTypeCorrect == ModerationSpec => []ModerationTypeOK
  <1>1. ModerationTypeOK /\ [ModerationNext]_moderationVars => ModerationTypeOK'
    BY StepTypes
  <1> QED  BY <1>1, InitTypes, PTL DEF ModerationSpec

-----------------------------------------------------------------------------
(***************************************************************************)
(* An administrator remains.                                               *)
(***************************************************************************)

LEMMA ActiveFinite ==
  ASSUME ModerationTypeOK
  PROVE  IsFiniteSet(Active) /\ Cardinality(Active) \in Nat /\ Active \subseteq Users
  <1>1. Active \subseteq Users /\ IsFiniteSet(Users)
    BY ModerationAssumption DEF Active, ModerationTypeOK
  <1>2. IsFiniteSet(Active)
    BY <1>1, FS_Subset
  <1> QED  BY <1>1, <1>2, FS_CardinalityType

\* Where the count allows it, somebody stays when one goes.
LEMMA OneStays ==
  ASSUME ModerationTypeOK, NEW u, u \in Active => Cardinality(Active) > 1, Active # {}
  PROVE  Active \ {u} # {}
  <1>1. CASE u \notin Active
    BY <1>1
  <1>2. CASE u \in Active
    <2>1. Cardinality(Active \ {u}) = Cardinality(Active) - 1
      BY <1>2, ActiveFinite, FS_RemoveElement
    <2>2. Cardinality(Active \ {u}) # 0
      BY <1>2, <2>1, ActiveFinite
    <2> QED  BY <2>2, FS_EmptySet
  <1> QED  BY <1>1, <1>2

\* The check is made of the present, so that it does not matter what a request
\* was let in with.
LEMMA ApplyLeavesOne ==
  ASSUME ModerationTypeOK, AdministratorRemains, NEW a, NEW t \in Targets, NEW q,
         NEW action \in Lowering \cup Raising, NEW r, Apply(a, t, action, r, q)
  PROVE  AdministratorRemains'
  <1>1. /\ action \in ActionsOn(t) /\ admins' = admins
        /\ action = "disable" => ~LastAdmin(t)
        /\ down' = IF action \in Lowering THEN down \cup {t} ELSE down \ {t}
    BY DEF Apply
  <1>2. CASE action = "disable"
    <2>1. Active' = Active \ {t}
      BY <1>1, <1>2 DEF Active, Lowering
    <2>2. t \in Active => Cardinality(Active) > 1
      BY <1>1, <1>2, ActiveFinite DEF LastAdmin
    <2>3. Active \ {t} # {}
      BY <2>2, OneStays DEF AdministratorRemains
    <2> QED  BY <2>1, <2>3 DEF AdministratorRemains
  <1>3. CASE action = "hide"
    <2>1. t \notin Users
      BY <1>1, <1>3 DEF ActionsOn
    <2>2. Active' = Active
      BY <1>1, <1>3, <2>1 DEF Active, Lowering, ModerationTypeOK
    <2> QED  BY <2>2 DEF AdministratorRemains
  <1>4. CASE action \in Raising
    <2>1. Active \subseteq Active'
      BY <1>1, <1>4 DEF Active, Lowering, Raising
    <2> QED  BY <2>1 DEF AdministratorRemains
  <1> QED  BY <1>2, <1>3, <1>4 DEF Lowering

LEMMA StepRemains ==
  ASSUME ModerationTypeOK, AdministratorRemains, [ModerationNext]_moderationVars
  PROVE  AdministratorRemains'
  <1>1. CASE UNCHANGED <<admins, down>>
    BY <1>1 DEF AdministratorRemains, Active
  <1>2. UNCHANGED moderationVars => UNCHANGED <<admins, down>>
    BY DEF moderationVars
  <1>3. ASSUME NEW h \in Handlers, NEW request, ReportLooks(h, request) \/ RequireAdmin(h, request)
        PROVE  UNCHANGED <<admins, down>>
    BY <1>3 DEF ReportLooks, RequireAdmin, LetIn
  <1>4. ASSUME NEW h \in Handlers, CreateReport(h) \/ Refused(h) PROVE UNCHANGED <<admins, down>>
    BY <1>4 DEF CreateReport, Refused
  <1>5. ASSUME NEW h, NEW q, NEW r, AssignReport(h, r, q) \/ RejectReport(h, r, q)
        PROVE  UNCHANGED <<admins, down>>
    BY <1>5 DEF AssignReport, RejectReport
  <1>6. ASSUME NEW h \in Handlers, NEW q \in RequestIDs, NEW r \in DOMAIN reports,
               NEW action \in Lowering \cup Raising, ResolveReport(h, r, action, q)
        PROVE  AdministratorRemains'
    BY <1>6, ReportTypes, ApplyLeavesOne DEF ResolveReport
  <1>7. ASSUME NEW h \in Handlers, NEW q \in RequestIDs, NEW t \in Targets,
               NEW action \in Lowering \cup Raising, NEW r \in 0..Len(reports),
               ModerateTarget(h, t, action, r, q)
        PROVE  AdministratorRemains'
    BY <1>7, ApplyLeavesOne DEF ModerateTarget
  <1>8. ASSUME NEW c \in Contents, DeleteContent(c) PROVE UNCHANGED <<admins, down>>
    BY <1>8 DEF DeleteContent
  <1>9. ASSUME NEW u \in Users, Grant(u) PROVE AdministratorRemains'
    BY <1>9 DEF Grant, AdministratorRemains, Active
  <1>10. ASSUME NEW u \in Users, Revoke(u) PROVE AdministratorRemains'
    <2>1. Active' = Active \ {u}
      BY <1>10 DEF Revoke, Active
    <2>2. u \in Active => Cardinality(Active) > 1
      BY <1>10 DEF Revoke, Active
    <2> QED  BY <2>1, <2>2, OneStays DEF AdministratorRemains
  <1> QED  BY <1>1, <1>2, <1>3, <1>4, <1>5, <1>6, <1>7, <1>8, <1>9, <1>10, Steps

\* There is always an administrator who is not disabled, through disablings by
\* applyTargetTx and revocations by the command line in any order, whatever the
\* requests in hand were let in with.
THEOREM AnAdministratorRemains == ModerationSpec => []AdministratorRemains
  <1>1. ModerationInit => AdministratorRemains
    BY ModerationAssumption DEF ModerationInit, AdministratorRemains, Active
  <1>2. ModerationTypeOK /\ AdministratorRemains /\ [ModerationNext]_moderationVars
        => AdministratorRemains'
    BY StepRemains
  <1> QED  BY <1>1, <1>2, ModerationTypeCorrect, PTL DEF ModerationSpec

-----------------------------------------------------------------------------
(***************************************************************************)
(* One open report.                                                        *)
(***************************************************************************)

\* A row that holds its key only if the one before did, and is unfinished only
\* with it, breaks nothing.
LEMMA ReplacedKeepsKeys ==
  ASSUME ModerationTypeOK, KeysHeld, NEW r \in DOMAIN reports, NEW row \in Report,
         reports' = [reports EXCEPT ![r] = row],
         row.reporter = reports[r].reporter, row.target = reports[r].target,
         row.active => reports[r].active, row.status \in Unfinished => row.active
  PROVE  KeysHeld'
  <1>1. /\ DOMAIN reports' = DOMAIN reports /\ reports'[r] = row
        /\ \A s \in DOMAIN reports : s # r => reports'[s] = reports[s]
    BY ReportReplaced
  <1>2. \A s \in DOMAIN reports :
          /\ reports'[s].reporter = reports[s].reporter /\ reports'[s].target = reports[s].target
          /\ reports'[s].active => reports[s].active
          /\ reports'[s].status \in Unfinished => reports'[s].active
    BY <1>1 DEF KeysHeld
  <1> QED  BY <1>1, <1>2 DEF KeysHeld

\* The step that matters: the unique key.
LEMMA CreateKeepsKeys ==
  ASSUME ModerationTypeOK, KeysHeld, NEW h \in Handlers, CreateReport(h)
  PROVE  KeysHeld'
  <1> DEFINE p == pending[h]
             row == [reporter |-> p.reporter, target |-> p.target, status |-> "open",
                     assigned |-> None, action |-> 0, active |-> TRUE]
             new == Len(reports) + 1
  <1>1. reports' = Append(reports, row) /\ KeyFree(p.reporter, p.target)
    BY DEF CreateReport
  <1>2. /\ DOMAIN reports' = DOMAIN reports \cup {new} /\ new \notin DOMAIN reports
        /\ reports'[new] = row
        /\ \A s \in DOMAIN reports : reports'[s] = reports[s]
    <2>1. reports \in Seq(Report)
      BY DEF ModerationTypeOK
    <2> QED  BY <1>1, <2>1
  <1>3. \A s \in DOMAIN reports :
          reports[s].active => reports[s].reporter # row.reporter \/ reports[s].target # row.target
    BY <1>1 DEF KeyFree
  <1>4. \A s \in DOMAIN reports' : reports'[s].status \in Unfinished => reports'[s].active
    BY <1>2 DEF KeysHeld
  <1>5. ASSUME NEW s \in DOMAIN reports', NEW t \in DOMAIN reports',
               reports'[s].active, reports'[t].active,
               reports'[s].reporter = reports'[t].reporter, reports'[s].target = reports'[t].target
        PROVE  s = t
    <2>1. CASE s = new /\ t # new
      BY <1>2, <1>3, <1>5, <2>1
    <2>2. CASE s # new /\ t = new
      BY <1>2, <1>3, <1>5, <2>2
    <2>3. CASE s # new /\ t # new
      BY <1>2, <1>5, <2>3 DEF KeysHeld
    <2> QED  BY <2>1, <2>2, <2>3
  <1> QED  BY <1>4, <1>5 DEF KeysHeld

LEMMA StepKeys ==
  ASSUME ModerationTypeOK, KeysHeld, [ModerationNext]_moderationVars
  PROVE  KeysHeld'
  <1>1. CASE UNCHANGED reports
    BY <1>1 DEF KeysHeld
  <1>2. UNCHANGED moderationVars => UNCHANGED reports
    BY DEF moderationVars, reportVars
  <1>3. ASSUME NEW h, NEW request, ReportLooks(h, request) \/ RequireAdmin(h, request)
        PROVE  UNCHANGED reports
    BY <1>3 DEF ReportLooks, RequireAdmin, LetIn, reportVars
  <1>4. ASSUME NEW h, Refused(h) PROVE UNCHANGED reports
    BY <1>4 DEF Refused, reportVars
  <1>5. ASSUME NEW h, NEW q, NEW t, NEW action, NEW r, ModerateTarget(h, t, action, r, q)
        PROVE  UNCHANGED reports
    BY <1>5 DEF ModerateTarget
  <1>6. ASSUME NEW u, DeleteContent(u) \/ Grant(u) \/ Revoke(u) PROVE UNCHANGED reports
    BY <1>6 DEF DeleteContent, Grant, Revoke, reportVars
  <1>7. ASSUME NEW h \in Handlers, NEW q \in RequestIDs, NEW r \in DOMAIN reports,
               AssignReport(h, r, q)
        PROVE  KeysHeld'
    <2> DEFINE row == Taken(reports[r], pending[h])
    <2>1. /\ pending[h] \in Users /\ reports[r].status = "open"
          /\ reports' = [reports EXCEPT ![r] = row]
      BY <1>7 DEF AssignReport, IsOpen
    <2>2. /\ row \in Report /\ row.active = reports[r].active
          /\ row.reporter = reports[r].reporter /\ row.target = reports[r].target
      <3>1. "resolved" \in Finished /\ 0 \in 0..MaxActions
        BY ModerationAssumption DEF Finished
      <3> QED  BY <2>1, <3>1, NewRow
    <2>3. reports[r].active
      BY <2>1 DEF KeysHeld, Unfinished
    <2> QED  BY <2>1, <2>2, <2>3, ReplacedKeepsKeys
  <1>8. ASSUME NEW r \in DOMAIN reports, NEW status \in Finished, NEW action \in 0..MaxActions,
               reports' = [reports EXCEPT ![r] = Ended(reports[r], status, action)]
        PROVE  KeysHeld'
    <2> DEFINE row == Ended(reports[r], status, action)
    <2>1. reports[r] \in Report
      BY ReportTypes
    <2>2. row \in Report /\ row.active = FALSE /\ row.status \notin Unfinished
      BY <2>1 DEF Report, Ended, Finished, Unfinished
    <2>3. row.reporter = reports[r].reporter /\ row.target = reports[r].target
      BY <2>1 DEF Report, Ended
    <2> QED  BY <1>8, <2>2, <2>3, ReplacedKeepsKeys
  <1>9. ASSUME NEW h, NEW q, NEW r \in DOMAIN reports, RejectReport(h, r, q) PROVE KeysHeld'
    <2>1. "rejected" \in Finished /\ 0 \in 0..MaxActions
      BY ModerationAssumption DEF Finished
    <2>2. reports' = [reports EXCEPT ![r] = Ended(reports[r], "rejected", 0)]
      BY <1>9 DEF RejectReport
    <2> QED  BY <1>8, <2>1, <2>2
  <1>10. ASSUME NEW h \in Handlers, NEW q \in RequestIDs, NEW r \in DOMAIN reports,
                NEW action \in Lowering \cup Raising, ResolveReport(h, r, action, q)
         PROVE  KeysHeld'
    <2>1. /\ pending[h] \in Users
          /\ Apply(pending[h], reports[r].target, action, r, q)
          /\ reports' = [reports EXCEPT ![r] = Ended(reports[r], "resolved", Len(audit) + 1)]
      BY <1>10 DEF ResolveReport
    <2>2. reports[r].target \in Targets /\ r \in 0..Len(reports)
      BY ReportTypes
    <2>3. Len(audit) + 1 \in 1..MaxActions
      BY <2>1, <2>2, ApplyTypes
    <2>4. Len(audit) + 1 \in 0..MaxActions /\ "resolved" \in Finished
      BY <2>3 DEF Finished
    <2> QED  BY <1>8, <2>1, <2>4
  <1> QED  BY <1>1, <1>2, <1>3, <1>4, <1>5, <1>6, <1>7, <1>9, <1>10, CreateKeepsKeys, Steps

\* The inductive invariant: tables of their types, an administrator, keys that
\* are held by the unfinished reports and by no two (uq_reports_active).
THEOREM ModerationInvariant == ModerationSpec => []ModerationInv
  <1>1. ModerationInit => KeysHeld
    BY DEF ModerationInit, KeysHeld
  <1>2. ModerationTypeOK /\ KeysHeld /\ [ModerationNext]_moderationVars => KeysHeld'
    BY StepKeys
  <1>3. ModerationSpec => []KeysHeld
    BY <1>1, <1>2, ModerationTypeCorrect, PTL DEF ModerationSpec
  <1> QED  BY <1>3, ModerationTypeCorrect, AnAdministratorRemains, PTL DEF ModerationInv

\* A user has one unfinished report of a target: CreateReport's look, which takes
\* no lock, does not matter, for the key is unique, is held while a report is
\* unfinished and is freed only in the step that ends it.
THEOREM OneReportIsOpen == ModerationSpec => []OneOpenReport
  <1>1. ModerationInv => OneOpenReport
    BY DEF ModerationInv, KeysHeld, OneOpenReport
  <1> QED  BY <1>1, ModerationInvariant, PTL

-----------------------------------------------------------------------------
(***************************************************************************)
(* What the steps write.                                                   *)
(***************************************************************************)

\* The audit has one row more, its n-th.
Grows(n) ==
  /\ DOMAIN audit' = DOMAIN audit \cup {n}
  /\ n \notin DOMAIN audit
  /\ \A i \in DOMAIN audit : i \in Nat /\ i < n /\ audit'[i] = audit[i]

LEMMA Recorded ==
  ASSUME ModerationTypeOK, NEW row \in AuditRow, Audited(row), NEW n \in Nat, n = Len(audit) + 1
  PROVE  Grows(n) /\ audit'[n] = row
  <1>1. audit \in Seq(AuditRow) /\ audit' = Append(audit, row)
    BY DEF ModerationTypeOK, Audited
  <1> QED  BY <1>1 DEF Grows

LEMMA ApplyFacts ==
  ASSUME ModerationTypeOK, NEW a \in Users, NEW t \in Targets, NEW q \in RequestIDs,
         NEW action \in Lowering \cup Raising, NEW r \in 0..Len(reports), Apply(a, t, action, r, q),
         NEW n \in Nat, n = Len(audit) + 1
  PROVE  /\ Grows(n)
         /\ audit'[n].actor = a /\ audit'[n].report = r /\ audit'[n].target = t
         /\ audit'[n].action = action /\ action # "assign"
         /\ audit'[n].before = StateOf(t) /\ audit'[n].after = After(action)
         /\ StateOf(t)' = After(action)
         /\ \A s : s # t => StateOf(s)' = StateOf(s)
  <1> DEFINE row == [actor |-> a, report |-> r, target |-> t, action |-> action,
                     before |-> Before(t, action), after |-> After(action), request |-> q]
  <1>1. r \in 0..MaxReports
    BY ModerationAssumption DEF ModerationTypeOK
  <1>2. row \in AuditRow
    BY <1>1 DEF AuditRow, Before, StateOf, After
  <1>3. Audited(row)
    BY DEF Apply
  <1>4. Grows(n) /\ audit'[n] = row
    BY <1>2, <1>3, Recorded
  <1>5. down' = IF action \in Lowering THEN down \cup {t} ELSE down \ {t}
    BY DEF Apply
  <1>6. StateOf(t)' = After(action) /\ \A s : s # t => StateOf(s)' = StateOf(s)
    BY <1>5 DEF StateOf, After
  <1> QED  BY <1>4, <1>6 DEF Before, Lowering, Raising

\* What an assignment, and an end, make of reports and of the audit.
LEMMA AssignFacts ==
  ASSUME ModerationTypeOK, NEW h \in Handlers, NEW q \in RequestIDs, NEW r \in DOMAIN reports,
         AssignReport(h, r, q), NEW n \in Nat, n = Len(audit) + 1
  PROVE  /\ pending[h] \in Users /\ reports[r].status = "open"
         /\ DOMAIN reports' = DOMAIN reports
         /\ reports'[r].status = "investigating" /\ reports'[r].assigned = pending[h]
         /\ reports'[r].reporter = reports[r].reporter /\ reports'[r].target = reports[r].target
         /\ \A s \in DOMAIN reports : s # r => reports'[s] = reports[s]
         /\ Grows(n) /\ audit'[n].action = "assign" /\ audit'[n].report = r
         /\ audit'[n].actor = pending[h]
         /\ UNCHANGED <<down, notices>>
  <1> DEFINE a == pending[h]
             row == [actor |-> a, report |-> r, target |-> reports[r].target, action |-> "assign",
                     before |-> "open", after |-> "investigating", request |-> q]
  <1>1. /\ a \in Users /\ reports[r].status = "open"
        /\ reports' = [reports EXCEPT ![r] = Taken(reports[r], a)]
        /\ Audited(row) /\ UNCHANGED <<down, notices>>
    BY DEF AssignReport, IsOpen
  <1>2. "resolved" \in Finished /\ 0 \in 0..MaxActions
    BY ModerationAssumption DEF Finished
  <1>3. Taken(reports[r], a) \in Report
    BY <1>1, <1>2, NewRow
  <1>4. /\ DOMAIN reports' = DOMAIN reports /\ reports'[r] = Taken(reports[r], a)
        /\ \A s \in DOMAIN reports : s # r => reports'[s] = reports[s]
    BY <1>1, <1>3, ReportReplaced
  <1>5. /\ Taken(reports[r], a).status = "investigating" /\ Taken(reports[r], a).assigned = a
        /\ Taken(reports[r], a).reporter = reports[r].reporter
        /\ Taken(reports[r], a).target = reports[r].target
    BY ReportTypes DEF Taken, Report
  <1>6. row \in AuditRow
    <2>1. r \in 0..MaxReports /\ reports[r].target \in Targets
      BY ReportTypes, ModerationAssumption
    <2> QED  BY <1>1, <2>1 DEF AuditRow
  <1>7. Grows(n) /\ audit'[n] = row
    BY <1>1, <1>6, Recorded
  <1> QED  BY <1>1, <1>4, <1>5, <1>7

LEMMA EndFacts ==
  ASSUME ModerationTypeOK, NEW r \in DOMAIN reports, NEW status \in Finished,
         NEW action \in 0..MaxActions,
         reports' = [reports EXCEPT ![r] = Ended(reports[r], status, action)]
  PROVE  /\ DOMAIN reports' = DOMAIN reports
         /\ reports'[r].status = status /\ reports'[r].action = action
         /\ reports'[r].reporter = reports[r].reporter /\ reports'[r].target = reports[r].target
         /\ reports'[r].assigned = reports[r].assigned
         /\ \A s \in DOMAIN reports : s # r => reports'[s] = reports[s]
  <1>1. reports[r] \in Report
    BY ReportTypes
  <1>2. Ended(reports[r], status, action) \in Report
    BY <1>1 DEF Ended, Report
  <1>3. /\ DOMAIN reports' = DOMAIN reports /\ reports'[r] = Ended(reports[r], status, action)
        /\ \A s \in DOMAIN reports : s # r => reports'[s] = reports[s]
    BY <1>2, ReportReplaced
  <1> QED  BY <1>1, <1>3 DEF Ended, Report

LEMMA CreateFacts ==
  ASSUME ModerationTypeOK, NEW h \in Handlers, CreateReport(h), NEW new \in Nat, new = Len(reports) + 1
  PROVE  /\ DOMAIN reports' = DOMAIN reports \cup {new} /\ new \notin DOMAIN reports
         /\ reports'[new].status = "open" /\ reports'[new].assigned = None
         /\ \A s \in DOMAIN reports : reports'[s] = reports[s]
         /\ UNCHANGED <<audit, down, notices>>
  <1>1. reports \in Seq(Report)
    BY DEF ModerationTypeOK
  <1>2. PICK row : reports' = Append(reports, row) /\ row.status = "open" /\ row.assigned = None
    BY DEF CreateReport
  <1>3. UNCHANGED <<audit, down, notices>>
    BY DEF CreateReport
  <1> QED  BY <1>1, <1>2, <1>3

\* ResolveReport and RejectReport, the whole of them.
LEMMA ResolveFacts ==
  ASSUME ModerationTypeOK, NEW h \in Handlers, NEW q \in RequestIDs, NEW r \in DOMAIN reports,
         NEW action \in Lowering \cup Raising, ResolveReport(h, r, action, q),
         NEW n \in Nat, n = Len(audit) + 1
  PROVE  /\ pending[h] \in Users /\ reports[r].target \in Targets /\ r \in 0..Len(reports)
         /\ Apply(pending[h], reports[r].target, action, r, q)
         /\ reports[r].status \in Unfinished
         /\ DOMAIN reports' = DOMAIN reports
         /\ reports'[r].status = "resolved" /\ reports'[r].action = n
         /\ reports'[r].reporter = reports[r].reporter /\ reports'[r].target = reports[r].target
         /\ reports'[r].assigned = reports[r].assigned
         /\ \A s \in DOMAIN reports : s # r => reports'[s] = reports[s]
         /\ notices' = notices \cup Told(pending[h], reports[r].target, action)
                               \cup Emit(reports[r].reporter, pending[h], "report", r, "resolved")
  <1>1. /\ pending[h] \in Users /\ Apply(pending[h], reports[r].target, action, r, q)
        /\ reports[r].status \in Unfinished
        /\ reports' = [reports EXCEPT ![r] = Ended(reports[r], "resolved", Len(audit) + 1)]
        /\ notices' = notices \cup Told(pending[h], reports[r].target, action)
                              \cup Emit(reports[r].reporter, pending[h], "report", r, "resolved")
    BY DEF ResolveReport, CanEnd
  <1>2. reports[r].target \in Targets /\ r \in 0..Len(reports)
    BY ReportTypes
  <1>3. Len(audit) + 1 \in 1..MaxActions
    BY <1>1, <1>2, ApplyTypes
  <1>4. n \in 0..MaxActions /\ "resolved" \in Finished
    BY <1>3 DEF Finished
  <1> QED  BY <1>1, <1>2, <1>4, EndFacts, ZenonT(60)

LEMMA RejectFacts ==
  ASSUME ModerationTypeOK, NEW h, NEW q, NEW r \in DOMAIN reports, RejectReport(h, r, q)
  PROVE  /\ pending[h] \in Users
         /\ reports[r].status \in Unfinished
         /\ DOMAIN reports' = DOMAIN reports
         /\ reports'[r].status = "rejected"
         /\ reports'[r].reporter = reports[r].reporter /\ reports'[r].target = reports[r].target
         /\ reports'[r].assigned = reports[r].assigned
         /\ \A s \in DOMAIN reports : s # r => reports'[s] = reports[s]
         /\ notices' = notices \cup Emit(reports[r].reporter, pending[h], "report", r, "rejected")
         /\ UNCHANGED <<audit, down>>
  <1>1. /\ pending[h] \in Users /\ reports[r].status \in Unfinished
        /\ reports' = [reports EXCEPT ![r] = Ended(reports[r], "rejected", 0)]
        /\ notices' = notices \cup Emit(reports[r].reporter, pending[h], "report", r, "rejected")
        /\ UNCHANGED <<audit, down>>
    BY DEF RejectReport, CanEnd
  <1>2. 0 \in 0..MaxActions /\ "rejected" \in Finished
    BY ModerationAssumption DEF Finished
  <1> QED  BY <1>1, <1>2, EndFacts

\* The steps, as the tables see them.
LEMMA TableSteps ==
  ASSUME [ModerationNext]_moderationVars
  PROVE  \/ UNCHANGED <<reports, audit, down, notices>>
         \/ \E h \in Handlers : CreateReport(h)
         \/ \E h \in Handlers, q \in RequestIDs, r \in DOMAIN reports : AssignReport(h, r, q)
         \/ \E h \in Handlers, q \in RequestIDs, r \in DOMAIN reports : RejectReport(h, r, q)
         \/ \E h \in Handlers, q \in RequestIDs, r \in DOMAIN reports,
               action \in Lowering \cup Raising :
              ResolveReport(h, r, action, q)
         \/ \E h \in Handlers, q \in RequestIDs, t \in Targets, action \in Lowering \cup Raising,
               r \in 0..Len(reports) : ModerateTarget(h, t, action, r, q)
  <1>1. UNCHANGED moderationVars => UNCHANGED <<reports, audit, down, notices>>
    BY DEF moderationVars, reportVars
  <1>2. ASSUME NEW h, NEW request, ReportLooks(h, request) \/ RequireAdmin(h, request)
        PROVE  UNCHANGED <<reports, audit, down, notices>>
    BY <1>2 DEF ReportLooks, RequireAdmin, LetIn, reportVars
  <1>3. ASSUME NEW h, Refused(h) PROVE UNCHANGED <<reports, audit, down, notices>>
    BY <1>3 DEF Refused, reportVars
  <1>4. ASSUME NEW u, DeleteContent(u) \/ Grant(u) \/ Revoke(u)
        PROVE  UNCHANGED <<reports, audit, down, notices>>
    BY <1>4 DEF DeleteContent, Grant, Revoke, reportVars
  <1> QED  BY <1>1, <1>2, <1>3, <1>4, Steps

-----------------------------------------------------------------------------
(***************************************************************************)
(* The audit explains the state.                                           *)
(***************************************************************************)

Latest(history, m) == m \in history /\ \A j \in history : j <= m

\* A history that is not empty has a last action.
HasLatest(history) == history = {} \/ \E m \in history : Latest(history, m)

\* AuditExplainsState for one target, and that its histories have an end, which
\* is what makes sense of their last action.
Explained(t) ==
  /\ \A i \in HistoryOf(t) : audit[i].before = Leaves({j \in HistoryOf(t) : j < i})
  /\ StateOf(t) = Leaves(HistoryOf(t))
  /\ HasLatest(HistoryOf(t))
  /\ \A i \in HistoryOf(t) : HasLatest({j \in HistoryOf(t) : j < i})

\* The last action leaves the target in its state.
LEMMA LeavesLatest ==
  ASSUME NEW history, history \subseteq Nat, NEW m, Latest(history, m)
  PROVE  Leaves(history) = audit[m].after /\ Leaves(history)' = audit'[m].after
  <1>1. history # {} /\ m \in history
    BY DEF Latest
  <1>2. \A i \in history : (\A j \in history : j <= i) => i = m
    BY DEF Latest
  <1>3. (CHOOSE i \in history : \A j \in history : j <= i) = m
    BY <1>1, <1>2 DEF Latest
  <1> QED  BY <1>1, <1>3 DEF Leaves

\* Later rows of the audit do not change what a history left.
LEMMA LeavesStays ==
  ASSUME NEW n, Grows(n), NEW history, history \subseteq DOMAIN audit, HasLatest(history)
  PROVE  Leaves(history)' = Leaves(history)
  <1>1. history \subseteq Nat
    BY DEF Grows
  <1>2. CASE history = {}
    BY <1>2 DEF Leaves
  <1>3. ASSUME NEW m \in history, Latest(history, m)
        PROVE  Leaves(history)' = Leaves(history)
    <2>1. audit'[m] = audit[m]
      BY <1>3 DEF Grows
    <2> QED  BY <1>1, <1>3, <2>1, LeavesLatest
  <1> QED  BY <1>2, <1>3 DEF HasLatest

LEMMA HistoryChange ==
  ASSUME NEW n, Grows(n), NEW t
  PROVE  /\ HistoryOf(t) \subseteq DOMAIN audit /\ n \notin HistoryOf(t)
         /\ HistoryOf(t)' = IF audit'[n].target = t /\ audit'[n].action # "assign"
                              THEN HistoryOf(t) \cup {n} ELSE HistoryOf(t)
  BY DEF Grows, HistoryOf

\* A row that is not an action on t.
LEMMA ExplainedStays ==
  ASSUME NEW n, Grows(n), NEW t, Explained(t), audit'[n].target # t \/ audit'[n].action = "assign",
         StateOf(t)' = StateOf(t)
  PROVE  Explained(t)'
  <1>1. PICK history : history = HistoryOf(t) /\ history \subseteq DOMAIN audit
    BY HistoryChange
  <1>2. HistoryOf(t)' = history
    BY <1>1, HistoryChange
  <1>3. \A i \in history : audit'[i] = audit[i]
    BY <1>1 DEF Grows
  <1>4. /\ HasLatest(history) /\ StateOf(t) = Leaves(history)
        /\ \A i \in history : HasLatest({j \in history : j < i})
        /\ \A i \in history : audit[i].before = Leaves({j \in history : j < i})
    BY <1>1 DEF Explained
  <1>5. Leaves(history)' = Leaves(history)
    BY <1>1, <1>4, LeavesStays
  <1>6. ASSUME NEW i \in history
        PROVE  Leaves({j \in history : j < i})' = Leaves({j \in history : j < i})
    <2>1. PICK before : before = {j \in history : j < i}
      OBVIOUS
    <2>2. before \subseteq DOMAIN audit /\ HasLatest(before)
      BY <1>1, <1>4, <2>1
    <2> QED  BY <2>1, <2>2, LeavesStays
  <1>7. \A i \in history : audit'[i].before = Leaves({j \in history : j < i})'
    BY <1>3, <1>4, <1>6
  <1> QED  BY <1>2, <1>4, <1>5, <1>7 DEF Explained, HasLatest, Latest

\* A row that is one.
LEMMA ExplainedGrows ==
  ASSUME NEW n \in Nat, Grows(n), NEW t, Explained(t),
         audit'[n].target = t, audit'[n].action # "assign",
         audit'[n].before = StateOf(t), audit'[n].after = StateOf(t)'
  PROVE  Explained(t)'
  <1>1. PICK history : history = HistoryOf(t) /\ history \subseteq DOMAIN audit /\ n \notin history
    BY HistoryChange
  <1>2. PICK longer : longer = HistoryOf(t)' /\ longer = history \cup {n}
    BY <1>1, HistoryChange
  <1>3. \A i \in history : i \in Nat /\ i < n /\ audit'[i] = audit[i]
    BY <1>1 DEF Grows
  <1>4. /\ HasLatest(history) /\ StateOf(t) = Leaves(history)
        /\ \A i \in history : HasLatest({j \in history : j < i})
        /\ \A i \in history : audit[i].before = Leaves({j \in history : j < i})
    BY <1>1 DEF Explained
  <1>5. Latest(longer, n)
    BY <1>2, <1>3 DEF Latest
  <1>6. Leaves(longer)' = audit'[n].after
    BY <1>2, <1>3, <1>5, LeavesLatest
  <1>7. ASSUME NEW i \in longer
        PROVE  /\ HasLatest({j \in longer : j < i})
               /\ audit'[i].before = Leaves({j \in longer : j < i})'
    <2>1. PICK before : before = {j \in longer : j < i}
      OBVIOUS
    <2>2. CASE i = n
      <3>1. before = history
        BY <1>1, <1>2, <1>3, <2>1, <2>2
      <3> QED  BY <1>1, <1>4, <2>1, <2>2, <3>1, LeavesStays
    <2>3. CASE i # n
      <3>1. i \in history /\ before = {j \in history : j < i}
        BY <1>2, <1>3, <2>1, <2>3
      <3>2. before \subseteq DOMAIN audit /\ HasLatest(before) /\ audit'[i].before = Leaves(before)
        BY <1>1, <1>3, <1>4, <3>1
      <3> QED  BY <2>1, <3>2, LeavesStays
    <2> QED  BY <2>2, <2>3
  <1>8. HasLatest(longer)
    BY <1>2, <1>5 DEF HasLatest
  <1> QED  BY <1>2, <1>6, <1>7, <1>8 DEF Explained, HasLatest, Latest

AuditInv == \A t \in Targets : Explained(t)

LEMMA ApplyExplained ==
  ASSUME ModerationTypeOK, AuditInv, NEW a \in Users, NEW t \in Targets, NEW q \in RequestIDs,
         NEW action \in Lowering \cup Raising, NEW r \in 0..Len(reports), Apply(a, t, action, r, q)
  PROVE  AuditInv'
  <1>1. PICK n \in Nat : n = Len(audit) + 1
    BY DEF ModerationTypeOK
  <1>2. /\ Grows(n) /\ audit'[n].target = t /\ audit'[n].action # "assign"
        /\ audit'[n].before = StateOf(t) /\ audit'[n].after = StateOf(t)'
        /\ \A s : s # t => StateOf(s)' = StateOf(s)
    BY <1>1, ApplyFacts
  <1>3. ASSUME NEW s \in Targets PROVE Explained(s)'
    <2>1. Explained(s)
      BY DEF AuditInv
    <2> QED  BY <1>2, <2>1, ExplainedGrows, ExplainedStays
  <1> QED  BY <1>3 DEF AuditInv

LEMMA StepAudit ==
  ASSUME ModerationTypeOK, AuditInv, [ModerationNext]_moderationVars
  PROVE  AuditInv'
  <1>1. CASE UNCHANGED <<audit, down>>
    <2> SUFFICES ASSUME NEW t \in Targets PROVE Explained(t)'
      BY DEF AuditInv
    <2>1. PICK history : history = HistoryOf(t)
      OBVIOUS
    <2>2. HistoryOf(t)' = history /\ StateOf(t)' = StateOf(t)
      BY <1>1, <2>1 DEF HistoryOf, StateOf
    <2>3. ASSUME NEW rows PROVE Leaves(rows)' = Leaves(rows)
      BY <1>1 DEF Leaves
    <2>4. /\ HasLatest(history) /\ StateOf(t) = Leaves(history)
          /\ \A i \in history : HasLatest({j \in history : j < i})
          /\ \A i \in history : audit'[i].before = Leaves({j \in history : j < i})'
      BY <1>1, <2>1, <2>3 DEF AuditInv, Explained
    <2> QED  BY <2>2, <2>3, <2>4 DEF Explained, HasLatest, Latest
  <1>2. ASSUME NEW h \in Handlers, NEW q \in RequestIDs, NEW r \in DOMAIN reports, AssignReport(h, r, q)
        PROVE  AuditInv'
    <2>1. PICK n \in Nat : n = Len(audit) + 1
      BY DEF ModerationTypeOK
    <2>2. Grows(n) /\ audit'[n].action = "assign" /\ down' = down
      BY <1>2, <2>1, AssignFacts
    <2>3. ASSUME NEW t \in Targets PROVE Explained(t)'
      BY <2>2, ExplainedStays DEF AuditInv, StateOf
    <2> QED  BY <2>3 DEF AuditInv
  <1>3. ASSUME NEW h \in Handlers, NEW q \in RequestIDs, NEW r \in DOMAIN reports,
               NEW action \in Lowering \cup Raising, ResolveReport(h, r, action, q)
        PROVE  AuditInv'
    BY <1>3, ReportTypes, ApplyExplained DEF ResolveReport
  <1>4. ASSUME NEW h \in Handlers, NEW q \in RequestIDs, NEW t \in Targets,
               NEW action \in Lowering \cup Raising, NEW r \in 0..Len(reports),
               ModerateTarget(h, t, action, r, q)
        PROVE  AuditInv'
    BY <1>4, ApplyExplained DEF ModerateTarget
  <1>5. ASSUME NEW h \in Handlers, CreateReport(h) PROVE AuditInv'
    BY <1>1, <1>5 DEF CreateReport
  <1>6. ASSUME NEW h, NEW q, NEW r, RejectReport(h, r, q) PROVE AuditInv'
    BY <1>1, <1>6 DEF RejectReport
  <1> QED  BY <1>1, <1>2, <1>3, <1>4, <1>5, <1>6, TableSteps

\* The audit is the whole truth: through applyTargetTx alone and within
\* ResolveReport, each action's row says in which state it found its target,
\* which is the one the row before it left, and the last row's is the present.
THEOREM TheAuditExplains == ModerationSpec => []AuditExplainsState
  <1>1. ModerationInit => AuditInv
    BY DEF ModerationInit, AuditInv, Explained, HistoryOf, Leaves, StateOf, HasLatest
  <1>2. ModerationTypeOK /\ AuditInv /\ [ModerationNext]_moderationVars => AuditInv'
    BY StepAudit
  <1>3. AuditInv => AuditExplainsState
    BY DEF AuditInv, Explained, AuditExplainsState
  <1> QED  BY <1>1, <1>2, <1>3, ModerationTypeCorrect, PTL DEF ModerationSpec

-----------------------------------------------------------------------------
(***************************************************************************)
(* Reports and audit agree.                                                *)
(***************************************************************************)

\* ReportsAudited for one report.
Taking(r) ==
  IF reports[r].assigned = None THEN TakenBy(r) = {}
  ELSE \E i \in TakenBy(r) : TakenBy(r) = {i} /\ audit[i].actor = reports[r].assigned

Resolution(r) ==
  reports[r].status = "resolved" =>
    \E i \in HistoryOf(reports[r].target) : i = reports[r].action /\ audit[i].report = r

\* What is open is nobody's, and the audit is of reports that are there.
ReportsInv ==
  /\ \A r \in DOMAIN reports : Taking(r) /\ Resolution(r)
  /\ \A r \in DOMAIN reports : reports[r].status = "open" => reports[r].assigned = None
  /\ \A i \in DOMAIN audit : audit[i].report \in {0} \cup DOMAIN reports

LEMMA TakenChange ==
  ASSUME NEW n, Grows(n), NEW r
  PROVE  /\ TakenBy(r) \subseteq DOMAIN audit /\ n \notin TakenBy(r)
         /\ TakenBy(r)' = IF audit'[n].report = r /\ audit'[n].action = "assign"
                            THEN TakenBy(r) \cup {n} ELSE TakenBy(r)
  BY DEF Grows, TakenBy

\* A report that nobody takes in this step.
LEMMA TakingStays ==
  ASSUME NEW r, Taking(r), reports'[r].assigned = reports[r].assigned,
         TakenBy(r)' = TakenBy(r), \A i \in TakenBy(r) : audit'[i] = audit[i]
  PROVE  Taking(r)'
  BY DEF Taking

\* One that is not resolved in this step.
LEMMA ResolutionStays ==
  ASSUME NEW r, Resolution(r), reports'[r] = reports[r],
         \/ audit' = audit
         \/ \E n \in Nat : Grows(n)
  PROVE  Resolution(r)'
  <1> SUFFICES ASSUME reports[r].status = "resolved"
               PROVE  \E i \in HistoryOf(reports[r].target)' :
                        i = reports'[r].action /\ audit'[i].report = r
    BY DEF Resolution
  <1>1. PICK t : t = reports[r].target
    OBVIOUS
  <1>2. PICK i \in HistoryOf(t) : i = reports[r].action /\ audit[i].report = r
    BY <1>1 DEF Resolution
  <1>3. i \in HistoryOf(t)' /\ audit'[i].report = r
    BY <1>2 DEF HistoryOf, Grows
  <1>4. HistoryOf(reports[r].target)' = HistoryOf(t)'
    BY <1>1 DEF HistoryOf
  <1> QED  BY <1>1, <1>2, <1>3, <1>4

LEMMA CreateAudited ==
  ASSUME ModerationTypeOK, ReportsInv, NEW h \in Handlers, CreateReport(h)
  PROVE  ReportsInv'
  <1>1. PICK new \in Nat : new = Len(reports) + 1
    BY DEF ModerationTypeOK
  <1>2. /\ DOMAIN reports' = DOMAIN reports \cup {new} /\ new \notin DOMAIN reports
        /\ reports'[new].status = "open" /\ reports'[new].assigned = None
        /\ \A s \in DOMAIN reports : reports'[s] = reports[s]
        /\ audit' = audit
    BY <1>1, CreateFacts
  <1>3. \A s : TakenBy(s)' = TakenBy(s)
    BY <1>2 DEF TakenBy
  <1>4. TakenBy(new) = {}
    BY <1>1, <1>2 DEF ReportsInv, TakenBy
  <1>5. Taking(new)' /\ Resolution(new)'
    BY <1>2, <1>3, <1>4 DEF Taking, Resolution
  <1>6. ASSUME NEW s \in DOMAIN reports PROVE Taking(s)' /\ Resolution(s)'
    BY <1>2, <1>3, TakingStays, ResolutionStays DEF ReportsInv
  <1>7. \A s \in DOMAIN reports' : Taking(s)' /\ Resolution(s)'
    BY <1>2, <1>5, <1>6
  <1>8. \A s \in DOMAIN reports' : reports'[s].status = "open" => reports'[s].assigned = None
    BY <1>2 DEF ReportsInv
  <1>9. \A i \in DOMAIN audit' : audit'[i].report \in {0} \cup DOMAIN reports'
    BY <1>2 DEF ReportsInv
  <1> QED  BY <1>7, <1>8, <1>9 DEF ReportsInv

\* Only what is open is taken, and what is open has not been taken before.
LEMMA AssignAudited ==
  ASSUME ModerationTypeOK, ReportsInv, NEW h \in Handlers, NEW q \in RequestIDs,
         NEW r \in DOMAIN reports, AssignReport(h, r, q)
  PROVE  ReportsInv'
  <1>1. PICK n \in Nat : n = Len(audit) + 1
    BY DEF ModerationTypeOK
  <1>2. PICK a : a = pending[h]
    OBVIOUS
  <1>3. /\ a \in Users /\ reports[r].status = "open"
        /\ DOMAIN reports' = DOMAIN reports
        /\ reports'[r].status = "investigating" /\ reports'[r].assigned = a
        /\ \A s \in DOMAIN reports : s # r => reports'[s] = reports[s]
        /\ Grows(n) /\ audit'[n].action = "assign" /\ audit'[n].report = r /\ audit'[n].actor = a
    BY <1>1, <1>2, AssignFacts
  <1>4. TakenBy(r) = {}
    BY <1>3 DEF ReportsInv, Taking
  <1>5. TakenBy(r)' = {n} /\ \A s : s # r => TakenBy(s)' = TakenBy(s)
    BY <1>3, <1>4, TakenChange
  <1>6. Taking(r)' /\ Resolution(r)'
    BY <1>3, <1>5, ModerationNoneAssumption DEF Taking, Resolution
  <1>7. ASSUME NEW s \in DOMAIN reports, s # r PROVE Taking(s)' /\ Resolution(s)'
    <2>1. \A i \in TakenBy(s) : audit'[i] = audit[i]
      BY <1>3, TakenChange DEF Grows
    <2> QED  BY <1>3, <1>5, <1>7, <2>1, TakingStays, ResolutionStays DEF ReportsInv
  <1>8. \A s \in DOMAIN reports' : reports'[s].status = "open" => reports'[s].assigned = None
    BY <1>3 DEF ReportsInv
  <1>9. \A i \in DOMAIN audit' : audit'[i].report \in {0} \cup DOMAIN reports'
    BY <1>3 DEF ReportsInv, Grows
  <1> QED  BY <1>3, <1>6, <1>7, <1>8, <1>9 DEF ReportsInv

\* An action, which the audit tells from a taking.
LEMMA ApplyAudited ==
  ASSUME ModerationTypeOK, ReportsInv, NEW a \in Users, NEW t \in Targets, NEW q \in RequestIDs,
         NEW action \in Lowering \cup Raising, NEW r \in 0..Len(reports), Apply(a, t, action, r, q),
         NEW n \in Nat, n = Len(audit) + 1
  PROVE  /\ Grows(n) /\ n \in HistoryOf(t)' /\ audit'[n].report = r
         /\ \A s : TakenBy(s)' = TakenBy(s) /\ \A i \in TakenBy(s) : audit'[i] = audit[i]
         /\ \A i \in DOMAIN audit' : audit'[i].report \in {0} \cup DOMAIN reports
  <1>1. /\ Grows(n) /\ audit'[n].report = r /\ audit'[n].target = t /\ audit'[n].action # "assign"
    BY ApplyFacts
  <1>2. \A s : TakenBy(s)' = TakenBy(s) /\ \A i \in TakenBy(s) : audit'[i] = audit[i]
    BY <1>1, TakenChange DEF Grows
  <1>3. n \in HistoryOf(t)'
    BY <1>1, HistoryChange
  <1>4. r \in {0} \cup DOMAIN reports
    BY DEF ModerationTypeOK
  <1> QED  BY <1>1, <1>2, <1>3, <1>4 DEF ReportsInv, Grows

LEMMA ResolveAudited ==
  ASSUME ModerationTypeOK, ReportsInv, NEW h \in Handlers, NEW q \in RequestIDs,
         NEW r \in DOMAIN reports, NEW action \in Lowering \cup Raising, ResolveReport(h, r, action, q)
  PROVE  ReportsInv'
  <1>1. PICK n \in Nat : n = Len(audit) + 1
    BY DEF ModerationTypeOK
  <1>2. PICK a, t : a = pending[h] /\ t = reports[r].target
    OBVIOUS
  <1>3. /\ a \in Users /\ t \in Targets /\ r \in 0..Len(reports) /\ Apply(a, t, action, r, q)
        /\ DOMAIN reports' = DOMAIN reports
        /\ reports'[r].status = "resolved" /\ reports'[r].action = n /\ reports'[r].target = t
        /\ reports'[r].assigned = reports[r].assigned
        /\ \A s \in DOMAIN reports : s # r => reports'[s] = reports[s]
    BY <1>1, <1>2, ResolveFacts
  <1>4. /\ Grows(n) /\ n \in HistoryOf(t)' /\ audit'[n].report = r
        /\ \A s : TakenBy(s)' = TakenBy(s) /\ \A i \in TakenBy(s) : audit'[i] = audit[i]
        /\ \A i \in DOMAIN audit' : audit'[i].report \in {0} \cup DOMAIN reports
    BY <1>1, <1>3, ApplyAudited
  <1>5. \A s \in DOMAIN reports : Taking(s)'
    BY <1>3, <1>4, TakingStays DEF ReportsInv
  <1>6. Resolution(r)'
    <2>1. HistoryOf(reports[r].target)' = HistoryOf(t)'
      BY <1>3 DEF HistoryOf
    <2> QED  BY <1>3, <1>4, <2>1 DEF Resolution
  <1>7. \A s \in DOMAIN reports : s # r => Resolution(s)'
    BY <1>3, <1>4, ResolutionStays DEF ReportsInv
  <1>8. \A s \in DOMAIN reports' : reports'[s].status = "open" => reports'[s].assigned = None
    BY <1>3 DEF ReportsInv
  <1> QED  BY <1>3, <1>4, <1>5, <1>6, <1>7, <1>8 DEF ReportsInv

LEMMA StepReports ==
  ASSUME ModerationTypeOK, ReportsInv, [ModerationNext]_moderationVars
  PROVE  ReportsInv'
  <1>1. CASE UNCHANGED <<reports, audit>>
    BY <1>1 DEF ReportsInv, Taking, Resolution, TakenBy, HistoryOf
  <1>2. ASSUME NEW h \in Handlers, CreateReport(h) PROVE ReportsInv'
    BY <1>2, CreateAudited
  <1>3. ASSUME NEW h \in Handlers, NEW q \in RequestIDs, NEW r \in DOMAIN reports, AssignReport(h, r, q)
        PROVE  ReportsInv'
    BY <1>3, AssignAudited
  <1>4. ASSUME NEW h \in Handlers, NEW q \in RequestIDs, NEW r \in DOMAIN reports, RejectReport(h, r, q)
        PROVE  ReportsInv'
    <2>1. /\ DOMAIN reports' = DOMAIN reports
          /\ reports'[r].status = "rejected" /\ reports'[r].assigned = reports[r].assigned
          /\ \A s \in DOMAIN reports : s # r => reports'[s] = reports[s]
          /\ audit' = audit
      BY <1>4, RejectFacts
    <2>2. \A s : TakenBy(s)' = TakenBy(s)
      BY <2>1 DEF TakenBy
    <2>3. \A s \in DOMAIN reports : Taking(s)'
      BY <2>1, <2>2, TakingStays DEF ReportsInv
    <2>4. Resolution(r)' /\ \A s \in DOMAIN reports : s # r => Resolution(s)'
      BY <2>1, ResolutionStays DEF ReportsInv, Resolution
    <2> QED  BY <2>1, <2>3, <2>4 DEF ReportsInv
  <1>5. ASSUME NEW h \in Handlers, NEW q \in RequestIDs, NEW r \in DOMAIN reports,
               NEW action \in Lowering \cup Raising, ResolveReport(h, r, action, q)
        PROVE  ReportsInv'
    BY <1>5, ResolveAudited
  <1>6. ASSUME NEW h \in Handlers, NEW q \in RequestIDs, NEW t \in Targets,
               NEW action \in Lowering \cup Raising, NEW r \in 0..Len(reports),
               ModerateTarget(h, t, action, r, q)
        PROVE  ReportsInv'
    <2>1. PICK n \in Nat : n = Len(audit) + 1
      BY DEF ModerationTypeOK
    <2>2. reports' = reports /\ pending[h] \in Users /\ Apply(pending[h], t, action, r, q)
      BY <1>6 DEF ModerateTarget
    <2>3. /\ Grows(n)
          /\ \A s : TakenBy(s)' = TakenBy(s) /\ \A i \in TakenBy(s) : audit'[i] = audit[i]
          /\ \A i \in DOMAIN audit' : audit'[i].report \in {0} \cup DOMAIN reports
      BY <2>1, <2>2, ApplyAudited
    <2>4. \A s \in DOMAIN reports : Taking(s)' /\ Resolution(s)'
      BY <2>2, <2>3, TakingStays, ResolutionStays DEF ReportsInv
    <2> QED  BY <2>2, <2>3, <2>4 DEF ReportsInv
  <1> QED  BY <1>1, <1>2, <1>3, <1>4, <1>5, <1>6, TableSteps

\* Reports and audit agree (AssignReport, ResolveReport): of simultaneous takings
\* one succeeds, the one that the report names, and a resolved report names an
\* action of its own on its target.
THEOREM ReportsAreAudited == ModerationSpec => []ReportsAudited
  <1>1. ModerationInit => ReportsInv
    BY DEF ModerationInit, ReportsInv
  <1>2. ModerationTypeOK /\ ReportsInv /\ [ModerationNext]_moderationVars => ReportsInv'
    BY StepReports
  <1>3. ReportsInv => ReportsAudited
    BY DEF ReportsInv, Taking, Resolution, ReportsAudited
  <1> QED  BY <1>1, <1>2, <1>3, ModerationTypeCorrect, PTL DEF ModerationSpec

-----------------------------------------------------------------------------
(***************************************************************************)
(* Who is told of what.                                                    *)
(***************************************************************************)

\* The actions that are somebody else's news: they changed something.
News == {i \in DOMAIN audit :
           /\ audit[i].action # "assign"
           /\ audit[i].before # audit[i].after
           /\ audit[i].actor # OwnerOf(audit[i].target)}

\* ToldTheTruth, notice by notice.
NewsInv ==
  /\ \A m \in notices : m.about = "report" =>
       m.id \in DOMAIN reports /\ reports[m.id].reporter = m.to /\ reports[m.id].status = m.what
  /\ \A m \in notices : m.about = "action" =>
       m.id \in News /\ m.to = OwnerOf(audit[m.id].target)
  /\ \A i \in News : \E m \in notices :
       m.about = "action" /\ m.id = i /\ m.to = OwnerOf(audit[i].target)

\* A report's notice is of an end.
LEMMA NoticeOfEnd ==
  ASSUME ModerationTypeOK, NewsInv, NEW m \in notices, m.about = "report"
  PROVE  /\ m.id \in DOMAIN reports /\ reports[m.id].reporter = m.to
         /\ reports[m.id].status = m.what /\ m.what \in Finished
  <1>1. m \in Notice
    BY DEF ModerationTypeOK
  <1> QED  BY <1>1 DEF NewsInv, Notice

\* What has ended stays, so that its reporter is told of one end only.
LEMMA EndsStay ==
  ASSUME ModerationTypeOK, NewsInv, NEW m \in notices, m.about = "report",
         DOMAIN reports \subseteq DOMAIN reports',
         \A s \in DOMAIN reports : reports[s].status \in Finished => reports'[s] = reports[s]
  PROVE  /\ m.id \in DOMAIN reports' /\ reports'[m.id].reporter = m.to
         /\ reports'[m.id].status = m.what
  BY NoticeOfEnd

\* Nobody is told of an assignment.
LEMMA NewsChange ==
  ASSUME NEW n, Grows(n)
  PROVE  /\ News \subseteq DOMAIN audit /\ n \notin News
         /\ \A i \in News : audit'[i] = audit[i]
         /\ News' = IF /\ audit'[n].action # "assign"
                       /\ audit'[n].before # audit'[n].after
                       /\ audit'[n].actor # OwnerOf(audit'[n].target)
                      THEN News \cup {n} ELSE News
  BY DEF Grows, News

\* What a step says of the actions: nothing, where it adds none.
LEMMA SilentNews ==
  ASSUME NewsInv, News' = News, \A i \in News : audit'[i] = audit[i],
         \A m : m.about = "action" => (m \in notices' <=> m \in notices)
  PROVE  /\ \A m \in notices' : m.about = "action" =>
              m.id \in News' /\ m.to = OwnerOf(audit'[m.id].target)
         /\ \A i \in News' : \E m \in notices' :
              m.about = "action" /\ m.id = i /\ m.to = OwnerOf(audit'[i].target)
  BY DEF NewsInv

\* And the new one to the owner, unless it is the actor's own or no change.
LEMMA ToldNews ==
  ASSUME ModerationTypeOK, NewsInv, NEW a \in Users, NEW t \in Targets, NEW q \in RequestIDs,
         NEW action \in Lowering \cup Raising, NEW r \in 0..Len(reports), Apply(a, t, action, r, q),
         \A m : m.about = "action" =>
                  (m \in notices' <=> m \in notices \/ m \in Told(a, t, action))
  PROVE  /\ \A m \in notices' : m.about = "action" =>
              m.id \in News' /\ m.to = OwnerOf(audit'[m.id].target)
         /\ \A i \in News' : \E m \in notices' :
              m.about = "action" /\ m.id = i /\ m.to = OwnerOf(audit'[i].target)
  <1>1. PICK n \in Nat : n = Len(audit) + 1
    BY DEF ModerationTypeOK
  <1>2. /\ Grows(n) /\ audit'[n].actor = a /\ audit'[n].target = t /\ audit'[n].action # "assign"
        /\ audit'[n].before = StateOf(t) /\ audit'[n].after = After(action)
    BY <1>1, ApplyFacts
  <1>3. PICK told : told = Told(a, t, action)
    OBVIOUS
  <1>4. /\ \A i \in News : audit'[i] = audit[i]
        /\ News' = IF StateOf(t) # After(action) /\ a # OwnerOf(t) THEN News \cup {n} ELSE News
    BY <1>2, NewsChange
  <1>5. CASE StateOf(t) # After(action) /\ a # OwnerOf(t)
    <2>1. PICK new : new = [to |-> OwnerOf(t), about |-> "action", id |-> n, what |-> action]
      OBVIOUS
    <2>2. told = {new} /\ new.to = OwnerOf(t) /\ new.about = "action" /\ new.id = n
      BY <1>1, <1>3, <1>5, <2>1 DEF Told, Emit
    <2>3. ASSUME NEW m \in notices', m.about = "action"
          PROVE  m.id \in News' /\ m.to = OwnerOf(audit'[m.id].target)
      <3>1. CASE m \in notices
        BY <1>4, <1>5, <2>3, <3>1 DEF NewsInv
      <3>2. CASE m = new
        BY <1>2, <1>4, <1>5, <2>2, <3>2
      <3> QED  BY <1>3, <2>2, <2>3, <3>1, <3>2
    <2>4. ASSUME NEW i \in News'
          PROVE  \E m \in notices' :
                   m.about = "action" /\ m.id = i /\ m.to = OwnerOf(audit'[i].target)
      <3>1. CASE i \in News
        <4>1. PICK m \in notices : m.about = "action" /\ m.id = i /\ m.to = OwnerOf(audit[i].target)
          BY <3>1 DEF NewsInv
        <4> QED  BY <1>4, <3>1, <4>1
      <3>2. CASE i = n
        BY <1>2, <1>3, <2>2, <3>2
      <3> QED  BY <1>4, <1>5, <2>4, <3>1, <3>2
    <2> QED  BY <2>3, <2>4
  <1>6. CASE ~(StateOf(t) # After(action) /\ a # OwnerOf(t))
    <2>1. told = {}
      BY <1>3, <1>6 DEF Told, Emit
    <2> QED  BY <1>3, <1>4, <1>6, <2>1, SilentNews
  <1> QED  BY <1>5, <1>6

\* What Emit and Told may put into the table.
LEMMA Emitted ==
  ASSUME NEW to, NEW by, NEW about, NEW id, NEW what, NEW m \in Emit(to, by, about, id, what)
  PROVE  m.to = to /\ m.about = about /\ m.id = id /\ m.what = what
  BY DEF Emit

LEMMA ToldIsAction ==
  ASSUME NEW a, NEW t, NEW action, NEW m \in Told(a, t, action)
  PROVE  m.about = "action"
  <1>1. m \in Emit(OwnerOf(t), a, "action", Len(audit) + 1, action)
    BY DEF Told
  <1> QED  BY <1>1, Emitted

\* The reporter is told of the end that this step is.
LEMMA EndIsNews ==
  ASSUME ModerationTypeOK, NewsInv, NEW r \in DOMAIN reports, NEW status, NEW a, NEW others,
         reports[r].status \in Unfinished,
         DOMAIN reports' = DOMAIN reports, reports'[r].status = status,
         reports'[r].reporter = reports[r].reporter,
         \A s \in DOMAIN reports : s # r => reports'[s] = reports[s],
         notices' = notices \cup others \cup Emit(reports[r].reporter, a, "report", r, status),
         \A m \in others : m.about = "action"
  PROVE  /\ \A m \in notices' : m.about = "report" =>
              /\ m.id \in DOMAIN reports' /\ reports'[m.id].reporter = m.to
              /\ reports'[m.id].status = m.what
         /\ \A m : m.about = "action" => (m \in notices' <=> m \in notices \/ m \in others)
  <1>1. \A s \in DOMAIN reports : reports[s].status \in Finished => reports'[s] = reports[s]
    BY DEF Finished, Unfinished
  <1>2. ASSUME NEW m \in notices', m.about = "report"
        PROVE  /\ m.id \in DOMAIN reports' /\ reports'[m.id].reporter = m.to
               /\ reports'[m.id].status = m.what
    <2>1. CASE m \in notices
      BY <1>1, <1>2, <2>1, EndsStay
    <2>2. CASE m \in Emit(reports[r].reporter, a, "report", r, status)
      BY <2>2, Emitted
    <2> QED  BY <1>2, <2>1, <2>2
  <1>3. \A m : m.about = "action" => (m \in notices' <=> m \in notices \/ m \in others)
    BY Emitted
  <1> QED  BY <1>2, <1>3

\* A step after which the reports' notices stay true without more being said.
LEMMA QuietEnds ==
  ASSUME ModerationTypeOK, NewsInv, DOMAIN reports \subseteq DOMAIN reports',
         \A s \in DOMAIN reports : reports[s].status \in Finished => reports'[s] = reports[s],
         \A m \in notices' : m.about = "report" => m \in notices
  PROVE  \A m \in notices' : m.about = "report" =>
           /\ m.id \in DOMAIN reports' /\ reports'[m.id].reporter = m.to
           /\ reports'[m.id].status = m.what
  BY EndsStay

LEMMA StepNews ==
  ASSUME ModerationTypeOK, NewsInv, [ModerationNext]_moderationVars
  PROVE  NewsInv'
  <1>0. PICK n \in Nat : n = Len(audit) + 1
    BY DEF ModerationTypeOK
  <1>1. CASE UNCHANGED <<reports, audit, notices>>
    BY <1>1 DEF NewsInv, News
  <1>2. ASSUME NEW h \in Handlers, CreateReport(h) PROVE NewsInv'
    <2>1. PICK new \in Nat : new = Len(reports) + 1
      BY DEF ModerationTypeOK
    <2>2. /\ DOMAIN reports' = DOMAIN reports \cup {new}
          /\ \A s \in DOMAIN reports : reports'[s] = reports[s]
          /\ UNCHANGED <<audit, notices>>
      BY <1>2, <2>1, CreateFacts
    <2>3. \A m \in notices' : m.about = "report" =>
            /\ m.id \in DOMAIN reports' /\ reports'[m.id].reporter = m.to
            /\ reports'[m.id].status = m.what
      BY <2>2, QuietEnds
    <2> QED  BY <2>2, <2>3 DEF NewsInv, News
  <1>3. ASSUME NEW h \in Handlers, NEW q \in RequestIDs, NEW r \in DOMAIN reports, AssignReport(h, r, q)
        PROVE  NewsInv'
    <2>1. /\ reports[r].status = "open" /\ DOMAIN reports' = DOMAIN reports
          /\ \A s \in DOMAIN reports : s # r => reports'[s] = reports[s]
          /\ Grows(n) /\ audit'[n].action = "assign" /\ notices' = notices
      BY <1>0, <1>3, AssignFacts
    <2>2. \A m \in notices' : m.about = "report" =>
            /\ m.id \in DOMAIN reports' /\ reports'[m.id].reporter = m.to
            /\ reports'[m.id].status = m.what
      BY <2>1, QuietEnds DEF Finished
    <2>3. News' = News /\ \A i \in News : audit'[i] = audit[i]
      BY <2>1, NewsChange
    <2> QED  BY <2>1, <2>2, <2>3, SilentNews DEF NewsInv
  <1>4. ASSUME NEW h \in Handlers, NEW q \in RequestIDs, NEW r \in DOMAIN reports, RejectReport(h, r, q)
        PROVE  NewsInv'
    <2>1. PICK a, none : a = pending[h] /\ none = {}
      OBVIOUS
    <2>2. /\ reports[r].status \in Unfinished
          /\ DOMAIN reports' = DOMAIN reports /\ reports'[r].status = "rejected"
          /\ reports'[r].reporter = reports[r].reporter
          /\ \A s \in DOMAIN reports : s # r => reports'[s] = reports[s]
          /\ notices' = notices \cup none \cup Emit(reports[r].reporter, a, "report", r, "rejected")
          /\ audit' = audit
          /\ \A m \in none : m.about = "action"
      BY <1>4, <2>1, RejectFacts
    <2>3. /\ \A m \in notices' : m.about = "report" =>
               /\ m.id \in DOMAIN reports' /\ reports'[m.id].reporter = m.to
               /\ reports'[m.id].status = m.what
          /\ \A m : m.about = "action" => (m \in notices' <=> m \in notices \/ m \in none)
      BY <2>2, EndIsNews
    <2>4. News' = News
      BY <2>2 DEF News
    <2> QED  BY <2>2, <2>3, <2>4, <2>1, SilentNews DEF NewsInv
  <1>5. ASSUME NEW h \in Handlers, NEW q \in RequestIDs, NEW r \in DOMAIN reports,
               NEW action \in Lowering \cup Raising, ResolveReport(h, r, action, q)
        PROVE  NewsInv'
    <2>1. PICK a, t, told : a = pending[h] /\ t = reports[r].target /\ told = Told(a, t, action)
      OBVIOUS
    <2>2. /\ a \in Users /\ t \in Targets /\ r \in 0..Len(reports) /\ Apply(a, t, action, r, q)
          /\ reports[r].status \in Unfinished
          /\ DOMAIN reports' = DOMAIN reports /\ reports'[r].status = "resolved"
          /\ reports'[r].reporter = reports[r].reporter
          /\ \A s \in DOMAIN reports : s # r => reports'[s] = reports[s]
          /\ notices' = notices \cup told \cup Emit(reports[r].reporter, a, "report", r, "resolved")
      BY <1>0, <1>5, <2>1, ResolveFacts
    <2>3. \A m \in told : m.about = "action"
      BY <2>1, ToldIsAction
    <2>4. /\ \A m \in notices' : m.about = "report" =>
               /\ m.id \in DOMAIN reports' /\ reports'[m.id].reporter = m.to
               /\ reports'[m.id].status = m.what
          /\ \A m : m.about = "action" => (m \in notices' <=> m \in notices \/ m \in told)
      BY <2>2, <2>3, EndIsNews
    <2>5. \A m : m.about = "action" => (m \in notices' <=> m \in notices \/ m \in Told(a, t, action))
      BY <2>1, <2>4
    <2> QED  BY <2>2, <2>4, <2>5, ToldNews DEF NewsInv
  <1>6. ASSUME NEW h \in Handlers, NEW q \in RequestIDs, NEW t \in Targets,
               NEW action \in Lowering \cup Raising, NEW r \in 0..Len(reports),
               ModerateTarget(h, t, action, r, q)
        PROVE  NewsInv'
    <2>1. PICK a : a = pending[h]
      OBVIOUS
    <2>2. /\ a \in Users /\ Apply(a, t, action, r, q) /\ reports' = reports
          /\ notices' = notices \cup Told(a, t, action)
      BY <1>6, <2>1 DEF ModerateTarget
    <2>3. \A m \in notices' : m.about = "report" =>
            /\ m.id \in DOMAIN reports' /\ reports'[m.id].reporter = m.to
            /\ reports'[m.id].status = m.what
      BY <2>2, QuietEnds, ToldIsAction
    <2>4. \A m : m.about = "action" => (m \in notices' <=> m \in notices \/ m \in Told(a, t, action))
      BY <2>2
    <2> QED  BY <2>2, <2>3, <2>4, ToldNews DEF NewsInv
  <1> QED  BY <1>1, <1>2, <1>3, <1>4, <1>5, <1>6, TableSteps

\* Notices tell the truth (Emit): a reporter is told of how the report ended, of
\* one end only, and an owner of each action of somebody else that changed
\* something, and of nothing else.
THEOREM TheTruthIsTold == ModerationSpec => []ToldTheTruth
  <1>1. ModerationInit => NewsInv
    BY DEF ModerationInit, NewsInv, News
  <1>2. ModerationTypeOK /\ NewsInv /\ [ModerationNext]_moderationVars => NewsInv'
    BY StepNews
  <1>3. ModerationTypeOK /\ NewsInv => ToldTheTruth
    <2> SUFFICES ASSUME ModerationTypeOK, NewsInv PROVE ToldTheTruth
      OBVIOUS
    <2>1. \A i \in DOMAIN audit : audit[i].target \in Targets
      <3>1. \A i \in DOMAIN audit : audit[i] \in AuditRow
        BY DEF ModerationTypeOK
      <3> QED  BY <3>1 DEF AuditRow
    <2>2. {j \in UNION {HistoryOf(t) : t \in Targets} :
             audit[j].before # audit[j].after /\ audit[j].actor # OwnerOf(audit[j].target)} = News
      BY <2>1 DEF News, HistoryOf
    <2>3. {<<m.id, m.to>> : m \in {k \in notices : k.about = "action"}}
            = {<<i, OwnerOf(audit[i].target)>> : i \in News}
      BY DEF NewsInv
    <2> QED  BY <2>2, <2>3 DEF NewsInv, ToldTheTruth
  <1> QED  BY <1>1, <1>2, <1>3, ModerationTypeCorrect, PTL DEF ModerationSpec
=============================================================================
