------------------------------ MODULE Moderation ------------------------------
(***************************************************************************)
(* Reports, what administrators do about them and to whom, the audit of    *)
(* it, and the role of administrator                                       *)
(* (backend/internal/moderation/repository.go, backend/cmd/api/main.go).   *)
(*                                                                         *)
(* A request is let in by what it reads without a lock: RequireAdmin looks *)
(* at the role, CreateReport looks for an active report.  Its transaction  *)
(* comes later, with others in between.  What that writes is decided by    *)
(* locking reads and unique keys, which see the present, and is one        *)
(* action; a deadlock's victim is rolled back and runs again.              *)
(*                                                                         *)
(* A report's id is its index in reports, an action's its index in audit.  *)
(* Texts are left out, and with them retries whose contents differ, which  *)
(* are refused like those whose receipt is there.  The counter of comments *)
(* that hiding one moves is in Comments; session families, which disabling *)
(* a user revokes, are left out.                                           *)
(***************************************************************************)
EXTENDS Integers, FiniteSets, Sequences

CONSTANTS Users,
          Contents,      \* videos and comments
          Author,        \* of a content
          FirstAdmins,   \* granted before anything else
          RequestIDs,    \* that clients choose
          Handlers,      \* requests a server handles at once
          None,          \* nobody, no request
          Reporters,     \* bound: the users who report
          Reported,      \* bound: the targets they report
          MaxReports,    \* bound
          MaxActions     \* bound

Targets == Users \cup Contents

ASSUME ModerationAssumption ==
  /\ IsFiniteSet(Users)
  /\ Users \cap Contents = {}
  /\ Author \in [Contents -> Users]
  /\ FirstAdmins \subseteq Users /\ FirstAdmins # {}
  /\ Reporters \subseteq Users /\ Reported \subseteq Targets
  /\ MaxReports \in Nat /\ MaxActions \in Nat

VARIABLES admins,   \* users with the role
          down,     \* contents hidden, users disabled
          deleted,  \* contents deleted by their authors
          reports,  \* the table
          audit,    \* moderation_actions
          receipts, \* operation_receipts
          notices,  \* notifications of moderation
          pending   \* the requests that were let in

reportVars == <<reports, receipts>>
moderationVars == <<admins, down, deleted, reportVars, audit, notices, pending>>

Lowering == {"hide", "disable"}
Raising == {"restore", "enable"}
Unfinished == {"open", "investigating"}
Finished == {"resolved", "rejected"}

\* active: active_key is set.  action = 0: none.
Report == [reporter : Users, target : Targets, status : Unfinished \cup Finished,
           assigned : Users \cup {None}, action : 0..MaxActions, active : BOOLEAN]

\* report = 0: none.
AuditRow == [actor : Users, report : 0..MaxReports, target : Targets,
             action : {"assign"} \cup Lowering \cup Raising,
             before : {"up", "down", "open"}, after : {"up", "down", "investigating"},
             request : RequestIDs]

Receipt == [actor : Users, request : RequestIDs,
            operation : {"create", "assign", "resolve"} \cup Lowering \cup Raising]

\* Of a report's outcome, or of an action.
Notice == [to : Users, about : {"report"}, id : 1..MaxReports, what : Finished]
     \cup [to : Users, about : {"action"}, id : 1..MaxActions, what : Lowering \cup Raising]

ReportRequest == [reporter : Reporters, target : Reported, request : RequestIDs]

ASSUME ModerationNoneAssumption ==
  None \notin Users /\ None \notin ReportRequest /\ Users \cap ReportRequest = {}

ModerationTypeOK ==
  /\ admins \subseteq Users
  /\ down \subseteq Targets
  /\ deleted \subseteq Contents
  /\ reports \in Seq(Report) /\ Len(reports) <= MaxReports
  /\ audit \in Seq(AuditRow) /\ Len(audit) <= MaxActions
  /\ receipts \subseteq Receipt
  /\ notices \subseteq Notice
  /\ pending \in [Handlers -> Users \cup ReportRequest \cup {None}]

ModerationInit ==
  /\ admins = FirstAdmins
  /\ down = {} /\ deleted = {}
  /\ reports = << >> /\ audit = << >>
  /\ receipts = {} /\ notices = {}
  /\ pending = [h \in Handlers |-> None]

-----------------------------------------------------------------------------
StateOf(t) == IF t \in down THEN "down" ELSE "up"

\* Administrators who are not disabled.
Active == admins \ down

LetIn(h, request) ==
  /\ pending[h] = None
  /\ pending' = [pending EXCEPT ![h] = request]
  /\ UNCHANGED <<admins, down, deleted, reportVars, audit, notices>>

Ends(h) == pending' = [pending EXCEPT ![h] = None]

\* A repetition, a condition that is not met, or a transaction rolled back.
Refused(h) ==
  /\ pending[h] # None
  /\ Ends(h)
  /\ UNCHANGED <<admins, down, deleted, reportVars, audit, notices>>

\* uq_operation_receipts: no receipt of the request.
FirstTime(a, operation, q) ==
  [actor |-> a, request |-> q, operation |-> operation] \notin receipts

Signed(a, operation, q) ==
  receipts' = receipts \cup {[actor |-> a, request |-> q, operation |-> operation]}

-----------------------------------------------------------------------------
\* uq_reports_active: the user has no active report of the target.
KeyFree(u, t) ==
  \A r \in DOMAIN reports :
    reports[r].active => reports[r].reporter # u \/ reports[r].target # t

\* CreateReport up to what it looks for without a lock.
ReportLooks(h, request) ==
  /\ request.reporter \notin down
  /\ FirstTime(request.reporter, "create", request.request)
  /\ KeyFree(request.reporter, request.target)
  /\ LetIn(h, request)

CreateReport(h) ==
  LET p == pending[h]
  IN  /\ p \in ReportRequest
      /\ Len(reports) < MaxReports
      /\ FirstTime(p.reporter, "create", p.request)
      /\ KeyFree(p.reporter, p.target)
      /\ p.target \notin deleted
      /\ reports' = Append(reports,
           [reporter |-> p.reporter, target |-> p.target, status |-> "open",
            assigned |-> None, action |-> 0, active |-> TRUE])
      /\ Signed(p.reporter, "create", p.request)
      /\ Ends(h)
      /\ UNCHANGED <<admins, down, deleted, audit, notices>>

-----------------------------------------------------------------------------
RequireAdmin(h, a) == a \in Active /\ LetIn(h, a)

\* Mutated: a report taken is free to be taken, too.
NotTaken(r) == reports[r].status \in Unfinished

\* The condition of AssignReport.
IsOpen(r) == reports[r].status = "open"

\* Mutated: a report that somebody works on no longer holds its key.
TakenAndFreed(report, a) ==
  [report EXCEPT !.status = "investigating", !.assigned = a, !.active = FALSE]

Taken(report, a) == [report EXCEPT !.status = "investigating", !.assigned = a]

\* The row of the audit; uq_moderation_action_request.
Audited(row) ==
  /\ Len(audit) < MaxActions
  /\ \A i \in DOMAIN audit :
       ~ /\ audit[i].actor = row.actor
         /\ audit[i].action = row.action
         /\ audit[i].request = row.request
  /\ audit' = Append(audit, row)

AssignReport(h, r, q) ==
  LET a == pending[h]
  IN  /\ a \in Users
      /\ FirstTime(a, "assign", q)
      /\ IsOpen(r)
      /\ reports' = [reports EXCEPT ![r] = Taken(@, a)]
      /\ Audited([actor |-> a, report |-> r, target |-> reports[r].target, action |-> "assign",
                  before |-> "open", after |-> "investigating", request |-> q])
      /\ Signed(a, "assign", q)
      /\ Ends(h)
      /\ UNCHANGED <<admins, down, deleted, notices>>

-----------------------------------------------------------------------------
ActionsOn(t) == IF t \in Users THEN {"disable", "enable"} ELSE {"hide", "restore"}

\* Mutated: disabled administrators count.
LastOfAll(t) == t \in Active /\ Cardinality(admins) <= 1

\* Counted with the rows of all administrators locked.
LastAdmin(t) == t \in Active /\ Cardinality(Active) <= 1

After(action) == IF action \in Lowering THEN "down" ELSE "up"

\* Mutated: the state before is not read, but taken to be the other one.
OtherThanAfter(t, action) == IF action \in Lowering THEN "up" ELSE "down"

\* What lockTarget reads.
Before(t, action) == StateOf(t)

\* applyTargetTx.  A state that is reached already is audited all the same,
\* except a restore of what is visible, which is refused.
Apply(a, t, action, r, q) ==
  /\ action \in ActionsOn(t)
  /\ t \notin deleted
  /\ action = "disable" => t # a /\ ~LastAdmin(t)
  /\ action = "restore" => t \in down
  /\ down' = IF action \in Lowering THEN down \cup {t} ELSE down \ {t}
  /\ Audited([actor |-> a, report |-> r, target |-> t, action |-> action,
              before |-> Before(t, action), after |-> After(action), request |-> q])
  /\ UNCHANGED <<admins, deleted>>

\* Emit, which tells nobody of what they did themselves.
Emit(to, by, about, id, what) ==
  IF to = by THEN {} ELSE {[to |-> to, about |-> about, id |-> id, what |-> what]}

OwnerOf(t) == IF t \in Users THEN t ELSE Author[t]

\* The owner is told of a change.
Told(a, t, action) ==
  IF StateOf(t) = After(action) THEN {}
  ELSE Emit(OwnerOf(t), a, "action", Len(audit) + 1, action)

\* The report, when there is one, is about the target.
ModerateTarget(h, t, action, r, q) ==
  LET a == pending[h]
  IN  /\ a \in Users
      /\ r # 0 => reports[r].target = t
      /\ FirstTime(a, action, q)
      /\ Apply(a, t, action, r, q)
      /\ notices' = notices \cup Told(a, t, action)
      /\ Signed(a, action, q)
      /\ Ends(h)
      /\ UNCHANGED reports

\* Mutated: whether the report has ended is not looked at.
InAnyState(r) == TRUE

CanEnd(r) == reports[r].status \in Unfinished

Ended(report, status, action) ==
  [report EXCEPT !.status = status, !.action = action, !.active = FALSE]

\* ResolveReport with an action on the target.
ResolveReport(h, r, action, q) ==
  LET a == pending[h]
  IN  /\ a \in Users
      /\ FirstTime(a, "resolve", q)
      /\ CanEnd(r)
      /\ Apply(a, reports[r].target, action, r, q)
      /\ reports' = [reports EXCEPT ![r] = Ended(@, "resolved", Len(audit) + 1)]
      /\ notices' = notices \cup Told(a, reports[r].target, action)
                            \cup Emit(reports[r].reporter, a, "report", r, "resolved")
      /\ Signed(a, "resolve", q)
      /\ Ends(h)

\* ResolveReport with status rejected: no row of the audit.
RejectReport(h, r, q) ==
  LET a == pending[h]
  IN  /\ a \in Users
      /\ FirstTime(a, "resolve", q)
      /\ CanEnd(r)
      /\ reports' = [reports EXCEPT ![r] = Ended(@, "rejected", 0)]
      /\ notices' = notices \cup Emit(reports[r].reporter, a, "report", r, "rejected")
      /\ Signed(a, "resolve", q)
      /\ Ends(h)
      /\ UNCHANGED <<admins, down, deleted, audit>>

-----------------------------------------------------------------------------
\* The author deletes a content, hidden or not.
DeleteContent(c) ==
  /\ c \notin deleted
  /\ deleted' = deleted \cup {c}
  /\ UNCHANGED <<admins, down, reportVars, audit, notices, pending>>

\* admin grant, from the command line.
Grant(u) ==
  /\ admins' = admins \cup {u}
  /\ UNCHANGED <<down, deleted, reportVars, audit, notices, pending>>

\* admin revoke, with the rows of all administrators locked.
Revoke(u) ==
  /\ u \in admins => Cardinality(Active) > 1
  /\ admins' = admins \ {u}
  /\ UNCHANGED <<down, deleted, reportVars, audit, notices, pending>>

-----------------------------------------------------------------------------
ModerationNext ==
  \/ \E h \in Handlers :
       \/ \E request \in ReportRequest : ReportLooks(h, request)
       \/ \E a \in Users : RequireAdmin(h, a)
       \/ CreateReport(h) \/ Refused(h)
       \/ \E q \in RequestIDs :
            \/ \E r \in DOMAIN reports :
                 \/ AssignReport(h, r, q) \/ RejectReport(h, r, q)
                 \/ \E action \in Lowering \cup Raising : ResolveReport(h, r, action, q)
            \/ \E t \in Targets, action \in Lowering \cup Raising, r \in 0..Len(reports) :
                 ModerateTarget(h, t, action, r, q)
  \/ \E c \in Contents : DeleteContent(c)
  \/ \E u \in Users : Grant(u) \/ Revoke(u)

ModerationSpec == ModerationInit /\ [][ModerationNext]_moderationVars

-----------------------------------------------------------------------------
(***************************************************************************)
(* Properties.                                                             *)
(***************************************************************************)

\* Whatever administrators do to each other at once, from requests let in while
\* they still had the role, and whatever the command line does beside them, one
\* who is not disabled remains ("最后一个正常管理员不能被并发移除",
\* docs/stage5/decisions.md:386).
AdministratorRemains == Active # {}

\* A user has one unfinished report of a target, though the look for it takes
\* no lock ("同举报者同目标唯一活动举报").
OneOpenReport ==
  \A r, s \in DOMAIN reports :
    /\ reports[r].status \in Unfinished /\ reports[s].status \in Unfinished
    /\ reports[r].reporter = reports[s].reporter /\ reports[r].target = reports[s].target
    => r = s

\* The actions on a target.
HistoryOf(t) == {i \in DOMAIN audit : audit[i].target = t /\ audit[i].action # "assign"}

\* The state that the last of them left it in.
Leaves(history) ==
  IF history = {} THEN "up"
  ELSE audit[CHOOSE i \in history : \A j \in history : j <= i].after

\* The audit tells the truth ("如实的无状态变化审计", decisions.md:383): each
\* action found its target as the one before it left it, and so did the present.
AuditExplainsState ==
  \A t \in Targets :
    /\ \A i \in HistoryOf(t) : audit[i].before = Leaves({j \in HistoryOf(t) : j < i})
    /\ StateOf(t) = Leaves(HistoryOf(t))

TakenBy(r) == {i \in DOMAIN audit : audit[i].report = r /\ audit[i].action = "assign"}

\* Reports and audit agree: a report was taken once, by whom it says ("并发接单表
\* 现为一个成功和一个状态冲突", decisions.md:382), and is resolved by an action of
\* its own on its target.
ReportsAudited ==
  \A r \in DOMAIN reports :
    /\ IF reports[r].assigned = None THEN TakenBy(r) = {}
       ELSE \E i \in TakenBy(r) : TakenBy(r) = {i} /\ audit[i].actor = reports[r].assigned
    /\ reports[r].status = "resolved" =>
         LET i == reports[r].action
         IN  i \in HistoryOf(reports[r].target) /\ audit[i].report = r

\* Who is told of what: a reporter of how the report ended, of one end only, and
\* an owner of each action of another that changed something.
ToldTheTruth ==
  /\ \A n \in notices : n.about = "report" =>
       reports[n.id].reporter = n.to /\ reports[n.id].status = n.what
  /\ {<<n.id, n.to>> : n \in {m \in notices : m.about = "action"}}
       = {<<i, OwnerOf(audit[i].target)>> :
            i \in {j \in UNION {HistoryOf(t) : t \in Targets} :
                     audit[j].before # audit[j].after /\ audit[j].actor # OwnerOf(audit[j].target)}}
=============================================================================
