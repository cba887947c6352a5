------------------------------ MODULE Approvals ------------------------------
(* Runtime/HITLTrigger.js and the executeSafe() of OpenShellSupervisor.js that  *)
(* waits for it: processes of agents and of operators over one SQLite file.     *)
(* Nothing is in a transaction: between the SELECT of a function, after which   *)
(* it looks at the clock, and its UPDATE the other processes go on. Patterns,   *)
(* paths and secrets are left out; what the policy says of an action is known.  *)
EXTENDS Naturals

CONSTANTS SafeCall,     \* calls of executeSafe, each of a process of its own
          SafeAction,
          GatedAction,  \* those isApprovalRequired() is true of
          Prohibited,   \* those one of the validate functions refuses
          ApprovalId,   \* requests there can be
          Operator,     \* processes that approve, reject and list
          NoApproval

ASSUME ApprovalAssumption == /\ GatedAction \subseteq SafeAction /\ Prohibited \subseteq SafeAction
                             /\ NoApproval \notin ApprovalId

VARIABLES
  hitl_approvals,        \* id -> status: the table, "none" no row
  late,                  \* ids whose expires_at has passed
  safe,                  \* call -> [pc, action, approval]
  operator,              \* operator -> [writes, rows]: the status it is about to
                         \* write, and the rows
  security_audit_events, \* call -> the decision of the row it wrote, if any
  granted                \* history: ids that an approve() found PENDING and in time

approvalVars == <<hitl_approvals, late, safe, operator, security_audit_events, granted>>

ApprovalStatus == {"PENDING", "APPROVED", "REJECTED", "EXPIRED"}
SafeEnded == {"returned", "raised"}

ApprovalTypeOK ==
  /\ hitl_approvals \in [ApprovalId -> ApprovalStatus \cup {"none"}]
  /\ late \subseteq ApprovalId /\ granted \subseteq ApprovalId
  /\ safe \in [SafeCall -> [pc: {"new", "asking", "reading", "lapsing", "cleared", "running"} \cup SafeEnded,
                            action: SafeAction \cup {"none"}, approval: ApprovalId \cup {NoApproval}]]
  /\ operator \in [Operator -> [writes: ApprovalStatus \cup {"none"}, rows: SUBSET ApprovalId]]
  /\ security_audit_events \in [SafeCall -> {"none", "ALLOW", "DENY", "HITL_PAUSE"}]

NotWriting == [writes |-> "none", rows |-> {}]

ApprovalInit ==
  /\ hitl_approvals = [r \in ApprovalId |-> "none"]
  /\ late = {} /\ granted = {}
  /\ safe = [c \in SafeCall |-> [pc |-> "new", action |-> "none", approval |-> NoApproval]]
  /\ operator = [o \in Operator |-> NotWriting]
  /\ security_audit_events = [c \in SafeCall |-> "none"]

Requested(r) == hitl_approvals[r] # "none"

\* Five minutes after the request.
TimePasses(r) ==
  /\ Requested(r) /\ late' = late \cup {r}
  /\ UNCHANGED <<hitl_approvals, safe, operator, security_audit_events, granted>>

----------------------------------------------------------------------------
(* executeSafe                                                               *)
SafeKeeps == UNCHANGED <<late, operator, granted>>

\* logSecurityEvent() swallows what goes wrong.
logSecurityEvent(c, decision) ==
  security_audit_events' \in {security_audit_events, [security_audit_events EXCEPT ![c] = decision]}

CallGoes(c, pc) == safe' = [safe EXCEPT ![c].pc = pc]
ActionDenied(c) == CallGoes(c, "raised") /\ logSecurityEvent(c, "DENY")

\* The checks of the policy, then, for what needs no approval or names one, the
\* next step; for the rest requestApproval().
executeSafe(c, a, id) ==
  /\ safe[c].pc = "new"
  /\ \/ /\ a \in Prohibited
        /\ safe' = [safe EXCEPT ![c] = [pc |-> "raised", action |-> a, approval |-> id]]
        /\ logSecurityEvent(c, "DENY") /\ UNCHANGED hitl_approvals
     \/ /\ a \notin Prohibited /\ a \notin GatedAction
        /\ safe' = [safe EXCEPT ![c] = [pc |-> "cleared", action |-> a, approval |-> id]]
        /\ UNCHANGED <<hitl_approvals, security_audit_events>>
     \/ /\ a \in GatedAction \ Prohibited /\ id # NoApproval
        /\ safe' = [safe EXCEPT ![c] = [pc |-> "reading", action |-> a, approval |-> id]]
        /\ UNCHANGED <<hitl_approvals, security_audit_events>>
     \/ /\ a \in GatedAction \ Prohibited /\ id = NoApproval
        /\ \E r \in ApprovalId:
             /\ ~Requested(r) /\ hitl_approvals' = [hitl_approvals EXCEPT ![r] = "PENDING"]
             /\ safe' = [safe EXCEPT ![c] = [pc |-> "asking", action |-> a, approval |-> r]]
        /\ UNCHANGED security_audit_events
  /\ SafeKeeps

ActionPaused(c) ==
  /\ safe[c].pc = "asking"
  /\ CallGoes(c, "raised") /\ logSecurityEvent(c, "HITL_PAUSE")
  /\ UNCHANGED hitl_approvals /\ SafeKeeps

\* getStatus(): a request still PENDING that is late is written EXPIRED first.
getStatus(c) ==
  /\ safe[c].pc = "reading"
  /\ LET r == safe[c].approval IN
     \/ hitl_approvals[r] = "APPROVED" /\ CallGoes(c, "cleared") /\ UNCHANGED security_audit_events
     \/ /\ hitl_approvals[r] = "PENDING" /\ r \in late
        /\ CallGoes(c, "lapsing") /\ UNCHANGED security_audit_events
     \/ hitl_approvals[r] = "PENDING" /\ r \notin late /\ ActionDenied(c)
     \/ hitl_approvals[r] \notin {"APPROVED", "PENDING"} /\ ActionDenied(c)
  /\ UNCHANGED hitl_approvals /\ SafeKeeps

ActionLapses(c) ==
  /\ safe[c].pc = "lapsing"
  /\ hitl_approvals' = [hitl_approvals EXCEPT ![safe[c].approval] = "EXPIRED"]
  /\ ActionDenied(c) /\ SafeKeeps

ActionAllowed(c) ==
  /\ safe[c].pc = "cleared"
  /\ CallGoes(c, "running") /\ logSecurityEvent(c, "ALLOW")
  /\ UNCHANGED hitl_approvals /\ SafeKeeps

\* executeFn(): for a command the jail, the token and the child process with its
\* 30 s, each of which may raise.
ActionEnds(c) ==
  /\ safe[c].pc = "running"
  /\ \E pc \in SafeEnded: CallGoes(c, pc)
  /\ UNCHANGED <<hitl_approvals, security_audit_events>> /\ SafeKeeps

----------------------------------------------------------------------------
(* Operators                                                                 *)
WillWrite(o, status, rows) == operator' = [operator EXCEPT ![o] = [writes |-> status, rows |-> rows]]
OperatorKeeps == UNCHANGED <<hitl_approvals, late, safe, security_audit_events>>

NowGranted(r) == granted' = IF hitl_approvals[r] = "PENDING" /\ r \notin late
                              THEN granted \cup {r} ELSE granted

\* Mutant: the status is not looked at.
ApproveAnything(o, r) ==
  /\ operator[o] = NotWriting /\ Requested(r)
  /\ WillWrite(o, IF r \in late THEN "EXPIRED" ELSE "APPROVED", {r})
  /\ NowGranted(r) /\ OperatorKeeps

\* approve(): late comes first, whatever the status.
approve(o, r) ==
  /\ operator[o] = NotWriting /\ Requested(r)
  /\ \/ r \in late /\ WillWrite(o, "EXPIRED", {r})
     \/ r \notin late /\ hitl_approvals[r] = "PENDING" /\ WillWrite(o, "APPROVED", {r})
  /\ NowGranted(r) /\ OperatorKeeps

reject(o, r) ==
  /\ operator[o] = NotWriting /\ Requested(r)
  /\ WillWrite(o, "REJECTED", {r})
  /\ UNCHANGED granted /\ OperatorKeeps

\* listPending(): the late ones are written EXPIRED one by one.
listPending(o) ==
  /\ operator[o] = NotWriting
  /\ LET rows == {r \in late: hitl_approvals[r] = "PENDING"} IN
     rows # {} /\ WillWrite(o, "EXPIRED", rows)
  /\ UNCHANGED granted /\ OperatorKeeps

DecisionWritten(o, r) ==
  /\ r \in operator[o].rows
  /\ hitl_approvals' = [hitl_approvals EXCEPT ![r] = operator[o].writes]
  /\ IF operator[o].rows = {r} THEN operator' = [operator EXCEPT ![o] = NotWriting]
     ELSE operator' = [operator EXCEPT ![o].rows = @ \ {r}]
  /\ UNCHANGED <<late, safe, security_audit_events, granted>>

ApprovalNext ==
  \/ \E r \in ApprovalId: TimePasses(r)
  \/ \E c \in SafeCall:
       \/ \E a \in SafeAction, id \in ApprovalId \cup {NoApproval}: executeSafe(c, a, id)
       \/ ActionPaused(c) \/ getStatus(c) \/ ActionLapses(c) \/ ActionAllowed(c) \/ ActionEnds(c)
  \/ \E o \in Operator: \/ listPending(o)
                        \/ \E r \in ApprovalId: approve(o, r) \/ reject(o, r) \/ DecisionWritten(o, r)

ApprovalSpec == ApprovalInit /\ [][ApprovalNext]_approvalVars

----------------------------------------------------------------------------
\* Whatever operators decide at the same time, and however close to its end: an
\* action that needs approval runs only on a request that an operator approved
\* while it was pending and in time, and what is written of a request was true of
\* it (executeSafe, approve, listPending).
ApprovalsHold ==
  /\ ApprovalTypeOK
  /\ \A c \in SafeCall:
       safe[c].action \in GatedAction /\ safe[c].pc \in {"cleared", "running", "returned"} =>
         safe[c].action \notin Prohibited /\ safe[c].approval \in granted
  /\ \A r \in ApprovalId:
       /\ hitl_approvals[r] = "APPROVED" => r \in granted
       /\ hitl_approvals[r] = "EXPIRED" => r \in late

=============================================================================
