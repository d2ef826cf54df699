-------------------------- MODULE MaintenanceRequest --------------------------
(***************************************************************************)
(* The life of one maintenance request of maintenance-requests.service.ts. *)
(* Landlord, facility manager and tenant move it over the dashboard, whose *)
(* calls check a transition table on the row they read and then write by   *)
(* id; manager and tenant also over WhatsApp, where updateStatus checks    *)
(* nothing and saves the whole row.  A daily cron, on every instance of    *)
(* the server, reminds a tenant who does not confirm a resolution and      *)
(* closes the request after MaxReminders.  Time is the two intervals of a  *)
(* week the cron looks at, since the resolution and since a reminder.  The *)
(* request's assignee, priority, texts and media are left out.             *)
(***************************************************************************)
EXTENDS Integers, FiniteSets

CONSTANTS
  Filings,       \* who may file, for what, with or without a tenant, and
                 \* whether that tenant's user has a phone number
  Desks,         \* calls of the dashboard
  Chats,         \* calls of updateStatus
  Crons,         \* instances of the daily cron
  MaxReminders,  \* MAX_CONFIRMATION_REMINDERS
  MaxResolves,   \* bound on resolutions
  MaxMishaps     \* bound on deaths of a process, reminders never delivered,
                 \* statuses a manager writes over WhatsApp and dashboard
                 \* updates that repeat the status the row has

ASSUME FilingAssumption ==
  Filings \subseteq [by : {"tenant", "fm", "landlord"}, scope : {"unit", "common"},
                     tenant : BOOLEAN, phone : BOOLEAN]
ASSUME ReminderAssumption ==
  {MaxReminders, MaxResolves, MaxMishaps} \subseteq Nat
ASSUME CronAssumption == IsFiniteSet(Crons) /\ Crons # {}

VARIABLES
  filed,      \* how the request was filed
  req,        \* the maintenance_requests row; age: weeks since resolution_date
  outcome,    \* of the latest of its maintenance_resolution_attempts
  reminders,  \* confirmation reminders queued and not failed
  recent,     \* those of the last seven days
  closures,   \* "closed, no response" messages queued
  desk,       \* a dashboard call: the status it will write
  chat,       \* a call of updateStatus and the row it loaded
  cron,       \* how far an instance's tick is
  resolves,   \* history: times the request became resolved
  nudges,     \* history: reminders queued since the latest
  asked,      \* history: has it ever waited for the tenant's confirmation?
  strayed,    \* history: has a write left the transition table, or been
              \* based on a row that was out of date?
  crashed,    \* history: has a process died?
  mishaps

queue == <<reminders, recent, closures>>
history == <<resolves, nudges, asked, crashed, mishaps>>
vars == <<filed, req, outcome, queue, desk, chat, cron, history, strayed>>

Unfiled == [by |-> "tenant", scope |-> "unit", tenant |-> FALSE, phone |-> FALSE]
NoRequest == [status |-> "none", auto |-> FALSE, age |-> 0]
NoCall == [pc |-> "idle", to |-> "none"]
NoChat == [pc |-> "idle", to |-> "none", copy |-> NoRequest]

Init ==
  /\ filed = Unfiled
  /\ req = NoRequest
  /\ outcome = "none"
  /\ reminders = 0 /\ recent = 0 /\ closures = 0
  /\ desk = [d \in Desks |-> NoCall]
  /\ chat = [c \in Chats |-> NoChat]
  /\ cron = [i \in Crons |-> "idle"]
  /\ resolves = 0 /\ nudges = 0 /\ mishaps = 0
  /\ asked = FALSE /\ crashed = FALSE /\ strayed = FALSE

-----------------------------------------------------------------------------
(* A tenant's or a manager's request waits for the landlord; the           *)
(* landlord's own for the tenant, if there is one.                         *)
FirstStatus(f) ==
  IF f.by # "landlord" THEN "not_approved"
  ELSE IF f.scope = "unit" /\ f.tenant THEN "pending" ELSE "approved"

File(f) ==
  /\ req.status = "none"
  /\ filed' = f
  /\ req' = [req EXCEPT !.status = FirstStatus(f)]
  /\ asked' = (FirstStatus(f) = "pending")
  /\ UNCHANGED <<outcome, queue, desk, chat, cron, resolves, nudges, crashed, mishaps, strayed>>

(* Variant with a bug: the landlord's approval is enough. *)
Ungated == FALSE

(* A manager's request on a tenant's unit must be confirmed by the tenant. *)
Gated == filed.by = "fm" /\ filed.scope = "unit" /\ filed.tenant

(* The transition table, without roles, and with them. *)
Edges ==
  {<<"not_approved", IF Gated THEN "pending" ELSE "approved">>, <<"not_approved", "pending">>,
   <<"not_approved", "rejected">>, <<"pending", "approved">>, <<"pending", "denied">>,
   <<"approved", "resolved">>, <<"reopened", "resolved">>,
   <<"resolved", "closed">>, <<"resolved", "reopened">>}

(* assertValidStatusTransition. *)
Permits(role, to) ==
  /\ <<req.status, to>> \in Edges
  /\ role = "tenant" => filed.tenant
  /\ CASE req.status = "not_approved" -> role = "landlord" /\ to # "rejected"
       [] req.status = "pending" /\ to = "approved" -> role \in {"tenant", "landlord"}
       [] req.status = "pending" /\ to = "denied" -> role = "tenant"
       [] to = "resolved" -> role = "fm"
       [] to = "closed" -> role = filed.by /\ role \in {"tenant", "fm"}
       [] to = "reopened" -> role = "fm" \/ (role = "tenant" /\ filed.by = "tenant")

Ring(d, pc, to) ==
  /\ desk[d].pc = "idle"
  /\ desk' = [desk EXCEPT ![d] = [pc |-> pc, to |-> to]]
  /\ UNCHANGED <<filed, req, outcome, queue, chat, cron, history, strayed>>

(* updateMaintenanceRequestById: the row is read and checked.  (Reopening  *)
(* what is reopened only adds a note.)                                     *)
CheckUpdate(d, role, to) ==
  /\ Permits(role, to)
  /\ to = "resolved" => resolves < MaxResolves
  /\ Ring(d, "update", to)

(* An update that names the status the row has is not checked at all.      *)
Repeat(d) ==
  /\ desk[d].pc = "idle" /\ mishaps < MaxMishaps
  /\ req.status \notin {"none", "reopened"}
  /\ desk' = [desk EXCEPT ![d] = [pc |-> "repeat", to |-> req.status]]
  /\ mishaps' = mishaps + 1
  /\ UNCHANGED <<filed, req, outcome, queue, chat, cron, resolves, nudges, asked, crashed, strayed>>

(* The tenant confirms or denies what was filed for the unit, the landlord *)
(* confirms in the tenant's place, or rejects what was filed.              *)
ConfirmTenant(d) ==
  /\ req.status = "pending" /\ filed.tenant
  /\ Ring(d, "decide", "approved")

DenyTenant(d) ==
  /\ req.status = "pending" /\ filed.tenant
  /\ Ring(d, "decide", "denied")

LandlordForceConfirm(d) ==
  /\ req.status = "pending"
  /\ Ring(d, "decide", "approved")

Reject(d) ==
  /\ req.status = "not_approved"
  /\ Ring(d, "decide", "rejected")

(* approveAndAssignMaintenanceRequest. *)
CheckApproval(d) ==
  /\ req.status = "not_approved"
  /\ Ring(d, "decide", IF Gated THEN "pending" ELSE "approved")

(* Variant with a bug: the attempt not told that it failed. *)
OutcomeUnmarked(to) == outcome

(* patchLatestAttemptOutcome. *)
Outcome(to) == IF outcome = "none" THEN outcome ELSE to

(* Both write by id, whatever the row is by now; a common area's request   *)
(* has nobody to confirm it and closes with its resolution.                *)
Write(d) ==
  LET to == desk[d].to
      updates == desk[d].pc = "update"
      resolving == to = "resolved"
      common == filed.scope = "common" IN
  /\ desk[d].pc \in {"update", "decide"}
  /\ req' = [req EXCEPT !.status = IF resolving /\ common THEN "closed" ELSE to,
                        !.age = IF resolving THEN 0 ELSE @]
  /\ outcome' = IF resolving THEN (IF common THEN "confirmed" ELSE "pending")
                ELSE IF updates /\ to = "reopened" THEN Outcome("reopened") ELSE outcome
  /\ resolves' = IF resolving THEN resolves + 1 ELSE resolves
  /\ nudges' = IF resolving THEN 0 ELSE nudges
  /\ asked' = (asked \/ to = "pending")
  /\ strayed' = (strayed \/ <<req.status, to>> \notin Edges)
  /\ desk' = [desk EXCEPT ![d] = NoCall]
  /\ UNCHANGED <<filed, queue, chat, cron, crashed, mishaps>>

(* A repeated status is written by id as well: the date of a resolution    *)
(* starts anew, no attempt is recorded, and what became of the row since   *)
(* it was read is undone.                                                  *)
Rewrite(d) ==
  LET to == desk[d].to  revives == to = "resolved" /\ req.status # "resolved" IN
  /\ desk[d].pc = "repeat"
  /\ req' = [req EXCEPT !.status = to, !.age = IF to = "resolved" THEN 0 ELSE @]
  /\ resolves' = IF revives THEN resolves + 1 ELSE resolves
  /\ nudges' = IF revives THEN 0 ELSE nudges
  /\ strayed' = (strayed \/ req.status # to)
  /\ desk' = [desk EXCEPT ![d] = NoCall]
  /\ UNCHANGED <<filed, outcome, queue, chat, cron, asked, crashed, mishaps>>

-----------------------------------------------------------------------------
(* WhatsApp.  The tenant answers while the request is resolved; a manager  *)
(* acknowledges or resolves it in any state.                               *)
Call(c, to) ==
  /\ chat[c].pc = "idle"
  /\ chat' = [chat EXCEPT ![c] = [NoChat EXCEPT !.pc = "called", !.to = to]]

Answer(c, to) ==
  /\ req.status = "resolved" /\ filed.tenant
  /\ to \in {"closed", "reopened"}
  /\ Call(c, to)
  /\ UNCHANGED <<filed, req, outcome, queue, desk, cron, history, strayed>>

Overrule(c, to) ==
  /\ req.status # "none" /\ mishaps < MaxMishaps
  /\ to = "approved" \/ (to = "resolved" /\ req.status # "closed" /\ resolves < MaxResolves)
  /\ Call(c, to)
  /\ mishaps' = mishaps + 1
  /\ UNCHANGED <<filed, req, outcome, queue, desk, cron, resolves, nudges, asked, crashed, strayed>>

Load(c) ==
  /\ chat[c].pc = "called"
  /\ chat' = [chat EXCEPT ![c].pc = "loaded", ![c].copy = req]
  /\ UNCHANGED <<filed, req, outcome, queue, desk, cron, history, strayed>>

(* updateStatus saves the entity whole. *)
Save(c) ==
  LET copy == chat[c].copy  to == chat[c].to IN
  /\ chat[c].pc = "loaded"
  /\ req' = [copy EXCEPT !.status = to,
                         !.age = IF to = "resolved" THEN 0 ELSE @]
  /\ resolves' = IF to = "resolved" THEN resolves + 1 ELSE resolves
  /\ nudges' = IF to = "resolved" THEN 0 ELSE nudges
  /\ strayed' = (strayed \/ <<req.status, to>> \notin Edges \/ copy # req)
  /\ chat' = [chat EXCEPT ![c] = [NoChat EXCEPT !.pc = "saved", !.to = to]]
  /\ UNCHANGED <<filed, outcome, queue, desk, cron, asked, crashed, mishaps>>

(* The attempt's outcome, and the closing of a common area, follow in      *)
(* statements of their own.                                                *)
Settle(c) ==
  LET to == chat[c].to  closes == to = "resolved" /\ filed.scope = "common" IN
  /\ chat[c].pc = "saved"
  /\ req' = IF closes THEN [req EXCEPT !.status = "closed"] ELSE req
  /\ outcome' = IF to = "reopened" THEN Outcome("reopened")
                ELSE IF to = "closed" \/ closes THEN Outcome("confirmed") ELSE outcome
  /\ strayed' = (strayed \/ req.status # to)
  /\ chat' = [chat EXCEPT ![c] = NoChat]
  /\ UNCHANGED <<filed, queue, desk, cron, history>>

-----------------------------------------------------------------------------
(* The daily cron: requests resolved at least a week ago, of a tenant with *)
(* a phone number, ...  (A tick that starts in the week of a reminder only *)
(* finds it, and changes nothing.)                                         *)
Step(i, from, to) == cron[i] = from /\ cron' = [cron EXCEPT ![i] = to]

Look(i) ==
  /\ req.status = "resolved" /\ filed.scope = "unit" /\ filed.tenant /\ filed.phone
  /\ req.age = 1 /\ recent = 0
  /\ Step(i, "idle", "due")
  /\ UNCHANGED <<filed, req, outcome, queue, desk, chat, history, strayed>>

(* Variant with a bug: any earlier reminder will do. *)
CheckEver(i) ==
  /\ Step(i, "due", IF reminders > 0 THEN "idle" ELSE "counting")
  /\ UNCHANGED <<filed, req, outcome, queue, desk, chat, history, strayed>>

(* ... no reminder within the last seven days, ... *)
CheckWindow(i) ==
  /\ Step(i, "due", IF recent > 0 THEN "idle" ELSE "counting")
  /\ UNCHANGED <<filed, req, outcome, queue, desk, chat, history, strayed>>

(* Variant with a bug: no cap. *)
CountNothing(i) ==
  /\ Step(i, "counting", "sending")
  /\ UNCHANGED <<filed, req, outcome, queue, desk, chat, history, strayed>>

(* ... and fewer than MaxReminders of them: remind, else close. *)
CountReminders(i) ==
  /\ Step(i, "counting", IF reminders >= MaxReminders THEN "closing" ELSE "sending")
  /\ UNCHANGED <<filed, req, outcome, queue, desk, chat, history, strayed>>

SendReminder(i) ==
  /\ Step(i, "sending", "idle")
  /\ reminders' = reminders + 1
  /\ recent' = recent + 1
  /\ nudges' = nudges + 1
  /\ UNCHANGED <<filed, req, outcome, closures, desk, chat, resolves, asked, crashed, mishaps, strayed>>

(* Variant with a bug: closed by id alone. *)
CloseBlindly(i) ==
  /\ Step(i, "closing", "expiring")
  /\ req' = [req EXCEPT !.status = "closed", !.auto = TRUE]
  /\ UNCHANGED <<filed, outcome, queue, desk, chat, history, strayed>>

(* autoCloseUnitForNoResponse: one conditional UPDATE, then the outcome. *)
AutoClose(i) ==
  /\ Step(i, "closing", IF req.status = "resolved" THEN "expiring" ELSE "idle")
  /\ req' = IF req.status = "resolved" THEN [req EXCEPT !.status = "closed", !.auto = TRUE] ELSE req
  /\ UNCHANGED <<filed, outcome, queue, desk, chat, history, strayed>>

Expire(i) ==
  /\ Step(i, "expiring", "announcing")
  /\ outcome' = Outcome("expired")
  /\ strayed' = (strayed \/ req.status # "closed")
  /\ UNCHANGED <<filed, req, queue, desk, chat, history>>

AnnounceClosure(i) ==
  /\ Step(i, "announcing", "idle")
  /\ closures' = closures + 1
  /\ UNCHANGED <<filed, req, outcome, reminders, recent, desk, chat, history, strayed>>

Die(i) ==
  /\ mishaps < MaxMishaps
  /\ cron[i] # "idle"
  /\ cron' = [cron EXCEPT ![i] = "idle"]
  /\ mishaps' = mishaps + 1
  /\ crashed' = TRUE
  /\ UNCHANGED <<filed, req, outcome, queue, desk, chat, resolves, nudges, asked, strayed>>

(* A reminder's row ends FAILED: it was not sent, and does not count. *)
ReminderFails ==
  /\ recent > 0
  /\ mishaps < MaxMishaps
  /\ reminders' = reminders - 1
  /\ recent' = recent - 1
  /\ mishaps' = mishaps + 1
  /\ UNCHANGED <<filed, req, outcome, closures, desk, chat, cron, resolves, nudges, asked, crashed, strayed>>

(* A week goes by; no call takes that long. *)
AllIdle ==
  /\ \A d \in Desks : desk[d].pc = "idle"
  /\ \A c \in Chats : chat[c].pc = "idle"
  /\ \A i \in Crons : cron[i] = "idle"

WeekResolved ==
  /\ AllIdle
  /\ req.status = "resolved" /\ req.age = 0
  /\ req' = [req EXCEPT !.age = 1]
  /\ UNCHANGED <<filed, outcome, queue, desk, chat, cron, history, strayed>>

WeekReminded ==
  /\ AllIdle
  /\ recent > 0
  /\ recent' = 0
  /\ UNCHANGED <<filed, req, outcome, reminders, closures, desk, chat, cron, history, strayed>>

-----------------------------------------------------------------------------
Roles == {"tenant", "fm", "landlord"}
Statuses == {"not_approved", "pending", "approved", "rejected", "denied",
             "resolved", "reopened", "closed"}

DeskStep(d) ==
  \/ \E role \in Roles, to \in Statuses : CheckUpdate(d, role, to)
  \/ ConfirmTenant(d) \/ DenyTenant(d) \/ LandlordForceConfirm(d)
  \/ Reject(d) \/ CheckApproval(d)

ChatStep(c) == Load(c) \/ Save(c) \/ Settle(c)

CronStep(i) ==
  \/ Look(i) \/ CheckWindow(i) \/ CountReminders(i) \/ SendReminder(i)
  \/ AutoClose(i) \/ Expire(i) \/ AnnounceClosure(i)

Next ==
  \/ \E f \in Filings : File(f)
  \/ \E d \in Desks : DeskStep(d) \/ Write(d) \/ Repeat(d) \/ Rewrite(d)
  \/ \E c \in Chats : ChatStep(c) \/ \E to \in Statuses : Answer(c, to) \/ Overrule(c, to)
  \/ \E i \in Crons : CronStep(i) \/ Die(i)
  \/ ReminderFails \/ WeekResolved \/ WeekReminded

Spec == Init /\ [][Next]_vars

(* Calls end, the cron comes round every day and weeks go by.  Nobody is   *)
(* assumed to answer, and nothing to keep a manager from resolving again.  *)
LiveSpec ==
  /\ Spec
  /\ \A d \in Desks : WF_vars(Write(d) \/ Rewrite(d))
  /\ \A c \in Chats : WF_vars(ChatStep(c))
  /\ WF_vars(\E i \in Crons : CronStep(i))
  /\ SF_vars(WeekResolved \/ WeekReminded)

-----------------------------------------------------------------------------
Filing == [by : Roles, scope : {"unit", "common"}, tenant : BOOLEAN, phone : BOOLEAN]
Row == [status : Statuses \cup {"none"}, auto : BOOLEAN, age : 0..1]
DashboardCall == [pc : {"idle", "update", "repeat", "decide"}, to : Statuses \cup {"none"}]
ChatCall == [pc : {"idle", "called", "loaded", "saved"}, to : Statuses \cup {"none"}, copy : Row]

(* The type invariant of the request, its queue and its handlers. *)
TypeOK ==
  /\ filed \in Filing
  /\ req \in Row
  /\ outcome \in {"none", "pending", "confirmed", "reopened", "expired"}
  /\ {reminders, recent, closures, resolves, nudges, mishaps} \subseteq Nat
  /\ desk \in [Desks -> DashboardCall]
  /\ chat \in [Chats -> ChatCall]
  /\ cron \in [Crons -> {"idle", "due", "counting", "sending", "closing", "expiring", "announcing"}]
  /\ {asked, crashed, strayed} \subseteq BOOLEAN

(* Both instances of the cron reach a silent tenant's request on the same  *)
(* morning; the tenant is told of its closing once per resolution.         *)
ClosedOncePerResolution ==
  closures + Cardinality({i \in Crons : cron[i] \in {"expiring", "announcing"}}) <= resolves

(* Two instances that pass the window check together both remind, but the  *)
(* cap holds up to one reminder for each further instance.                 *)
RemindersCapped == reminders <= MaxReminders + Cardinality(Crons) - 1

(* At rest the last attempt's outcome is what became of it: unless a write *)
(* strayed or a process died, the answer of the tenant and the close by    *)
(* the cron never leave each other's outcome behind.  A close over the     *)
(* dashboard leaves the outcome as it was.                                 *)
OutcomeAgrees ==
  AllIdle /\ ~strayed /\ ~crashed /\ outcome # "none" =>
    CASE req.status = "reopened" -> outcome = "reopened"
      [] req.status = "closed" -> IF req.auto THEN outcome = "expired" ELSE outcome # "expired"
      [] OTHER -> outcome \in {"pending", "reopened"}

(* A manager's request on a tenant's unit is worked on only after it has   *)
(* waited for the tenant, whatever calls the landlord has in flight.       *)
TenantIsAsked ==
  filed.by = "fm" /\ filed.scope = "unit" /\ filed.tenant /\ ~strayed
    /\ req.status \in {"approved", "resolved", "reopened", "closed"} => asked

(* A tenant who can be reminded and never answers does not keep a request  *)
(* resolved for ever, though reminders may fail, instances die and the     *)
(* date of the resolution be written anew.  (A tenant without a number is  *)
(* passed over every day, before anything is counted, and does.)           *)
SilentIsClosed ==
  (req.status = "resolved" /\ filed.scope = "unit" /\ filed.tenant /\ filed.phone)
    ~> (req.status # "resolved")

(* "It never acts before the request has gone a full week unconfirmed, then *)
(* ... auto-close": whoever the tenant is, a resolution is not for ever.    *)
EveryResolutionEnds ==
  (req.status = "resolved" /\ filed.scope = "unit" /\ filed.tenant) ~> (req.status # "resolved")

(* "Day 7 reminder 1, day 14 reminder 2, day 21 auto-close": no request is *)
(* reminded more often.                                                    *)
RemindedTwiceAtMost == reminders <= MaxReminders

(* "Day 7 reminder 1, day 14 reminder 2, day 21 auto-close": nobody is      *)
(* closed on without having been reminded of this resolution.              *)
RemindedBeforeClosing == req.auto /\ req.status = "closed" => nudges > 0

(* "Terminal states: closed, rejected, denied_by_tenant." *)
TerminalIsFinal ==
  [][req.status \in {"closed", "rejected", "denied"} => req'.status = req.status]_vars
=============================================================================
