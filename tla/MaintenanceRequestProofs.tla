----------------------- MODULE MaintenanceRequestProofs -----------------------
(***************************************************************************)
(* One maintenance request under any number of dashboard and WhatsApp      *)
(* calls and of cron instances.  The close by the cron and the tenant's    *)
(* answer each write the status and, in a second statement, the outcome of *)
(* the attempt; the invariant says what a handler between the two knows.   *)
(***************************************************************************)
EXTENDS MaintenanceRequest, TLAPS, FiniteSetTheorems

CronPcs == {"idle", "due", "counting", "sending", "closing", "expiring", "announcing"}
Outcomes == {"none", "pending", "confirmed", "reopened", "expired"}
RowTyped == filed \in Filing /\ req \in Row /\ outcome \in Outcomes
CountsTyped ==
  /\ reminders \in Nat /\ recent \in Nat /\ closures \in Nat
  /\ resolves \in Nat /\ nudges \in Nat /\ mishaps \in Nat
  /\ asked \in BOOLEAN /\ crashed \in BOOLEAN /\ strayed \in BOOLEAN
DeskTyped == desk \in [Desks -> DashboardCall]
ChatTyped == chat \in [Chats -> ChatCall]
CronTyped == cron \in [Crons -> CronPcs]

(* What a call can ask for; a reminder of the last week was queued.        *)
Decisions == {"pending", "approved", "denied", "rejected"}
Answers == {"approved", "resolved", "closed", "reopened"}
Asks ==
  /\ \A d \in Desks : desk[d].pc = "decide" => desk[d].to \in Decisions
  /\ \A d \in Desks : desk[d].pc # "idle" => desk[d].to \in Statuses
  /\ \A c \in Chats : chat[c].pc # "idle" => chat[c].to \in Answers
  /\ recent <= reminders

Base == RowTyped /\ CountsTyped /\ DeskTyped /\ ChatTyped /\ CronTyped /\ Asks

LEMMA TypeSplit == TypeOK <=> RowTyped /\ CountsTyped /\ DeskTyped /\ ChatTyped /\ CronTyped
  BY Zenon DEF TypeOK, RowTyped, CountsTyped, DeskTyped, ChatTyped, CronTyped, CronPcs, Outcomes

USE ReminderAssumption, FilingAssumption
-----------------------------------------------------------------------------
(* How calls and crons move.                                               *)
LEMMA DeskMoves ==
  ASSUME DeskTyped, NEW d \in Desks, NEW pc \in {"idle", "update", "repeat", "decide"},
         NEW to \in Statuses \cup {"none"}, desk' = [desk EXCEPT ![d] = [pc |-> pc, to |-> to]]
  PROVE  /\ DeskTyped' /\ desk'[d].pc = pc /\ desk'[d].to = to
         /\ \A e \in Desks \ {d} : desk'[e] = desk[e]
  BY DEF DeskTyped, DashboardCall

LEMMA ChatMoves ==
  ASSUME ChatTyped, NEW c \in Chats, NEW r \in ChatCall, chat' = [chat EXCEPT ![c] = r]
  PROVE  ChatTyped' /\ chat'[c] = r /\ \A e \in Chats \ {c} : chat'[e] = chat[e]
  BY DEF ChatTyped

LEMMA CronMoves ==
  ASSUME CronTyped, NEW i \in Crons, NEW from, NEW to \in CronPcs, Step(i, from, to)
  PROVE  /\ CronTyped' /\ cron[i] = from /\ cron'[i] = to
         /\ \A k \in Crons \ {i} : cron'[k] = cron[k]
  BY DEF CronTyped, Step

LEMMA NoChatTyped == NoChat \in ChatCall /\ NoChat.pc = "idle" /\ NoRequest \in Row
  BY DEF NoChat, ChatCall, NoRequest, Row

(* A call begins: nothing but the call's own record, and a mishap's count. *)
LEMMA CallBegins ==
  ASSUME Base, NEW d \in Desks, DeskStep(d)
  PROVE  /\ UNCHANGED <<filed, req, outcome, queue, chat, cron, history, strayed>>
         /\ DeskTyped' /\ Asks'
<1>1. \E pc \in {"update", "decide"}, to \in Statuses :
        Ring(d, pc, to) /\ (pc = "decide" => to \in Decisions)
  <2>1. ASSUME NEW role \in Roles, NEW to \in Statuses, CheckUpdate(d, role, to)
        PROVE  \E pc \in {"update", "decide"}, u \in Statuses :
                 Ring(d, pc, u) /\ (pc = "decide" => u \in Decisions)
    BY <2>1 DEF CheckUpdate
  <2>2. CASE ConfirmTenant(d)  BY <2>2 DEF ConfirmTenant, Statuses, Decisions
  <2>3. CASE DenyTenant(d)  BY <2>3 DEF DenyTenant, Statuses, Decisions
  <2>4. CASE LandlordForceConfirm(d)  BY <2>4 DEF LandlordForceConfirm, Statuses, Decisions
  <2>5. CASE Reject(d)  BY <2>5 DEF Reject, Statuses, Decisions
  <2>6. CASE CheckApproval(d)
    <3>1. Ring(d, "decide", IF Gated THEN "pending" ELSE "approved")  BY <2>6 DEF CheckApproval
    <3>2. CASE Gated  BY <3>1, <3>2 DEF Statuses, Decisions
    <3>3. CASE ~Gated  BY <3>1, <3>3 DEF Statuses, Decisions
    <3> QED  BY <3>2, <3>3
  <2> QED  BY <2>1, <2>2, <2>3, <2>4, <2>5, <2>6, Zenon DEF DeskStep
<1>2. PICK pc \in {"update", "decide"}, to \in Statuses :
        Ring(d, pc, to) /\ (pc = "decide" => to \in Decisions)
  BY <1>1
<1>3. UNCHANGED <<filed, req, outcome, queue, chat, cron, history, strayed>>
  BY <1>2 DEF Ring
<1>4. /\ DeskTyped' /\ desk'[d].pc = pc /\ desk'[d].to = to
      /\ \A e \in Desks \ {d} : desk'[e] = desk[e]
  BY <1>2, DeskMoves DEF Ring, Base
<1>5. Asks'  BY <1>2, <1>3, <1>4 DEF Base, Asks, queue
<1> QED  BY <1>3, <1>4, <1>5

(* A call over WhatsApp begins, or reads the row.                          *)
LEMMA ChatBegins ==
  ASSUME Base, NEW c \in Chats,
         Load(c) \/ \E to \in Statuses : Answer(c, to) \/ Overrule(c, to)
  PROVE  /\ UNCHANGED <<filed, req, outcome, queue, desk, cron, resolves, nudges, asked, crashed, strayed>>
         /\ mishaps' \in Nat /\ ChatTyped' /\ Asks'
         /\ chat'[c].pc \in {"called", "loaded"} /\ chat[c].pc # "saved"
         /\ \A e \in Chats \ {c} : chat'[e] = chat[e]
<1>0. ChatTyped /\ Asks /\ mishaps \in Nat /\ req \in Row  BY DEF Base, CountsTyped, RowTyped
<1>1. UNCHANGED <<filed, req, outcome, queue, desk, cron, resolves, nudges, asked, crashed, strayed>>
      /\ mishaps' \in Nat
  BY <1>0 DEF Load, Answer, Overrule, history
<1>2. PICK r \in ChatCall :
        /\ chat' = [chat EXCEPT ![c] = r]
        /\ r.pc \in {"called", "loaded"} /\ r.to \in Answers /\ chat[c].pc # "saved"
  <2>1. CASE Load(c)
    <3> DEFINE r == [chat[c] EXCEPT !.pc = "loaded", !.copy = req]
    <3>1. chat[c] \in ChatCall /\ chat[c].to \in Answers /\ chat[c].pc = "called"
      BY <1>0, <2>1 DEF ChatTyped, Asks, Load
    <3>2. r \in ChatCall /\ r.pc = "loaded" /\ r.to \in Answers  BY <1>0, <3>1 DEF ChatCall
    <3>3. chat' = [chat EXCEPT ![c] = r]  BY <2>1 DEF Load
    <3> HIDE DEF r
    <3> QED  BY <3>1, <3>2, <3>3
  <2>2. ASSUME NEW to \in Statuses, Answer(c, to) \/ Overrule(c, to)
        PROVE  \E r \in ChatCall :
                 /\ chat' = [chat EXCEPT ![c] = r]
                 /\ r.pc \in {"called", "loaded"} /\ r.to \in Answers /\ chat[c].pc # "saved"
    <3> DEFINE r == [NoChat EXCEPT !.pc = "called", !.to = to]
    <3>1. to \in Answers /\ Call(c, to)  BY <2>2 DEF Answer, Overrule, Answers
    <3>2. r \in ChatCall /\ r.pc = "called" /\ r.to = to
      BY NoChatTyped DEF ChatCall, NoChat
    <3>3. chat' = [chat EXCEPT ![c] = r] /\ chat[c].pc = "idle"  BY <3>1 DEF Call
    <3> HIDE DEF r
    <3> QED  BY <3>1, <3>2, <3>3
  <2> QED  BY <2>1, <2>2
<1>3. ChatTyped' /\ chat'[c] = r /\ \A e \in Chats \ {c} : chat'[e] = chat[e]
  BY <1>0, <1>2, ChatMoves
<1>4. Asks'  BY <1>0, <1>1, <1>2, <1>3 DEF Asks, queue
<1> QED  BY <1>1, <1>2, <1>3, <1>4

LEMMA WriteTyped ==
  ASSUME Base, NEW d \in Desks, Write(d)
  PROVE  Base' /\ desk'[d].pc = "idle" /\ \A e \in Desks \ {d} : desk'[e] = desk[e]
<1>0. RowTyped /\ CountsTyped /\ DeskTyped /\ ChatTyped /\ CronTyped /\ Asks  BY DEF Base
<1>1. desk[d].to \in Statuses  BY <1>0 DEF Asks, Write
<1>2. /\ DeskTyped' /\ desk'[d].pc = "idle" /\ desk'[d].to = "none"
      /\ \A e \in Desks \ {d} : desk'[e] = desk[e]
  BY <1>0, DeskMoves DEF Write, NoCall
<1>3. req' \in Row
  <2>1. PICK st \in Statuses, a \in 0..1 : req' = [req EXCEPT !.status = st, !.age = a]
    <3>1. req.age \in 0..1  BY <1>0 DEF RowTyped, Row
    <3>2. (IF desk[d].to = "resolved" /\ filed.scope = "common" THEN "closed" ELSE desk[d].to)
            \in Statuses
      BY <1>1 DEF Statuses
    <3>3. (IF desk[d].to = "resolved" THEN 0 ELSE req.age) \in 0..1  BY <3>1
    <3> QED  BY <3>2, <3>3, Zenon DEF Write
  <2> QED  BY <2>1, <1>0 DEF RowTyped, Row
<1>4. RowTyped'  BY <1>0, <1>3 DEF Write, RowTyped, Outcomes, Outcome
<1>5. CountsTyped'
  <2>1. resolves' \in Nat /\ nudges' \in Nat  BY <1>0 DEF Write, CountsTyped
  <2>2. asked' \in BOOLEAN /\ strayed' \in BOOLEAN  BY <1>0, Zenon DEF Write, CountsTyped
  <2>3. UNCHANGED <<reminders, recent, closures, crashed, mishaps>>  BY DEF Write, queue
  <2> QED  BY <2>1, <2>2, <2>3, <1>0, Zenon DEF CountsTyped
<1>6. ChatTyped' /\ CronTyped'  BY <1>0 DEF Write, ChatTyped, CronTyped
<1>7. Asks'
  <2>1. UNCHANGED <<chat, recent, reminders>>  BY DEF Write, queue
  <2> QED  BY <2>1, <1>0, <1>2 DEF Asks
<1> QED  BY <1>2, <1>4, <1>5, <1>6, <1>7 DEF Base

(* A repeated status is taken from the row, and written over it later.     *)
LEMMA RepeatTyped ==
  ASSUME Base, NEW d \in Desks, Repeat(d)
  PROVE  /\ Base'
         /\ UNCHANGED <<filed, req, outcome, queue, chat, cron, resolves, nudges, asked, crashed, strayed>>
<1>0. RowTyped /\ CountsTyped /\ DeskTyped /\ ChatTyped /\ CronTyped /\ Asks  BY DEF Base
<1>1. UNCHANGED <<filed, req, outcome, queue, chat, cron, resolves, nudges, asked, crashed, strayed>>
  BY DEF Repeat
<1>2. req.status \in Statuses  BY <1>0 DEF RowTyped, Row, Repeat
<1>3. /\ DeskTyped' /\ desk'[d].pc = "repeat" /\ desk'[d].to = req.status
      /\ \A e \in Desks \ {d} : desk'[e] = desk[e]
  BY <1>0, <1>2, DeskMoves DEF Repeat
<1>4. Asks'  BY <1>0, <1>1, <1>2, <1>3 DEF Asks, queue
<1>5. CountsTyped'  BY <1>0, <1>1 DEF Repeat, CountsTyped, queue
<1>6. RowTyped' /\ ChatTyped' /\ CronTyped'  BY <1>0, <1>1 DEF RowTyped, ChatTyped, CronTyped
<1> QED  BY <1>1, <1>3, <1>4, <1>5, <1>6 DEF Base

LEMMA RewriteTyped ==
  ASSUME Base, NEW d \in Desks, Rewrite(d)
  PROVE  /\ Base' /\ UNCHANGED <<filed, outcome, queue, chat, cron, asked, crashed, mishaps>>
         /\ req'.status = desk[d].to /\ req'.auto = req.auto
<1>0. RowTyped /\ CountsTyped /\ DeskTyped /\ ChatTyped /\ CronTyped /\ Asks  BY DEF Base
<1>1. UNCHANGED <<filed, outcome, queue, chat, cron, asked, crashed, mishaps>>  BY DEF Rewrite
<1>2. desk[d].to \in Statuses  BY <1>0 DEF Asks, Rewrite
<1>3. req' \in Row /\ req'.status = desk[d].to /\ req'.auto = req.auto
  <2>1. PICK a \in 0..1 : req' = [req EXCEPT !.status = desk[d].to, !.age = a]
    <3>1. req.age \in 0..1  BY <1>0 DEF RowTyped, Row
    <3>2. (IF desk[d].to = "resolved" THEN 0 ELSE req.age) \in 0..1  BY <3>1
    <3> QED  BY <3>2, Zenon DEF Rewrite
  <2> QED  BY <2>1, <1>0, <1>2 DEF RowTyped, Row
<1>4. /\ DeskTyped' /\ desk'[d].pc = "idle" /\ desk'[d].to = "none"
      /\ \A e \in Desks \ {d} : desk'[e] = desk[e]
  BY <1>0, DeskMoves DEF Rewrite, NoCall
<1>5. Asks'  BY <1>0, <1>1, <1>4 DEF Asks, queue
<1>6. CountsTyped'
  <2>1. resolves' \in Nat /\ nudges' \in Nat  BY <1>0 DEF Rewrite, CountsTyped
  <2>2. strayed' \in BOOLEAN  BY <1>0, Zenon DEF Rewrite, CountsTyped
  <2>3. UNCHANGED <<reminders, recent, closures, asked, crashed, mishaps>>  BY <1>1 DEF queue
  <2> QED  BY <2>1, <2>2, <2>3, <1>0, Zenon DEF CountsTyped
<1>7. RowTyped' /\ ChatTyped' /\ CronTyped'
  BY <1>0, <1>1, <1>3 DEF RowTyped, ChatTyped, CronTyped
<1> QED  BY <1>1, <1>3, <1>4, <1>5, <1>6, <1>7 DEF Base

LEMMA SaveTyped ==
  ASSUME Base, NEW c \in Chats, Save(c)
  PROVE  /\ Base' /\ chat[c].to \in Answers
         /\ chat'[c].pc = "saved" /\ chat'[c].to = chat[c].to
         /\ \A e \in Chats \ {c} : chat'[e] = chat[e]
<1>0. RowTyped /\ CountsTyped /\ DeskTyped /\ ChatTyped /\ CronTyped /\ Asks  BY DEF Base
<1>1. chat[c] \in ChatCall /\ chat[c].to \in Answers  BY <1>0 DEF Asks, Save, ChatTyped
<1>2. /\ ChatTyped' /\ chat'[c].pc = "saved" /\ chat'[c].to = chat[c].to
      /\ \A e \in Chats \ {c} : chat'[e] = chat[e]
  <2> DEFINE r == [NoChat EXCEPT !.pc = "saved", !.to = chat[c].to]
  <2>1. r \in ChatCall /\ r.pc = "saved" /\ r.to = chat[c].to
    BY <1>1, NoChatTyped DEF NoChat, ChatCall, Answers, Statuses
  <2>2. chat' = [chat EXCEPT ![c] = r]  BY DEF Save
  <2> HIDE DEF r
  <2> QED  BY <2>1, <2>2, <1>0, ChatMoves
<1>3. req' \in Row
  <2>1. chat[c].copy \in Row /\ chat[c].to \in Statuses
    BY <1>1 DEF ChatCall, Answers, Statuses
  <2>2. PICK a \in 0..1 : req' = [chat[c].copy EXCEPT !.status = chat[c].to, !.age = a]
    <3>1. (IF chat[c].to = "resolved" THEN 0 ELSE chat[c].copy.age) \in 0..1
      BY <2>1 DEF Row
    <3> QED  BY <3>1, Zenon DEF Save
  <2> QED  BY <2>1, <2>2 DEF Row
<1>4. RowTyped'  BY <1>0, <1>3 DEF Save, RowTyped
<1>5. CountsTyped'
  <2>1. resolves' \in Nat /\ nudges' \in Nat  BY <1>0 DEF Save, CountsTyped
  <2>2. strayed' \in BOOLEAN  BY <1>0, Zenon DEF Save, CountsTyped
  <2>3. UNCHANGED <<reminders, recent, closures, asked, crashed, mishaps>>  BY DEF Save, queue
  <2> QED  BY <2>1, <2>2, <2>3, <1>0, Zenon DEF CountsTyped
<1>6. DeskTyped' /\ CronTyped'  BY <1>0 DEF Save, DeskTyped, CronTyped
<1>7. Asks'
  <2>1. UNCHANGED <<desk, recent, reminders>>  BY DEF Save, queue
  <2> QED  BY <2>1, <1>0, <1>1, <1>2 DEF Asks
<1> QED  BY <1>1, <1>2, <1>4, <1>5, <1>6, <1>7 DEF Base

LEMMA SettleTyped ==
  ASSUME Base, NEW c \in Chats, Settle(c)
  PROVE  /\ Base' /\ chat[c].to \in Answers /\ chat'[c].pc = "idle"
         /\ \A e \in Chats \ {c} : chat'[e] = chat[e]
<1>0. RowTyped /\ CountsTyped /\ DeskTyped /\ ChatTyped /\ CronTyped /\ Asks  BY DEF Base
<1>1. chat[c].to \in Answers  BY <1>0 DEF Asks, Settle
<1>2. ChatTyped' /\ chat'[c].pc = "idle" /\ \A e \in Chats \ {c} : chat'[e] = chat[e]
  BY <1>0, NoChatTyped, ChatMoves DEF Settle
<1>3. RowTyped'
  <2>1. [req EXCEPT !.status = "closed"] \in Row  BY <1>0 DEF RowTyped, Row, Statuses
  <2>2. req' \in Row  BY <2>1, <1>0 DEF RowTyped, Settle
  <2>3. outcome' \in Outcomes  BY <1>0 DEF RowTyped, Settle, Outcome, Outcomes
  <2> QED  BY <2>2, <2>3, <1>0 DEF RowTyped, Settle
<1>4. CountsTyped'
  <2>1. strayed' \in BOOLEAN  BY <1>0, Zenon DEF Settle, CountsTyped
  <2>2. UNCHANGED <<reminders, recent, closures, resolves, nudges, asked, crashed, mishaps>>
    BY DEF Settle, queue, history
  <2> QED  BY <2>1, <2>2, <1>0, Zenon DEF CountsTyped
<1>5. DeskTyped' /\ CronTyped'  BY <1>0 DEF Settle, DeskTyped, CronTyped
<1>6. Asks'
  <2>1. UNCHANGED <<desk, recent, reminders>>  BY DEF Settle, queue
  <2> QED  BY <2>1, <1>0, <1>2 DEF Asks
<1> QED  BY <1>1, <1>2, <1>3, <1>4, <1>5, <1>6 DEF Base

LEMMA CronTypes ==
  ASSUME Base, NEW i \in Crons, CronStep(i) \/ Die(i)
  PROVE  Base' /\ UNCHANGED <<filed, desk, chat, resolves, asked>>
<1>0. RowTyped /\ CountsTyped /\ DeskTyped /\ ChatTyped /\ CronTyped /\ Asks  BY DEF Base
<1>1. UNCHANGED <<filed, desk, chat, resolves, asked>>
  BY DEF CronStep, Look, CheckWindow, CountReminders, SendReminder, AutoClose, Expire,
         AnnounceClosure, Die, history
<1>2. CronTyped'
  <2>1. PICK from, to \in CronPcs : Step(i, from, to)
    BY <1>0 DEF CronStep, Look, CheckWindow, CountReminders, SendReminder, AutoClose, Expire,
         AnnounceClosure, Die, CronPcs, CronTyped, Step
  <2> QED  BY <2>1, <1>0, CronMoves
<1>3. RowTyped'
  <2>1. [req EXCEPT !.status = "closed", !.auto = TRUE] \in Row
    BY <1>0 DEF RowTyped, Row, Statuses
  <2> QED
    BY <2>1, <1>0 DEF RowTyped, CronStep, Look, CheckWindow, CountReminders, SendReminder,
       AutoClose, Expire, AnnounceClosure, Die, history, Outcome, Outcomes
<1>4. CountsTyped' /\ recent' <= reminders'
  <2>1. CASE SendReminder(i)
    BY <2>1, <1>0 DEF SendReminder, CountsTyped, Asks
  <2>2. CASE AnnounceClosure(i)
    BY <2>2, <1>0 DEF AnnounceClosure, CountsTyped, Asks, history
  <2>3. CASE Expire(i)
    <3>1. strayed' \in BOOLEAN  BY <2>3, <1>0, Zenon DEF Expire, CountsTyped
    <3> QED  BY <3>1, <2>3, <1>0 DEF Expire, CountsTyped, Asks, history, queue
  <2>4. CASE Die(i)
    BY <2>4, <1>0 DEF Die, CountsTyped, Asks, queue
  <2>5. CASE Look(i) \/ CheckWindow(i) \/ CountReminders(i) \/ AutoClose(i)
    BY <2>5, <1>0 DEF Look, CheckWindow, CountReminders, AutoClose, CountsTyped, Asks, history, queue
  <2> QED  BY <2>1, <2>2, <2>3, <2>4, <2>5 DEF CronStep
<1>5. DeskTyped' /\ ChatTyped' /\ Asks'
  BY <1>0, <1>1, <1>4 DEF DeskTyped, ChatTyped, Asks
<1> QED  BY <1>1, <1>2, <1>3, <1>4, <1>5 DEF Base

LEMMA RestTyped ==
  ASSUME Base,
         (\E f \in Filings : File(f)) \/ ReminderFails \/ WeekResolved \/ WeekReminded
           \/ UNCHANGED vars
  PROVE  Base' /\ UNCHANGED <<desk, chat, cron>>
<1>0. RowTyped /\ CountsTyped /\ DeskTyped /\ ChatTyped /\ CronTyped /\ Asks  BY DEF Base
<1>1. UNCHANGED <<desk, chat, cron>>
  BY DEF File, ReminderFails, WeekResolved, WeekReminded, vars
<1>2. DeskTyped' /\ ChatTyped' /\ CronTyped'  BY <1>0, <1>1 DEF DeskTyped, ChatTyped, CronTyped
<1>3. RowTyped' /\ CountsTyped' /\ recent' <= reminders'
  <2>1. ASSUME NEW f \in Filings, File(f) PROVE RowTyped' /\ CountsTyped' /\ recent' <= reminders'
    <3>1. f \in Filing  BY DEF Filing, Roles
    <3>2. FirstStatus(f) \in Statuses  BY DEF FirstStatus, Statuses
    <3>3. req' \in Row  BY <2>1, <3>2, <1>0 DEF File, RowTyped, Row
    <3>4. asked' \in BOOLEAN  BY <2>1, Zenon DEF File
    <3> QED  BY <2>1, <3>1, <3>3, <3>4, <1>0 DEF File, RowTyped, CountsTyped, queue, Asks
  <2>2. CASE ReminderFails
    BY <2>2, <1>0 DEF ReminderFails, RowTyped, CountsTyped, Asks
  <2>3. CASE WeekResolved
    <3>1. req' \in Row  BY <2>3, <1>0 DEF WeekResolved, RowTyped, Row
    <3> QED  BY <2>3, <3>1, <1>0 DEF WeekResolved, RowTyped, CountsTyped, queue, history, Asks
  <2>4. CASE WeekReminded
    BY <2>4, <1>0 DEF WeekReminded, RowTyped, CountsTyped, history, Asks
  <2>5. CASE UNCHANGED vars
    BY <2>5, <1>0 DEF vars, RowTyped, CountsTyped, queue, history, Asks
  <2> QED  BY <2>1, <2>2, <2>3, <2>4, <2>5
<1>4. Asks'  BY <1>0, <1>1, <1>3 DEF Asks
<1> QED  BY <1>1, <1>2, <1>3, <1>4 DEF Base

LEMMA BaseHolds == ASSUME Base, [Next]_vars PROVE Base'
<1>1. ASSUME NEW d \in Desks, DeskStep(d) PROVE Base'
  BY <1>1, CallBegins DEF Base, RowTyped, CountsTyped, ChatTyped, CronTyped, queue, history
<1>2. ASSUME NEW c \in Chats, Load(c) \/ \E to \in Statuses : Answer(c, to) \/ Overrule(c, to)
      PROVE  Base'
  BY <1>2, ChatBegins DEF Base, RowTyped, CountsTyped, DeskTyped, CronTyped, queue
<1> QED
  BY <1>1, <1>2, WriteTyped, RepeatTyped, RewriteTyped, SaveTyped, SettleTyped, CronTypes,
     RestTyped DEF Next, ChatStep
-----------------------------------------------------------------------------
(* How many instances of the cron are in one of some steps.                *)
At(S) == {i \in Crons : cron[i] \in S}

LEMMA AtFinite ==
  ASSUME NEW S PROVE IsFiniteSet(At(S)) /\ Cardinality(At(S)) \in Nat
<1>1. At(S) \subseteq Crons  BY DEF At
<1> QED  BY <1>1, CronAssumption, FS_Subset, FS_CardinalityType

LEMMA AtSame == ASSUME NEW S, UNCHANGED cron PROVE At(S)' = At(S)
BY DEF At

LEMMA AtMoves ==
  ASSUME CronTyped, NEW i \in Crons, NEW from, NEW to \in CronPcs, NEW S, Step(i, from, to)
  PROVE  /\ from \in S <=> to \in S => At(S)' = At(S)
         /\ from \notin S /\ to \in S => Cardinality(At(S)') = Cardinality(At(S)) + 1
         /\ from \in S /\ to \notin S => Cardinality(At(S)') = Cardinality(At(S)) - 1
<1>1. /\ cron[i] = from /\ cron'[i] = to
      /\ \A k \in Crons \ {i} : cron'[k] = cron[k]
  BY CronMoves
<1>2. ASSUME from \in S <=> to \in S PROVE At(S)' = At(S)
  BY <1>1, <1>2 DEF At
<1>3. ASSUME from \notin S, to \in S PROVE Cardinality(At(S)') = Cardinality(At(S)) + 1
  <2>1. At(S)' = At(S) \cup {i} /\ i \notin At(S)  BY <1>1, <1>3 DEF At
  <2> QED  BY <2>1, AtFinite, FS_AddElement
<1>4. ASSUME from \in S, to \notin S PROVE Cardinality(At(S)') = Cardinality(At(S)) - 1
  <2>1. At(S)' = At(S) \ {i} /\ i \in At(S)  BY <1>1, <1>4 DEF At
  <2> QED  BY <2>1, AtFinite, FS_RemoveElement
<1> QED  BY <1>2, <1>3, <1>4

(* A resolution is closed on by one instance, which holds it in the row's  *)
(* place until the tenant is told.                                         *)
Due == IF req.status = "resolved" THEN 1 ELSE 0
Closers == {"expiring", "announcing"}
Closings == closures + Cardinality(At(Closers)) + Due <= resolves

LEMMA ClosingsHold == ASSUME Base, Closings, [Next]_vars PROVE Closings'
<1>0. /\ CronTyped /\ closures \in Nat /\ resolves \in Nat /\ Cardinality(At(Closers)) \in Nat
      /\ Due \in 0..1 /\ Due' \in 0..1 /\ Base'
  BY AtFinite, BaseHolds DEF Base, CountsTyped, Due
<1>1. ASSUME UNCHANGED <<cron, closures>>,
             (resolves' = resolves /\ Due' <= Due) \/ resolves' = resolves + 1
      PROVE  Closings'
  BY <1>0, <1>1, AtSame DEF Closings
<1>2. ASSUME NEW d \in Desks, DeskStep(d) PROVE Closings'
  BY <1>0, <1>1, <1>2, CallBegins DEF Due, history, queue
<1>3. ASSUME NEW d \in Desks, Write(d) PROVE Closings'
  <2>1. UNCHANGED <<cron, closures>>  BY <1>3 DEF Write, queue
  <2>2. CASE desk[d].to = "resolved"  BY <2>1, <2>2, <1>1, <1>3 DEF Write
  <2>3. CASE desk[d].to # "resolved"
    <3>1. resolves' = resolves /\ req'.status # "resolved"
      BY <2>3, <1>0, <1>3 DEF Write, Base, RowTyped, Row
    <3>2. Due' = 0  BY <3>1 DEF Due
    <3> QED  BY <3>1, <3>2, <2>1, <1>0, <1>1
  <2> QED  BY <2>2, <2>3
<1>4. ASSUME NEW c \in Chats,
             Load(c) \/ \E to \in Statuses : Answer(c, to) \/ Overrule(c, to)
      PROVE  Closings'
  BY <1>0, <1>1, <1>4, ChatBegins DEF Due, queue
<1>5. ASSUME NEW c \in Chats, Save(c) PROVE Closings'
  <2>1. UNCHANGED <<cron, closures>>  BY <1>5 DEF Save, queue
  <2>2. CASE chat[c].to = "resolved"  BY <2>1, <2>2, <1>1, <1>5 DEF Save
  <2>3. CASE chat[c].to # "resolved"
    <3>1. chat[c].copy \in Row  BY DEF Base, ChatTyped, ChatCall
    <3>2. resolves' = resolves /\ req'.status # "resolved"
      BY <2>3, <3>1, <1>5 DEF Save, Row
    <3>3. Due' = 0  BY <3>2 DEF Due
    <3> QED  BY <3>2, <3>3, <2>1, <1>0, <1>1
  <2> QED  BY <2>2, <2>3
<1>6. ASSUME NEW c \in Chats, Settle(c) PROVE Closings'
  <2>1. req' = req \/ req'.status = "closed"
    BY <1>6 DEF Settle, Base, RowTyped, Row
  <2>2. Due' <= Due  BY <2>1, <1>0 DEF Due
  <2> QED  BY <2>2, <1>1, <1>6 DEF Settle, queue, history
<1>7. ASSUME NEW i \in Crons, CronStep(i) \/ Die(i) PROVE Closings'
  <2>0. resolves' = resolves  BY <1>7, CronTypes
  <2>1. CASE Look(i) \/ CheckWindow(i) \/ CountReminders(i) \/ SendReminder(i)
    <3>1. PICK from, to \in CronPcs \ Closers : Step(i, from, to)
      BY <2>1 DEF Look, CheckWindow, CountReminders, SendReminder, CronPcs, Closers
    <3>2. At(Closers)' = At(Closers)  BY <3>1, <1>0, AtMoves
    <3>3. UNCHANGED <<req, closures>>
      BY <2>1 DEF Look, CheckWindow, CountReminders, SendReminder, queue
    <3> QED  BY <3>2, <3>3, <2>0 DEF Closings, Due
  <2>2. CASE AutoClose(i)
    <3>1. closures' = closures  BY <2>2 DEF AutoClose, queue
    <3>2. CASE req.status = "resolved"
      <4>1. Step(i, "closing", "expiring")  BY <3>2, <2>2 DEF AutoClose
      <4>2. Cardinality(At(Closers)') = Cardinality(At(Closers)) + 1
        BY <4>1, <1>0, AtMoves DEF Closers, CronPcs
      <4>3. req'.status = "closed"  BY <3>2, <2>2 DEF AutoClose, Base, RowTyped, Row
      <4>4. Due = 1 /\ Due' = 0  BY <3>2, <4>3 DEF Due
      <4> QED  BY <4>2, <4>4, <3>1, <2>0, <1>0 DEF Closings
    <3>3. CASE req.status # "resolved"
      <4>1. Step(i, "closing", "idle") /\ req' = req  BY <3>3, <2>2 DEF AutoClose
      <4>2. At(Closers)' = At(Closers)  BY <4>1, <1>0, AtMoves DEF Closers, CronPcs
      <4> QED  BY <4>1, <4>2, <3>1, <2>0 DEF Closings, Due
    <3> QED  BY <3>2, <3>3
  <2>3. CASE Expire(i)
    <3>1. Step(i, "expiring", "announcing")  BY <2>3 DEF Expire
    <3>2. At(Closers)' = At(Closers)  BY <3>1, <1>0, AtMoves DEF Closers, CronPcs
    <3> QED  BY <3>2, <2>3 DEF Expire, Closings, Due, history, queue
  <2>4. CASE AnnounceClosure(i)
    <3>1. Step(i, "announcing", "idle")  BY <2>4 DEF AnnounceClosure
    <3>2. Cardinality(At(Closers)') = Cardinality(At(Closers)) - 1
      BY <3>1, <1>0, AtMoves DEF Closers, CronPcs
    <3>3. Due' = Due /\ closures' = closures + 1  BY <2>4 DEF AnnounceClosure, Due
    <3> QED  BY <3>2, <3>3, <2>0, <1>0 DEF Closings
  <2>5. CASE Die(i)
    <3>0. Step(i, cron[i], "idle")  BY <2>5 DEF Die, Step
    <3>1. Due' = Due /\ closures' = closures  BY <2>5 DEF Die, Due, queue
    <3>2. CASE cron[i] \in Closers
      <4>1. Cardinality(At(Closers)') = Cardinality(At(Closers)) - 1
        BY <3>0, <3>2, <1>0, AtMoves DEF Closers, CronPcs
      <4> QED  BY <4>1, <3>1, <2>0, <1>0 DEF Closings
    <3>3. CASE cron[i] \notin Closers
      <4>1. At(Closers)' = At(Closers)
        BY <3>0, <3>3, <1>0, AtMoves DEF Closers, CronPcs
      <4> QED  BY <4>1, <3>1, <2>0 DEF Closings
    <3> QED  BY <3>2, <3>3
  <2> QED  BY <1>7, <2>1, <2>2, <2>3, <2>4, <2>5 DEF CronStep
<1>8. ASSUME (\E f \in Filings : File(f)) \/ ReminderFails \/ WeekResolved \/ WeekReminded
               \/ UNCHANGED vars
      PROVE  Closings'
  <2>1. UNCHANGED <<cron, closures, resolves>>
    BY <1>8 DEF File, ReminderFails, WeekResolved, WeekReminded, vars, queue, history
  <2>2. req'.status = req.status \/ req'.status # "resolved"
    BY <1>8 DEF File, FirstStatus, ReminderFails, WeekResolved, WeekReminded, vars,
         Base, RowTyped, Row
  <2>3. Due' <= Due  BY <2>2, <1>0 DEF Due
  <2> QED  BY <2>1, <2>3, <1>1
<1>9. ASSUME NEW d \in Desks, Repeat(d) PROVE Closings'
  BY <1>0, <1>1, <1>9, RepeatTyped DEF Due, queue
<1>10. ASSUME NEW d \in Desks, Rewrite(d) PROVE Closings'
  <2>1. UNCHANGED <<cron, closures>> /\ req'.status = desk[d].to
    BY <1>10, RewriteTyped DEF queue
  <2>2. CASE desk[d].to = "resolved" /\ req.status # "resolved"
    BY <2>1, <2>2, <1>1, <1>10 DEF Rewrite
  <2>3. CASE ~(desk[d].to = "resolved" /\ req.status # "resolved")
    <3>1. resolves' = resolves  BY <2>3, <1>10 DEF Rewrite
    <3>2. Due' <= Due  BY <2>1, <2>3, <1>0 DEF Due
    <3> QED  BY <3>1, <3>2, <2>1, <1>1
  <2> QED  BY <2>2, <2>3
<1> QED
  BY <1>2, <1>3, <1>4, <1>5, <1>6, <1>7, <1>8, <1>9, <1>10 DEF Next, ChatStep
-----------------------------------------------------------------------------
(* An instance that may still remind found the cap not reached.            *)
Sending == {"sending"}
Remindings == reminders + Cardinality(At(Sending)) <= MaxReminders + Cardinality(Crons) - 1

LEMMA SomeCron == Cardinality(Crons) \in Nat /\ Cardinality(Crons) >= 1
<1>1. Cardinality(Crons) \in Nat  BY CronAssumption, FS_CardinalityType
<1>2. Cardinality(Crons) # 0  BY CronAssumption, FS_EmptySet
<1> QED  BY <1>1, <1>2

LEMMA RemindingsHold == ASSUME Base, Remindings, [Next]_vars PROVE Remindings'
<1>0. /\ CronTyped /\ reminders \in Nat /\ Cardinality(At(Sending)) \in Nat
      /\ Cardinality(At(Sending)') \in Nat
      /\ Cardinality(Crons) \in Nat /\ MaxReminders \in Nat
  <2>1. Base'  BY BaseHolds
  <2>2. At(Sending)' \subseteq Crons  BY DEF At
  <2> QED
    BY <2>1, <2>2, AtFinite, SomeCron, CronAssumption, FS_Subset, FS_CardinalityType
    DEF Base, CountsTyped
<1>1. ASSUME UNCHANGED <<cron, reminders>> PROVE Remindings'
  BY <1>1, AtSame DEF Remindings
<1>2. ASSUME NEW i \in Crons, CronStep(i) \/ Die(i) PROVE Remindings'
  <2>1. CASE Look(i) \/ CheckWindow(i) \/ AutoClose(i) \/ Expire(i) \/ AnnounceClosure(i)
    <3>1. PICK from, to \in CronPcs \ Sending : Step(i, from, to)
      BY <2>1 DEF Look, CheckWindow, AutoClose, Expire, AnnounceClosure, CronPcs, Sending
    <3>2. At(Sending)' = At(Sending)  BY <3>1, <1>0, AtMoves
    <3>3. UNCHANGED reminders
      BY <2>1 DEF Look, CheckWindow, AutoClose, Expire, AnnounceClosure, queue
    <3> QED  BY <3>2, <3>3 DEF Remindings
  <2>2. CASE CountReminders(i)
    <3>0. reminders' = reminders  BY <2>2 DEF CountReminders, queue
    <3>1. CASE reminders >= MaxReminders
      <4>1. Step(i, "counting", "closing")  BY <3>1, <2>2 DEF CountReminders
      <4>2. At(Sending)' = At(Sending)  BY <4>1, <1>0, AtMoves DEF CronPcs, Sending
      <4> QED  BY <4>2, <3>0 DEF Remindings
    <3>2. CASE ~(reminders >= MaxReminders)
      <4>1. At(Sending)' \subseteq Crons  BY DEF At
      <4>2. Cardinality(At(Sending)') <= Cardinality(Crons)
        BY <4>1, CronAssumption, FS_Subset
      <4> QED  BY <4>2, <3>0, <3>2, <1>0 DEF Remindings
    <3> QED  BY <3>1, <3>2
  <2>3. CASE SendReminder(i)
    <3>1. Step(i, "sending", "idle")  BY <2>3 DEF SendReminder
    <3>2. Cardinality(At(Sending)') = Cardinality(At(Sending)) - 1
      BY <3>1, <1>0, AtMoves DEF CronPcs, Sending
    <3> QED  BY <3>2, <2>3, <1>0 DEF SendReminder, Remindings
  <2>4. CASE Die(i)
    <3>0. Step(i, cron[i], "idle")  BY <2>4 DEF Die, Step
    <3>1. reminders' = reminders  BY <2>4 DEF Die, queue
    <3>2. CASE cron[i] \in Sending
      <4>1. Cardinality(At(Sending)') = Cardinality(At(Sending)) - 1
        BY <3>0, <3>2, <1>0, AtMoves DEF Sending, CronPcs
      <4> QED  BY <4>1, <3>1, <1>0 DEF Remindings
    <3>3. CASE cron[i] \notin Sending
      <4>1. At(Sending)' = At(Sending)
        BY <3>0, <3>3, <1>0, AtMoves DEF Sending, CronPcs
      <4> QED  BY <4>1, <3>1 DEF Remindings
    <3> QED  BY <3>2, <3>3
  <2> QED  BY <1>2, <2>1, <2>2, <2>3, <2>4 DEF CronStep
<1>3. ASSUME NEW d \in Desks, DeskStep(d) \/ Write(d) PROVE Remindings'
  BY <1>1, <1>3, CallBegins DEF Write, queue
<1>4. ASSUME NEW c \in Chats,
             ChatStep(c) \/ \E to \in Statuses : Answer(c, to) \/ Overrule(c, to)
      PROVE  Remindings'
  BY <1>1, <1>4 DEF ChatStep, Load, Save, Settle, Answer, Overrule, queue
<1>5. ASSUME ReminderFails PROVE Remindings'
  <2>1. At(Sending)' = At(Sending) /\ reminders' = reminders - 1
    BY <1>5, AtSame DEF ReminderFails
  <2> QED  BY <2>1, <1>0 DEF Remindings
<1>6. ASSUME (\E f \in Filings : File(f)) \/ WeekResolved \/ WeekReminded \/ UNCHANGED vars
      PROVE  Remindings'
  BY <1>1, <1>6 DEF File, WeekResolved, WeekReminded, vars, queue
<1>7. ASSUME NEW d \in Desks, Repeat(d) \/ Rewrite(d) PROVE Remindings'
  BY <1>1, <1>7, RepeatTyped, RewriteTyped DEF queue
<1> QED
  BY <1>2, <1>3, <1>4, <1>5, <1>6, <1>7 DEF Next

-----------------------------------------------------------------------------
(* Every way on from "not approved" but rejection asks the tenant first.   *)
Fresh == {"none", "not_approved", "rejected"}
Asked == Gated /\ ~strayed /\ req.status \notin Fresh => asked

LEMMA AskedHolds == ASSUME Base, Asked, [Next]_vars PROVE Asked'
<1>0. RowTyped /\ CountsTyped /\ ChatTyped /\ Asks  BY DEF Base
<1>1. ASSUME UNCHANGED <<filed, req, strayed, asked>> PROVE Asked'
  BY <1>1 DEF Asked, Gated
<1>2. ASSUME NEW d \in Desks, Write(d), Gated, ~strayed', req'.status \notin Fresh PROVE asked'
  <2>1. ~strayed /\ <<req.status, desk[d].to>> \in Edges  BY <1>2 DEF Write
  <2>2. filed.scope # "common"  BY <1>2 DEF Gated
  <2>3. req'.status = desk[d].to  BY <2>2, <1>2, <1>0 DEF Write, RowTyped, Row
  <2>4. CASE desk[d].to = "pending"  BY <2>4, <1>2, Zenon DEF Write
  <2>5. CASE desk[d].to # "pending"
    <3>1. req.status \notin Fresh  BY <2>1, <2>3, <2>5, <1>2 DEF Edges, Fresh
    <3>2. asked  BY <3>1, <2>1, <1>2 DEF Asked
    <3> QED  BY <3>2, <1>2, Zenon DEF Write
  <2> QED  BY <2>4, <2>5
<1>3. ASSUME NEW c \in Chats, Save(c), Gated, ~strayed' PROVE asked'
  <2>1. ~strayed /\ <<req.status, chat[c].to>> \in Edges  BY <1>3 DEF Save
  <2>2. req.status \notin Fresh  BY <2>1, SaveTyped, <1>3 DEF Edges, Fresh, Answers
  <2> QED  BY <2>1, <2>2, <1>3 DEF Asked, Save
<1>4. ASSUME NEW c \in Chats, Settle(c), Gated PROVE UNCHANGED <<filed, req, asked>> /\ (strayed => strayed')
  BY <1>4 DEF Settle, Gated, history
<1>5. ASSUME NEW i \in Crons, CronStep(i) \/ Die(i)
      PROVE  Asked'
  <2>1. UNCHANGED <<filed, asked>> /\ (strayed => strayed')
    <3>1. CASE Expire(i)
      <4>1. UNCHANGED <<filed, asked>>  BY <3>1 DEF Expire, history
      <4>2. strayed => strayed'  BY <3>1, Zenon DEF Expire
      <4> QED  BY <4>1, <4>2
    <3>2. CASE ~Expire(i)
      BY <1>5, <3>2 DEF CronStep, Look, CheckWindow, CountReminders, SendReminder, AutoClose,
           AnnounceClosure, Die, history
    <3> QED  BY <3>1, <3>2
  <2>2. req' = req \/ req.status = "resolved"
    BY <1>5 DEF CronStep, Look, CheckWindow, CountReminders, SendReminder, AutoClose, Expire,
         AnnounceClosure, Die
  <2> QED  BY <2>1, <2>2 DEF Asked, Gated, Fresh
<1>6. ASSUME NEW f \in Filings, File(f), Gated' PROVE req'.status = "not_approved"
  BY <1>6, <1>0 DEF File, Gated, FirstStatus, RowTyped, Row
<1>7. ASSUME WeekResolved PROVE Asked'
  <2>1. req'.status = req.status  BY <1>7, <1>0 DEF WeekResolved, RowTyped, Row
  <2> QED  BY <2>1, <1>7 DEF WeekResolved, Asked, Gated, history
<1>8. ASSUME NEW d \in Desks, DeskStep(d) PROVE Asked'
  BY <1>1, <1>8, CallBegins DEF history
<1>9. ASSUME NEW c \in Chats, Load(c) \/ \E to \in Statuses : Answer(c, to) \/ Overrule(c, to)
      PROVE  Asked'
  BY <1>1, <1>9, ChatBegins DEF history, Load, Answer, Overrule
<1>10. CASE ReminderFails \/ WeekReminded \/ UNCHANGED vars
  BY <1>1, <1>10 DEF ReminderFails, WeekReminded, vars, history
<1>11. ASSUME NEW d \in Desks, Write(d) PROVE Asked'
  BY <1>2, <1>11 DEF Asked, Gated, Write
<1>12. ASSUME NEW c \in Chats, Save(c) PROVE Asked'
  BY <1>3, <1>12 DEF Asked, Gated, Save
<1>13. ASSUME NEW c \in Chats, Settle(c) PROVE Asked'
  BY <1>4, <1>13 DEF Asked, Gated, Settle
<1>14. ASSUME NEW f \in Filings, File(f) PROVE Asked'
  BY <1>6, <1>14 DEF Asked, Fresh
<1>15. ASSUME NEW d \in Desks, Repeat(d) PROVE Asked'
  BY <1>1, <1>15, RepeatTyped
<1>16. ASSUME NEW d \in Desks, Rewrite(d) PROVE Asked'
  <2>1. UNCHANGED <<filed, asked>> /\ req'.status = desk[d].to  BY <1>16, RewriteTyped
  <2>2. ASSUME ~strayed' PROVE ~strayed /\ req'.status = req.status
    BY <2>1, <2>2, <1>16 DEF Rewrite
  <2> QED  BY <2>1, <2>2 DEF Asked, Gated
<1> QED
  BY <1>5, <1>7, <1>8, <1>9, <1>10, <1>11, <1>12, <1>13, <1>14, <1>15, <1>16 DEF Next, ChatStep

-----------------------------------------------------------------------------
(* What is known of a request on which no write strayed.                   *)
Untried == {"none", "not_approved", "pending", "approved", "rejected", "denied"}
Answered == \A c \in Chats : chat[c].pc = "saved" /\ chat[c].to = "closed" =>
              req.status = "closed" /\ ~req.auto
Expiring == \A i \in Crons : cron[i] = "expiring" => req.status = "closed" /\ req.auto
RowSound ==
  /\ req.auto => req.status = "closed"
  /\ req.status \in Untried => outcome = "none"
  /\ req.status \in {"resolved", "reopened"} => outcome \in {"none", "pending", "reopened"}

Agrees ==
  /\ req.status = "reopened" => outcome = "reopened"
  /\ req.status = "closed" /\ req.auto => outcome = "expired"
  /\ req.status = "closed" /\ ~req.auto => outcome # "expired"
  /\ req.status \notin {"reopened", "closed"} => outcome \in {"pending", "reopened"}

(* The outcome is behind the status only while its second write is due.    *)
Behind == (\E c \in Chats : chat[c].pc = "saved") \/ (\E i \in Crons : cron[i] = "expiring")
Settled == ~crashed /\ outcome # "none" => Agrees \/ Behind

Outcomed == ~strayed => RowSound /\ Answered /\ Expiring /\ Settled

(* A step that touches neither the row nor a handler between two writes.   *)
LEMMA OutcomedStays ==
  ASSUME Outcomed, UNCHANGED <<req, outcome, strayed, crashed>>,
         \A c \in Chats : /\ chat'[c].pc = "saved" <=> chat[c].pc = "saved"
                          /\ chat[c].pc = "saved" => chat'[c].to = chat[c].to,
         \A i \in Crons : cron'[i] = "expiring" <=> cron[i] = "expiring"
  PROVE  Outcomed'
<1> SUFFICES ASSUME ~strayed' PROVE (RowSound /\ Answered /\ Expiring /\ Settled)'
  BY DEF Outcomed
<1>0. RowSound /\ Answered /\ Expiring /\ Settled  BY DEF Outcomed
<1>1. RowSound'  BY <1>0 DEF RowSound
<1>2. Answered'
  <2> SUFFICES ASSUME NEW c \in Chats, chat'[c].pc = "saved", chat'[c].to = "closed"
               PROVE  req'.status = "closed" /\ ~req'.auto
    BY DEF Answered
  <2>1. chat[c].pc = "saved" /\ chat[c].to = "closed"  OBVIOUS
  <2>2. req.status = "closed" /\ ~req.auto  BY <2>1, <1>0, Zenon DEF Answered
  <2> QED  BY <2>2
<1>3. Expiring'  BY <1>0 DEF Expiring
<1>4. Agrees' = Agrees  BY DEF Agrees
<1>5. Behind => Behind'
  <2>1. (\E c \in Chats : chat[c].pc = "saved") => \E c \in Chats : chat'[c].pc = "saved"
    OBVIOUS
  <2>2. (\E i \in Crons : cron[i] = "expiring") => \E i \in Crons : cron'[i] = "expiring"
    OBVIOUS
  <2> QED  BY <2>1, <2>2 DEF Behind
<1>6. Settled'  BY <1>0, <1>4, <1>5 DEF Settled
<1> QED  BY <1>1, <1>2, <1>3, <1>6

(* The dashboard writes status and outcome at once, along an edge.         *)
LEMMA WriteOutcomed == ASSUME Base, Outcomed, NEW d \in Desks, Write(d) PROVE Outcomed'
<1> SUFFICES ASSUME ~strayed' PROVE (RowSound /\ Answered /\ Expiring /\ Settled)'
  BY DEF Outcomed
<1> DEFINE to == desk[d].to
<1>1. ~strayed /\ <<req.status, to>> \in Edges  BY DEF Write
<1>2. RowSound /\ Answered /\ Expiring /\ Settled  BY <1>1 DEF Outcomed
<1>3. req.status # "closed" /\ to \notin {"none", "not_approved"}  BY <1>1 DEF Edges
<1>4. /\ req'.status = IF to = "resolved" /\ filed.scope = "common" THEN "closed" ELSE to
      /\ ~req'.auto
  BY <1>2, <1>3 DEF Write, Base, RowTyped, Row, RowSound
<1>5. RowSound' /\ (outcome' # "none" => Agrees')
  <2>1. CASE to = "resolved"
    <3>1. outcome' = IF filed.scope = "common" THEN "confirmed" ELSE "pending"
      BY <2>1 DEF Write
    <3> QED  BY <3>1, <2>1, <1>4 DEF RowSound, Agrees, Untried
  <2>2. CASE to \in {"reopened", "closed"}
    <3>1. req.status = "resolved"  BY <2>2, <1>1 DEF Edges
    <3>2. outcome \in {"none", "pending", "reopened"}  BY <3>1, <1>2 DEF RowSound
    <3>3. desk[d].pc = "update"
      <4>1. desk[d].pc # "decide"  BY <2>2 DEF Base, Asks, Decisions
      <4> QED  BY <4>1 DEF Write
    <3>4. outcome' = IF to = "reopened" THEN Outcome("reopened") ELSE outcome
      BY <2>2, <3>3 DEF Write
    <3> QED  BY <3>2, <3>4, <2>2, <1>4 DEF RowSound, Agrees, Untried, Outcome
  <2>3. CASE to \notin {"resolved", "reopened", "closed"}
    <3>1. req.status \in Untried  BY <2>3, <1>1 DEF Edges, Untried
    <3>2. outcome' = "none"  BY <3>1, <2>3, <1>2 DEF Write, RowSound
    <3> QED  BY <3>2, <1>4, <2>3 DEF RowSound
  <2> QED  BY <2>1, <2>2, <2>3
<1>6. Answered' /\ Expiring'
  BY <1>2, <1>3 DEF Write, Answered, Expiring
<1> QED  BY <1>5, <1>6 DEF Settled

(* A status written over itself changes nothing that is said here.         *)
LEMMA RewriteOutcomed == ASSUME Base, Outcomed, NEW d \in Desks, Rewrite(d) PROVE Outcomed'
<1> SUFFICES ASSUME ~strayed' PROVE (RowSound /\ Answered /\ Expiring /\ Settled)'
  BY DEF Outcomed
<1>1. /\ UNCHANGED <<outcome, chat, cron, crashed>> /\ req'.status = desk[d].to
      /\ req'.auto = req.auto
  BY RewriteTyped
<1>2. ~strayed /\ req.status = desk[d].to  BY DEF Rewrite
<1>3. RowSound /\ Answered /\ Expiring /\ Settled  BY <1>2 DEF Outcomed
<1>4. RowSound' /\ Answered' /\ Expiring'  BY <1>1, <1>2, <1>3 DEF RowSound, Answered, Expiring
<1>5. (Agrees' <=> Agrees) /\ (Behind' <=> Behind)  BY <1>1, <1>2 DEF Agrees, Behind
<1>6. Settled'  BY <1>1, <1>3, <1>5 DEF Settled
<1> QED  BY <1>4, <1>6

(* WhatsApp writes the status along an edge; the outcome is then due.      *)
LEMMA SaveOutcomed == ASSUME Base, Outcomed, NEW c \in Chats, Save(c) PROVE Outcomed'
<1> SUFFICES ASSUME ~strayed' PROVE (RowSound /\ Answered /\ Expiring /\ Settled)'
  BY DEF Outcomed
<1> DEFINE to == chat[c].to
<1>1. ~strayed /\ <<req.status, to>> \in Edges /\ chat[c].copy = req  BY DEF Save
<1>2. RowSound /\ Answered /\ Expiring /\ Settled  BY <1>1 DEF Outcomed
<1>3. req.status # "closed" /\ to \in Answers  BY <1>1, SaveTyped DEF Edges
<1>4. req'.status = to /\ ~req'.auto /\ UNCHANGED <<outcome, cron>>
  BY <1>1, <1>2, <1>3 DEF Save, Base, RowTyped, Row, RowSound
<1>5. RowSound'
  <2>1. CASE to = "resolved"
    <3>1. req.status \in {"approved", "reopened"}  BY <2>1, <1>1 DEF Edges
    <3> QED  BY <3>1, <2>1, <1>2, <1>4 DEF RowSound, Untried
  <2>2. CASE to \in {"reopened", "closed"}
    <3>1. req.status = "resolved"  BY <2>2, <1>1 DEF Edges
    <3> QED  BY <3>1, <2>2, <1>2, <1>4 DEF RowSound, Untried
  <2>3. CASE to = "approved"
    <3>1. req.status \in Untried  BY <2>3, <1>1 DEF Edges, Untried
    <3> QED  BY <3>1, <2>3, <1>2, <1>4 DEF RowSound
  <2> QED  BY <2>1, <2>2, <2>3, <1>3 DEF Answers
<1>6. /\ chat'[c].pc = "saved" /\ chat'[c].to = to
      /\ \A e \in Chats \ {c} : chat'[e] = chat[e]
  BY SaveTyped
<1>7. Answered'  BY <1>2, <1>3, <1>4, <1>6 DEF Answered
<1>8. Expiring'  BY <1>2, <1>3, <1>4 DEF Expiring
<1>9. Behind'  BY <1>6 DEF Behind
<1> QED  BY <1>5, <1>7, <1>8, <1>9 DEF Settled

(* The second write of WhatsApp finds the status it wrote.                 *)
LEMMA SettleOutcomed == ASSUME Base, Outcomed, NEW c \in Chats, Settle(c) PROVE Outcomed'
<1> SUFFICES ASSUME ~strayed' PROVE (RowSound /\ Answered /\ Expiring /\ Settled)'
  BY DEF Outcomed
<1> DEFINE to == chat[c].to
<1>1. ~strayed /\ req.status = to /\ chat[c].pc = "saved"  BY DEF Settle
<1>2. RowSound /\ Answered /\ Expiring /\ Settled  BY <1>1 DEF Outcomed
<1>3. /\ to \in Answers /\ chat'[c].pc = "idle"
      /\ \A e \in Chats \ {c} : chat'[e] = chat[e]
  BY SettleTyped
<1>4. RowSound' /\ (outcome' # "none" => Agrees')
  <2>1. CASE to = "resolved" /\ filed.scope = "common"
    <3>1. req'.status = "closed" /\ ~req'.auto
      BY <2>1, <1>1, <1>2 DEF Settle, Base, RowTyped, Row, RowSound
    <3>2. outcome' \in {"none", "confirmed"}
      BY <2>1 DEF Settle, Outcome
    <3> QED  BY <3>1, <3>2 DEF RowSound, Agrees, Untried
  <2>2. CASE to = "resolved" /\ filed.scope # "common"
    <3>1. UNCHANGED <<req, outcome>>  BY <2>2 DEF Settle
    <3> QED  BY <3>1, <2>2, <1>1, <1>2 DEF RowSound, Agrees, Untried
  <2>3. CASE to = "reopened"
    <3>1. req' = req /\ outcome' = Outcome("reopened")  BY <2>3 DEF Settle
    <3> QED  BY <3>1, <2>3, <1>1, <1>2 DEF RowSound, Agrees, Untried, Outcome
  <2>4. CASE to = "closed"
    <3>1. req' = req /\ outcome' = Outcome("confirmed")  BY <2>4 DEF Settle
    <3>2. ~req.auto  BY <2>4, <1>1, <1>2 DEF Answered
    <3> QED  BY <3>1, <3>2, <2>4, <1>1, <1>2 DEF RowSound, Agrees, Untried, Outcome
  <2>5. CASE to = "approved"
    <3>1. UNCHANGED <<req, outcome>>  BY <2>5 DEF Settle
    <3> QED  BY <3>1, <2>5, <1>1, <1>2 DEF RowSound, Untried
  <2> QED  BY <2>1, <2>2, <2>3, <2>4, <2>5, <1>3 DEF Answers
<1>5. (req'.status = "closed" /\ ~req'.auto) \/ req' = req
  BY <1>1, <1>2 DEF Settle, Base, RowTyped, Row, RowSound
<1>6. Answered'  BY <1>2, <1>3, <1>5 DEF Answered
<1>7. Expiring'
  BY <1>1, <1>2 DEF Settle, Expiring
<1> QED  BY <1>4, <1>6, <1>7 DEF Settled

(* The cron closes what is still resolved, and owes the outcome.           *)
LEMMA CronOutcomed ==
  ASSUME Base, Outcomed, NEW i \in Crons, CronStep(i) \/ Die(i) PROVE Outcomed'
<1>0. CronTyped /\ chat' = chat  BY CronTypes DEF Base
<1>1. CASE Look(i) \/ CheckWindow(i) \/ CountReminders(i) \/ SendReminder(i) \/ AnnounceClosure(i)
  <2>1. PICK from, to \in CronPcs \ {"expiring"} : Step(i, from, to)
    BY <1>1 DEF Look, CheckWindow, CountReminders, SendReminder, AnnounceClosure, CronPcs
  <2>2. UNCHANGED <<req, outcome, strayed, crashed>>
    BY <1>1 DEF Look, CheckWindow, CountReminders, SendReminder, AnnounceClosure, history
  <2>3. \A k \in Crons : cron'[k] = "expiring" <=> cron[k] = "expiring"
    BY <2>1, <1>0, CronMoves
  <2> QED  BY <1>0, <2>2, <2>3, OutcomedStays
<1>2. CASE AutoClose(i) /\ req.status # "resolved"
  <2>1. Step(i, "closing", "idle") /\ UNCHANGED <<req, outcome, strayed, crashed>>
    BY <1>2 DEF AutoClose, history
  <2>2. \A k \in Crons : cron'[k] = "expiring" <=> cron[k] = "expiring"
    BY <2>1, <1>0, CronMoves DEF CronPcs
  <2> QED  BY <1>0, <2>1, <2>2, OutcomedStays
<1>3. CASE AutoClose(i) /\ req.status = "resolved"
  <2> SUFFICES ASSUME ~strayed' PROVE (RowSound /\ Answered /\ Expiring /\ Settled)'
    BY DEF Outcomed
  <2>1. /\ Step(i, "closing", "expiring") /\ UNCHANGED <<outcome, strayed, crashed>>
        /\ req' = [req EXCEPT !.status = "closed", !.auto = TRUE]
    BY <1>3 DEF AutoClose, history
  <2>2. RowSound /\ Answered /\ Expiring  BY <2>1 DEF Outcomed
  <2>3. req'.status = "closed" /\ req'.auto  BY <2>1 DEF Base, RowTyped, Row
  <2>4. cron'[i] = "expiring"  BY <2>1, <1>0, CronMoves DEF CronPcs
  <2>5. Behind'  BY <2>4 DEF Behind
  <2>6. RowSound' /\ Expiring'  BY <2>3 DEF RowSound, Expiring, Untried
  <2>7. Answered'  BY <2>2, <1>0, <1>3 DEF Answered
  <2> QED  BY <2>5, <2>6, <2>7 DEF Settled
<1>4. CASE Expire(i)
  <2> SUFFICES ASSUME ~strayed' PROVE (RowSound /\ Answered /\ Expiring /\ Settled)'
    BY DEF Outcomed
  <2>1. /\ ~strayed /\ req.status = "closed" /\ req' = req
        /\ Step(i, "expiring", "announcing") /\ outcome' = Outcome("expired")
    BY <1>4 DEF Expire
  <2>2. RowSound /\ Answered /\ Expiring  BY <2>1 DEF Outcomed
  <2>3. /\ cron[i] = "expiring" /\ cron'[i] = "announcing"
        /\ \A k \in Crons \ {i} : cron'[k] = cron[k]
    BY <2>1, <1>0, CronMoves DEF CronPcs
  <2>4. req.auto  BY <2>2, <2>3 DEF Expiring
  <2>5. RowSound' /\ (outcome' # "none" => Agrees')
    BY <2>1, <2>2, <2>4 DEF RowSound, Agrees, Untried, Outcome
  <2>6. Answered'  BY <2>1, <2>2, <1>0 DEF Answered
  <2>7. Expiring'  BY <2>1, <2>4 DEF Expiring
  <2> QED  BY <2>5, <2>6, <2>7 DEF Settled
<1>5. CASE Die(i)
  <2> SUFFICES ASSUME ~strayed' PROVE (RowSound /\ Answered /\ Expiring /\ Settled)'
    BY DEF Outcomed
  <2>1. Step(i, cron[i], "idle") /\ UNCHANGED <<req, outcome, strayed>> /\ crashed'
    BY <1>5 DEF Die, Step
  <2>2. RowSound /\ Answered /\ Expiring  BY <2>1 DEF Outcomed
  <2>3. cron'[i] = "idle" /\ \A k \in Crons \ {i} : cron'[k] = cron[k]
    BY <2>1, <1>0, CronMoves DEF CronPcs
  <2>4. RowSound' /\ Answered'  BY <2>1, <2>2, <1>0 DEF RowSound, Answered
  <2>5. Expiring'  BY <2>1, <2>2, <2>3 DEF Expiring
  <2> QED  BY <2>1, <2>4, <2>5 DEF Settled
<1> QED  BY <1>1, <1>2, <1>3, <1>4, <1>5 DEF CronStep

LEMMA OutcomedHolds == ASSUME Base, Outcomed, [Next]_vars PROVE Outcomed'
<1>1. ASSUME NEW d \in Desks, DeskStep(d) PROVE Outcomed'
  <2>1. UNCHANGED <<req, outcome, strayed, crashed, chat, cron>>
    BY <1>1, CallBegins DEF history
  <2> QED  BY <2>1, OutcomedStays
<1>2. ASSUME NEW c \in Chats, Load(c) \/ \E to \in Statuses : Answer(c, to) \/ Overrule(c, to)
      PROVE  Outcomed'
  <2>1. /\ UNCHANGED <<req, outcome, crashed, cron>>
        /\ chat'[c].pc # "saved" /\ chat[c].pc # "saved"
        /\ \A e \in Chats \ {c} : chat'[e] = chat[e]
    BY <1>2, ChatBegins
  <2>2. strayed' = strayed  BY <1>2 DEF Load, Answer, Overrule
  <2> QED  BY <2>1, <2>2, OutcomedStays
<1>3. CASE ReminderFails \/ WeekReminded \/ UNCHANGED vars
  <2>1. UNCHANGED <<req, outcome, strayed, crashed, chat, cron>>
    BY <1>3 DEF ReminderFails, WeekReminded, vars, history
  <2> QED  BY <2>1, OutcomedStays
<1>4. CASE (\E f \in Filings : File(f)) \/ WeekResolved
  <2> SUFFICES ASSUME ~strayed' PROVE (RowSound /\ Answered /\ Expiring /\ Settled)'
    BY DEF Outcomed
  <2>1. /\ UNCHANGED <<outcome, strayed, crashed, chat, cron>>
        /\ req.status \in {"none", "resolved"} /\ req'.auto = req.auto
        /\ (req'.status \in Untried /\ req.status = "none") \/ req'.status = req.status
    BY <1>4 DEF File, FirstStatus, WeekResolved, history, Base, RowTyped, Row, Untried
  <2>2. RowSound /\ Answered /\ Expiring /\ Settled  BY <2>1 DEF Outcomed
  <2>3. RowSound'  BY <2>1, <2>2 DEF RowSound, Untried
  <2>4. Answered' /\ Expiring'  BY <2>1, <2>2 DEF Answered, Expiring
  <2>5. Behind <=> Behind'  BY <2>1 DEF Behind
  <2>6. outcome # "none" => Agrees = Agrees'
    BY <2>1, <2>2 DEF Agrees, RowSound, Untried
  <2> QED  BY <2>1, <2>2, <2>3, <2>4, <2>5, <2>6 DEF Settled
<1>5. ASSUME NEW d \in Desks, Repeat(d) PROVE Outcomed'
  BY <1>5, RepeatTyped, OutcomedStays
<1> QED
  BY <1>1, <1>2, <1>3, <1>4, <1>5, WriteOutcomed, RewriteOutcomed, SaveOutcomed,
     SettleOutcomed, CronOutcomed
  DEF Next, ChatStep

-----------------------------------------------------------------------------
(* The inductive invariant, and what it gives.                             *)
IInv == Base /\ Closings /\ Remindings /\ Asked /\ Outcomed

LEMMA Initially == Init => IInv
<1> SUFFICES ASSUME Init PROVE IInv  OBVIOUS
<1>1. NoCall \in DashboardCall /\ NoCall.pc = "idle" /\ NoChat.pc = "idle"
  BY DEF NoCall, DashboardCall, NoChat
<1>2. Base
  <2>1. RowTyped
    BY NoChatTyped DEF Init, RowTyped, Unfiled, Filing, Roles, Outcomes
  <2>2. CountsTyped /\ recent <= reminders
    <3>1. asked \in BOOLEAN /\ crashed \in BOOLEAN /\ strayed \in BOOLEAN
      BY Zenon DEF Init
    <3> QED  BY <3>1 DEF Init, CountsTyped
  <2>3. DeskTyped /\ ChatTyped /\ CronTyped
    BY <1>1, NoChatTyped DEF Init, DeskTyped, ChatTyped, CronTyped, CronPcs
  <2>4. Asks  BY <1>1, <2>2 DEF Init, Asks
  <2> QED  BY <2>1, <2>2, <2>3, <2>4 DEF Base
<1>3. \A S : "idle" \notin S => At(S) = {}  BY DEF Init, At
<1>4. Cardinality(At(Closers)) = 0 /\ Cardinality(At(Sending)) = 0
  BY <1>3, FS_EmptySet DEF Closers, Sending
<1>5. Closings  BY <1>4 DEF Init, Closings, Due, NoRequest
<1>6. Remindings  BY <1>4, SomeCron DEF Init, Remindings
<1>7. Asked  BY DEF Init, Asked, Fresh, NoRequest
<1>8. Outcomed
  BY <1>1 DEF Init, Outcomed, RowSound, Answered, Expiring, Settled, NoRequest, Untried
<1> QED  BY <1>2, <1>5, <1>6, <1>7, <1>8 DEF IInv

LEMMA Inductive == IInv /\ [Next]_vars => IInv'
BY BaseHolds, ClosingsHold, RemindingsHold, AskedHolds, OutcomedHolds DEF IInv

LEMMA Invariance == Spec => []IInv
BY Initially, Inductive, PTL DEF Spec

(* The request, its queue and its handlers keep their types.               *)
THEOREM RequestTyped == Spec => []TypeOK
<1>1. IInv => TypeOK  BY TypeSplit DEF IInv, Base
<1> QED  BY <1>1, Invariance, PTL

(* The conditional UPDATE of autoCloseUnitForNoResponse lets one instance  *)
(* of the cron close a resolution: the tenant is told of it once.          *)
THEOREM ClosedOnce == Spec => []ClosedOncePerResolution
<1>1. IInv => ClosedOncePerResolution
  <2> SUFFICES ASSUME IInv PROVE ClosedOncePerResolution  OBVIOUS
  <2>1. /\ closures \in Nat /\ resolves \in Nat /\ Due \in 0..1
        /\ Cardinality(At(Closers)) \in Nat
    BY AtFinite DEF IInv, Base, CountsTyped, Due
  <2> QED  BY <2>1 DEF IInv, Closings, ClosedOncePerResolution, At, Closers
<1> QED  BY <1>1, Invariance, PTL

(* However many instances pass the window check together, each of them may *)
(* exceed the cap on reminders by its own one, and no more.                *)
THEOREM RemindersAreCapped == Spec => []RemindersCapped
<1>1. IInv => RemindersCapped
  <2> SUFFICES ASSUME IInv PROVE RemindersCapped  OBVIOUS
  <2>1. /\ reminders \in Nat /\ Cardinality(At(Sending)) \in Nat /\ Cardinality(Crons) \in Nat
        /\ MaxReminders \in Nat
    BY AtFinite, SomeCron DEF IInv, Base, CountsTyped
  <2> QED  BY <2>1 DEF IInv, Remindings, RemindersCapped
<1> QED  BY <1>1, Invariance, PTL

(* A manager's request on a tenant's unit is not worked on before it has   *)
(* waited for the tenant, unless a write left the transition table.        *)
THEOREM TenantIsAskedFirst == Spec => []TenantIsAsked
<1>1. IInv => TenantIsAsked  BY DEF IInv, Asked, Gated, Fresh, TenantIsAsked
<1> QED  BY <1>1, Invariance, PTL

(* At rest the latest attempt's outcome is what became of it, unless a     *)
(* write strayed or a process died.                                        *)
THEOREM OutcomeIsTrue == Spec => []OutcomeAgrees
<1>1. IInv => OutcomeAgrees
  <2> SUFFICES ASSUME IInv, AllIdle, ~strayed, ~crashed, outcome # "none"
               PROVE  CASE req.status = "reopened" -> outcome = "reopened"
                        [] req.status = "closed" ->
                             IF req.auto THEN outcome = "expired" ELSE outcome # "expired"
                        [] OTHER -> outcome \in {"pending", "reopened"}
    BY DEF OutcomeAgrees
  <2>1. ~Behind  BY DEF AllIdle, Behind
  <2>2. Agrees  BY <2>1 DEF IInv, Outcomed, Settled
  <2> QED  BY <2>2 DEF Agrees
<1> QED  BY <1>1, Invariance, PTL
=============================================================================
