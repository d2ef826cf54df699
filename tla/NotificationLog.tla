--------------------------- MODULE NotificationLog ---------------------------
(***************************************************************************)
(* The WhatsApp notification queue of                                      *)
(* src/src/whatsapp-bot/whatsapp-notification-log.service.ts: a row is     *)
(* saved PENDING and an event sends it at once; a five-minute cron picks   *)
(* up whatever is still PENDING.  Listener and cron both end in            *)
(* processNotification, which claims the row with one conditional UPDATE,  *)
(* calls Meta, and writes the result with a second, unconditional UPDATE.  *)
(***************************************************************************)
EXTENDS Integers

CONSTANTS
  Logs,         \* rows of whatsapp_notification_log
  Workers,      \* invocations of processNotification in flight
  MaxAttempts,  \* MAX_ATTEMPTS
  MaxCrashes,   \* bound on process restarts
  SlowSends,    \* may an invocation outlive the five-minute retry window?
  LostOutcomes, \* may a send time out after it reached Meta, or the SENT
                \* write or the emit behind it throw?
  None

ASSUME LogAssumption == None \notin Logs
ASSUME BoundAssumption == MaxAttempts \in Nat \ {0} /\ MaxCrashes \in Nat
ASSUME SpeedAssumption == SlowSends \in BOOLEAN /\ LostOutcomes \in BOOLEAN

VARIABLES
  status,     \* row status; "none": not queued
  attempts,   \* the row's attempts column
  stamp,      \* last_attempted_at: "never", "recent" or "stale" (window over)
  old,        \* created_at is older than the window
  event,      \* logs whose queued event has not reached the listener yet
  job,        \* what each worker is doing
  delivered,  \* history: messages the recipient got
  unacked,    \* history: deliveries whose SENT write was never reached, or
              \* was taken back
  crashes     \* restarts so far

vars == <<status, attempts, stamp, old, event, job, delivered, unacked, crashes>>
clock == <<old, crashes>>

Status == {"none", "PENDING", "SENT", "FAILED", "CANCELLED"}
Idle == [pc |-> "idle", log |-> None, attempts |-> 0]

(* pc: picked, before the claim; sending, the call to Meta is under way;   *)
(* sent and failed, its outcome is known and not yet written.              *)
Busy == {"sending", "sent", "failed"}
Claimed(l) == \E w \in Workers : job[w].log = l /\ job[w].pc \in Busy

Finish(w) == job' = [job EXCEPT ![w] = Idle]

Pick(w, l) ==
  job[w].pc = "idle" /\ job' = [job EXCEPT ![w] = [Idle EXCEPT !.pc = "picked", !.log = l]]

Init ==
  /\ status = [l \in Logs |-> "none"]
  /\ attempts = [l \in Logs |-> 0]
  /\ stamp = [l \in Logs |-> "never"]
  /\ old = [l \in Logs |-> FALSE]
  /\ event = {}
  /\ job = [w \in Workers |-> Idle]
  /\ delivered = [l \in Logs |-> 0]
  /\ unacked = [l \in Logs |-> 0]
  /\ crashes = 0

(* queue(): insert the row, then emit; a restart in between drops the      *)
(* event (see Crash), a failed insert queues nothing.                      *)
Queue(l) ==
  /\ status[l] = "none"
  /\ status' = [status EXCEPT ![l] = "PENDING"]
  /\ event' = event \cup {l}
  /\ UNCHANGED <<attempts, stamp, clock, job, delivered, unacked>>

(* The listener's handleQueued. *)
Listen(w, l) ==
  /\ l \in event
  /\ Pick(w, l)
  /\ event' = event \ {l}
  /\ UNCHANGED <<status, attempts, stamp, clock, delivered, unacked>>

(* Variant with a bug: the never-attempted rows left out. *)
DueOnlyAttempted(l) == status[l] = "PENDING" /\ stamp[l] = "stale"

(* The rows retryFailedNotifications selects: attempted and left PENDING,  *)
(* or never attempted and older than the window.                           *)
Due(l) ==
  /\ status[l] = "PENDING"
  /\ \/ stamp[l] = "stale"
     \/ stamp[l] = "never" /\ old[l]

(* One row of one pass of the cron; the claim decides later. *)
Retry(w, l) ==
  /\ Due(l)
  /\ Pick(w, l)
  /\ UNCHANGED <<status, attempts, stamp, clock, event, delivered, unacked>>

(* Variant with a bug: the claim does not look at the window. *)
ClaimableAtOnce(l) == status[l] = "PENDING"

Claimable(l) == status[l] = "PENDING" /\ stamp[l] \in {"never", "stale"}

(* processNotification's conditional UPDATE, which bumps attempts and      *)
(* returns the row.                                                        *)
Claim(w) ==
  LET l == job[w].log IN
  /\ job[w].pc = "picked"
  /\ Claimable(l)
  /\ attempts' = [attempts EXCEPT ![l] = @ + 1]
  /\ stamp' = [stamp EXCEPT ![l] = "recent"]
  /\ job' = [job EXCEPT ![w].pc = "sending", ![w].attempts = attempts[l] + 1]
  /\ UNCHANGED <<status, clock, event, delivered, unacked>>

ClaimLost(w) ==
  /\ job[w].pc = "picked"
  /\ ~Claimable(job[w].log)
  /\ Finish(w)
  /\ UNCHANGED <<status, attempts, stamp, clock, event, delivered, unacked>>

(* dispatch(): Meta takes the message, refuses it, or takes it and the     *)
(* ten-second abort fires before the answer.                               *)
Deliver(w) ==
  LET l == job[w].log IN
  /\ job[w].pc = "sending"
  /\ delivered' = [delivered EXCEPT ![l] = @ + 1]
  /\ job' = [job EXCEPT ![w].pc = "sent"]
  /\ UNCHANGED <<status, attempts, stamp, clock, event, unacked>>

Refuse(w) ==
  /\ job[w].pc = "sending"
  /\ job' = [job EXCEPT ![w].pc = "failed"]
  /\ UNCHANGED <<status, attempts, stamp, clock, event, delivered, unacked>>

DeliverAndTimeOut(w) ==
  LET l == job[w].log IN
  /\ LostOutcomes
  /\ job[w].pc = "sending"
  /\ delivered' = [delivered EXCEPT ![l] = @ + 1]
  /\ unacked' = [unacked EXCEPT ![l] = @ + 1]
  /\ job' = [job EXCEPT ![w].pc = "failed"]
  /\ UNCHANGED <<status, attempts, stamp, clock, event>>

RecordSent(w) ==
  /\ job[w].pc = "sent"
  /\ status' = [status EXCEPT ![job[w].log] = "SENT"]
  /\ Finish(w)
  /\ UNCHANGED <<attempts, stamp, clock, event, delivered, unacked>>

(* The SENT write throws inside the try: the catch records a failure. *)
SentWriteFails(w) ==
  LET l == job[w].log IN
  /\ LostOutcomes
  /\ job[w].pc = "sent"
  /\ unacked' = [unacked EXCEPT ![l] = @ + 1]
  /\ job' = [job EXCEPT ![w].pc = "failed"]
  /\ UNCHANGED <<status, attempts, stamp, clock, event, delivered>>

(* The emit to the landlord's dashboard is in the same try, after the SENT *)
(* write: when it throws, the catch runs against a row that is SENT.       *)
EmitFails(w) ==
  /\ LostOutcomes
  /\ job[w].pc = "sent"
  /\ status' = [status EXCEPT ![job[w].log] = "SENT"]
  /\ job' = [job EXCEPT ![w].pc = "failed"]
  /\ UNCHANGED <<attempts, stamp, clock, event, delivered, unacked>>

(* The catch writes by id, whatever the row has become.                    *)
RecordFailure(w) ==
  LET l == job[w].log IN
  /\ job[w].pc = "failed"
  /\ status' = [status EXCEPT ![l] =
                  IF job[w].attempts >= MaxAttempts THEN "FAILED" ELSE "PENDING"]
  /\ unacked' = IF status[l] = "SENT" THEN [unacked EXCEPT ![l] = @ + 1] ELSE unacked
  /\ Finish(w)
  /\ UNCHANGED <<attempts, stamp, clock, event, delivered>>

(* cancelPendingByReferenceIds. *)
Cancel(l) ==
  /\ status[l] = "PENDING"
  /\ status' = [status EXCEPT ![l] = "CANCELLED"]
  /\ UNCHANGED <<attempts, stamp, clock, event, job, delivered, unacked>>

(* Five minutes pass.  A send is aborted after ten seconds, so unless      *)
(* SlowSends the invocation that stamped the row has ended by then.        *)
WindowEnds(l) ==
  /\ stamp[l] = "recent"
  /\ SlowSends \/ ~Claimed(l)
  /\ stamp' = [stamp EXCEPT ![l] = "stale"]
  /\ UNCHANGED <<status, attempts, clock, event, job, delivered, unacked>>

GrowOld(l) ==
  /\ status[l] = "PENDING"
  /\ ~old[l]
  /\ old' = [old EXCEPT ![l] = TRUE]
  /\ UNCHANGED <<status, attempts, stamp, event, job, delivered, unacked, crashes>>

(* The process restarts: events and invocations are gone, rows stay. *)
Crash ==
  /\ crashes < MaxCrashes
  /\ crashes' = crashes + 1
  /\ event' = {}
  /\ unacked' = [l \in Logs |->
       IF \E w \in Workers : job[w].log = l /\ job[w].pc = "sent"
       THEN unacked[l] + 1 ELSE unacked[l]]
  /\ job' = [w \in Workers |-> Idle]
  /\ UNCHANGED <<status, attempts, stamp, old, delivered>>

Process(w) ==
  \/ Claim(w) \/ ClaimLost(w)
  \/ Deliver(w) \/ Refuse(w) \/ DeliverAndTimeOut(w)
  \/ RecordSent(w) \/ SentWriteFails(w) \/ EmitFails(w) \/ RecordFailure(w)

Next ==
  \/ \E l \in Logs : \/ Queue(l) \/ Cancel(l) \/ WindowEnds(l) \/ GrowOld(l)
                     \/ \E w \in Workers : Listen(w, l) \/ Retry(w, l)
  \/ \E w \in Workers : Process(w)
  \/ Crash

Spec == Init /\ [][Next]_vars

(* The cron fires for ever and its passes end; invocations run to their    *)
(* end unless the process restarts; time passes.  The listener, which may  *)
(* never hear of a row, gets no fairness.                                  *)
LiveSpec ==
  /\ Spec
  /\ \A l \in Logs : /\ WF_vars(WindowEnds(l))
                     /\ WF_vars(GrowOld(l))
                     /\ SF_vars(\E w \in Workers : Retry(w, l))
  /\ \A w \in Workers : WF_vars(Process(w))

-----------------------------------------------------------------------------
(* The type invariant. *)
TypeOK ==
  /\ status \in [Logs -> Status]
  /\ attempts \in [Logs -> Nat]
  /\ stamp \in [Logs -> {"never", "recent", "stale"}]
  /\ old \in [Logs -> BOOLEAN]
  /\ event \subseteq Logs
  /\ job \in [Workers -> [pc : {"idle", "picked"} \cup Busy,
                          log : Logs \cup {None}, attempts : Nat]]
  /\ \A w \in Workers : job[w].pc # "idle" => job[w].log \in Logs
  /\ delivered \in [Logs -> Nat]
  /\ unacked \in [Logs -> Nat]
  /\ crashes \in 0..MaxCrashes

(* The claim gives a row to one invocation at a time, however listener and *)
(* cron meet, as long as invocations end within the window.                *)
OneClaimant ==
  ~SlowSends => \A v, w \in Workers :
    /\ v # w /\ job[v].pc \in Busy /\ job[w].pc \in Busy => job[v].log # job[w].log
    /\ job[v].pc \in Busy => stamp[job[v].log] = "recent"

(* A recipient gets one message, plus one for every delivery whose SENT    *)
(* write was lost: to a restart, to a timeout that hid the delivery, to a  *)
(* failed write, or to the catch that takes SENT back when the emit behind *)
(* it throws.                                                              *)
DuplicatesExplained ==
  ~SlowSends => \A l \in Logs : delivered[l] <= 1 + unacked[l]

(* The claim does not look at the attempts it counts, the cap is applied   *)
(* when a failure is recorded; a row is still tried no more often than     *)
(* MaxAttempts, and once more for every restart.                           *)
AttemptsBounded == ~SlowSends => \A l \in Logs : attempts[l] <= MaxAttempts + crashes

(* The catch of the invocation that sent the row writes over its SENT.     *)
TakenBack(l) ==
  /\ \E w \in Workers : /\ job[w].log = l /\ job[w].pc = "failed"
                        /\ job[w].attempts = attempts[l]
  /\ unacked'[l] = unacked[l] + 1

(* A row leaves SENT only by the catch of the invocation that sent it: no  *)
(* other invocation, however late, takes the SENT row of another back into *)
(* the queue.                                                              *)
SentIsFinal ==
  [][~SlowSends => \A l \in Logs : status[l] = "SENT" =>
       status'[l] = "SENT" \/ TakenBack(l)]_vars

(* A row whose event was lost, or whose process died at any point, leaves  *)
(* PENDING in the end.                                                     *)
QueuedIsResolved == \A l \in Logs : (status[l] = "PENDING") ~> (status[l] # "PENDING")

(* The send happens at most once. *)
SentAtMostOnce == \A l \in Logs : delivered[l] <= 1

(* A cancelled reminder does not come back into the queue. *)
CancelledNotRequeued ==
  [][\A l \in Logs : status[l] = "CANCELLED" => status'[l] # "PENDING"]_vars
=============================================================================
