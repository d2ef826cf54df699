------------------------- MODULE NotificationLogProofs -------------------------
(***************************************************************************)
(* The notification queue for any number of rows and of invocations of     *)
(* processNotification, and any number of restarts.  The claim is the only *)
(* exclusion there is, and the outcome is written by id; what makes that   *)
(* safe is that nobody can claim a row again before the window has ended,  *)
(* and that by then the send it was claimed for is over (~SlowSends).      *)
(***************************************************************************)
EXTENDS NotificationLog, TLAPS

JobRecord == [pc : {"idle", "picked"} \cup Busy, log : Logs \cup {None}, attempts : Nat]
JobTyped ==
  /\ job \in [Workers -> JobRecord]
  /\ \A w \in Workers : job[w].pc # "idle" => job[w].log \in Logs
RowTyped ==
  /\ status \in [Logs -> Status]
  /\ attempts \in [Logs -> Nat]
  /\ stamp \in [Logs -> {"never", "recent", "stale"}]
  /\ old \in [Logs -> BOOLEAN]
RestTyped ==
  /\ event \subseteq Logs
  /\ delivered \in [Logs -> Nat] /\ unacked \in [Logs -> Nat]
  /\ crashes \in 0..MaxCrashes

(* A claimed row is held by one invocation, within its window.             *)
Holds(w, l) == job[w].log = l /\ job[w].pc \in Busy
Exclusive ==
  \A l \in Logs, w \in Workers : Holds(w, l) =>
    /\ stamp[l] = "recent"
    /\ status[l] # "none"
    /\ job[w].attempts = attempts[l]
    /\ \A v \in Workers : Holds(v, l) => v = w

(* A held row is SENT only between a throwing emit and its catch.          *)
Unsent ==
  \A l \in Logs, w \in Workers : Holds(w, l) /\ status[l] = "SENT" => job[w].pc = "failed"

(* A message has arrived that is recorded, or about to be.                 *)
Landed(l) == status[l] = "SENT" \/ \E w \in Workers : job[w].log = l /\ job[w].pc = "sent"
Delivered == \A l \in Logs : delivered[l] <= unacked[l] + (IF Landed(l) THEN 1 ELSE 0)

(* A row that may be claimed has an attempt left, one more per restart.    *)
Tried ==
  \A l \in Logs :
    /\ attempts[l] <= MaxAttempts + crashes
    /\ status[l] = "PENDING" /\ ~Claimed(l) => attempts[l] < MaxAttempts + crashes
    /\ status[l] = "none" => attempts[l] = 0

Safe == Exclusive /\ Unsent /\ Delivered /\ Tried
IInv == TypeOK /\ (~SlowSends => Safe)

LEMMA TypeSplit == TypeOK <=> RowTyped /\ JobTyped /\ RestTyped
  BY Zenon DEF TypeOK, RowTyped, JobTyped, RestTyped, JobRecord

LEMMA TypeSplitNext == TypeOK' <=> RowTyped' /\ JobTyped' /\ RestTyped'
  BY Zenon DEF TypeOK, RowTyped, JobTyped, RestTyped, JobRecord

USE BoundAssumption, SpeedAssumption, LogAssumption
-----------------------------------------------------------------------------
(* What an invocation's step does to its job.                              *)
LEMMA JobMoves ==
  ASSUME JobTyped, NEW w \in Workers, NEW r \in JobRecord, r.pc # "idle" => r.log \in Logs,
         job' = [job EXCEPT ![w] = r]
  PROVE  JobTyped' /\ job'[w] = r /\ \A v \in Workers \ {w} : job'[v] = job[v]
  BY DEF JobTyped

LEMMA Finishes ==
  ASSUME JobTyped, NEW w \in Workers, Finish(w)
  PROVE  JobTyped' /\ job'[w].pc = "idle" /\ \A v \in Workers \ {w} : job'[v] = job[v]
<1>1. Idle \in JobRecord /\ Idle.pc = "idle"  BY DEF Idle, JobRecord
<1> QED  BY <1>1, JobMoves DEF Finish

LEMMA Picks ==
  ASSUME JobTyped, NEW w \in Workers, NEW l \in Logs, Pick(w, l)
  PROVE  JobTyped' /\ job'[w].pc = "picked" /\ \A v \in Workers \ {w} : job'[v] = job[v]
<1> DEFINE r == [Idle EXCEPT !.pc = "picked", !.log = l]
<1>1. r \in JobRecord /\ r.pc = "picked" /\ r.log = l  BY DEF Idle, JobRecord
<1>2. job' = [job EXCEPT ![w] = r]  BY DEF Pick
<1> HIDE DEF r
<1> QED  BY <1>1, <1>2, JobMoves

LEMMA Advances ==
  ASSUME JobTyped, NEW w \in Workers, job[w].pc # "idle", NEW pc \in Busy,
         job' = [job EXCEPT ![w].pc = pc]
  PROVE  /\ JobTyped'
         /\ job'[w].pc = pc /\ job'[w].log = job[w].log /\ job'[w].attempts = job[w].attempts
         /\ \A v \in Workers \ {w} : job'[v] = job[v]
<1> DEFINE r == [job[w] EXCEPT !.pc = pc]
<1>1. job[w] \in JobRecord /\ job[w].log \in Logs  BY DEF JobTyped
<1>2. r \in JobRecord /\ r.pc = pc /\ r.log = job[w].log /\ r.attempts = job[w].attempts
  BY <1>1 DEF JobRecord
<1>3. job' = [job EXCEPT ![w] = r]  OBVIOUS
<1> HIDE DEF r
<1> QED  BY <1>1, <1>2, <1>3, JobMoves

LEMMA Claims ==
  ASSUME JobTyped, RowTyped, NEW w \in Workers, Claim(w)
  PROVE  /\ JobTyped'
         /\ job[w].log \in Logs /\ job'[w].pc = "sending" /\ job'[w].log = job[w].log
         /\ job'[w].attempts = attempts[job[w].log] + 1
         /\ \A v \in Workers \ {w} : job'[v] = job[v]
<1>1. job[w] \in JobRecord /\ job[w].log \in Logs  BY DEF JobTyped, Claim
<1> DEFINE n == attempts[job[w].log] + 1
           r == [job[w] EXCEPT !.pc = "sending", !.attempts = n]
<1>0. n \in Nat  BY <1>1 DEF RowTyped
<1>3. job' = [job EXCEPT ![w] = r]  BY DEF Claim
<1> HIDE DEF n
<1>2. r \in JobRecord /\ r.pc = "sending" /\ r.log = job[w].log /\ r.attempts = n
  BY <1>0, <1>1 DEF JobRecord, Busy
<1> HIDE DEF r
<1> QED  BY <1>1, <1>2, <1>3, JobMoves DEF n

(* Every action keeps the types.                                           *)
LEMMA TypesHold == ASSUME TypeOK, [Next]_vars PROVE TypeOK'
<1> SUFFICES RowTyped' /\ JobTyped' /\ RestTyped'  BY TypeSplitNext
<1> USE TypeSplit DEF clock
<1>1. RowTyped /\ JobTyped /\ RestTyped  OBVIOUS
<1>a. ASSUME UNCHANGED <<status, attempts, stamp, old>> PROVE RowTyped'
  BY <1>a, <1>1 DEF RowTyped
<1>b. ASSUME UNCHANGED <<event, delivered, unacked, crashes>> PROVE RestTyped'
  BY <1>b, <1>1 DEF RestTyped
<1>c. ASSUME UNCHANGED job PROVE JobTyped'
  BY <1>c, <1>1 DEF JobTyped
<1>2. ASSUME NEW l \in Logs, Queue(l) PROVE RowTyped' /\ JobTyped' /\ RestTyped'
  <2>1. RowTyped'  BY <1>1, <1>2 DEF Queue, RowTyped, Status
  <2>2. RestTyped'  BY <1>1, <1>2 DEF Queue, RestTyped
  <2> QED  BY <2>1, <2>2, <1>2, <1>c DEF Queue
<1>3. ASSUME NEW l \in Logs, Cancel(l) PROVE RowTyped' /\ JobTyped' /\ RestTyped'
  <2>1. RowTyped'  BY <1>1, <1>3 DEF Cancel, RowTyped, Status
  <2> QED  BY <2>1, <1>3, <1>b, <1>c DEF Cancel
<1>4. ASSUME NEW l \in Logs, WindowEnds(l) PROVE RowTyped' /\ JobTyped' /\ RestTyped'
  <2>1. RowTyped'  BY <1>1, <1>4 DEF WindowEnds, RowTyped
  <2> QED  BY <2>1, <1>4, <1>b, <1>c DEF WindowEnds
<1>5. ASSUME NEW l \in Logs, GrowOld(l) PROVE RowTyped' /\ JobTyped' /\ RestTyped'
  <2>1. RowTyped'  BY <1>1, <1>5 DEF GrowOld, RowTyped
  <2> QED  BY <2>1, <1>5, <1>b, <1>c DEF GrowOld
<1>6. ASSUME NEW l \in Logs, NEW w \in Workers, Listen(w, l)
      PROVE  RowTyped' /\ JobTyped' /\ RestTyped'
  <2>1. JobTyped'  BY <1>1, <1>6, Picks DEF Listen
  <2>2. RestTyped'  BY <1>1, <1>6 DEF Listen, RestTyped
  <2> QED  BY <2>1, <2>2, <1>6, <1>a DEF Listen
<1>7. ASSUME NEW l \in Logs, NEW w \in Workers, Retry(w, l)
      PROVE  RowTyped' /\ JobTyped' /\ RestTyped'
  <2>1. JobTyped'  BY <1>1, <1>7, Picks DEF Retry
  <2> QED  BY <2>1, <1>7, <1>a, <1>b DEF Retry
<1>8. ASSUME NEW w \in Workers, Process(w) PROVE RowTyped' /\ JobTyped' /\ RestTyped'
  <2> DEFINE l == job[w].log
  <2>0. job[w].pc # "idle" => l \in Logs  BY <1>1 DEF JobTyped
  <2> HIDE DEF l
  <2>1. CASE Claim(w)
    <3>1. JobTyped' /\ l \in Logs  BY <1>1, <2>1, Claims DEF l
    <3>2. RowTyped'  BY <1>1, <2>1, <3>1 DEF Claim, RowTyped, l
    <3> QED  BY <3>1, <3>2, <2>1, <1>b DEF Claim
  <2>2. CASE ClaimLost(w)
    <3>1. JobTyped'  BY <1>1, <2>2, Finishes DEF ClaimLost
    <3> QED  BY <3>1, <2>2, <1>a, <1>b DEF ClaimLost
  <2>3. CASE Deliver(w)
    <3>1. JobTyped'  BY <1>1, <2>3, Advances DEF Deliver, Busy
    <3>2. RestTyped'  BY <1>1, <2>0, <2>3 DEF Deliver, RestTyped, l
    <3> QED  BY <3>1, <3>2, <2>3, <1>a DEF Deliver
  <2>4. CASE Refuse(w)
    <3>1. JobTyped'  BY <1>1, <2>4, Advances DEF Refuse, Busy
    <3> QED  BY <3>1, <2>4, <1>a, <1>b DEF Refuse
  <2>5. CASE DeliverAndTimeOut(w)
    <3>1. JobTyped'  BY <1>1, <2>5, Advances DEF DeliverAndTimeOut, Busy
    <3>2. RestTyped'  BY <1>1, <2>0, <2>5 DEF DeliverAndTimeOut, RestTyped, l
    <3> QED  BY <3>1, <3>2, <2>5, <1>a DEF DeliverAndTimeOut
  <2>6. CASE RecordSent(w)
    <3>1. JobTyped'  BY <1>1, <2>6, Finishes DEF RecordSent
    <3>2. RowTyped'  BY <1>1, <2>0, <2>6 DEF RecordSent, RowTyped, Status, l
    <3> QED  BY <3>1, <3>2, <2>6, <1>b DEF RecordSent
  <2>7. CASE SentWriteFails(w)
    <3>1. JobTyped'  BY <1>1, <2>7, Advances DEF SentWriteFails, Busy
    <3>2. RestTyped'  BY <1>1, <2>0, <2>7 DEF SentWriteFails, RestTyped, l
    <3> QED  BY <3>1, <3>2, <2>7, <1>a DEF SentWriteFails
  <2>8. CASE RecordFailure(w)
    <3>1. JobTyped'  BY <1>1, <2>8, Finishes DEF RecordFailure
    <3>2. RowTyped'  BY <1>1, <2>0, <2>8 DEF RecordFailure, RowTyped, Status, l
    <3>3. RestTyped'  BY <1>1, <2>0, <2>8 DEF RecordFailure, RestTyped, l
    <3> QED  BY <3>1, <3>2, <3>3
  <2>9. CASE EmitFails(w)
    <3>1. JobTyped'  BY <1>1, <2>9, Advances DEF EmitFails, Busy
    <3>2. RowTyped'  BY <1>1, <2>0, <2>9 DEF EmitFails, RowTyped, Status, l
    <3> QED  BY <3>1, <3>2, <2>9, <1>b DEF EmitFails
  <2> QED  BY <1>8, <2>1, <2>2, <2>3, <2>4, <2>5, <2>6, <2>7, <2>8, <2>9 DEF Process
<1>9. CASE Crash
  <2>1. Idle \in JobRecord /\ Idle.pc = "idle"  BY DEF Idle, JobRecord
  <2>2. JobTyped'
    <3>1. job' \in [Workers -> JobRecord]  BY <1>9, <2>1 DEF Crash
    <3>2. \A w \in Workers : job'[w].pc = "idle"  BY <1>9, <2>1 DEF Crash
    <3> QED  BY <3>1, <3>2 DEF JobTyped
  <2>3. RestTyped'
    <3>1. crashes' \in 0..MaxCrashes /\ event' \subseteq Logs  BY <1>1, <1>9 DEF Crash, RestTyped
    <3>2. unacked' \in [Logs -> Nat]  BY <1>1, <1>9 DEF Crash, RestTyped
    <3> QED  BY <3>1, <3>2, <1>1, <1>9 DEF Crash, RestTyped
  <2> QED  BY <2>2, <2>3, <1>9, <1>a DEF Crash
<1>10. CASE UNCHANGED vars
  BY <1>10, <1>a, <1>b, <1>c DEF vars
<1> QED  BY <1>2, <1>3, <1>4, <1>5, <1>6, <1>7, <1>8, <1>9, <1>10 DEF Next

-----------------------------------------------------------------------------
(* A step that neither claims nor frees a row and leaves the columns the   *)
(* claim looks at alone.                                                   *)
LEMMA SameHolders ==
  ASSUME Exclusive, Tried, UNCHANGED <<status, attempts, stamp, crashes>>,
         \A v \in Workers, k \in Logs : Holds(v, k)' <=> Holds(v, k),
         \A v \in Workers, k \in Logs : Holds(v, k) => job'[v].attempts = job[v].attempts
  PROVE  Exclusive' /\ Tried'
<1>1. \A k \in Logs : Claimed(k)' <=> Claimed(k)  BY Zenon DEF Claimed, Holds
<1>2. Exclusive'  BY Zenon DEF Exclusive
<1>3. Tried'  BY <1>1 DEF Tried
<1> QED  BY <1>2, <1>3

(* Messages and losses unchanged, none landed or un-landed.                *)
LEMMA SameMessages ==
  ASSUME Delivered, UNCHANGED <<delivered, unacked>>, \A k \in Logs : Landed(k) => Landed(k)',
         RestTyped
  PROVE  Delivered'
<1> SUFFICES ASSUME NEW k \in Logs
             PROVE  delivered[k] <= unacked[k] + (IF Landed(k)' THEN 1 ELSE 0)
  BY DEF Delivered
<1>1. delivered[k] <= unacked[k] + (IF Landed(k) THEN 1 ELSE 0)  BY DEF Delivered
<1>2. delivered[k] \in Nat /\ unacked[k] \in Nat  BY DEF RestTyped
<1> QED  BY <1>1, <1>2

(* No row becomes SENT, and no one but a failed invocation holds a SENT    *)
(* row afterwards.                                                         *)
LEMMA SameUnsent ==
  ASSUME Unsent,
         \A v \in Workers, k \in Logs : Holds(v, k)' /\ status'[k] = "SENT" =>
           Holds(v, k) /\ status[k] = "SENT" /\ job'[v].pc = job[v].pc
  PROVE  Unsent'
  BY DEF Unsent

(* An invocation that goes on, or starts, with the row it has.             *)
LEMMA OneMoves ==
  ASSUME JobTyped, NEW w \in Workers,
         \A v \in Workers \ {w} : job'[v] = job[v],
         job'[w].log = job[w].log /\ job'[w].attempts = job[w].attempts,
         job[w].pc \in Busy /\ job'[w].pc \in Busy
  PROVE  /\ \A v \in Workers, k \in Logs : Holds(v, k)' <=> Holds(v, k)
         /\ \A v \in Workers, k \in Logs : Holds(v, k) => job'[v].attempts = job[v].attempts
  BY DEF Holds

LEMMA SafeClaim ==
  ASSUME TypeOK, TypeOK', Safe, NEW w \in Workers, Claim(w)
  PROVE  Safe'
<1>l. PICK l \in Logs : l = job[w].log  BY TypeSplit, Claims
<1>1. /\ JobTyped' /\ l \in Logs /\ job'[w].pc = "sending" /\ job'[w].log = l
      /\ job'[w].attempts = attempts[l] + 1
      /\ \A v \in Workers \ {w} : job'[v] = job[v]
  BY <1>l, Claims, TypeSplit
<1>2. /\ Claimable(l) /\ attempts' = [attempts EXCEPT ![l] = @ + 1]
      /\ stamp' = [stamp EXCEPT ![l] = "recent"] /\ job[w].pc = "picked"
      /\ UNCHANGED <<status, crashes, delivered, unacked>>
  BY <1>l DEF Claim, clock
<1>3. RowTyped /\ RestTyped /\ JobTyped  BY TypeSplit
<1>4. /\ attempts'[l] = attempts[l] + 1 /\ stamp'[l] = "recent"
      /\ \A k \in Logs \ {l} : attempts'[k] = attempts[k] /\ stamp'[k] = stamp[k]
  BY <1>1, <1>2, <1>3 DEF RowTyped
<1>5. \A v \in Workers : ~Holds(v, l)  BY <1>1, <1>2 DEF Claimable, Safe, Exclusive
<1>6. /\ Holds(w, l)' /\ \A k \in Logs \ {l} : ~Holds(w, k)' /\ ~Holds(w, k)
      /\ \A v \in Workers \ {w}, k \in Logs : Holds(v, k)' <=> Holds(v, k)
  BY <1>l, <1>1, <1>2 DEF Holds, Busy
<1>7. Exclusive'
  <2> SUFFICES ASSUME NEW k \in Logs, NEW u \in Workers, Holds(u, k)'
               PROVE  /\ stamp'[k] = "recent" /\ status'[k] # "none"
                      /\ job'[u].attempts = attempts'[k]
                      /\ \A v \in Workers : Holds(v, k)' => v = u
    BY DEF Exclusive
  <2>1. CASE k = l  BY <2>1, <1>1, <1>2, <1>4, <1>5, <1>6 DEF Claimable
  <2>2. CASE k # l
    <3>1. u # w /\ Holds(u, k)  BY <2>2, <1>6
    <3>2. job'[u] = job[u]  BY <3>1, <1>1
    <3> QED  BY <2>2, <3>1, <3>2, <1>2, <1>4, <1>6 DEF Safe, Exclusive
  <2> QED  BY <2>1, <2>2
<1>8. Delivered'
  <2>1. \A k \in Logs : Landed(k) => Landed(k)'
    <3> SUFFICES ASSUME NEW k \in Logs, NEW v \in Workers, job[v].log = k, job[v].pc = "sent"
                 PROVE  Landed(k)'
      BY <1>2 DEF Landed
    <3>1. v # w  BY <1>2
    <3> QED  BY <3>1, <1>1 DEF Landed
  <2> QED  BY <2>1, <1>2, <1>3, SameMessages DEF Safe
<1>9. Tried'
  <2> SUFFICES ASSUME NEW k \in Logs
               PROVE  /\ attempts'[k] <= MaxAttempts + crashes
                      /\ status[k] = "PENDING" /\ ~Claimed(k)' => attempts'[k] < MaxAttempts + crashes
                      /\ status[k] = "none" => attempts'[k] = 0
    BY <1>2 DEF Tried
  <2>1. CASE k = l
    <3>1. Claimed(k)'  BY <2>1, <1>6 DEF Claimed, Holds
    <3>2. attempts[l] < MaxAttempts + crashes  BY <1>1, <1>2, <1>5 DEF Safe, Tried, Claimable, Claimed, Holds
    <3>3. attempts[l] \in Nat /\ MaxAttempts + crashes \in Nat  BY <1>1, <1>3 DEF RowTyped, RestTyped
    <3> QED  BY <2>1, <3>1, <3>2, <3>3, <1>2, <1>4 DEF Claimable
  <2>2. CASE k # l
    <3>1. Claimed(k)' <=> Claimed(k)  BY <2>2, <1>6 DEF Claimed, Holds
    <3> QED  BY <2>2, <3>1, <1>4 DEF Safe, Tried
  <2> QED  BY <2>1, <2>2
<1>10. Unsent'
  <2> SUFFICES ASSUME NEW v \in Workers, NEW k \in Logs, Holds(v, k)', status'[k] = "SENT"
               PROVE  Holds(v, k) /\ status[k] = "SENT" /\ job'[v].pc = job[v].pc
    BY SameUnsent DEF Safe
  <2>1. status[k] = "SENT" /\ k # l  BY <1>2 DEF Claimable
  <2>2. v # w /\ Holds(v, k)  BY <2>1, <1>6
  <2> QED  BY <2>1, <2>2, <1>1
<1> QED  BY <1>7, <1>8, <1>9, <1>10 DEF Safe

(* A message arrives: it was the first, or it is another one's loss.       *)
LEMMA SafeOutcome ==
  ASSUME TypeOK, TypeOK', Safe, NEW w \in Workers,
         Deliver(w) \/ Refuse(w) \/ DeliverAndTimeOut(w) \/ SentWriteFails(w)
  PROVE  Safe'
<1> USE DEF clock
<1>0. RowTyped /\ RestTyped /\ JobTyped  BY TypeSplit
<1>l. PICK l \in Logs : l = job[w].log
  BY <1>0 DEF JobTyped, Deliver, Refuse, DeliverAndTimeOut, SentWriteFails
<1>p. PICK pc \in {"sent", "failed"} : job' = [job EXCEPT ![w].pc = pc]
  BY DEF Deliver, Refuse, DeliverAndTimeOut, SentWriteFails
<1>1. job[w].pc \in Busy
  BY DEF Deliver, Refuse, DeliverAndTimeOut, SentWriteFails, Busy
<1>2. /\ job'[w].pc = pc /\ job'[w].log = l /\ job'[w].attempts = job[w].attempts
      /\ \A v \in Workers \ {w} : job'[v] = job[v]
  BY <1>0, <1>l, <1>p, <1>1, Advances DEF Busy
<1>3. pc \in Busy  BY DEF Busy
<1>4. Exclusive' /\ Tried'
  <2>1. UNCHANGED <<status, attempts, stamp, crashes>>
    BY DEF Deliver, Refuse, DeliverAndTimeOut, SentWriteFails
  <2>2. /\ \A v \in Workers, k \in Logs : Holds(v, k)' <=> Holds(v, k)
        /\ \A v \in Workers, k \in Logs : Holds(v, k) => job'[v].attempts = job[v].attempts
    BY <1>0, <1>1, <1>2, <1>3, <1>l, OneMoves
  <2> QED  BY <2>1, <2>2, SameHolders DEF Safe
<1>5. /\ \A v \in Workers \ {w} : job[v].log = l => job[v].pc \notin Busy
      /\ status[l] # "SENT"
  <2>1. job[w].pc # "failed"  BY DEF Deliver, Refuse, DeliverAndTimeOut, SentWriteFails
  <2>2. Holds(w, l)  BY <1>1, <1>l DEF Holds
  <2> QED  BY <2>1, <2>2 DEF Safe, Exclusive, Unsent, Holds
<1>6. \A k \in Logs \ {l} : Landed(k)' <=> Landed(k)
  <2> SUFFICES ASSUME NEW k \in Logs \ {l} PROVE Landed(k)' <=> Landed(k)
    OBVIOUS
  <2>1. status' = status  BY DEF Deliver, Refuse, DeliverAndTimeOut, SentWriteFails
  <2>2. \A v \in Workers : job'[v].log = k /\ job'[v].pc = "sent"
                             <=> job[v].log = k /\ job[v].pc = "sent"
    BY <1>2, <1>l
  <2> QED  BY <2>1, <2>2 DEF Landed
<1>7. Landed(l) <=> job[w].pc = "sent"  BY <1>5, <1>l DEF Landed, Busy
<1>8. pc = "sent" => Landed(l)'  BY <1>2 DEF Landed
<1>9. Delivered'
  <2>1. /\ delivered[l] <= unacked[l] + (IF Landed(l) THEN 1 ELSE 0)
        /\ \A k \in Logs : delivered[k] \in Nat /\ unacked[k] \in Nat
        /\ delivered \in [Logs -> Nat] /\ unacked \in [Logs -> Nat]
    BY <1>0 DEF Safe, Delivered, RestTyped
  <2>2. \A k \in Logs \ {l} : delivered'[k] = delivered[k] /\ unacked'[k] = unacked[k]
    BY <2>1, <1>l DEF Deliver, Refuse, DeliverAndTimeOut, SentWriteFails
  <2>3. delivered'[l] <= unacked'[l] + (IF Landed(l)' THEN 1 ELSE 0)
    <3>1. CASE Deliver(w)
      <4>1. delivered'[l] = delivered[l] + 1 /\ unacked'[l] = unacked[l] /\ job[w].pc = "sending"
        BY <3>1, <2>1, <1>l DEF Deliver
      <4>2. job'[w].pc = "sent"
        <5>1. job' = [job EXCEPT ![w].pc = "sent"]  BY <3>1 DEF Deliver
        <5> QED  BY <5>1, <1>0, <1>1, Advances DEF Busy
      <4>3. Landed(l)' /\ ~Landed(l)  BY <4>1, <4>2, <1>2, <1>7, <1>8
      <4> QED  BY <4>1, <4>3, <2>1
    <3>2. CASE Refuse(w)
      <4>1. delivered'[l] = delivered[l] /\ unacked'[l] = unacked[l] /\ job[w].pc = "sending"
        BY <3>2 DEF Refuse
      <4> QED  BY <4>1, <1>7, <2>1
    <3>3. CASE DeliverAndTimeOut(w)
      <4>1. /\ delivered'[l] = delivered[l] + 1 /\ unacked'[l] = unacked[l] + 1
            /\ job[w].pc = "sending"
        BY <3>3, <2>1, <1>l DEF DeliverAndTimeOut
      <4> QED  BY <4>1, <1>7, <2>1
    <3>4. CASE SentWriteFails(w)
      <4>1. delivered'[l] = delivered[l] /\ unacked'[l] = unacked[l] + 1
        BY <3>4, <2>1, <1>l DEF SentWriteFails
      <4> QED  BY <4>1, <2>1
    <3> QED  BY <3>1, <3>2, <3>3, <3>4
  <2> SUFFICES ASSUME NEW k \in Logs
               PROVE  delivered'[k] <= unacked'[k] + (IF Landed(k)' THEN 1 ELSE 0)
    BY DEF Delivered
  <2>4. CASE k = l  BY <2>3, <2>4
  <2>5. CASE k # l
    <3>1. delivered[k] <= unacked[k] + (IF Landed(k) THEN 1 ELSE 0)  BY DEF Safe, Delivered
    <3> QED  BY <2>5, <3>1, <2>2, <1>6
  <2> QED  BY <2>4, <2>5
<1>10. Unsent'
  <2> SUFFICES ASSUME NEW v \in Workers, NEW k \in Logs, Holds(v, k)', status'[k] = "SENT"
               PROVE  Holds(v, k) /\ status[k] = "SENT" /\ job'[v].pc = job[v].pc
    BY SameUnsent DEF Safe
  <2>1. status[k] = "SENT"  BY DEF Deliver, Refuse, DeliverAndTimeOut, SentWriteFails
  <2>2. v # w  BY <2>1, <1>2, <1>5 DEF Holds
  <2> QED  BY <2>1, <2>2, <1>2 DEF Holds
<1> QED  BY <1>4, <1>9, <1>10 DEF Safe

(* The emit behind the SENT write throws; the row is SENT and still held   *)
(* by the invocation whose catch is about to run.                          *)
LEMMA SafeEmit ==
  ASSUME TypeOK, TypeOK', Safe, NEW w \in Workers, EmitFails(w)
  PROVE  Safe'
<1> USE DEF clock
<1>0. RowTyped /\ RestTyped /\ JobTyped  BY TypeSplit
<1>l. PICK l \in Logs : l = job[w].log  BY <1>0 DEF JobTyped, EmitFails
<1>1. /\ job[w].pc = "sent" /\ job'[w].pc = "failed" /\ job'[w].log = l
      /\ job'[w].attempts = job[w].attempts
      /\ \A v \in Workers \ {w} : job'[v] = job[v]
  BY <1>0, <1>l, Advances DEF EmitFails, Busy
<1>2. /\ UNCHANGED <<attempts, stamp, delivered, unacked, crashes>>
      /\ status'[l] = "SENT" /\ \A k \in Logs \ {l} : status'[k] = status[k]
  BY <1>0, <1>l DEF EmitFails, RowTyped
<1>3. \A v \in Workers, k \in Logs : Holds(v, k)' <=> Holds(v, k)
  BY <1>l, <1>1 DEF Holds, Busy
<1>4. Holds(w, l) /\ \A v \in Workers \ {w} : ~Holds(v, l)
  BY <1>l, <1>1 DEF Safe, Exclusive, Holds, Busy
<1>5. Exclusive'
  <2> SUFFICES ASSUME NEW k \in Logs, NEW u \in Workers, Holds(u, k)
               PROVE  /\ stamp[k] = "recent" /\ status'[k] # "none"
                      /\ job'[u].attempts = attempts[k]
                      /\ \A v \in Workers : Holds(v, k) => v = u
    BY <1>2, <1>3 DEF Exclusive
  <2>1. job'[u].attempts = job[u].attempts  BY <1>1
  <2> QED  BY <2>1, <1>2 DEF Safe, Exclusive
<1>6. Unsent'
  <2> SUFFICES ASSUME NEW k \in Logs, NEW v \in Workers, Holds(v, k), status'[k] = "SENT"
               PROVE  job'[v].pc = "failed"
    BY <1>3 DEF Unsent
  <2>1. CASE v = w  BY <2>1, <1>1
  <2>2. CASE v # w
    <3>1. k # l  BY <2>2, <1>4
    <3> QED  BY <2>2, <3>1, <1>1, <1>2 DEF Safe, Unsent
  <2> QED  BY <2>1, <2>2
<1>7. Delivered'
  <2>1. ASSUME NEW k \in Logs, Landed(k) PROVE Landed(k)'
    <3>1. CASE k = l  BY <3>1, <1>2 DEF Landed
    <3>2. CASE k # l  BY <2>1, <3>2, <1>l, <1>1, <1>2 DEF Landed
    <3> QED  BY <3>1, <3>2
  <2> QED  BY <2>1, <1>0, <1>2, SameMessages DEF Safe
<1>8. Tried'
  <2>1. \A k \in Logs : Claimed(k)' <=> Claimed(k)  BY <1>3, Zenon DEF Claimed, Holds
  <2> QED  BY <2>1, <1>2 DEF Safe, Tried
<1> QED  BY <1>5, <1>6, <1>7, <1>8 DEF Safe

(* The outcome is written; the invocation ends and frees its row.          *)
LEMMA SafeRecord ==
  ASSUME TypeOK, TypeOK', Safe, NEW w \in Workers, RecordSent(w) \/ RecordFailure(w)
  PROVE  Safe'
<1> USE DEF clock
<1>0. RowTyped /\ RestTyped /\ JobTyped  BY TypeSplit
<1>l. PICK l \in Logs : l = job[w].log
  BY <1>0 DEF JobTyped, RecordSent, RecordFailure
<1>1. /\ job[w].pc \in {"sent", "failed"}
      /\ UNCHANGED <<attempts, stamp, delivered, crashes>>
      /\ \A k \in Logs \ {l} : status'[k] = status[k] /\ unacked'[k] = unacked[k]
      /\ job'[w].pc = "idle" /\ \A v \in Workers \ {w} : job'[v] = job[v]
  <2>1. \A k \in Logs \ {l} : unacked'[k] = unacked[k]
    BY <1>0, <1>l DEF RecordSent, RecordFailure, RestTyped
  <2> QED  BY <2>1, <1>0, <1>l, Finishes DEF RecordSent, RecordFailure, RowTyped
<1>2. /\ Holds(w, l) /\ \A v \in Workers \ {w} : ~Holds(v, l)
      /\ job[w].attempts = attempts[l] /\ status[l] # "none"
      /\ status[l] = "SENT" => job[w].pc = "failed"
  BY <1>1, <1>l DEF Safe, Exclusive, Unsent, Holds, Busy
<1>3. /\ \A v \in Workers : ~Holds(v, l)' /\ \A k \in Logs : ~Holds(w, k)'
      /\ \A v \in Workers, k \in Logs \ {l} : Holds(v, k)' <=> Holds(v, k)
  BY <1>1, <1>2 DEF Holds, Busy
<1>4. status'[l] = "SENT" \/ (status'[l] = "PENDING" /\ attempts[l] < MaxAttempts)
      \/ status'[l] = "FAILED"
  <2>1. attempts[l] \in Nat  BY <1>0 DEF RowTyped
  <2> QED  BY <2>1, <1>0, <1>l, <1>2 DEF RecordSent, RecordFailure, RowTyped
<1>5. Exclusive'
  <2> SUFFICES ASSUME NEW k \in Logs, NEW u \in Workers, Holds(u, k)'
               PROVE  /\ stamp[k] = "recent" /\ status'[k] # "none"
                      /\ job'[u].attempts = attempts[k]
                      /\ \A v \in Workers : Holds(v, k)' => v = u
    BY <1>1 DEF Exclusive
  <2>1. k # l /\ u # w /\ Holds(u, k)  BY <1>3
  <2> QED  BY <2>1, <1>1, <1>3 DEF Safe, Exclusive
<1>6. Delivered'
  <2> SUFFICES ASSUME NEW k \in Logs
               PROVE  delivered'[k] <= unacked'[k] + (IF Landed(k)' THEN 1 ELSE 0)
    BY DEF Delivered
  <2>0. /\ delivered[k] <= unacked[k] + (IF Landed(k) THEN 1 ELSE 0)
        /\ delivered[k] \in Nat /\ unacked[k] \in Nat /\ unacked \in [Logs -> Nat]
    BY <1>0 DEF Safe, Delivered, RestTyped
  <2>1. CASE k # l
    <3>1. Landed(k) => Landed(k)'  BY <2>1, <1>l, <1>1 DEF Landed
    <3> QED  BY <2>0, <2>1, <3>1, <1>1
  <2>2. CASE k = l /\ RecordSent(w)
    <3>1. Landed(k)' /\ unacked' = unacked  BY <2>2, <1>0, <1>l DEF Landed, RecordSent, RowTyped
    <3> QED  BY <2>0, <3>1, <1>1
  <2>3. CASE k = l /\ RecordFailure(w)
    <3>1. job[w].pc = "failed" /\ \A v \in Workers : job[v].log = l => job[v].pc # "sent"
      BY <2>3, <1>2 DEF RecordFailure, Holds, Busy
    <3>2. CASE status[l] = "SENT"
      <4>1. unacked'[l] = unacked[l] + 1  BY <2>0, <2>3, <3>2, <1>l DEF RecordFailure
      <4> QED  BY <2>0, <2>3, <4>1, <1>1
    <3>3. CASE status[l] # "SENT"
      <4>1. ~Landed(l) /\ unacked' = unacked  BY <2>3, <3>1, <3>3, <1>l DEF RecordFailure, Landed
      <4> QED  BY <2>0, <2>3, <4>1, <1>1
    <3> QED  BY <3>2, <3>3
  <2> QED  BY <2>1, <2>2, <2>3
<1>7. Tried'
  <2> SUFFICES ASSUME NEW k \in Logs
               PROVE  /\ attempts[k] <= MaxAttempts + crashes
                      /\ status'[k] = "PENDING" /\ ~Claimed(k)' => attempts[k] < MaxAttempts + crashes
                      /\ status'[k] = "none" => attempts[k] = 0
    BY <1>1 DEF Tried
  <2>1. CASE k = l
    <3>1. attempts[l] \in Nat /\ crashes \in Nat  BY <1>0 DEF RowTyped, RestTyped
    <3>2. attempts[l] <= MaxAttempts + crashes  BY DEF Safe, Tried
    <3> QED  BY <2>1, <3>1, <3>2, <1>4
  <2>2. CASE k # l
    <3>1. Claimed(k)' <=> Claimed(k)  BY <2>2, <1>3 DEF Claimed, Holds
    <3> QED  BY <2>2, <3>1, <1>1 DEF Safe, Tried
  <2> QED  BY <2>1, <2>2
<1>8. Unsent'
  <2> SUFFICES ASSUME NEW v \in Workers, NEW k \in Logs, Holds(v, k)', status'[k] = "SENT"
               PROVE  Holds(v, k) /\ status[k] = "SENT" /\ job'[v].pc = job[v].pc
    BY SameUnsent DEF Safe
  <2>1. k # l /\ v # w /\ Holds(v, k)  BY <1>3
  <2> QED  BY <2>1, <1>1
<1> QED  BY <1>5, <1>6, <1>7, <1>8 DEF Safe

(* Requests, the cron, time, and a restart.                                *)
LEMMA SafeElsewhere ==
  ASSUME TypeOK, TypeOK', Safe, ~SlowSends,
         \/ \E l \in Logs : \/ Queue(l) \/ Cancel(l) \/ WindowEnds(l) \/ GrowOld(l)
                            \/ \E w \in Workers : Listen(w, l) \/ Retry(w, l)
         \/ \E w \in Workers : ClaimLost(w)
         \/ Crash \/ UNCHANGED vars
  PROVE  Safe'
<1> USE DEF clock
<1>0. RowTyped /\ RestTyped /\ JobTyped  BY TypeSplit
<1>1. ASSUME UNCHANGED <<status, delivered, unacked>>,
             \A v \in Workers : job'[v] = job[v] \/ {job[v].pc, job'[v].pc} \subseteq {"idle", "picked"}
      PROVE  Delivered' /\ \A v \in Workers, k \in Logs : Holds(v, k)' <=> Holds(v, k)
  <2>1. \A v \in Workers, k \in Logs : Holds(v, k)' <=> Holds(v, k)
    BY <1>1 DEF Holds, Busy
  <2>2. ASSUME NEW k \in Logs, Landed(k) PROVE Landed(k)'
    <3>1. ASSUME NEW v \in Workers, job[v].log = k, job[v].pc = "sent" PROVE Landed(k)'
      <4>1. job'[v] = job[v]  BY <1>1, <3>1
      <4> QED  BY <3>1, <4>1 DEF Landed
    <3> QED  BY <2>2, <3>1, <1>1 DEF Landed
  <2> QED  BY <2>1, <2>2, <1>0, <1>1, SameMessages DEF Safe
<1>2. ASSUME UNCHANGED <<status, attempts, stamp, crashes, delivered, unacked>>,
             \A v \in Workers : job'[v] = job[v] \/ {job[v].pc, job'[v].pc} \subseteq {"idle", "picked"}
      PROVE  Safe'
  <2>1. Delivered' /\ \A v \in Workers, k \in Logs : Holds(v, k)' <=> Holds(v, k)
    BY <1>1, <1>2
  <2>2. \A v \in Workers, k \in Logs : Holds(v, k) => job'[v].attempts = job[v].attempts
    BY <1>2 DEF Holds, Busy
  <2>3. Unsent'
    <3> SUFFICES ASSUME NEW v \in Workers, NEW k \in Logs, Holds(v, k)', status'[k] = "SENT"
                 PROVE  Holds(v, k) /\ status[k] = "SENT" /\ job'[v].pc = job[v].pc
      BY SameUnsent DEF Safe
    <3>1. Holds(v, k)  BY <2>1
    <3>2. job'[v] = job[v]  BY <3>1, <1>2 DEF Holds, Busy
    <3> QED  BY <3>1, <3>2, <1>2
  <2> QED  BY <2>1, <2>2, <2>3, <1>2, SameHolders DEF Safe
<1>3. ASSUME NEW l \in Logs, NEW w \in Workers, Listen(w, l) \/ Retry(w, l) PROVE Safe'
  <2>1. Pick(w, l)  BY <1>3 DEF Listen, Retry
  <2>2. job[w].pc = "idle" /\ job'[w].pc = "picked" /\ \A v \in Workers \ {w} : job'[v] = job[v]
    BY <2>1, <1>0, Picks DEF Pick
  <2> QED  BY <2>2, <1>2, <1>3 DEF Listen, Retry
<1>4. ASSUME NEW w \in Workers, ClaimLost(w) PROVE Safe'
  <2>1. job'[w].pc = "idle" /\ \A v \in Workers \ {w} : job'[v] = job[v]
    BY <1>0, <1>4, Finishes DEF ClaimLost
  <2> QED  BY <2>1, <1>2, <1>4 DEF ClaimLost
<1>5. CASE UNCHANGED vars
  BY <1>5, <1>2 DEF vars
<1>6. ASSUME NEW l \in Logs, GrowOld(l) PROVE Safe'
  BY <1>6, <1>2 DEF GrowOld
<1>7. ASSUME NEW l \in Logs, WindowEnds(l) PROVE Safe'
  <2>1. UNCHANGED <<status, attempts, crashes, job, delivered, unacked>> /\ ~Claimed(l)
        /\ \A k \in Logs \ {l} : stamp'[k] = stamp[k]
    BY <1>0, <1>7 DEF WindowEnds, RowTyped
  <2>2. Delivered' /\ \A v \in Workers, k \in Logs : Holds(v, k)' <=> Holds(v, k)
    BY <2>1, <1>1
  <2>3. Exclusive'
    <3> SUFFICES ASSUME NEW k \in Logs, NEW u \in Workers, Holds(u, k)'
                 PROVE  /\ stamp'[k] = "recent" /\ status[k] # "none"
                        /\ job[u].attempts = attempts[k]
                        /\ \A v \in Workers : Holds(v, k)' => v = u
      BY <2>1 DEF Exclusive
    <3>1. Holds(u, k) /\ k # l  BY <2>1, <2>2 DEF Holds, Claimed
    <3> QED  BY <3>1, <2>1, <2>2 DEF Safe, Exclusive
  <2>4. Tried'
    <3>1. \A k \in Logs : Claimed(k)' <=> Claimed(k)  BY <2>1 DEF Claimed
    <3> QED  BY <3>1, <2>1 DEF Safe, Tried
  <2>5. Unsent'  BY <2>1, <2>2, SameUnsent DEF Safe
  <2> QED  BY <2>2, <2>3, <2>4, <2>5 DEF Safe
<1>8. ASSUME NEW l \in Logs, Queue(l) \/ Cancel(l) PROVE Safe'
  <2>1. /\ UNCHANGED <<attempts, stamp, crashes, job, delivered, unacked>>
        /\ \A k \in Logs \ {l} : status'[k] = status[k]
        /\ \/ status[l] = "none" /\ status'[l] = "PENDING"
           \/ status[l] = "PENDING" /\ status'[l] = "CANCELLED"
    BY <1>0, <1>8 DEF Queue, Cancel, RowTyped
  <2>2. \A v \in Workers, k \in Logs : Holds(v, k)' <=> Holds(v, k)
    BY <2>1 DEF Holds
  <2>3. \A k \in Logs : Landed(k) => Landed(k)'  BY <2>1 DEF Landed
  <2>4. Exclusive'
    <3> SUFFICES ASSUME NEW k \in Logs, NEW u \in Workers, Holds(u, k)
                 PROVE  /\ stamp[k] = "recent" /\ status'[k] # "none"
                        /\ job[u].attempts = attempts[k]
                        /\ \A v \in Workers : Holds(v, k) => v = u
      BY <2>1, <2>2 DEF Exclusive
    <3> QED  BY <2>1 DEF Safe, Exclusive
  <2>5. Delivered'  BY <2>1, <2>3, <1>0, SameMessages DEF Safe
  <2>6. Tried'
    <3> SUFFICES ASSUME NEW k \in Logs
                 PROVE  /\ attempts[k] <= MaxAttempts + crashes
                        /\ status'[k] = "PENDING" /\ ~Claimed(k) => attempts[k] < MaxAttempts + crashes
                        /\ status'[k] = "none" => attempts[k] = 0
      BY <2>1 DEF Tried, Claimed
    <3>1. crashes \in Nat  BY <1>0 DEF RestTyped
    <3> QED  BY <2>1, <3>1 DEF Safe, Tried
  <2>7. Unsent'  BY <2>1, <2>2, SameUnsent DEF Safe
  <2> QED  BY <2>4, <2>5, <2>6, <2>7 DEF Safe
<1>9. CASE Crash
  <2>1. /\ UNCHANGED <<status, attempts, stamp, delivered>> /\ crashes' = crashes + 1
        /\ \A v \in Workers : job'[v].pc = "idle"
    BY <1>9 DEF Crash, Idle
  <2>2. \A v \in Workers, k \in Logs : ~Holds(v, k)'  BY <2>1 DEF Holds, Busy
  <2>3. Exclusive'  BY <2>2 DEF Exclusive
  <2>4. Tried'
    <3> SUFFICES ASSUME NEW k \in Logs
                 PROVE  /\ attempts[k] < MaxAttempts + crashes'
                        /\ status[k] = "none" => attempts[k] = 0
      <4>1. MaxAttempts + crashes' \in Int /\ \A k \in Logs : attempts[k] \in Nat
        BY <1>0, <2>1 DEF RowTyped, RestTyped
      <4> QED  BY <2>1, <4>1 DEF Tried
    <3>1. attempts[k] \in Nat /\ crashes \in Nat  BY <1>0 DEF RowTyped, RestTyped
    <3> QED  BY <2>1, <3>1 DEF Safe, Tried
  <2>5. Delivered'
    <3> SUFFICES ASSUME NEW k \in Logs
                 PROVE  delivered[k] <= unacked'[k] + (IF status[k] = "SENT" THEN 1 ELSE 0)
      <4>1. \A k \in Logs : Landed(k)' <=> status[k] = "SENT"  BY <2>1 DEF Landed
      <4> QED  BY <2>1, <4>1 DEF Delivered
    <3>1. delivered[k] \in Nat /\ unacked[k] \in Nat  BY <1>0 DEF RestTyped
    <3>2. delivered[k] <= unacked[k] + (IF Landed(k) THEN 1 ELSE 0)  BY DEF Safe, Delivered
    <3>3. CASE \E v \in Workers : job[v].log = k /\ job[v].pc = "sent"
      <4>1. unacked'[k] = unacked[k] + 1  BY <3>3, <1>9 DEF Crash
      <4> QED  BY <3>1, <3>2, <4>1
    <3>4. CASE ~ \E v \in Workers : job[v].log = k /\ job[v].pc = "sent"
      <4>1. unacked'[k] = unacked[k]  BY <3>4, <1>9 DEF Crash
      <4> QED  BY <3>4, <3>1, <3>2, <4>1 DEF Landed
    <3> QED  BY <3>3, <3>4
  <2>6. Unsent'  BY <2>2 DEF Unsent
  <2> QED  BY <2>3, <2>4, <2>5, <2>6 DEF Safe
<1> QED  BY <1>3, <1>4, <1>5, <1>6, <1>7, <1>8, <1>9

LEMMA Inductive == ASSUME IInv, [Next]_vars PROVE IInv'
<1>1. TypeOK /\ TypeOK'  BY TypesHold DEF IInv
<1>2. ASSUME ~SlowSends PROVE Safe'
  <2>1. Safe  BY <1>2 DEF IInv
  <2>2. ASSUME NEW w \in Workers, Process(w) PROVE Safe'
    BY <1>1, <1>2, <2>1, <2>2, SafeClaim, SafeOutcome, SafeEmit, SafeRecord, SafeElsewhere
       DEF Process
  <2>3. \/ \E w \in Workers : Process(w)
        \/ \E l \in Logs : \/ Queue(l) \/ Cancel(l) \/ WindowEnds(l) \/ GrowOld(l)
                           \/ \E w \in Workers : Listen(w, l) \/ Retry(w, l)
        \/ Crash \/ UNCHANGED vars
    BY Zenon DEF Next
  <2> QED  BY <1>1, <1>2, <2>1, <2>2, <2>3, SafeElsewhere
<1> QED  BY <1>1, <1>2 DEF IInv

LEMMA Initially == Init => IInv
<1> SUFFICES ASSUME Init PROVE IInv
  OBVIOUS
<1>1. \A w \in Workers : job[w] = Idle  BY DEF Init
<1>2. RowTyped /\ JobTyped /\ RestTyped
  BY DEF Init, RowTyped, JobTyped, RestTyped, JobRecord, Idle, Status
<1>3. \A v \in Workers, k \in Logs : ~Holds(v, k)  BY <1>1 DEF Holds, Busy, Idle
<1>4. Safe  BY <1>3 DEF Init, Safe, Exclusive, Unsent, Delivered, Tried, Landed
<1> QED  BY <1>2, <1>4, TypeSplit DEF IInv

LEMMA Invariance == Spec => []IInv
BY Initially, Inductive, PTL DEF Spec
-----------------------------------------------------------------------------
(* The columns of a row and the invocations keep their types.              *)
THEOREM QueueTyped == Spec => []TypeOK
<1>1. IInv => TypeOK  BY DEF IInv
<1> QED  BY <1>1, Invariance, PTL

(* The conditional UPDATE of processNotification keeps every other         *)
(* invocation out until the window ends, by which time the send is over.   *)
THEOREM ClaimExcludes == Spec => []OneClaimant
<1>1. IInv => OneClaimant
  <2> SUFFICES ASSUME IInv, ~SlowSends, NEW v \in Workers, NEW w \in Workers
               PROVE  /\ v # w /\ job[v].pc \in Busy /\ job[w].pc \in Busy
                           => job[v].log # job[w].log
                      /\ job[v].pc \in Busy => stamp[job[v].log] = "recent"
    BY DEF OneClaimant
  <2>1. JobTyped /\ Exclusive  BY TypeSplit DEF IInv, Safe
  <2>2. job[v].pc \in Busy => job[v].log \in Logs  BY <2>1 DEF JobTyped, Busy
  <2> QED  BY <2>1, <2>2 DEF Exclusive, Holds
<1> QED  BY <1>1, Invariance, PTL

(* However often a row is retried, its recipient gets one message more     *)
(* than the deliveries whose SENT write was lost.                          *)
THEOREM DuplicatesAreExplained == Spec => []DuplicatesExplained
<1>1. IInv => DuplicatesExplained
  <2> SUFFICES ASSUME IInv, ~SlowSends, NEW l \in Logs PROVE delivered[l] <= 1 + unacked[l]
    BY DEF DuplicatesExplained
  <2>1. delivered[l] \in Nat /\ unacked[l] \in Nat  BY TypeSplit DEF IInv, RestTyped
  <2>2. delivered[l] <= unacked[l] + (IF Landed(l) THEN 1 ELSE 0)  BY DEF IInv, Safe, Delivered
  <2> QED  BY <2>1, <2>2
<1> QED  BY <1>1, Invariance, PTL

(* The cap is applied when a failure is recorded and never when a row is   *)
(* claimed; a restart between the two costs one more attempt, no more.     *)
THEOREM TriesAreBounded == Spec => []AttemptsBounded
<1>1. IInv => AttemptsBounded  BY DEF IInv, Safe, Tried, AttemptsBounded
<1> QED  BY <1>1, Invariance, PTL

(* No late failure of another invocation puts a row that was sent back     *)
(* into the queue; only the catch behind its own SENT write can, and that  *)
(* delivery is counted as a loss.                                          *)
THEOREM SentStays == Spec => SentIsFinal
<1>1. ASSUME IInv, [Next]_vars, ~SlowSends, NEW l \in Logs, status[l] = "SENT"
      PROVE  status'[l] = "SENT" \/ TakenBack(l)
  <2>0. RowTyped /\ JobTyped /\ RestTyped  BY <1>1, TypeSplit DEF IInv
  <2>1. \A w \in Workers : Holds(w, l) => job[w].pc = "failed" /\ job[w].attempts = attempts[l]
    BY <1>1 DEF IInv, Safe, Exclusive, Unsent
  <2>2. ASSUME NEW w \in Workers, RecordSent(w) \/ EmitFails(w) PROVE status'[l] = "SENT"
    BY <2>0, <2>2, <1>1 DEF RecordSent, EmitFails, RowTyped
  <2>3. ASSUME NEW w \in Workers, RecordFailure(w) PROVE status'[l] = "SENT" \/ TakenBack(l)
    <3>1. CASE job[w].log = l
      <4>1. job[w].pc = "failed" /\ job[w].attempts = attempts[l]
        BY <2>1, <2>3, <3>1 DEF Holds, Busy, RecordFailure
      <4>2. unacked'[l] = unacked[l] + 1  BY <2>0, <2>3, <3>1, <1>1 DEF RecordFailure, RestTyped
      <4> QED  BY <3>1, <4>1, <4>2 DEF TakenBack
    <3>2. CASE job[w].log # l
      BY <3>2, <2>0, <2>3, <1>1 DEF RecordFailure, RowTyped
    <3> QED  BY <3>1, <3>2
  <2>4. ASSUME NEW k \in Logs, Queue(k) \/ Cancel(k) PROVE status'[l] = "SENT"
    BY <2>4, <2>0, <1>1 DEF Queue, Cancel, RowTyped
  <2>5. ASSUME UNCHANGED status PROVE status'[l] = "SENT"
    BY <2>5, <1>1
  <2> QED
    BY <1>1, <2>2, <2>3, <2>4, <2>5 DEF Next, vars, Process, WindowEnds, GrowOld, Listen, Retry,
       Claim, ClaimLost, Deliver, Refuse, DeliverAndTimeOut, SentWriteFails, Crash
<1>2. IInv /\ [Next]_vars =>
        [~SlowSends => \A l \in Logs : status[l] = "SENT" =>
           status'[l] = "SENT" \/ TakenBack(l)]_vars
  BY <1>1
<1> QED  BY <1>2, Invariance, PTL DEF Spec, SentIsFinal
=============================================================================
