--------------------- MODULE PaymentReconciliationProofs ---------------------
(***************************************************************************)
(* PaymentReconciliation for any number of intents and of passes, started  *)
(* and killed at any time, over batches of any size.  A verdict is written *)
(* long after the gateway's answer it rests on; the invariant says what    *)
(* stays true in between: the payment was handed over, or the checkout is  *)
(* past taking money in time (Spent), or what parks the row is on record.  *)
(***************************************************************************)
EXTENDS PaymentReconciliation, TLAPS, WellFoundedInduction

PassRecord == [pc : Pcs, todo : SUBSET Intents, tried : [Intents -> 0..MaxVerifyAttempts - 1],
               aged : [Intents -> 0..2], to : {"pending"} \cup Terminal]
RowsTyped ==
  /\ status \in [Intents -> Status]
  /\ attempts \in [Intents -> 0..MaxVerifyAttempts]
  /\ streak \in [Intents -> Nat]
  /\ noted \in [Intents -> 0..MaxVerifyAttempts]
OutsideTyped ==
  /\ age \in [Intents -> 0..2] /\ starting \subseteq Intents
  /\ gw \in [Intents -> GatewayStatus] /\ late \subseteq Intents
LaneTyped ==
  handed \subseteq Intents /\ artifacts \in [Intents -> Nat] /\ recording \subseteq Intents
LogTyped == unseen \subseteq Intents /\ unrecorded \subseteq Intents /\ deaths \in 0..MaxDeaths
PassesTyped ==
  /\ sweep \in [Sweepers -> PassRecord]
  /\ \A s \in Sweepers : sweep[s].pc # "idle" => sweep[s].todo # {}

(* A row a pass works on is no older in its copy than at the gateway; a    *)
(* row that was never written has no checkout.                             *)
Loaded ==
  /\ \A s \in Sweepers : \A i \in sweep[s].todo :
       status[i] # "none" /\ sweep[s].aged[i] <= age[i]
  /\ \A i \in Intents : status[i] = "none" => gw[i] = "none" /\ i \notin starting

(* A pass about to write "resolved" has handed its payment over.           *)
HandedFirst ==
  \A s \in Sweepers :
    sweep[s].pc = "writing" /\ sweep[s].to = "resolved" => Current(s) \in handed

(* Money can arrive no more, or only too late.                             *)
Spent(i) ==
  \/ i \in late \cup unseen
  \/ status[i] # "none" /\ gw[i] = "none" /\ i \notin starting
  \/ gw[i] = "failed"
  \/ gw[i] = "open" /\ age[i] = 2
SpentFirst ==
  /\ \A i \in Intents : status[i] \in {"failed", "abandoned"} => Spent(i)
  /\ \A s \in Sweepers, i \in Intents :
       sweep[s].pc = "writing" /\ sweep[s].to \in {"failed", "abandoned"} /\ i = Current(s)
         => Spent(i)

IInv == TypeOK /\ Loaded /\ HandedFirst /\ ResolvedWasHanded /\ SpentFirst

Others(s) == \A k \in Sweepers \ {s} : sweep'[k] = sweep[k]

-----------------------------------------------------------------------------
LEMMA TypeSplit == TypeOK <=> RowsTyped /\ OutsideTyped /\ LaneTyped /\ LogTyped /\ PassesTyped
  BY Zenon DEF TypeOK, RowsTyped, OutsideTyped, LaneTyped, LogTyped, PassesTyped, PassRecord

LEMMA TypeSplitNext ==
  TypeOK' <=> RowsTyped' /\ OutsideTyped' /\ LaneTyped' /\ LogTyped' /\ PassesTyped'
  BY Zenon DEF TypeOK, RowsTyped, OutsideTyped, LaneTyped, LogTyped, PassesTyped, PassRecord

(* Intents are numbered: a set of them that is not empty has an oldest.    *)
LEMMA OldestExists ==
  ASSUME NEW todo \in SUBSET Intents, todo # {}
  PROVE  LET i == CHOOSE i \in todo : \A j \in todo : i <= j IN i \in todo /\ i \in Intents
<1>1. todo \subseteq Nat  BY IntentAssumption
<1>2. PICK i \in todo : \A j \in todo : <<j, i>> \notin OpToRel(<, Nat)
  BY <1>1, WFMin, NatLessThanWellFounded, Zenon
<1>3. \A j \in todo : ~(j < i)  BY <1>1, <1>2, Zenon DEF OpToRel
<1>4. \A j \in todo : i <= j  BY <1>1, <1>3
<1> QED  BY <1>4

LEMMA CurrentIsDue ==
  ASSUME PassesTyped, NEW s \in Sweepers, sweep[s].todo # {}
  PROVE  Current(s) \in sweep[s].todo /\ Current(s) \in Intents
  BY OldestExists DEF Current, PassesTyped, PassRecord

LEMMA CurrentIsDueNext ==
  ASSUME PassesTyped', NEW s \in Sweepers, sweep'[s].todo # {}
  PROVE  Current(s)' \in sweep'[s].todo /\ Current(s)' \in Intents
  BY OldestExists DEF Current, PassesTyped, PassRecord

LEMMA SameCurrent ==
  ASSUME NEW k, sweep'[k].todo = sweep[k].todo
  PROVE  Current(k)' = Current(k)
  BY DEF Current

LEMMA IdleTyped == Idle \in PassRecord /\ Idle.pc = "idle" /\ Idle.todo = {} /\ Idle.to = "pending"
  BY BoundAssumption DEF Idle, PassRecord, Pcs, Terminal

(* The four ways a pass moves.                                             *)
LEMMA BecomeStep ==
  ASSUME PassesTyped, NEW s \in Sweepers, NEW p \in Pcs, Become(s, p), sweep[s].todo # {}
  PROVE  /\ PassesTyped' /\ Others(s)
         /\ sweep'[s].pc = p /\ sweep'[s].todo = sweep[s].todo /\ sweep'[s].to = sweep[s].to
         /\ sweep'[s].tried = sweep[s].tried /\ sweep'[s].aged = sweep[s].aged
<1> DEFINE r == [sweep[s] EXCEPT !.pc = p]
<1>1. r \in PassRecord /\ r.pc = p /\ r.todo = sweep[s].todo /\ r.to = sweep[s].to
      /\ r.tried = sweep[s].tried /\ r.aged = sweep[s].aged
  BY DEF PassesTyped, PassRecord
<1>2. sweep' = [sweep EXCEPT ![s] = r]  BY DEF Become
<1> HIDE DEF r
<1> QED  BY <1>1, <1>2 DEF PassesTyped, Others

LEMMA DecideStep ==
  ASSUME PassesTyped, NEW s \in Sweepers, NEW t \in {"pending"} \cup Terminal, Decide(s, t),
         sweep[s].todo # {}
  PROVE  /\ PassesTyped' /\ Others(s)
         /\ sweep'[s].pc = "writing" /\ sweep'[s].todo = sweep[s].todo /\ sweep'[s].to = t
         /\ sweep'[s].tried = sweep[s].tried /\ sweep'[s].aged = sweep[s].aged
<1> DEFINE r == [sweep[s] EXCEPT !.pc = "writing", !.to = t]
<1>1. r \in PassRecord /\ r.pc = "writing" /\ r.todo = sweep[s].todo /\ r.to = t
      /\ r.tried = sweep[s].tried /\ r.aged = sweep[s].aged
  BY DEF PassesTyped, PassRecord, Pcs
<1>2. sweep' = [sweep EXCEPT ![s] = r]  BY DEF Decide, PassesTyped, PassRecord
<1> HIDE DEF r
<1> QED  BY <1>1, <1>2 DEF PassesTyped, Others

LEMMA AdvanceStep ==
  ASSUME PassesTyped, NEW s \in Sweepers, Advance(s), sweep[s].todo # {}
  PROVE  /\ PassesTyped' /\ Others(s)
         /\ sweep'[s].pc \in {"idle", "next"}
         /\ sweep'[s].todo \subseteq sweep[s].todo \ {Current(s)}
         /\ \A i \in sweep'[s].todo : /\ sweep'[s].aged[i] = sweep[s].aged[i]
                                      /\ sweep'[s].tried[i] = sweep[s].tried[i]
<1> DEFINE c == Current(s)
           rest == sweep[s].todo \ {c}
           tried == [sweep[s].tried EXCEPT ![c] = 0]
           aged == [sweep[s].aged EXCEPT ![c] = 0]
           r == [sweep[s] EXCEPT !.pc = "next", !.todo = rest, !.to = "pending",
                                 !.tried = tried, !.aged = aged]
<1>1. c \in Intents  BY CurrentIsDue
<1> HIDE DEF c
<1>2. /\ tried \in [Intents -> 0..MaxVerifyAttempts - 1] /\ aged \in [Intents -> 0..2]
      /\ rest \in SUBSET Intents
      /\ \A i \in rest : tried[i] = sweep[s].tried[i] /\ aged[i] = sweep[s].aged[i]
  BY <1>1, BoundAssumption DEF PassesTyped, PassRecord
<1> HIDE DEF tried, aged, rest
<1>3. r \in PassRecord /\ r.pc = "next" /\ r.todo = rest /\ r.tried = tried /\ r.aged = aged
  BY <1>2 DEF PassesTyped, PassRecord, Pcs
<1>4. sweep' = [sweep EXCEPT ![s] = IF rest = {} THEN Idle ELSE r]
  BY DEF Advance, PassesTyped, PassRecord, c, rest, tried, aged
<1> HIDE DEF r
<1>5. CASE rest = {}
  <2>1. sweep' = [sweep EXCEPT ![s] = Idle]  BY <1>4, <1>5
  <2> QED  BY <2>1, IdleTyped DEF PassesTyped, Others
<1>6. CASE rest # {}
  <2>1. sweep' = [sweep EXCEPT ![s] = r]  BY <1>4, <1>6
  <2>2. PassesTyped' /\ Others(s) /\ sweep'[s] = r
    BY <1>3, <1>6, <2>1 DEF PassesTyped, Others
  <2> QED  BY <1>2, <1>3, <2>2 DEF rest, c
<1> QED  BY <1>5, <1>6

-----------------------------------------------------------------------------
(* A step of the gateway, the clock, a webhook or a checkout.              *)
LEMMA OutsideStep ==
  ASSUME IInv, RowsTyped', OutsideTyped', LaneTyped', LogTyped', UNCHANGED sweep,
         handed \subseteq handed',
         \A i \in Intents : \/ status'[i] = status[i] \/ status'[i] = "deleted"
                            \/ status[i] = "none" /\ status'[i] = "pending",
         \A i \in Intents : age[i] <= age'[i],
         \A i \in Intents : status'[i] = "none" => gw'[i] = "none" /\ i \notin starting',
         \A i \in Intents : Spent(i) => Spent(i)'
  PROVE  IInv'
<1>0. TypeOK /\ PassesTyped /\ RowsTyped /\ OutsideTyped  BY TypeSplit DEF IInv
<1>1. PassesTyped'  BY <1>0 DEF PassesTyped
<1>2. TypeOK'  BY <1>1, TypeSplitNext
<1>3. \A s \in Sweepers : Current(s)' = Current(s)  BY SameCurrent
<1>4. Loaded'
  <2>1. ASSUME NEW s \in Sweepers, NEW i \in sweep[s].todo
        PROVE  status'[i] # "none" /\ sweep[s].aged[i] <= age'[i]
    <3>1. i \in Intents /\ status[i] # "none" /\ sweep[s].aged[i] <= age[i]
      BY <1>0 DEF IInv, Loaded, PassesTyped, PassRecord
    <3>2. sweep[s].aged[i] \in 0..2 /\ age[i] \in 0..2 /\ age'[i] \in 0..2
      BY <1>0, <3>1 DEF PassesTyped, PassRecord, OutsideTyped
    <3> QED  BY <3>1, <3>2
  <2> QED  BY <2>1 DEF Loaded
<1>5. HandedFirst'
  <2> SUFFICES ASSUME NEW s \in Sweepers, sweep[s].pc = "writing", sweep[s].to = "resolved"
               PROVE  Current(s)' \in handed'
    BY DEF HandedFirst
  <2>1. Current(s) \in handed  BY DEF IInv, HandedFirst
  <2> QED  BY <1>3, <2>1
<1>6. ResolvedWasHanded'  BY DEF IInv, ResolvedWasHanded
<1>7. SpentFirst'
  <2>1. \A i \in Intents : status'[i] \in {"failed", "abandoned"} => Spent(i)'
    BY DEF IInv, SpentFirst
  <2>2. \A s \in Sweepers, i \in Intents :
          sweep'[s].pc = "writing" /\ sweep'[s].to \in {"failed", "abandoned"} /\ i = Current(s)'
            => Spent(i)'
    BY <1>3 DEF IInv, SpentFirst
  <2> QED  BY <2>1, <2>2, Zenon DEF SpentFirst
<1> QED  BY <1>2, <1>4, <1>5, <1>6, <1>7 DEF IInv

(* A step of a pass.                                                       *)
LEMMA PassStep ==
  ASSUME IInv, NEW s \in Sweepers, PassesTyped', Others(s), RowsTyped', LaneTyped', LogTyped',
         UNCHANGED outside, handed \subseteq handed', unseen \subseteq unseen',
         \A i \in Intents : status[i] = "none" <=> status'[i] = "none",
         \A i \in sweep'[s].todo : i \in sweep[s].todo /\ sweep'[s].aged[i] = sweep[s].aged[i],
         sweep'[s].pc = "writing" /\ sweep'[s].to = "resolved" => Current(s)' \in handed',
         \A i \in Intents :
           sweep'[s].pc = "writing" /\ sweep'[s].to \in {"failed", "abandoned"} /\ i = Current(s)'
             => Spent(i)',
         \A i \in Intents : status'[i] = "resolved" => i \in handed',
         \A i \in Intents : status'[i] \in {"failed", "abandoned"} => Spent(i)
  PROVE  IInv'
<1>0. TypeOK /\ PassesTyped /\ RowsTyped /\ OutsideTyped  BY TypeSplit DEF IInv
<1>1. OutsideTyped'  BY <1>0 DEF OutsideTyped, outside
<1>2. TypeOK'  BY <1>1, TypeSplitNext
<1>3. \A k \in Sweepers : k # s => sweep'[k] = sweep[k] /\ Current(k)' = Current(k)
  BY SameCurrent DEF Others
<1>4. Loaded'
  <2>1. ASSUME NEW k \in Sweepers, NEW i \in sweep'[k].todo
        PROVE  status'[i] # "none" /\ sweep'[k].aged[i] <= age'[i]
    <3>1. i \in sweep[k].todo /\ sweep'[k].aged[i] = sweep[k].aged[i]
      BY <1>3, <2>1
    <3>2. i \in Intents /\ status[i] # "none" /\ sweep[k].aged[i] <= age[i]
      BY <1>0, <3>1 DEF IInv, Loaded, PassesTyped, PassRecord
    <3> QED  BY <3>1, <3>2 DEF outside
  <2> QED  BY <2>1 DEF IInv, Loaded, outside
<1>5. HandedFirst'
  <2> SUFFICES ASSUME NEW k \in Sweepers, sweep'[k].pc = "writing", sweep'[k].to = "resolved"
               PROVE  Current(k)' \in handed'
    BY DEF HandedFirst
  <2> QED  BY <1>3 DEF IInv, HandedFirst
<1>6. ResolvedWasHanded'  BY DEF ResolvedWasHanded
<1>7. SpentFirst'
  <2>1. \A i \in Intents : Spent(i) => Spent(i)'  BY DEF Spent, outside
  <2>2. \A i \in Intents : status'[i] \in {"failed", "abandoned"} => Spent(i)'  BY <2>1
  <2>3. ASSUME NEW k \in Sweepers, NEW i \in Intents, sweep'[k].pc = "writing",
               sweep'[k].to \in {"failed", "abandoned"}, i = Current(k)'
        PROVE  Spent(i)'
    <3>1. CASE k = s  BY <2>3, <3>1
    <3>2. CASE k # s  BY <1>3, <2>1, <2>3, <3>2 DEF IInv, SpentFirst
    <3> QED  BY <3>1, <3>2
  <2> QED  BY <2>2, <2>3, Zenon DEF SpentFirst
<1> QED  BY <1>2, <1>4, <1>5, <1>6, <1>7 DEF IInv

-----------------------------------------------------------------------------
(* The checkout, the tenant, the clock and the webhook.                    *)
LEMMA RecordIntentKeeps ==
  ASSUME IInv, NEW i \in Intents, RecordIntent(i)
  PROVE  IInv'
<1>0. RowsTyped /\ OutsideTyped /\ LaneTyped /\ LogTyped  BY TypeSplit DEF IInv
<1>1. /\ status[i] = "none" /\ status' = [status EXCEPT ![i] = "pending"]
      /\ starting' = starting \cup {i}
      /\ UNCHANGED <<attempts, age, late, handed, artifacts, recording, sweep, deaths, streak,
                     noted, unseen, unrecorded>>
  BY DEF RecordIntent, lane, log
<1>2. PICK g \in {"none", "open"} : gw' = [gw EXCEPT ![i] = g]  BY DEF RecordIntent
<1>3. RowsTyped' /\ OutsideTyped' /\ LaneTyped' /\ LogTyped'
  BY <1>0, <1>1, <1>2 DEF RowsTyped, OutsideTyped, LaneTyped, LogTyped, Status, GatewayStatus
<1>4. \A k \in Intents : IF k = i THEN status'[k] = "pending" ELSE status'[k] = status[k]
  BY <1>0, <1>1 DEF RowsTyped
<1>5. \A k \in Intents : k # i => gw'[k] = gw[k]  BY <1>0, <1>2 DEF OutsideTyped
<1>6. \A k \in Intents : age[k] <= age'[k]  BY <1>0, <1>1 DEF OutsideTyped
<1>7. \A k \in Intents : status'[k] = "none" => gw'[k] = "none" /\ k \notin starting'
  BY <1>1, <1>4, <1>5 DEF IInv, Loaded
<1>8. Spent(i) => Spent(i)'
  <2>1. gw[i] = "none"  BY <1>1 DEF IInv, Loaded
  <2> QED  BY <1>1, <2>1 DEF Spent
<1>9. \A k \in Intents : Spent(k) => Spent(k)'  BY <1>1, <1>4, <1>5, <1>8 DEF Spent
<1> QED  BY <1>1, <1>3, <1>4, <1>6, <1>7, <1>9, OutsideStep

LEMMA InitEndsKeeps ==
  ASSUME IInv, NEW i \in Intents,
         InitReachesGateway(i) \/ InitNeverArrives(i) \/ InitRefused(i)
  PROVE  IInv'
<1>0. RowsTyped /\ OutsideTyped /\ LaneTyped /\ LogTyped  BY TypeSplit DEF IInv
<1>1. /\ i \in starting /\ starting' = starting \ {i}
      /\ gw' = gw \/ (gw[i] = "none" /\ gw' = [gw EXCEPT ![i] = "open"])
      /\ status' = status \/ status' = [status EXCEPT ![i] = "deleted"]
      /\ UNCHANGED <<attempts, streak, noted, age, late, handed, artifacts, recording, sweep,
                     deaths, unseen, unrecorded>>
  BY DEF InitReachesGateway, InitNeverArrives, InitRefused, rows, lane, log
<1>2. RowsTyped' /\ LaneTyped' /\ OutsideTyped' /\ LogTyped'
  BY <1>0, <1>1 DEF RowsTyped, OutsideTyped, LaneTyped, LogTyped, GatewayStatus, Status
<1>3. /\ \A k \in Intents : k # i => gw'[k] = gw[k]
      /\ gw'[i] = gw[i] \/ gw[i] = "none"
      /\ \A k \in Intents : status'[k] = status[k] \/ status'[k] = "deleted"
  BY <1>0, <1>1 DEF OutsideTyped, RowsTyped
<1>4. \A k \in Intents : age[k] <= age'[k]  BY <1>0, <1>1 DEF OutsideTyped
<1>5. \A k \in Intents : status'[k] = "none" => gw'[k] = "none" /\ k \notin starting'
  BY <1>1, <1>3 DEF IInv, Loaded
<1>6. \A k \in Intents : Spent(k) => Spent(k)'  BY <1>1, <1>3 DEF Spent
<1> QED  BY <1>1, <1>2, <1>3, <1>4, <1>5, <1>6, OutsideStep

LEMMA GatewayMovesKeeps ==
  ASSUME IInv, NEW i \in Intents, Pay(i) \/ CheckoutDies(i)
  PROVE  IInv'
<1>0. RowsTyped /\ OutsideTyped /\ LaneTyped /\ LogTyped  BY TypeSplit DEF IInv
<1>1. PICK g \in {"success", "held", "failed"} :
        /\ gw' = [gw EXCEPT ![i] = g]
        /\ gw[i] \in {"open", "failed"}
        /\ g # "failed" /\ (gw[i] = "failed" \/ age[i] = 2) => i \in late'
  BY PaymentAssumption DEF Pay, CheckoutDies
<1>2. /\ UNCHANGED <<status, attempts, streak, noted, age, starting, handed, artifacts,
                     recording, sweep, deaths, unseen, unrecorded>>
      /\ late \subseteq late' /\ late' \subseteq late \cup {i}
  BY DEF Pay, CheckoutDies, rows, lane, log
<1>3. RowsTyped' /\ LaneTyped' /\ OutsideTyped' /\ LogTyped'
  BY <1>0, <1>1, <1>2 DEF RowsTyped, OutsideTyped, LaneTyped, LogTyped, GatewayStatus
<1>4. \A k \in Intents : IF k = i THEN gw'[k] = g ELSE gw'[k] = gw[k]
  BY <1>0, <1>1 DEF OutsideTyped
<1>5. \A k \in Intents : age[k] <= age'[k]  BY <1>0, <1>2 DEF OutsideTyped
<1>6. \A k \in Intents : status'[k] = "none" => gw'[k] = "none" /\ k \notin starting'
  BY <1>1, <1>2, <1>4 DEF IInv, Loaded
<1>7. \A k \in Intents : Spent(k) => Spent(k)'
  BY <1>1, <1>2, <1>4 DEF Spent
<1> QED  BY <1>2, <1>3, <1>5, <1>6, <1>7, OutsideStep

LEMMA TickKeeps ==
  ASSUME IInv, NEW i \in Intents, Tick(i)
  PROVE  IInv'
<1>0. RowsTyped /\ OutsideTyped /\ LaneTyped /\ LogTyped  BY TypeSplit DEF IInv
<1>1. /\ age[i] < 2 /\ age' = [age EXCEPT ![i] = @ + 1]
      /\ UNCHANGED <<status, attempts, streak, noted, starting, gw, late, handed, artifacts,
                     recording, sweep, deaths, unseen, unrecorded>>
  BY DEF Tick, rows, lane, log
<1>2. RowsTyped' /\ LaneTyped' /\ OutsideTyped' /\ LogTyped'
  BY <1>0, <1>1 DEF RowsTyped, OutsideTyped, LaneTyped, LogTyped
<1>3. \A k \in Intents : age[k] <= age'[k] /\ (age[k] = 2 => age'[k] = 2)
  BY <1>0, <1>1 DEF OutsideTyped
<1>4. \A k \in Intents : Spent(k) => Spent(k)'  BY <1>1, <1>3 DEF Spent
<1> QED  BY <1>1, <1>2, <1>3, <1>4, OutsideStep DEF IInv, Loaded

LEMMA ReportKeeps ==
  ASSUME IInv, NEW i \in Intents, Report(i)
  PROVE  IInv'
<1>0. RowsTyped /\ OutsideTyped /\ LaneTyped /\ LogTyped  BY TypeSplit DEF IInv
<1>1. /\ handed' \in {handed, handed \cup {i}}
      /\ artifacts' = artifacts \/ artifacts' = [artifacts EXCEPT ![i] = @ + 1]
      /\ recording' \subseteq recording \cup {i}
      /\ UNCHANGED <<status, attempts, streak, noted, age, starting, gw, late, sweep, deaths,
                     unseen, unrecorded>>
  BY DEF Report, Webhook, ReportHeld, RecordReport, rows, outside, log
<1>2. RowsTyped' /\ LaneTyped' /\ OutsideTyped' /\ LogTyped'
  BY <1>0, <1>1 DEF RowsTyped, OutsideTyped, LaneTyped, LogTyped
<1>3. \A k \in Intents : age[k] <= age'[k]  BY <1>0, <1>1 DEF OutsideTyped
<1>4. \A k \in Intents : Spent(k) => Spent(k)'  BY <1>1 DEF Spent
<1> QED  BY <1>1, <1>2, <1>3, <1>4, OutsideStep DEF IInv, Loaded

-----------------------------------------------------------------------------
(* The steps of a pass.                                                    *)
LEMMA StartPassKeeps ==
  ASSUME IInv, NEW s \in Sweepers, StartPass(s)
  PROVE  IInv'
<1> DEFINE r == [pc |-> "next", todo |-> Batch, to |-> "pending",
                 tried |-> [i \in Intents |-> IF i \in Batch THEN attempts[i] ELSE 0],
                 aged |-> [i \in Intents |-> IF i \in Batch THEN age[i] ELSE 0]]
<1>0. RowsTyped /\ OutsideTyped /\ LaneTyped /\ LogTyped /\ PassesTyped  BY TypeSplit DEF IInv
<1>1. Batch # {} /\ sweep' = [sweep EXCEPT ![s] = r]
      /\ UNCHANGED <<rows, outside, lane, deaths, log>>
  BY DEF StartPass
<1>2. Batch \subseteq Intents
      /\ \A i \in Batch : status[i] = "pending" /\ attempts[i] < MaxVerifyAttempts
  BY DEF Batch, Due
<1> HIDE DEF Batch
<1>3. r \in PassRecord
  <2>1. [i \in Intents |-> IF i \in Batch THEN attempts[i] ELSE 0]
          \in [Intents -> 0..MaxVerifyAttempts - 1]
    BY <1>0, <1>2, BoundAssumption DEF RowsTyped
  <2>2. [i \in Intents |-> IF i \in Batch THEN age[i] ELSE 0] \in [Intents -> 0..2]
    BY <1>0 DEF OutsideTyped
  <2> QED  BY <1>2, <2>1, <2>2 DEF PassRecord, Pcs
<1>4. r.pc = "next" /\ r.todo = Batch /\ \A i \in Batch : r.aged[i] = age[i]
  BY <1>2
<1> HIDE DEF r
<1>5. PassesTyped' /\ Others(s) /\ sweep'[s] = r
  BY <1>0, <1>1, <1>3, <1>4 DEF PassesTyped, Others
<1>6. UNCHANGED <<status, attempts, streak, noted, age, starting, gw, late, handed, artifacts,
                   recording, deaths, unseen, unrecorded>>
  BY <1>1 DEF rows, outside, lane, log
<1>7. TypeOK'
  <2>1. RowsTyped' /\ OutsideTyped' /\ LaneTyped' /\ LogTyped'
    BY <1>0, <1>6 DEF RowsTyped, OutsideTyped, LaneTyped, LogTyped
  <2> QED  BY <1>5, <2>1, TypeSplitNext
<1>8. \A k \in Sweepers : k # s => sweep'[k] = sweep[k] /\ Current(k)' = Current(k)
  BY <1>5, SameCurrent DEF Others
<1>9. Loaded'
  <2>1. ASSUME NEW i \in Batch PROVE status[i] # "none" /\ r.aged[i] <= age[i]
    BY <1>0, <1>2, <1>4 DEF OutsideTyped
  <2>2. \A k \in Sweepers : \A i \in sweep'[k].todo :
          status[i] # "none" /\ sweep'[k].aged[i] <= age[i]
    BY <1>4, <1>5, <1>8, <2>1 DEF IInv, Loaded
  <2> QED  BY <1>6, <2>2 DEF IInv, Loaded
<1>10. HandedFirst'  BY <1>4, <1>5, <1>6, <1>8 DEF IInv, HandedFirst
<1>11. ResolvedWasHanded'  BY <1>6 DEF IInv, ResolvedWasHanded
<1>12. SpentFirst'
  <2>1. \A i \in Intents : Spent(i) => Spent(i)'  BY <1>6 DEF Spent
  <2>2. \A i \in Intents : status'[i] \in {"failed", "abandoned"} => Spent(i)'
    BY <1>6, <2>1 DEF IInv, SpentFirst
  <2>3. ASSUME NEW k \in Sweepers, NEW i \in Intents, sweep'[k].pc = "writing",
               sweep'[k].to \in {"failed", "abandoned"}, i = Current(k)'
        PROVE  Spent(i)'
    BY <1>4, <1>5, <1>8, <2>1, <2>3 DEF IInv, SpentFirst
  <2> QED  BY <2>2, <2>3, Zenon DEF SpentFirst
<1> QED  BY <1>7, <1>9, <1>10, <1>11, <1>12 DEF IInv

(* Steps that write nothing and take no verdict.                           *)
LEMMA QuietPassStep ==
  ASSUME IInv, NEW s \in Sweepers, NEW p \in Pcs \ {"writing"}, Become(s, p), sweep[s].todo # {},
         UNCHANGED <<rows, outside, lane, deaths, log>>
  PROVE  IInv'
<1>0. RowsTyped /\ LaneTyped /\ LogTyped /\ PassesTyped  BY TypeSplit DEF IInv
<1>1. PassesTyped' /\ Others(s) /\ sweep'[s].pc = p /\ sweep'[s].todo = sweep[s].todo
      /\ sweep'[s].aged = sweep[s].aged
  BY <1>0, BecomeStep
<1>2. RowsTyped' /\ LaneTyped' /\ LogTyped' /\ UNCHANGED <<status, handed, unseen>>
  BY <1>0 DEF RowsTyped, LaneTyped, LogTyped, rows, lane, log
<1> QED  BY <1>1, <1>2, PassStep DEF IInv, ResolvedWasHanded, SpentFirst

(* Steps that decide a verdict.                                            *)
LEMMA DecidePassStep ==
  ASSUME IInv, NEW s \in Sweepers, NEW t \in {"pending"} \cup Terminal, Decide(s, t),
         sweep[s].todo # {}, UNCHANGED <<rows, outside>>, LaneTyped', LogTyped',
         handed \subseteq handed', unseen \subseteq unseen',
         t = "resolved" => Current(s) \in handed',
         \A i \in Intents : t \in {"failed", "abandoned"} /\ i = Current(s) => Spent(i)'
  PROVE  IInv'
<1>0. RowsTyped /\ PassesTyped  BY TypeSplit DEF IInv
<1>1. PassesTyped' /\ Others(s) /\ sweep'[s].pc = "writing" /\ sweep'[s].todo = sweep[s].todo
      /\ sweep'[s].to = t /\ sweep'[s].aged = sweep[s].aged
  BY <1>0, DecideStep
<1>2. RowsTyped' /\ status' = status  BY <1>0 DEF RowsTyped, rows
<1>3. Current(s)' = Current(s)  BY <1>1, SameCurrent
<1>4. t = "resolved" => Current(s)' \in handed'  BY <1>3
<1>5. \A i \in Intents : t \in {"failed", "abandoned"} /\ i = Current(s)' => Spent(i)'  BY <1>3
<1>6. \A i \in Intents : status'[i] = "resolved" => i \in handed'
  BY <1>2 DEF IInv, ResolvedWasHanded
<1>7. \A i \in Intents : status'[i] \in {"failed", "abandoned"} => Spent(i)
  BY <1>2 DEF IInv, SpentFirst
<1> QED  BY <1>1, <1>2, <1>4, <1>5, <1>6, <1>7, PassStep

LEMMA AsksKeep ==
  ASSUME IInv, NEW s \in Sweepers,
         VerifySuccess(s) \/ VerifyMoneyHeld(s) \/ Throws(s) \/ ArtifactMissing(s)
  PROVE  IInv'
<1>0. PassesTyped  BY TypeSplit DEF IInv
<1>1. sweep[s].todo # {}
  BY <1>0 DEF VerifySuccess, VerifyMoneyHeld, Throws, ArtifactMissing, PassesTyped
<1>2. \E p \in Pcs \ {"writing"} : Become(s, p)
  BY DEF VerifySuccess, VerifyMoneyHeld, Throws, ArtifactMissing, Pcs
<1>3. UNCHANGED <<rows, outside, lane, deaths, log>>
  BY DEF VerifySuccess, VerifyMoneyHeld, Throws, ArtifactMissing
<1> QED  BY <1>1, <1>2, <1>3, QuietPassStep

(* The heart of it: money that comes after the answer a verdict rests on   *)
(* comes too late, or the question was put too early.                      *)
LEMMA VerifyNoMoneyKeeps ==
  ASSUME IInv, NEW s \in Sweepers, VerifyNoMoney(s)
  PROVE  IInv'
<1>0. PassesTyped /\ OutsideTyped /\ LaneTyped /\ LogTyped  BY TypeSplit DEF IInv
<1>1. sweep[s].pc = "next" /\ sweep[s].todo # {}
  BY <1>0 DEF VerifyNoMoney, PassesTyped
<1>2. PICK c \in Intents : c = Current(s) /\ c \in sweep[s].todo  BY <1>0, <1>1, CurrentIsDue
<1>3. /\ gw[c] # "success" /\ gw[c] # "held" /\ Decide(s, Verdict(s))
      /\ unseen' = unseen \cup {i \in starting : i = c /\ gw[i] = "none"}
      /\ UNCHANGED <<rows, outside, lane, deaths, unrecorded>>
  BY <1>2 DEF VerifyNoMoney, HoldsMoney
<1>4. /\ Verdict(s) \in {"pending", "failed", "abandoned"}
      /\ Verdict(s) = "failed" => gw[c] \in {"none", "failed"}
      /\ Verdict(s) = "abandoned" => gw[c] \notin {"none", "failed"} /\ sweep[s].aged[c] = 2
  BY <1>2 DEF Verdict
<1>5. status[c] # "none" /\ sweep[s].aged[c] <= age[c] /\ gw[c] \in GatewayStatus
      /\ age[c] \in 0..2 /\ sweep[s].aged[c] \in 0..2
  BY <1>0, <1>2 DEF IInv, Loaded, OutsideTyped, PassesTyped, PassRecord
<1>6. UNCHANGED <<status, age, starting, gw, late>>  BY <1>3 DEF rows, outside
<1>7. Verdict(s) \in {"failed", "abandoned"} => Spent(c)'
  <2>1. CASE Verdict(s) = "failed"  BY <1>3, <1>4, <1>5, <1>6, <2>1 DEF Spent
  <2>2. CASE Verdict(s) = "abandoned"
    <3>1. age[c] = 2  BY <1>4, <1>5, <2>2
    <3>2. gw[c] = "open"  BY <1>3, <1>4, <1>5, <2>2 DEF GatewayStatus
    <3> QED  BY <1>6, <3>1, <3>2 DEF Spent
  <2>3. CASE Verdict(s) = "pending"  BY <2>3
  <2> QED  BY <1>4, <2>1, <2>2, <2>3
<1>8. LaneTyped' /\ LogTyped' /\ UNCHANGED handed
  BY <1>0, <1>3 DEF LaneTyped, LogTyped, lane, OutsideTyped
<1>9. Verdict(s) \in {"pending"} \cup Terminal  BY <1>4 DEF Terminal
<1>10. \A i \in Intents : Verdict(s) \in {"failed", "abandoned"} /\ i = Current(s) => Spent(i)'
  BY <1>2, <1>7
<1>11. Verdict(s) # "resolved" /\ UNCHANGED <<rows, outside>> /\ unseen \subseteq unseen'
  BY <1>3, <1>4
<1> QED  BY <1>1, <1>3, <1>8, <1>9, <1>10, <1>11, DecidePassStep

LEMMA DispatchKeeps ==
  ASSUME IInv, NEW s \in Sweepers, Dispatch(s)
  PROVE  IInv'
<1>0. PassesTyped /\ LaneTyped /\ LogTyped  BY TypeSplit DEF IInv
<1>1. /\ sweep[s].pc = "paid" /\ handed' = handed \cup {Current(s)} /\ Decide(s, "resolved")
      /\ UNCHANGED <<rows, outside, artifacts, recording, deaths, log>>
  BY DEF Dispatch
<1>2. sweep[s].todo # {}  BY <1>0, <1>1 DEF PassesTyped
<1>3. Current(s) \in Intents  BY <1>0, <1>2, CurrentIsDue
<1>4. LaneTyped' /\ LogTyped' /\ UNCHANGED unseen
  BY <1>0, <1>1, <1>3 DEF LaneTyped, LogTyped, log
<1> QED  BY <1>1, <1>2, <1>4, DecidePassStep DEF Terminal

LEMMA ArtifactKeeps ==
  ASSUME IInv, NEW s \in Sweepers, ArtifactExists(s) \/ InsertArtifact(s) \/ ArtifactFails(s)
  PROVE  IInv'
<1>0. PassesTyped /\ LaneTyped /\ LogTyped  BY TypeSplit DEF IInv
<1>1. /\ sweep[s].pc \in {"held", "inserting"} /\ Decide(s, AfterArtifact(s))
      /\ UNCHANGED <<rows, outside, handed, recording, deaths, unseen>>
      /\ artifacts' = artifacts \/ artifacts' = [artifacts EXCEPT ![Current(s)] = @ + 1]
      /\ unrecorded' \subseteq unrecorded \cup {Current(s)}
  BY DEF ArtifactExists, InsertArtifact, ArtifactFails, lane, log
<1>2. sweep[s].todo # {}  BY <1>0, <1>1 DEF PassesTyped
<1>3. Current(s) \in Intents  BY <1>0, <1>2, CurrentIsDue
<1>4. LaneTyped' /\ LogTyped'  BY <1>0, <1>1, <1>3 DEF LaneTyped, LogTyped
<1>5. AfterArtifact(s) \in {"pending", "error"}  BY DEF AfterArtifact
<1> QED  BY <1>1, <1>2, <1>4, <1>5, DecidePassStep DEF Terminal

LEMMA WriteVerdictKeeps ==
  ASSUME IInv, NEW s \in Sweepers, WriteVerdict(s)
  PROVE  IInv'
<1> DEFINE c == Current(s)
           to == sweep[s].to
<1>0. PassesTyped /\ RowsTyped /\ LaneTyped /\ LogTyped  BY TypeSplit DEF IInv
<1>1. /\ sweep[s].pc = "writing"
      /\ status' = [status EXCEPT ![c] = IF to = "pending" \/ @ = "deleted" THEN @ ELSE to]
      /\ attempts' = [attempts EXCEPT ![c] = IF to = "error" THEN @ ELSE 0]
      /\ streak' = [streak EXCEPT ![c] = IF to = "error" THEN @ ELSE 0]
      /\ Advance(s) /\ UNCHANGED <<noted, outside, lane, deaths, log>>
  BY DEF WriteVerdict
<1>2. sweep[s].todo # {}  BY <1>0, <1>1 DEF PassesTyped
<1>3. c \in sweep[s].todo /\ c \in Intents  BY <1>0, <1>2, CurrentIsDue
<1>4. to = "resolved" => c \in handed  BY <1>1 DEF IInv, HandedFirst
<1>5. to \in {"failed", "abandoned"} => Spent(c)
  BY <1>1, <1>3 DEF IInv, SpentFirst
<1>6. to \in {"pending"} \cup Terminal /\ status[c] # "none"
  BY <1>0, <1>3 DEF PassesTyped, PassRecord, IInv, Loaded
<1> HIDE DEF c, to
<1>7. PassesTyped' /\ Others(s) /\ sweep'[s].pc \in {"idle", "next"}
      /\ \A i \in sweep'[s].todo : i \in sweep[s].todo /\ sweep'[s].aged[i] = sweep[s].aged[i]
  BY <1>0, <1>1, <1>2, AdvanceStep
<1>8. RowsTyped'  BY <1>0, <1>1, <1>3, <1>6, BoundAssumption DEF RowsTyped, Status
<1>9. LaneTyped' /\ LogTyped' /\ UNCHANGED <<handed, unseen>>
  BY <1>0, <1>1 DEF LaneTyped, LogTyped, lane, log
<1>10. \A i \in Intents : i # c => status'[i] = status[i]  BY <1>0, <1>1 DEF RowsTyped
<1>11. status'[c] = IF to = "pending" \/ status[c] = "deleted" THEN status[c] ELSE to
  BY <1>0, <1>1, <1>3 DEF RowsTyped
<1>12. \A i \in Intents : status[i] = "none" <=> status'[i] = "none"
  BY <1>6, <1>10, <1>11 DEF Terminal
<1>13. \A i \in Intents : status'[i] = "resolved" => i \in handed'
  BY <1>4, <1>9, <1>10, <1>11 DEF IInv, ResolvedWasHanded
<1>14. \A i \in Intents : status'[i] \in {"failed", "abandoned"} => Spent(i)
  BY <1>5, <1>10, <1>11 DEF IInv, SpentFirst
<1> QED  BY <1>1, <1>7, <1>8, <1>9, <1>12, <1>13, <1>14, PassStep

(* noteError counts the error on the row, and on no other.                 *)
LEMMA NotedStep ==
  ASSUME RowsTyped, NEW c \in Intents, NEW n \in 0..MaxVerifyAttempts, Noted(c, n),
         UNCHANGED status
  PROVE  /\ RowsTyped'
         /\ attempts'[c] = n /\ streak'[c] = streak[c] + 1
         /\ noted'[c] = IF noted[c] < MaxVerifyAttempts THEN noted[c] + 1 ELSE noted[c]
         /\ \A i \in Intents \ {c} : attempts'[i] = attempts[i] /\ noted'[i] = noted[i]
<1>1. /\ attempts' = [attempts EXCEPT ![c] = n]
      /\ streak' = [streak EXCEPT ![c] = @ + 1]
      /\ noted' = [noted EXCEPT ![c] = IF @ < MaxVerifyAttempts THEN @ + 1 ELSE @]
  BY DEF Noted
<1>2. noted[c] \in 0..MaxVerifyAttempts
      /\ noted[c] < MaxVerifyAttempts => noted[c] + 1 \in 0..MaxVerifyAttempts
  BY BoundAssumption DEF RowsTyped
<1> QED  BY <1>1, <1>2 DEF RowsTyped

LEMMA NoteErrorKeeps ==
  ASSUME IInv, NEW s \in Sweepers, NoteError(s)
  PROVE  IInv'
<1> DEFINE c == Current(s)
           n == sweep[s].tried[c] + 1
<1>0. PassesTyped /\ RowsTyped /\ LaneTyped /\ LogTyped  BY TypeSplit DEF IInv
<1>1. /\ sweep[s].pc = "errored" /\ Noted(c, n)
      /\ Become(s, "parking") \/ Advance(s)
      /\ UNCHANGED <<status, outside, lane, deaths, log>>
  BY DEF NoteError
<1>2. sweep[s].todo # {}  BY <1>0, <1>1 DEF PassesTyped
<1>3. c \in Intents  BY <1>0, <1>2, CurrentIsDue
<1>4. n \in 0..MaxVerifyAttempts
  BY <1>0, <1>3, BoundAssumption DEF PassesTyped, PassRecord
<1> HIDE DEF c, n
<1>5. RowsTyped'  BY <1>0, <1>1, <1>3, <1>4, NotedStep
<1>6. LaneTyped' /\ LogTyped' /\ UNCHANGED <<handed, unseen>>
  BY <1>0, <1>1 DEF LaneTyped, LogTyped, lane, log
<1>7. PassesTyped' /\ Others(s) /\ sweep'[s].pc # "writing"
      /\ \A i \in sweep'[s].todo : i \in sweep[s].todo /\ sweep'[s].aged[i] = sweep[s].aged[i]
  <2>1. CASE Become(s, "parking")  BY <1>0, <1>2, <2>1, BecomeStep DEF Pcs
  <2>2. CASE Advance(s)  BY <1>0, <1>2, <2>2, AdvanceStep
  <2> QED  BY <1>1, <2>1, <2>2
<1> QED  BY <1>1, <1>5, <1>6, <1>7, PassStep DEF IInv, ResolvedWasHanded, SpentFirst

LEMMA ParkKeeps ==
  ASSUME IInv, NEW s \in Sweepers, Park(s)
  PROVE  IInv'
<1> DEFINE c == Current(s)
<1>0. PassesTyped /\ RowsTyped /\ LaneTyped /\ LogTyped  BY TypeSplit DEF IInv
<1>1. /\ sweep[s].pc = "parking" /\ Advance(s)
      /\ status' = [status EXCEPT ![c] = IF @ = "deleted" THEN @ ELSE "error"]
      /\ UNCHANGED <<attempts, streak, noted, outside, lane, deaths, log>>
  BY DEF Park
<1>2. sweep[s].todo # {}  BY <1>0, <1>1 DEF PassesTyped
<1>3. c \in sweep[s].todo /\ c \in Intents  BY <1>0, <1>2, CurrentIsDue
<1>4. status[c] # "none"  BY <1>3 DEF IInv, Loaded
<1> HIDE DEF c
<1>5. PassesTyped' /\ Others(s) /\ sweep'[s].pc # "writing"
      /\ \A i \in sweep'[s].todo : i \in sweep[s].todo /\ sweep'[s].aged[i] = sweep[s].aged[i]
  BY <1>0, <1>1, <1>2, AdvanceStep
<1>6. RowsTyped' /\ LaneTyped' /\ LogTyped' /\ UNCHANGED <<handed, unseen>>
  BY <1>0, <1>1, <1>3 DEF RowsTyped, LaneTyped, LogTyped, Status, Terminal, lane, log
<1>7. \A i \in Intents : status'[i] = status[i] \/ (i = c /\ status'[i] = "error")
  BY <1>0, <1>1 DEF RowsTyped
<1> QED  BY <1>1, <1>4, <1>5, <1>6, <1>7, PassStep DEF IInv, ResolvedWasHanded, SpentFirst

LEMMA PassDiesKeeps ==
  ASSUME IInv, NEW s \in Sweepers, PassDies(s)
  PROVE  IInv'
<1>0. PassesTyped /\ RowsTyped /\ LaneTyped /\ LogTyped  BY TypeSplit DEF IInv
<1>1. /\ sweep' = [sweep EXCEPT ![s] = Idle] /\ deaths < MaxDeaths /\ deaths' = deaths + 1
      /\ UNCHANGED <<rows, outside, lane, log>>
  BY DEF PassDies
<1>2. PassesTyped' /\ Others(s) /\ sweep'[s].pc = "idle" /\ sweep'[s].todo = {}
  BY <1>0, <1>1, IdleTyped DEF PassesTyped, Others
<1>3. RowsTyped' /\ LaneTyped' /\ LogTyped' /\ UNCHANGED <<status, handed, unseen>>
  BY <1>0, <1>1, PaymentAssumption DEF RowsTyped, LaneTyped, LogTyped, rows, lane, log
<1> QED  BY <1>1, <1>2, <1>3, PassStep DEF IInv, ResolvedWasHanded, SpentFirst

-----------------------------------------------------------------------------
LEMMA InitInvariant == Init => IInv
<1> SUFFICES ASSUME Init PROVE IInv
  OBVIOUS
<1>1. /\ status = [i \in Intents |-> "none"]
      /\ attempts = [i \in Intents |-> 0] /\ age = [i \in Intents |-> 0]
      /\ starting = {} /\ gw = [i \in Intents |-> "none"]
      /\ handed = {} /\ artifacts = [i \in Intents |-> 0] /\ recording = {} /\ late = {}
      /\ unseen = {} /\ unrecorded = {} /\ deaths = 0 /\ noted = [i \in Intents |-> 0]
      /\ sweep = [s \in Sweepers |-> Idle] /\ streak = [i \in Intents |-> 0]
  BY DEF Init
<1>2. \A s \in Sweepers : sweep[s].pc = "idle" /\ sweep[s].todo = {}
  BY <1>1, IdleTyped
<1>3. RowsTyped /\ OutsideTyped /\ LaneTyped /\ LogTyped
  BY <1>1, BoundAssumption, PaymentAssumption
  DEF RowsTyped, OutsideTyped, LaneTyped, LogTyped, Status, GatewayStatus
<1>4. PassesTyped  BY <1>1, <1>2, IdleTyped DEF PassesTyped
<1>5. TypeOK  BY <1>3, <1>4, TypeSplit
<1> QED
  BY <1>1, <1>2, <1>5 DEF IInv, Loaded, HandedFirst, ResolvedWasHanded, SpentFirst

LEMMA StepInvariant == IInv /\ [Next]_vars => IInv'
<1> SUFFICES ASSUME IInv, [Next]_vars PROVE IInv'
  OBVIOUS
<1>1. ASSUME NEW s \in Sweepers, StartPass(s) PROVE IInv'  BY <1>1, StartPassKeeps
<1>2. ASSUME NEW s \in Sweepers, Step(s) PROVE IInv'
  <2>1. CASE VerifySuccess(s) \/ VerifyMoneyHeld(s) \/ Throws(s) \/ ArtifactMissing(s)
    BY <2>1, AsksKeep
  <2>2. CASE VerifyNoMoney(s)  BY <2>2, VerifyNoMoneyKeeps
  <2>3. CASE Dispatch(s)  BY <2>3, DispatchKeeps
  <2>4. CASE ArtifactExists(s) \/ InsertArtifact(s) \/ ArtifactFails(s)  BY <2>4, ArtifactKeeps
  <2>5. CASE WriteVerdict(s)  BY <2>5, WriteVerdictKeeps
  <2>6. CASE NoteError(s)  BY <2>6, NoteErrorKeeps
  <2>7. CASE Park(s)  BY <2>7, ParkKeeps
  <2> QED  BY <1>2, <2>1, <2>2, <2>3, <2>4, <2>5, <2>6, <2>7, Zenon DEF Step
<1>3. ASSUME NEW s \in Sweepers, PassDies(s) PROVE IInv'  BY <1>3, PassDiesKeeps
<1>4. ASSUME NEW i \in Intents, Checkout(i) PROVE IInv'
  BY <1>4, RecordIntentKeeps, InitEndsKeeps, Zenon DEF Checkout
<1>5. ASSUME NEW i \in Intents, Pay(i) \/ CheckoutDies(i) PROVE IInv'  BY <1>5, GatewayMovesKeeps
<1>6. ASSUME NEW i \in Intents, Tick(i) PROVE IInv'  BY <1>6, TickKeeps
<1>7. ASSUME NEW i \in Intents, Report(i) PROVE IInv'  BY <1>7, ReportKeeps
<1>8. CASE UNCHANGED vars
  <2>1. UNCHANGED <<status, attempts, age, starting, gw, handed, artifacts, recording, sweep,
                    deaths, streak, noted, late, unseen, unrecorded>>
    BY <1>8, Zenon DEF vars
  <2>2. RowsTyped /\ OutsideTyped /\ LaneTyped /\ LogTyped  BY TypeSplit DEF IInv
  <2>3. RowsTyped' /\ OutsideTyped' /\ LaneTyped' /\ LogTyped'
    BY <2>1, <2>2 DEF RowsTyped, OutsideTyped, LaneTyped, LogTyped
  <2>4. \A i \in Intents : age[i] <= age'[i]  BY <2>1, <2>2 DEF OutsideTyped
  <2>5. \A i \in Intents : Spent(i) => Spent(i)'  BY <2>1 DEF Spent
  <2> QED  BY <2>1, <2>3, <2>4, <2>5, OutsideStep DEF IInv, Loaded
<1> QED  BY <1>1, <1>2, <1>3, <1>4, <1>5, <1>6, <1>7, <1>8, Zenon DEF Next

(* The invariant holds in every behaviour.                                 *)
LEMMA Invariance == Spec => []IInv
<1> QED  BY InitInvariant, StepInvariant, PTL DEF Spec

(* Type correctness, for any number of intents and passes.                 *)
THEOREM SweepTyped == Spec => []TypeOK
<1>1. IInv => TypeOK  BY DEF IInv
<1> QED  BY <1>1, Invariance, PTL

(* Whatever passes overlap, die or throw, an intent is resolved only after *)
(* its lane's processor applied the payment (dispatch, then resolve).      *)
THEOREM ResolvedMeansHanded == Spec => []ResolvedWasHanded
<1>1. IInv => ResolvedWasHanded  BY DEF IInv
<1> QED  BY <1>1, Invariance, PTL

(* A verdict of "failed" or "abandoned" is written on money only if the    *)
(* money came too late, or the question was put before the init arrived,   *)
(* however long after the gateway's answer and whatever passes overlap.    *)
THEOREM MoneyIsNotBuried == Spec => []MoneyNotBuried
<1>1. IInv => MoneyNotBuried  BY DEF IInv, SpentFirst, Spent, MoneyNotBuried
<1> QED  BY <1>1, Invariance, PTL

-----------------------------------------------------------------------------
(* Why a row is parked.  However passes overlap, no count on a row, nor    *)
(* one a pass has loaded, exceeds the errors ever noted on it; and a pass  *)
(* about to park a row for held money has left the artifact, or an entry   *)
(* in the error log.                                                       *)
OnRecord(i) == artifacts[i] > 0 \/ i \in unrecorded
Counted ==
  /\ \A i \in Intents : attempts[i] <= noted[i]
  /\ \A s \in Sweepers : \A i \in sweep[s].todo : sweep[s].tried[i] <= noted[i]
  /\ \A s \in Sweepers, i \in Intents :
       sweep[s].pc = "parking" /\ i = Current(s) => noted[i] = MaxVerifyAttempts
Reasons ==
  /\ \A s \in Sweepers, i \in Intents :
       sweep[s].pc = "writing" /\ sweep[s].to = "error" /\ i = Current(s) => OnRecord(i)
  /\ \A i \in Intents :
       status[i] = "error" => OnRecord(i) \/ noted[i] = MaxVerifyAttempts

(* A step of pass s that takes nothing off the record.                     *)
LEMMA ReasonStep ==
  ASSUME IInv, IInv', Counted, Reasons, NEW s \in Sweepers, Others(s),
         \A i \in Intents : noted[i] <= noted'[i] /\ artifacts[i] <= artifacts'[i],
         unrecorded \subseteq unrecorded',
         \A i \in Intents : attempts'[i] <= noted'[i],
         \A i \in sweep'[s].todo : sweep'[s].tried[i] <= noted'[i],
         \A i \in Intents :
           sweep'[s].pc = "parking" /\ i = Current(s)' => noted'[i] = MaxVerifyAttempts,
         \A i \in Intents :
           sweep'[s].pc = "writing" /\ sweep'[s].to = "error" /\ i = Current(s)' => OnRecord(i)',
         \A i \in Intents : status'[i] = "error" =>
           \/ status[i] = "error" \/ OnRecord(i)'
           \/ noted'[i] = MaxVerifyAttempts
  PROVE  Counted' /\ Reasons'
<1>0. RowsTyped /\ RowsTyped' /\ LaneTyped /\ LaneTyped' /\ PassesTyped
  BY TypeSplit, TypeSplitNext DEF IInv
<1>1. \A k \in Sweepers : k # s => sweep'[k] = sweep[k] /\ Current(k)' = Current(k)
  BY SameCurrent DEF Others
<1>2. \A i \in Intents : OnRecord(i) => OnRecord(i)'  BY <1>0 DEF OnRecord, LaneTyped
<1>3. \A i \in Intents : noted[i] = MaxVerifyAttempts => noted'[i] = MaxVerifyAttempts
  BY <1>0, BoundAssumption DEF RowsTyped
<1>4. ASSUME NEW k \in Sweepers, k # s, NEW i \in sweep[k].todo PROVE sweep[k].tried[i] <= noted'[i]
  <2>1. i \in Intents /\ sweep[k].tried[i] <= noted[i]
    BY <1>0, <1>4 DEF Counted, PassesTyped, PassRecord
  <2>2. sweep[k].tried[i] \in Nat /\ noted[i] \in Nat /\ noted'[i] \in Nat
    BY <1>0, <2>1, BoundAssumption DEF PassesTyped, PassRecord, RowsTyped
  <2> QED  BY <2>1, <2>2
<1>5. Counted'
  <2>1. \A k \in Sweepers : \A i \in sweep'[k].todo : sweep'[k].tried[i] <= noted'[i]
    BY <1>1, <1>4
  <2>2. ASSUME NEW k \in Sweepers, NEW i \in Intents, sweep'[k].pc = "parking", i = Current(k)'
        PROVE  noted'[i] = MaxVerifyAttempts
    BY <1>1, <1>3, <2>2 DEF Counted
  <2> QED  BY <2>1, <2>2, Zenon DEF Counted
<1>6. Reasons'
  <2>1. ASSUME NEW k \in Sweepers, NEW i \in Intents, sweep'[k].pc = "writing",
               sweep'[k].to = "error", i = Current(k)'
        PROVE  OnRecord(i)'
    BY <1>1, <1>2, <2>1 DEF Reasons
  <2>2. \A i \in Intents : status'[i] = "error" => OnRecord(i)' \/ noted'[i] = MaxVerifyAttempts
    BY <1>2, <1>3 DEF Reasons
  <2> QED  BY <2>1, <2>2, Zenon DEF Reasons
<1> QED  BY <1>5, <1>6

(* A pass that goes on with its row, and writes nothing on it.             *)
LEMMA SameRowReason ==
  ASSUME IInv, IInv', Counted, Reasons, NEW s \in Sweepers, Others(s), UNCHANGED rows,
         \A i \in Intents : artifacts[i] <= artifacts'[i], unrecorded \subseteq unrecorded',
         sweep'[s].todo = sweep[s].todo, sweep'[s].tried = sweep[s].tried,
         sweep'[s].pc # "parking",
         sweep'[s].pc = "writing" /\ sweep'[s].to = "error" => OnRecord(Current(s))'
  PROVE  Counted' /\ Reasons'
<1>0. RowsTyped  BY TypeSplit DEF IInv
<1>1. UNCHANGED <<status, attempts, noted>> /\ Current(s)' = Current(s)
  BY SameCurrent DEF rows
<1>2. \A i \in Intents : noted[i] <= noted'[i]  BY <1>0, <1>1 DEF RowsTyped
<1>3. \A i \in Intents :
        sweep'[s].pc = "writing" /\ sweep'[s].to = "error" /\ i = Current(s)' => OnRecord(i)'
  BY DEF OnRecord
<1>4. \A i \in sweep'[s].todo : sweep'[s].tried[i] <= noted'[i]  BY <1>1 DEF Counted
<1>5. \A i \in Intents : attempts'[i] <= noted'[i]  BY <1>1 DEF Counted
<1> QED  BY <1>1, <1>2, <1>3, <1>4, <1>5, ReasonStep

LEMMA AskReason ==
  ASSUME IInv, IInv', Counted, Reasons, NEW s \in Sweepers,
         \/ VerifySuccess(s) \/ VerifyMoneyHeld(s) \/ Throws(s) \/ ArtifactMissing(s)
         \/ VerifyNoMoney(s) \/ Dispatch(s)
  PROVE  Counted' /\ Reasons'
<1>0. PassesTyped /\ LaneTyped  BY TypeSplit DEF IInv
<1>1. sweep[s].todo # {}
  BY <1>0 DEF VerifySuccess, VerifyMoneyHeld, Throws, ArtifactMissing, VerifyNoMoney, Dispatch,
     PassesTyped
<1>2. UNCHANGED <<rows, artifacts, unrecorded>>
  BY DEF VerifySuccess, VerifyMoneyHeld, Throws, ArtifactMissing, VerifyNoMoney, Dispatch, lane, log
<1>3. \/ \E p \in {"paid", "held", "errored", "inserting"} : Become(s, p)
      \/ \E t \in {"pending", "failed", "abandoned", "resolved"} : Decide(s, t)
  BY DEF VerifySuccess, VerifyMoneyHeld, Throws, ArtifactMissing, VerifyNoMoney, Dispatch, Verdict
<1>4. /\ Others(s) /\ sweep'[s].todo = sweep[s].todo /\ sweep'[s].tried = sweep[s].tried
      /\ sweep'[s].pc \in {"paid", "held", "errored", "inserting", "writing"}
      /\ sweep'[s].pc = "writing" => sweep'[s].to # "error"
  <2>1. CASE \E p \in {"paid", "held", "errored", "inserting"} : Become(s, p)
    BY <1>0, <1>1, <2>1, BecomeStep DEF Pcs
  <2>2. CASE \E t \in {"pending", "failed", "abandoned", "resolved"} : Decide(s, t)
    BY <1>0, <1>1, <2>2, DecideStep DEF Terminal
  <2> QED  BY <1>3, <2>1, <2>2
<1>5. \A i \in Intents : artifacts[i] <= artifacts'[i]  BY <1>0, <1>2 DEF LaneTyped
<1> QED  BY <1>2, <1>4, <1>5, SameRowReason

LEMMA ArtifactReason ==
  ASSUME IInv, IInv', Counted, Reasons, NEW s \in Sweepers,
         ArtifactExists(s) \/ InsertArtifact(s) \/ ArtifactFails(s)
  PROVE  Counted' /\ Reasons'
<1> DEFINE c == Current(s)
<1>0. PassesTyped /\ LaneTyped  BY TypeSplit DEF IInv
<1>1. /\ sweep[s].pc \in {"held", "inserting"} /\ Decide(s, AfterArtifact(s))
      /\ UNCHANGED rows /\ AfterArtifact(s) \in {"pending", "error"}
  BY DEF ArtifactExists, InsertArtifact, ArtifactFails, AfterArtifact
<1>2. sweep[s].todo # {}  BY <1>0, <1>1 DEF PassesTyped
<1>3. c \in Intents  BY <1>0, <1>2, CurrentIsDue
<1>4. /\ Others(s) /\ sweep'[s].todo = sweep[s].todo /\ sweep'[s].tried = sweep[s].tried
      /\ sweep'[s].pc = "writing"
  BY <1>0, <1>1, <1>2, DecideStep DEF Terminal
<1>5. Current(s)' = c  BY <1>4, SameCurrent
<1>6. \/ artifacts[c] > 0 /\ artifacts' = artifacts /\ unrecorded' = unrecorded
      \/ artifacts' = [artifacts EXCEPT ![c] = @ + 1] /\ unrecorded' = unrecorded
      \/ unrecorded' = unrecorded \cup {c} /\ artifacts' = artifacts
  BY DEF ArtifactExists, InsertArtifact, ArtifactFails, lane, log
<1> HIDE DEF c
<1>7. (artifacts'[c] > 0 \/ c \in unrecorded') /\ unrecorded \subseteq unrecorded'
      /\ \A i \in Intents : artifacts[i] <= artifacts'[i]
  BY <1>0, <1>3, <1>6 DEF LaneTyped
<1>8. OnRecord(Current(s))'  BY <1>5, <1>7 DEF OnRecord
<1> QED  BY <1>1, <1>4, <1>7, <1>8, SameRowReason

(* The pass is done with its row.                                          *)
LEMMA WriteReason ==
  ASSUME IInv, IInv', Counted, Reasons, NEW s \in Sweepers, WriteVerdict(s) \/ Park(s)
  PROVE  Counted' /\ Reasons'
<1> DEFINE c == Current(s)
           to == sweep[s].to
<1>0. PassesTyped /\ RowsTyped /\ LaneTyped  BY TypeSplit DEF IInv
<1>1. /\ sweep[s].pc \in {"writing", "parking"} /\ Advance(s)
      /\ UNCHANGED <<noted, artifacts, unrecorded>>
  BY DEF WriteVerdict, Park, lane, log
<1>2. sweep[s].todo # {}  BY <1>0, <1>1 DEF PassesTyped
<1>3. c \in sweep[s].todo /\ c \in Intents  BY <1>0, <1>2, CurrentIsDue
<1>4. /\ Others(s) /\ sweep'[s].pc \in {"idle", "next"}
      /\ \A i \in sweep'[s].todo : i \in sweep[s].todo /\ sweep'[s].tried[i] = sweep[s].tried[i]
  BY <1>0, <1>1, <1>2, AdvanceStep
<1>5. \A i \in Intents : attempts'[i] = attempts[i] \/ attempts'[i] = 0
  BY <1>0 DEF WriteVerdict, Park, RowsTyped
<1>6. \A i \in Intents : status'[i] = "error" =>
        status[i] = "error" \/ OnRecord(i) \/ noted[i] = MaxVerifyAttempts
  <2>1. CASE WriteVerdict(s)
    <3>1. status' = [status EXCEPT ![c] = IF to = "pending" \/ @ = "deleted" THEN @ ELSE to]
          /\ (to = "error" => OnRecord(c))
      BY <1>3, <2>1 DEF WriteVerdict, Reasons
    <3> HIDE DEF c, to
    <3> QED  BY <1>0, <3>1 DEF RowsTyped
  <2>2. CASE Park(s)
    <3>1. status' = [status EXCEPT ![c] = IF @ = "deleted" THEN @ ELSE "error"]
          /\ noted[c] = MaxVerifyAttempts
      BY <1>3, <2>2 DEF Park, Counted
    <3> HIDE DEF c
    <3> QED  BY <1>0, <3>1 DEF RowsTyped
  <2> QED  BY <2>1, <2>2
<1> HIDE DEF c, to
<1>7. \A i \in Intents : status'[i] = "error" =>
        status[i] = "error" \/ OnRecord(i)' \/ noted'[i] = MaxVerifyAttempts
  BY <1>1, <1>6 DEF OnRecord
<1>8. \A i \in Intents : attempts'[i] <= noted'[i]
  BY <1>0, <1>1, <1>5 DEF Counted, RowsTyped
<1>9. \A i \in sweep'[s].todo : sweep'[s].tried[i] <= noted'[i]  BY <1>1, <1>4 DEF Counted
<1>10. \A i \in Intents : noted[i] <= noted'[i] /\ artifacts[i] <= artifacts'[i]
  BY <1>0, <1>1 DEF RowsTyped, LaneTyped
<1>11. unrecorded \subseteq unrecorded'  BY <1>1
<1> QED  BY <1>4, <1>7, <1>8, <1>9, <1>10, <1>11, ReasonStep

(* The error just noted is one more than any count before it.              *)
LEMMA ErrorReason ==
  ASSUME IInv, IInv', Counted, Reasons, NEW s \in Sweepers, NoteError(s)
  PROVE  Counted' /\ Reasons'
<1> DEFINE c == Current(s)
           n == sweep[s].tried[c] + 1
<1>0. PassesTyped /\ RowsTyped /\ LaneTyped  BY TypeSplit DEF IInv
<1>1. /\ sweep[s].pc = "errored" /\ Noted(c, n)
      /\ IF n >= MaxVerifyAttempts THEN Become(s, "parking") ELSE Advance(s)
      /\ UNCHANGED <<status, artifacts, unrecorded>>
  BY DEF NoteError, lane, log
<1>2. sweep[s].todo # {}  BY <1>0, <1>1 DEF PassesTyped
<1>3. c \in sweep[s].todo /\ c \in Intents  BY <1>0, <1>2, CurrentIsDue
<1>4. n \in 0..MaxVerifyAttempts /\ n - 1 <= noted[c] /\ noted[c] \in 0..MaxVerifyAttempts
  BY <1>0, <1>3, BoundAssumption DEF PassesTyped, PassRecord, RowsTyped, Counted
<1>5. /\ Others(s) /\ sweep'[s].pc # "writing"
      /\ \A i \in sweep'[s].todo : i \in sweep[s].todo /\ sweep'[s].tried[i] = sweep[s].tried[i]
      /\ sweep'[s].pc = "parking" => n >= MaxVerifyAttempts /\ Current(s)' = c
  <2>1. CASE n >= MaxVerifyAttempts
    <3>1. Become(s, "parking")  BY <1>1, <2>1
    <3>2. /\ Others(s) /\ sweep'[s].pc = "parking" /\ sweep'[s].todo = sweep[s].todo
          /\ sweep'[s].tried = sweep[s].tried
      BY <1>0, <1>2, <3>1, BecomeStep DEF Pcs
    <3> QED  BY <2>1, <3>2, SameCurrent
  <2>2. CASE ~(n >= MaxVerifyAttempts)
    <3>1. Advance(s)  BY <1>1, <2>2
    <3> QED  BY <1>0, <1>2, <3>1, AdvanceStep
  <2> QED  BY <2>1, <2>2
<1> HIDE DEF c, n
<1>6. /\ attempts'[c] = n
      /\ noted'[c] = IF noted[c] < MaxVerifyAttempts THEN noted[c] + 1 ELSE noted[c]
      /\ \A i \in Intents \ {c} : attempts'[i] = attempts[i] /\ noted'[i] = noted[i]
  BY <1>0, <1>1, <1>3, <1>4, NotedStep
<1>7. n <= noted'[c] /\ noted[c] <= noted'[c]  BY <1>4, <1>6, BoundAssumption
<1>8. \A i \in Intents : noted[i] <= noted'[i] /\ artifacts[i] <= artifacts'[i]
  BY <1>0, <1>1, <1>6, <1>7 DEF RowsTyped, LaneTyped
<1>9. \A i \in Intents : attempts'[i] <= noted'[i]  BY <1>6, <1>7 DEF Counted
<1>10. ASSUME NEW i \in sweep'[s].todo PROVE sweep'[s].tried[i] <= noted'[i]
  <2>1. i \in Intents /\ sweep'[s].tried[i] <= noted[i] /\ sweep'[s].tried[i] \in Nat
    BY <1>0, <1>5, BoundAssumption DEF PassesTyped, PassRecord, Counted
  <2> QED  BY <1>0, <1>6, <1>7, <2>1, BoundAssumption DEF RowsTyped
<1>11. \A i \in Intents :
         sweep'[s].pc = "parking" /\ i = Current(s)' => noted'[i] = MaxVerifyAttempts
  BY <1>4, <1>5, <1>6, BoundAssumption
<1>12. unrecorded \subseteq unrecorded'  BY <1>1
<1> QED  BY <1>1, <1>5, <1>8, <1>9, <1>10, <1>11, <1>12, ReasonStep

LEMMA StartReason ==
  ASSUME IInv, IInv', Counted, Reasons, NEW s \in Sweepers, StartPass(s) \/ PassDies(s)
  PROVE  Counted' /\ Reasons'
<1>0. PassesTyped /\ RowsTyped /\ LaneTyped  BY TypeSplit DEF IInv
<1>1. UNCHANGED <<status, attempts, noted, artifacts, unrecorded>>
  BY DEF StartPass, PassDies, rows, lane, log
<1>2. /\ Others(s) /\ sweep'[s].pc \in {"idle", "next"}
      /\ \A i \in sweep'[s].todo : i \in Intents /\ sweep'[s].tried[i] = attempts[i]
  <2>1. CASE PassDies(s)
    <3>1. sweep'[s] = Idle /\ Others(s)  BY <1>0, <2>1 DEF PassDies, PassesTyped, Others
    <3> QED  BY <3>1, IdleTyped
  <2>2. CASE StartPass(s)
    <3>1. Batch \subseteq Intents  BY DEF Batch, Due
    <3> HIDE DEF Batch
    <3>2. sweep'[s].pc = "next" /\ sweep'[s].todo = Batch /\ Others(s)
          /\ sweep'[s].tried = [i \in Intents |-> IF i \in Batch THEN attempts[i] ELSE 0]
      BY <1>0, <2>2 DEF StartPass, PassesTyped, Others
    <3> QED  BY <3>1, <3>2
  <2> QED  BY <2>1, <2>2
<1>3. \A i \in Intents : noted[i] <= noted'[i] /\ artifacts[i] <= artifacts'[i]
  BY <1>0, <1>1 DEF RowsTyped, LaneTyped
<1>4. \A i \in Intents : attempts'[i] <= noted'[i]  BY <1>1 DEF Counted
<1>5. \A i \in sweep'[s].todo : sweep'[s].tried[i] <= noted'[i]  BY <1>1, <1>2 DEF Counted
<1>6. unrecorded \subseteq unrecorded'  BY <1>1
<1> QED  BY <1>1, <1>2, <1>3, <1>4, <1>5, <1>6, ReasonStep

LEMMA OutsideReason ==
  ASSUME IInv, Counted, Reasons, UNCHANGED <<attempts, noted, unrecorded, sweep>>,
         \A i \in Intents : artifacts[i] > 0 => artifacts'[i] > 0,
         \A i \in Intents : status'[i] = "error" => status[i] = "error"
  PROVE  Counted' /\ Reasons'
<1>1. \A s \in Sweepers : Current(s)' = Current(s)  BY DEF Current
<1>2. Counted'  BY <1>1 DEF Counted
<1>3. \A i \in Intents : OnRecord(i) => OnRecord(i)'  BY DEF OnRecord
<1>4. /\ \A s \in Sweepers, i \in Intents :
           sweep'[s].pc = "writing" /\ sweep'[s].to = "error" /\ i = Current(s)' => OnRecord(i)'
      /\ \A i \in Intents : status'[i] = "error" => OnRecord(i)' \/ noted'[i] = MaxVerifyAttempts
  BY <1>1, <1>3 DEF Reasons
<1> QED  BY <1>2, <1>4, Zenon DEF Reasons

LEMMA ReasonedStep == ASSUME IInv, Counted, Reasons, [Next]_vars PROVE Counted' /\ Reasons'
<1>0. RowsTyped /\ LaneTyped /\ IInv'  BY TypeSplit, StepInvariant DEF IInv
<1>1. ASSUME NEW i \in Intents, Checkout(i) \/ Pay(i) \/ CheckoutDies(i) \/ Tick(i) \/ Report(i)
      PROVE  Counted' /\ Reasons'
  <2>1. UNCHANGED <<attempts, noted, unrecorded, sweep>>
    BY <1>1 DEF Checkout, RecordIntent, InitReachesGateway, InitNeverArrives, InitRefused, Pay,
       CheckoutDies, Tick, Report, Webhook, ReportHeld, RecordReport, rows, log
  <2>2. \E t \in {"pending", "deleted"} : status' = status \/ status' = [status EXCEPT ![i] = t]
    BY <1>1 DEF Checkout, RecordIntent, InitReachesGateway, InitNeverArrives, InitRefused, Pay,
       CheckoutDies, Tick, Report, Webhook, ReportHeld, RecordReport, rows
  <2>3. artifacts' = artifacts \/ artifacts' = [artifacts EXCEPT ![i] = @ + 1]
    BY <1>1 DEF Checkout, RecordIntent, InitReachesGateway, InitNeverArrives, InitRefused, Pay,
       CheckoutDies, Tick, Report, Webhook, ReportHeld, RecordReport, lane
  <2>4. \A j \in Intents : artifacts[j] > 0 => artifacts'[j] > 0
    BY <1>0, <2>3 DEF LaneTyped
  <2>5. \A j \in Intents : status'[j] = "error" => status[j] = "error"
    BY <1>0, <2>2 DEF RowsTyped
  <2> QED  BY <2>1, <2>4, <2>5, OutsideReason
<1>2. CASE UNCHANGED vars
  <2>1. UNCHANGED <<status, attempts, noted, unrecorded, artifacts, sweep>>  BY <1>2 DEF vars
  <2> QED  BY <2>1, OutsideReason
<1>3. ASSUME NEW s \in Sweepers, StartPass(s) \/ PassDies(s) PROVE Counted' /\ Reasons'
  BY <1>0, <1>3, StartReason
<1>4. ASSUME NEW s \in Sweepers, Step(s) PROVE Counted' /\ Reasons'
  BY <1>0, <1>4, AskReason, ArtifactReason, WriteReason, ErrorReason DEF Step
<1> QED  BY <1>1, <1>2, <1>3, <1>4, Zenon DEF Next

LEMMA ReasonedInvariant == Spec => [](IInv /\ Counted /\ Reasons)
<1>1. Init => Counted /\ Reasons
  BY IdleTyped DEF Init, Counted, Reasons
<1>2. IInv /\ Counted /\ Reasons /\ [Next]_vars => (IInv /\ Counted /\ Reasons)'
  BY StepInvariant, ReasonedStep
<1> QED  BY <1>1, <1>2, InitInvariant, PTL DEF Spec

(* noteError parks a row for its errors, reconcileOne for held money: with *)
(* passes that overlap and die, and artifacts that cannot be written,      *)
(* never without the errors, the artifact or its entry in the error log.   *)
THEOREM ParkedRowsHaveReasons == Spec => []ParkedForAReason
<1>1. IInv /\ Counted /\ Reasons => ParkedForAReason
  BY DEF Reasons, OnRecord, ParkedForAReason
<1> QED  BY <1>1, ReasonedInvariant, PTL
=============================================================================
