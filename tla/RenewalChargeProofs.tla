------------------------- MODULE RenewalChargeProofs -------------------------
(***************************************************************************)
(* Theorems about RenewalCharge, for any number of letters, fees, calls    *)
(* and cron instances: the period is billed once, opened once, and settled *)
(* together with its letter, but for what the histories name.              *)
(***************************************************************************)
EXTENDS RenewalCharge, FiniteSetTheorems, WellFoundedInduction, TLAPS

-----------------------------------------------------------------------------
(* Counted entries.                                                        *)

LEMMA EntriesAre ==
  ASSUME NEW S, NEW c \in [S -> Nat]
  PROVE  Entries(c) = {e \in S \X Nat : e[2] \in 1..c[e[1]]}
BY DEF Entries

LEMMA EntriesFinite ==
  ASSUME NEW S, IsFiniteSet(S), NEW c \in [S -> Nat]
  PROVE  IsFiniteSet(Entries(c))
<1> DEFINE Of(x) == {x} \X (1..c[x])
           pieces == {Of(x) : x \in S}
           piece == [x \in S |-> Of(x)]
<1>1. IsFiniteSet(pieces)
  <2>1. piece \in Surjection(S, pieces)  BY DEF Surjection
  <2> QED  BY <2>1, FS_Surjection
<1>2. ASSUME NEW x \in S  PROVE IsFiniteSet(Of(x))
  <2> c[x] \in Int /\ 1 \in Int  OBVIOUS
  <2>1. IsFiniteSet({x}) /\ IsFiniteSet(1..c[x])  BY FS_Singleton, FS_Interval
  <2> QED  BY <2>1, FS_Product
<1>3. \A T \in pieces : IsFiniteSet(T)  BY <1>2
<1>4. Entries(c) = UNION pieces  BY DEF Entries
<1> QED  BY <1>1, <1>3, <1>4, FS_UNION

LEMMA SumType ==
  ASSUME NEW S, IsFiniteSet(S), NEW c \in [S -> Nat]
  PROVE  Sum(c) \in Nat
BY EntriesFinite, FS_CardinalityType DEF Sum

(* One entry more for x is one more in all. *)
LEMMA SumMore ==
  ASSUME NEW S, IsFiniteSet(S), NEW c \in [S -> Nat], NEW x \in S
  PROVE  Sum([c EXCEPT ![x] = @ + 1]) = Sum(c) + 1
<1> DEFINE d == [c EXCEPT ![x] = @ + 1]
           e == <<x, c[x] + 1>>
<1>1. d \in [S -> Nat] /\ d[x] = c[x] + 1 /\ \A y \in S \ {x} : d[y] = c[y]  OBVIOUS
<1>2. Entries(d) = Entries(c) \cup {e} /\ e \notin Entries(c)
  <2>1. Entries(d) = {u \in S \X Nat : u[2] \in 1..d[u[1]]}  BY <1>1, EntriesAre
  <2>2. Entries(c) = {u \in S \X Nat : u[2] \in 1..c[u[1]]}  BY EntriesAre
  <2> HIDE DEF d
  <2>3. c[x] \in Nat  OBVIOUS
  <2>4. e \in Entries(d) /\ e \notin Entries(c)  BY <1>1, <2>1, <2>2, <2>3
  <2>5. ASSUME NEW u \in S \X Nat  PROVE u \in Entries(d) <=> u \in Entries(c) \/ u = e
    <3>1. CASE u[1] = x  BY <1>1, <2>1, <2>2, <2>3, <3>1
    <3>2. CASE u[1] # x  BY <1>1, <2>1, <2>2, <3>2
    <3> QED  BY <3>1, <3>2
  <2> QED  BY <2>1, <2>2, <2>4, <2>5
<1> HIDE DEF d, e
<1> QED  BY <1>2, EntriesFinite, FS_AddElement DEF Sum, d

(* All there are: those of x, and the others. *)
LEMMA SumWithout ==
  ASSUME NEW S, IsFiniteSet(S), NEW c \in [S -> Nat], NEW x \in S
  PROVE  Sum(c) = Sum([c EXCEPT ![x] = 0]) + c[x]
<1> DEFINE d == [c EXCEPT ![x] = 0]
           mine == {x} \X (1..c[x])
<1>1. d \in [S -> Nat] /\ d[x] = 0 /\ \A y \in S \ {x} : d[y] = c[y]  OBVIOUS
<1>2. Entries(c) = Entries(d) \cup mine /\ Entries(d) \cap mine = {}
  <2>1. Entries(d) = {e \in S \X Nat : e[2] \in 1..d[e[1]]}  BY <1>1, EntriesAre
  <2>2. Entries(c) = {e \in S \X Nat : e[2] \in 1..c[e[1]]}  BY EntriesAre
  <2> HIDE DEF d
  <2>3. c[x] \in Nat  OBVIOUS
  <2>4. mine \subseteq Entries(c)  BY <2>2, <2>3
  <2>5. Entries(d) \subseteq Entries(c)  BY <1>1, <2>1, <2>2, SMTT(30)
  <2>6. ASSUME NEW e \in Entries(c), e \notin mine  PROVE e \in Entries(d)
    <3>1. e[1] # x  BY <2>2, <2>6
    <3> QED  BY <1>1, <2>1, <2>2, <2>6, <3>1
  <2>7. Entries(d) \cap mine = {}  BY <1>1, <2>1
  <2> QED  BY <2>4, <2>5, <2>6, <2>7
<1>3. IsFiniteSet(mine) /\ Cardinality(mine) = c[x]
  <2>1. IsFiniteSet({x}) /\ Cardinality({x}) = 1  BY FS_Singleton
  <2>2. c[x] \in Nat /\ c[x] \in Int /\ 1 \in Int  OBVIOUS
  <2>3. IsFiniteSet(1..c[x])  BY <2>2, FS_Interval
  <2>4. Cardinality(1..c[x]) = c[x]  BY <2>2, FS_Interval
  <2>5. IsFiniteSet(mine) /\ Cardinality(mine) = 1 * c[x]  BY <2>1, <2>3, <2>4, FS_Product
  <2> QED  BY <2>2, <2>5
<1>4. IsFiniteSet(Entries(d))  BY <1>1, EntriesFinite
<1> HIDE DEF d, mine
<1>5. Cardinality(Entries(d) \cap mine) = 0  BY <1>2, FS_EmptySet
<1>6. Cardinality(Entries(d)) \in Nat  BY <1>4, FS_CardinalityType
<1>7. Cardinality(Entries(c)) = Cardinality(Entries(d)) + c[x]
  <2>1. c[x] \in Nat  OBVIOUS
  <2>2. Cardinality(Entries(d) \cup mine) =
          Cardinality(Entries(d)) + Cardinality(mine) - Cardinality(Entries(d) \cap mine)
    BY <1>3, <1>4, FS_Union
  <2> QED  BY <1>2, <1>3, <1>5, <1>6, <2>1, <2>2
<1> QED  BY <1>7 DEF Sum, d

LEMMA SumZero ==
  ASSUME NEW S, IsFiniteSet(S), NEW c \in [S -> Nat], Sum(c) = 0, NEW x \in S
  PROVE  c[x] = 0
<1>1. [c EXCEPT ![x] = 0] \in [S -> Nat]  OBVIOUS
<1>2. Sum([c EXCEPT ![x] = 0]) \in Nat  BY <1>1, SumType
<1>3. Sum(c) = Sum([c EXCEPT ![x] = 0]) + c[x]  BY SumWithout
<1> QED  BY <1>2, <1>3

(* The largest element of a set of numbers, if there is one. *)
LEMMA MaxIs ==
  ASSUME NEW S \in SUBSET Int, NEW n \in S, \A y \in S : y <= n
  PROVE  Max(S) = n
<1>1. \E x \in S : \A y \in S : x >= y  OBVIOUS
<1>2. Max(S) \in S /\ \A y \in S : Max(S) >= y  BY <1>1 DEF Max
<1>3. Max(S) >= n /\ Max(S) <= n /\ Max(S) \in Int  BY <1>2
<1> QED  BY <1>3

-----------------------------------------------------------------------------
(* Types.                                                                  *)

Pcs == {"idle", "accept", "decline", "accepted", "charge", "period", "post", "weigh", "covers",
        "flip", "open", "dedup", "debit", "settle", "mark", "moveout", "sweep", "advance",
        "end", "clear", "credit"}
Bys == {"none", "tenant", "landlord", "payment", "cron"}

LEMMA LettersFinite == IsFiniteSet(Letters) /\ IsFiniteSet(Fees)
<1>1. Versions \in Int /\ FeeCount \in Int /\ 1 \in Int  BY SizeAssumption
<1> QED  BY <1>1, FS_Interval DEF Letters, Fees

LEMMA JobFields ==
  Job = [by : Bys, pc : Pcs, of : 0..Versions, copy : Row, wallet : Int, todo : 0..FeeCount,
         fresh : BOOLEAN]
BY DEF Job, Bys, Pcs

LEMMA IdleIsJob == Idle \in Job /\ NoLetter \in Row /\ \A b \in BOOLEAN : Sent(b) \in Row
<1>1. NoLetter \in Row  BY DEF NoLetter, Row
<1>2. \A b \in BOOLEAN : Sent(b) \in Row  BY DEF NoLetter, Sent, Row
<1>3. 0 \in 0..Versions /\ 0 \in 0..FeeCount  BY SizeAssumption
<1>4. Idle \in Job  BY <1>1, <1>3, JobFields DEF Idle, Bys, Pcs
<1> QED  BY <1>1, <1>2, <1>4

Same(j) == \A k \in Jobs \ {j} : job'[k] = job[k]
Unfresh(k) == [job[k] EXCEPT !.fresh = FALSE]

LEMMA Moves ==
  ASSUME job \in [Jobs -> Job], NEW j \in Jobs, NEW r \in Job, job' = [job EXCEPT ![j] = r]
  PROVE  job' \in [Jobs -> Job] /\ job'[j] = r /\ Same(j)
BY DEF Same

LEMMA ToMoves ==
  ASSUME job \in [Jobs -> Job], NEW j \in Jobs, NEW pc \in Pcs, To(j, pc)
  PROVE  job' \in [Jobs -> Job] /\ job'[j] = [job[j] EXCEPT !.pc = pc] /\ Same(j)
<1>1. [job[j] EXCEPT !.pc = pc] \in Job  BY JobFields
<1>2. job' = [job EXCEPT ![j] = [job[j] EXCEPT !.pc = pc]]  BY DEF To
<1> QED  BY <1>1, <1>2, Moves

LEMMA FinishMoves ==
  ASSUME job \in [Jobs -> Job], NEW j \in Jobs, Finish(j)
  PROVE  job' \in [Jobs -> Job] /\ job'[j] = Idle /\ Same(j)
BY IdleIsJob, Moves DEF Finish

LEMMA LeaveMoves ==
  ASSUME job \in [Jobs -> Job], NEW j \in Jobs, NEW pc \in Pcs, Leave(j, pc)
  PROVE  /\ job' \in [Jobs -> Job] /\ Same(j)
         /\ job'[j] = IF pc = "idle" THEN Idle ELSE [job[j] EXCEPT !.pc = pc]
BY ToMoves, FinishMoves DEF Leave

Loaded(l, by, pc) ==
  [Idle EXCEPT !.by = by, !.pc = pc, !.of = IF letter[l].paid THEN 0 ELSE l,
               !.copy = letter[l], !.fresh = ~letter[l].paid]

LEMMA LoadMoves ==
  ASSUME job \in [Jobs -> Job], letter \in [Letters -> Row],
         NEW j \in Jobs, NEW l \in Letters, NEW by \in Bys, NEW pc \in Pcs, Load(j, l, by, pc)
  PROVE  /\ job' \in [Jobs -> Job] /\ Same(j)
         /\ job'[j] = Loaded(l, by, pc)
<1>1. letter[l] \in Row /\ l \in 0..Versions /\ letter[l].paid \in BOOLEAN
  BY SizeAssumption DEF Letters, Row
<1> DEFINE of == IF letter[l].paid THEN 0 ELSE l
<1>2. of \in 0..Versions /\ (~letter[l].paid) \in BOOLEAN  BY <1>1, SizeAssumption
<1>4. Loaded(l, by, pc) = [Idle EXCEPT !.by = by, !.pc = pc, !.of = of, !.copy = letter[l],
                                       !.fresh = ~letter[l].paid]
  BY DEF Loaded
<1> HIDE DEF of
<1>5. Loaded(l, by, pc) \in Job  BY <1>1, <1>2, <1>4, IdleIsJob, JobFields
<1>3. job' = [job EXCEPT ![j] = Loaded(l, by, pc)]  BY DEF Load, Loaded
<1> QED  BY <1>3, <1>5, Moves

Outdates(j) == \A k \in Jobs \ {j} : job'[k] = Unfresh(k)

LEMMA OutdatedMoves ==
  ASSUME job \in [Jobs -> Job], NEW j \in Jobs, NEW r \in Job,
         job' = [Outdated(j) EXCEPT ![j] = r]
  PROVE  job' \in [Jobs -> Job] /\ job'[j] = r /\ Outdates(j)
<1>1. \A k \in Jobs : Unfresh(k) \in Job  BY JobFields DEF Unfresh
<1> QED  BY <1>1 DEF Outdated, Outdates, Unfresh

Posted(j, pc) ==
  IF job[j].todo > 1 THEN [job[j] EXCEPT !.todo = @ - 1]
  ELSE IF pc = "idle" THEN Idle ELSE [job[j] EXCEPT !.todo = 0, !.pc = pc]

LEMMA EntryMoves ==
  ASSUME job \in [Jobs -> Job], NEW j \in Jobs, NEW pc \in Pcs, Entry(j, pc)
  PROVE  job' \in [Jobs -> Job] /\ job'[j] = Posted(j, pc) /\ Outdates(j)
<1>1. job[j].todo \in 0..FeeCount  BY JobFields
<1>2. job[j].todo > 1 => job[j].todo - 1 \in 0..FeeCount  BY <1>1, SizeAssumption
<1>3. Posted(j, pc) \in Job
  <2>1. CASE job[j].todo > 1
    <3>1. [job[j] EXCEPT !.todo = @ - 1] \in Job  BY <1>2, <2>1, JobFields
    <3> QED  BY <2>1, <3>1 DEF Posted
  <2>2. CASE ~(job[j].todo > 1)
    <3>1. 0 \in 0..FeeCount  BY SizeAssumption
    <3>2. [job[j] EXCEPT !.todo = 0, !.pc = pc] \in Job  BY <3>1, JobFields
    <3> QED  BY <2>2, <3>2, IdleIsJob DEF Posted
  <2> QED  BY <2>1, <2>2
<1>4. job' = [Outdated(j) EXCEPT ![j] = Posted(j, pc)]  BY DEF Entry, Posted
<1> QED  BY <1>3, <1>4, OutdatedMoves

-----------------------------------------------------------------------------
(* Type correctness.                                                       *)

LEMMA Amounts ==
  ASSUME TypeOK
  PROVE  /\ \A l \in 0..Versions : OwnCharge(l) \in Nat
         /\ Balance \in Int
<1>1. ASSUME NEW l \in 0..Versions  PROVE OwnCharge(l) \in Nat
  <2>1. CASE l = 0  BY <2>1 DEF OwnCharge
  <2>2. CASE l # 0
    <3>1. l \in Letters  BY <2>2, SizeAssumption DEF Letters
    <3>2. charged[l] \in [Fees -> Nat]  BY <3>1 DEF TypeOK
    <3>3. Sum(charged[l]) \in Nat  BY <3>2, LettersFinite, SumType
    <3> QED  BY <2>2, <3>3 DEF OwnCharge
  <2> QED  BY <2>1, <2>2
<1>2. Letters \subseteq 0..Versions  BY SizeAssumption DEF Letters
<1>3. [l \in Letters |-> OwnCharge(l)] \in [Letters -> Nat]  BY <1>1, <1>2
<1>4. Sum([l \in Letters |-> OwnCharge(l)]) \in Nat  BY <1>3, LettersFinite, SumType
<1>5. debits \in [Fees -> Nat] /\ credit \in Int  BY DEF TypeOK
<1>6. Sum(debits) \in Nat  BY <1>5, LettersFinite, SumType
<1> QED  BY <1>1, <1>4, <1>5, <1>6 DEF Balance

LEMMA ClearedType ==
  ASSUME next \in [owing : Nat, paid : Nat]
  PROVE  /\ Cleared \in [owing : Nat, paid : Nat]
         /\ Cleared.owing + Cleared.paid = next.owing + next.paid
         /\ Cleared.paid > 0 => next.owing + next.paid > 0
BY DEF Cleared

LEMMA InitTyped == Init => TypeOK
<1> SUFFICES ASSUME Init PROVE TypeOK  OBVIOUS
<1> USE DEF Init
<1>1. letter \in [Letters -> Row]  BY IdleIsJob
<1>2. job \in [Jobs -> Job]  BY IdleIsJob
<1>3. charged \in [Letters -> [Fees -> Nat]] /\ debits \in [Fees -> Nat] /\ stale \in [Fees -> Nat]
  OBVIOUS
<1>4. credit \in Int  BY SizeAssumption
<1>5. next \in [owing : Nat, paid : Nat] /\ reversed \subseteq Letters
  OBVIOUS
<1>6. {rent, expired} \subseteq BOOLEAN /\ {staleRolls, overwrites, crashes} \subseteq Nat
  <2>1. rent \in BOOLEAN /\ expired \in BOOLEAN  OBVIOUS
  <2>2. staleRolls \in Nat /\ overwrites \in Nat /\ crashes \in Nat  OBVIOUS
  <2> HIDE DEF Init
  <2> QED  BY <2>1, <2>2
<1> HIDE DEF Init
<1> QED  BY <1>1, <1>2, <1>3, <1>4, <1>5, <1>6 DEF TypeOK

(* The handlers, whatever step is taken. *)
LEMMA JobTyped ==
  ASSUME TypeOK, NEW j \in Jobs
  PROVE  /\ job[j] \in Job /\ job[j].by \in Bys /\ job[j].pc \in Pcs
         /\ job[j].of \in 0..Versions /\ job[j].copy \in Row
         /\ job[j].todo \in 0..FeeCount /\ job[j].fresh \in BOOLEAN
BY JobFields DEF TypeOK

LEMMA LatestIsLetter ==
  ASSUME NEW L \in [Letters -> Row], NEW n \in Letters,
         L[n].status # "none" /\ ~L[n].superseded,
         \A l \in Letters : l > n => L[l] = NoLetter
  PROVE  Max({l \in Letters : L[l].status # "none" /\ ~L[l].superseded}) = n
<1> DEFINE S == {l \in Letters : L[l].status # "none" /\ ~L[l].superseded}
<1>1. S \in SUBSET Int /\ n \in S  BY DEF Letters
<1>2. \A y \in S : y <= n  BY SizeAssumption DEF Letters, NoLetter
<1> QED  BY <1>1, <1>2, MaxIs

LEMMA HasMax ==
  ASSUME NEW S \in SUBSET Letters, S # {}
  PROVE  Max(S) \in S
<1> DEFINE T == {Versions - x : x \in S}
           Down == OpToRel(<, Nat)
<1>1. T \subseteq Nat /\ T # {}
  <2>1. \A x \in S : x \in Nat /\ x <= Versions  BY SizeAssumption DEF Letters
  <2>2. \A x \in S : Versions - x \in Nat  BY <2>1, SizeAssumption
  <2> QED  BY <2>2
<1>2. PICK t \in T : \A y \in T : ~(<<y, t>> \in Down)
  BY <1>1, NatLessThanWellFounded, WFMin
<1>3. ASSUME NEW y \in T  PROVE t <= y
  <2> HIDE DEF T
  <2>1. y \in Nat /\ t \in Nat  BY <1>1
  <2>2. y < t => <<y, t>> \in Down  BY <2>1, Zenon DEF OpToRel
  <2>3. ~(y < t)  BY <1>2, <2>2
  <2> QED  BY <2>1, <2>3
<1>4. PICK n \in S : t = Versions - n  BY <1>2
<1>5. \A y \in S : y <= n  BY <1>3, <1>4, SizeAssumption DEF Letters
<1>6. S \in SUBSET Int  BY DEF Letters
<1> QED  BY <1>4, <1>5, <1>6, MaxIs

-----------------------------------------------------------------------------
(* The inductive invariant.                                                *)

Deciding == {"accept", "decline", "accepted"}
Charging == {"charge", "period", "post"}
Rolling == {"weigh", "covers", "flip", "open", "dedup", "debit", "settle", "mark"}
Paying == {"advance", "end", "clear", "credit"}

(* The letters come one after the other, and the last one is the current   *)
(* one; a letter before it was superseded, or paid by a handler that wrote *)
(* an old copy over it.                                                    *)
LettersOK ==
  /\ Latest \in Live
  /\ \A l \in Letters : l > Latest => letter[l] = NoLetter
  /\ \A l \in Letters : l < Latest => letter[l].superseded \/ letter[l].paid

(* What a handler k may hold when the rows are L and the latest letter n. *)
Holds(k, L, n) ==
  /\ k.of <= n
  /\ k.pc \in Deciding => k.by = "tenant"
  /\ k.by = "tenant" \/ k.pc \in Charging => k.of # 0
  /\ k.pc \in {"post", "debit"} => k.todo # 0
  /\ k.pc \in Paying => k.by = "payment"
  /\ k.by = "payment" => /\ k.of # 0 /\ L[k.of].paid
                         /\ k.pc \in Paying \cup {"open", "dedup", "debit"}
                         /\ k.copy = NoLetter
  /\ k.pc \in Charging \cup Rolling /\ k.by # "payment" /\ k.of = n =>
       k.copy.status # "none" /\ ~k.copy.superseded
  /\ k.of = 0 /\ k.pc \in Rolling => L[n].paid
  /\ k.copy.paid /\ k.of # 0 => k.by = "tenant" /\ k.pc \in {"charge", "weigh", "covers"}
  /\ k.fresh => k.of = n

JobOK(j) == Holds(job[j], letter, Latest)
HandlersOK == \A j \in Jobs : JobOK(j)

(* Entries of a fee in the wallet, and those of letters replaced since. *)
Billed(f) == Sum([l \in Letters |-> charged[l][f]]) + debits[f]
Former(f) == Sum([l \in Letters |-> IF l = Latest THEN 0 ELSE charged[l][f]])

Totals ==
  /\ \A f \in Fees : Billed(f) <= 1 + stale[f] /\ Former(f) <= stale[f]
  /\ rent => \A f \in Fees : debits[f] = 0

(* What a handler that nobody has overtaken knows of the entries. *)
Knows(j) ==
  /\ rent => job[j].pc \notin {"open", "dedup", "debit"}
  /\ job[j].fresh =>
       /\ job[j].pc \in {"post", "debit"} => \A f \in 1..job[j].todo : Billed(f) <= stale[f]
       /\ job[j].pc = "period" => \A f \in Fees : charged[Latest][f] = 0
       /\ job[j].pc \in {"end", "open", "dedup"} => \A f \in Fees : debits[f] = 0

BillsOK == Totals /\ \A j \in Jobs : Knows(j)

(* The ACTIVE rent, a handler about to open the next one, and the rents    *)
(* opened are one, but for the payments that opened another.               *)
Openers == {j \in Jobs : job[j].pc = "open"}
RollsOK == next.owing + next.paid + Cardinality(Openers) + (IF rent THEN 1 ELSE 0) <= 1 + staleRolls

(* While nothing was overwritten a replaced letter stays as it was, and a  *)
(* paid period has its letter paid, or a handler about to mark it.         *)
SettledOK ==
  /\ overwrites = 0 => \A l \in Letters : l < Latest => letter[l].superseded /\ ~letter[l].paid
  /\ overwrites = 0 /\ crashes = 0 /\ next.paid > 0 =>
       letter[Latest].paid \/ \E j \in Jobs : job[j].pc = "mark"

IInv == TypeOK /\ LettersOK /\ HandlersOK /\ BillsOK /\ RollsOK /\ SettledOK

-----------------------------------------------------------------------------
(* Every step keeps the types.                                             *)

LEMMA LatestType ==
  ASSUME TypeOK, LettersOK
  PROVE  /\ Latest \in Letters /\ Latest \in Live
         /\ letter[Latest].status # "none" /\ ~letter[Latest].superseded
BY DEF LettersOK, Live

LEMMA CountType ==
  ASSUME NEW S, NEW c \in [S -> Nat], NEW x
  PROVE  [c EXCEPT ![x] = @ + 1] \in [S -> Nat]
<1>1. CASE x \in S
  <2>1. c[x] + 1 \in Nat  BY <1>1
  <2> QED  BY <2>1
<1>2. CASE x \notin S  BY <1>2
<1> QED  BY <1>1, <1>2

LEMMA StaleType ==
  ASSUME stale \in [Fees -> Nat], NEW j, NEW pc, Entry(j, pc)
  PROVE  stale' \in [Fees -> Nat]
<1>1. stale' = stale \/ stale' = [stale EXCEPT ![job[j].todo] = @ + 1]
  <2>1. CASE job[j].fresh  BY <2>1 DEF Entry
  <2>2. CASE ~job[j].fresh  BY <2>2 DEF Entry
  <2> QED  BY <2>1, <2>2
<1> QED  BY <1>1, CountType

LEMMA ChargesType ==
  ASSUME NEW c \in [Letters -> [Fees -> Nat]], NEW l, NEW f
  PROVE  [c EXCEPT ![l][f] = @ + 1] \in [Letters -> [Fees -> Nat]]
<1>1. CASE l \in Letters
  <2>1. [c[l] EXCEPT ![f] = @ + 1] \in [Fees -> Nat]  BY <1>1, CountType
  <2> QED  BY <2>1
<1>2. CASE l \notin Letters  BY <1>2
<1> QED  BY <1>1, <1>2

LEMMA TypedStep ==
  ASSUME TypeOK, LettersOK, HandlersOK, Next
  PROVE  TypeOK'
<1> DEFINE RestOK ==
     /\ letter \in [Letters -> Row] /\ {rent, expired} \subseteq BOOLEAN
     /\ next \in [owing : Nat, paid : Nat] /\ credit \in Int
     /\ charged \in [Letters -> [Fees -> Nat]] /\ reversed \subseteq Letters
     /\ debits \in [Fees -> Nat] /\ stale \in [Fees -> Nat]
     /\ {staleRolls, overwrites, crashes} \subseteq Nat
<1>1. TypeOK <=> RestOK /\ job \in [Jobs -> Job]  BY DEF TypeOK
<1>2. TypeOK' <=> RestOK' /\ job' \in [Jobs -> Job]  BY DEF TypeOK
<1>3. UNCHANGED <<rows, entries, history>> => RestOK'  BY <1>1 DEF rows, entries, history
<1>4. ASSUME NEW j \in Jobs, ChargeStep(j)  PROVE TypeOK'
  <2>1. AfterCharge(j) \in Pcs  BY DEF AfterCharge, Pcs
  <2>2. CASE CheckCharge(j)
    <3>1. "period" \in Pcs  BY DEF Pcs
    <3>2. job' \in [Jobs -> Job]  BY <1>1, <2>1, <2>2, <3>1, ToMoves, LeaveMoves DEF CheckCharge
    <3> QED  BY <1>2, <1>3, <2>2, <3>2 DEF CheckCharge
  <2>3. CASE CheckPeriod(j)
    <3>1. "post" \in Pcs /\ FeeCount \in 0..FeeCount  BY SizeAssumption DEF Pcs
    <3>2. [job[j] EXCEPT !.pc = "post", !.todo = FeeCount] \in Job  BY <1>1, <3>1, JobFields
    <3>3. job' \in [Jobs -> Job]  BY <1>1, <2>1, <2>3, <3>2, LeaveMoves DEF CheckPeriod
    <3> QED  BY <1>2, <1>3, <2>3, <3>3 DEF CheckPeriod
  <2>4. CASE PostCharge(j)
    <3>1. job' \in [Jobs -> Job]  BY <1>1, <2>1, <2>4, EntryMoves DEF PostCharge
    <3>2. charged' \in [Letters -> [Fees -> Nat]]  BY <1>1, <2>4, ChargesType DEF PostCharge
    <3>4. stale' \in [Fees -> Nat]  BY <1>1, <2>4, StaleType DEF PostCharge
    <3> QED  BY <1>1, <1>2, <2>4, <3>1, <3>2, <3>4 DEF PostCharge, Entry, rows
  <2> QED  BY <1>4, <2>2, <2>3, <2>4 DEF ChargeStep
<1>5. ASSUME NEW j \in Jobs, RollStep(j)  PROVE TypeOK'
  <2>1. AfterRoll(j) \in Pcs /\ AfterDebits(j) \in Pcs  BY DEF AfterRoll, AfterDebits, Pcs
  <2>2. {"covers", "flip", "open", "dedup", "debit", "mark"} \subseteq Pcs  BY DEF Pcs
  <2>3. job[j] \in Job  BY <1>1
  <2>4. CASE WeighWallet(j)
    <3>1. [job[j] EXCEPT !.pc = "covers", !.wallet = Balance] \in Job
      BY <2>2, <2>3, Amounts, JobFields
    <3>2. job' \in [Jobs -> Job]  BY <1>1, <2>4, <3>1 DEF WeighWallet
    <3> QED  BY <1>2, <1>3, <2>4, <3>2 DEF WeighWallet
  <2>5. CASE WeighCharge(j)
    <3>3. 0 \in Int /\ "flip" \in Pcs  BY <2>2
    <3>1. [job[j] EXCEPT !.pc = "flip", !.wallet = 0] \in Job  BY <2>3, <3>3, JobFields
    <3>2. job' \in [Jobs -> Job]  BY <1>1, <2>1, <2>5, <3>1, LeaveMoves DEF WeighCharge
    <3> QED  BY <1>2, <1>3, <2>5, <3>2 DEF WeighCharge
  <2>6. CASE Flip(j)
    <3>1. (IF rent THEN "open" ELSE AfterRoll(j)) \in Pcs  BY <2>1, <2>2
    <3>2. job' \in [Jobs -> Job]  BY <1>1, <2>6, <3>1, LeaveMoves DEF Flip
    <3> QED  BY <1>1, <1>2, <2>6, <3>2 DEF Flip, entries, history
  <2>7. CASE OpenPeriod(j)
    <3>1. job' \in [Jobs -> Job]  BY <1>1, <2>2, <2>7, ToMoves DEF OpenPeriod
    <3>2. next' \in [owing : Nat, paid : Nat]  BY <1>1, <2>7 DEF OpenPeriod
    <3> QED  BY <1>1, <1>2, <2>7, <3>1, <3>2 DEF OpenPeriod, entries, history
  <2>8. CASE Dedup(j)
    <3>1. FeeCount \in 0..FeeCount  BY SizeAssumption
    <3>2. /\ [job[j] EXCEPT !.pc = AfterDebits(j)] \in Job
          /\ [job[j] EXCEPT !.pc = "debit", !.todo = FeeCount] \in Job
      BY <2>1, <2>2, <2>3, <3>1, JobFields
    <3>3. job' \in [Jobs -> Job]  BY <1>1, <2>8, <3>2 DEF Dedup
    <3> QED  BY <1>2, <1>3, <2>8, <3>3 DEF Dedup
  <2>9. CASE Debit(j)
    <3>1. job' \in [Jobs -> Job]  BY <1>1, <2>1, <2>9, EntryMoves DEF Debit
    <3>2. debits' \in [Fees -> Nat]  BY <1>1, <2>9, CountType DEF Debit
    <3>3. stale' \in [Fees -> Nat]  BY <1>1, <2>9, StaleType DEF Debit
    <3> QED  BY <1>1, <1>2, <2>9, <3>1, <3>2, <3>3 DEF Debit, Entry, rows
  <2>10. CASE Settle(j)
    <3>1. job' \in [Jobs -> Job]
      BY <1>1, <2>1, <2>2, <2>10, ToMoves, LeaveMoves DEF Settle
    <3>2. next' \in [owing : Nat, paid : Nat]  BY <1>1, <2>10, ClearedType DEF Settle
    <3> QED  BY <1>1, <1>2, <2>10, <3>1, <3>2 DEF Settle, entries, history
  <2>11. CASE MarkLetter(j)
    <3>1. job' \in [Jobs -> Job]  BY <1>1, <2>1, <2>11, LeaveMoves DEF MarkLetter
    <3>2. [job[j].copy EXCEPT !.paid = TRUE] \in Row  BY <2>3, JobFields DEF Row
    <3>3. letter' \in [Letters -> Row]  BY <1>1, <2>11, <3>2 DEF MarkLetter
    <3>4. overwrites' \in Nat  BY <1>1, <2>11 DEF MarkLetter
    <3> QED  BY <1>1, <1>2, <2>11, <3>1, <3>3, <3>4 DEF MarkLetter, entries
  <2> QED  BY <1>5, <2>4, <2>5, <2>6, <2>7, <2>8, <2>9, <2>10, <2>11 DEF RollStep
<1>6. ASSUME NEW j \in Jobs, Die(j)  PROVE TypeOK'
  <2>1. job' \in [Jobs -> Job]  BY <1>1, <1>6, FinishMoves DEF Die
  <2> QED  BY <1>1, <1>2, <1>6, <2>1 DEF Die, rows, entries
<1>7. ASSUME NEW c \in Calls, TenantStep(c)  PROVE TypeOK'
  <2>1. c \in Jobs /\ job[c] \in Job /\ job[c].of \in 0..Versions
    BY <1>1, JobTyped DEF Jobs
  <2>2. {"accepted", "charge", "weigh"} \subseteq Pcs  BY DEF Pcs
  <2>3. ASSUME NEW st \in {"accepted", "declined"}, Record(c, st),
               NEW r \in Job, job' = [Outdated(c) EXCEPT ![c] = r]
        PROVE  TypeOK'
    <3>1. job' \in [Jobs -> Job]  BY <1>1, <2>1, <2>3, OutdatedMoves
    <3>2. letter' \in [Letters -> Row]  BY <1>1, <2>3 DEF Record, Row
    <3>3. overwrites' \in Nat  BY <1>1, <2>3 DEF Record
    <3> QED  BY <1>1, <1>2, <2>3, <3>1, <3>2, <3>3 DEF Record, entries
  <2>4. CASE Accept(c)
    <3>1. [job[c] EXCEPT !.pc = "accepted"] \in Job  BY <2>1, <2>2, JobFields
    <3>2. job' = [Outdated(c) EXCEPT ![c] = [job[c] EXCEPT !.pc = "accepted"]]
      BY <2>1, <2>4 DEF Accept, Outdated
    <3> QED  BY <2>3, <2>4, <3>1, <3>2 DEF Accept
  <2>5. CASE Decline(c)  BY <2>3, <2>5, IdleIsJob DEF Decline
  <2>6. CASE Refetch(c)
    <3> DEFINE l == job[c].of
               pc == IF /\ rent /\ expired
                        /\ letter[l].status = "accepted" /\ ~letter[l].superseded
                     THEN "charge" ELSE "weigh"
               r == [job[c] EXCEPT !.pc = pc, !.copy = letter[l],
                                   !.fresh = ~letter[l].paid /\ ~letter[l].superseded]
    <3>1. job' = [job EXCEPT ![c] = r]  BY <2>6 DEF Refetch
    <3>2. l \in Letters
      <4>1. job[c].of # 0  BY <2>1, <2>6 DEF HandlersOK, JobOK, Holds, Deciding, Refetch
      <4> QED  BY <2>1, <4>1, SizeAssumption DEF Letters
    <3>3. letter[l] \in Row /\ pc \in Pcs  BY <1>1, <2>2, <3>2
    <3>4. (~letter[l].paid /\ ~letter[l].superseded) \in BOOLEAN  OBVIOUS
    <3> HIDE DEF pc, l
    <3>5. r \in Job  BY <2>1, <3>3, <3>4, JobFields
    <3>6. job' \in [Jobs -> Job]  BY <1>1, <3>1, <3>5
    <3> QED  BY <1>2, <1>3, <2>6, <3>6 DEF Refetch
  <2> QED  BY <1>7, <2>4, <2>5, <2>6 DEF TenantStep
<1>8. ASSUME NEW c \in Calls, RenewNow(c)  PROVE TypeOK'
  <2>1. c \in Jobs /\ "landlord" \in Bys /\ "weigh" \in Pcs  BY DEF Jobs, Bys, Pcs
  <2>2. job' \in [Jobs -> Job]  BY <1>1, <1>8, <2>1, LatestType, LoadMoves DEF RenewNow
  <2> QED  BY <1>2, <1>3, <1>8, <2>2 DEF RenewNow
<1>9. ASSUME NEW c \in Calls, PaymentStep(c)  PROVE TypeOK'
  <2>1. c \in Jobs /\ job[c] \in Job  BY <1>1 DEF Jobs
  <2>2. {"end", "clear", "credit", "open"} \subseteq Pcs  BY DEF Pcs
  <2>3. CASE FindRent(c)
    <3>1. [job[c] EXCEPT !.pc = "open", !.fresh = FALSE] \in Job  BY <2>1, <2>2, JobFields
    <3>2. \/ To(c, "end") \/ To(c, "clear") \/ To(c, "credit")
          \/ job' = [job EXCEPT ![c] = [job[c] EXCEPT !.pc = "open", !.fresh = FALSE]]
      BY <2>3 DEF FindRent
    <3>3. job' \in [Jobs -> Job]  BY <1>1, <2>1, <2>2, <3>1, <3>2, ToMoves
    <3>4. staleRolls' \in {staleRolls, staleRolls + 1}  BY <2>3 DEF FindRent
    <3> QED  BY <1>1, <1>2, <2>3, <3>3, <3>4 DEF FindRent, rows, entries
  <2>4. CASE EndRent(c)
    <3>1. job' \in [Jobs -> Job]  BY <1>1, <2>1, <2>2, <2>4, ToMoves DEF EndRent
    <3>2. rent' \in BOOLEAN /\ staleRolls' \in {staleRolls, staleRolls + 1}  BY <2>4 DEF EndRent
    <3> QED  BY <1>1, <1>2, <2>4, <3>1, <3>2 DEF EndRent, entries
  <2>5. CASE ClearRent(c)
    <3>1. job' \in [Jobs -> Job]  BY <1>1, <2>1, <2>2, <2>5, ToMoves DEF ClearRent
    <3>2. next' \in [owing : Nat, paid : Nat]  BY <1>1, <2>5, ClearedType DEF ClearRent
    <3> QED  BY <1>1, <1>2, <2>5, <3>1, <3>2 DEF ClearRent, entries, history
  <2>6. CASE Credit(c)
    <3>1. job' \in [Jobs -> Job]  BY <1>1, <2>1, <2>6, FinishMoves DEF Credit
    <3>2. credit' \in Int  BY <1>1, <2>6, SizeAssumption DEF Credit
    <3> QED  BY <1>1, <1>2, <2>6, <3>1, <3>2 DEF Credit, rows, history
  <2> QED  BY <1>9, <2>3, <2>4, <2>5, <2>6 DEF PaymentStep
<1>10. ASSUME NEW c \in Calls, NEW l \in Letters, Pay(c, l)  PROVE TypeOK'
  <2> DEFINE r == [Idle EXCEPT !.by = "payment", !.pc = "advance", !.of = l, !.fresh = TRUE]
  <2>1. c \in Jobs /\ "payment" \in Bys /\ "advance" \in Pcs /\ l \in 0..Versions
    BY SizeAssumption DEF Jobs, Bys, Pcs, Letters
  <2>2. r \in Job  BY <2>1, IdleIsJob, JobFields
  <2>3. job' \in [Jobs -> Job]  BY <1>1, <1>10, <2>1, <2>2, OutdatedMoves DEF Pay
  <2>4. letter' \in [Letters -> Row]  BY <1>1, <1>10 DEF Pay, Row
  <2> QED  BY <1>1, <1>2, <1>10, <2>3, <2>4 DEF Pay, entries, history
<1>11. ASSUME NEW c \in Calls, NEW l \in Letters, NEW to \in {"accept", "decline"},
              Decide(c, l, to)
       PROVE  TypeOK'
  <2> DEFINE r == [Idle EXCEPT !.by = "tenant", !.pc = to, !.of = l]
  <2>1. c \in Jobs /\ "tenant" \in Bys /\ to \in Pcs /\ l \in 0..Versions
    BY SizeAssumption DEF Jobs, Bys, Pcs, Letters
  <2>2. r \in Job  BY <2>1, IdleIsJob, JobFields
  <2>3. job' \in [Jobs -> Job]  BY <1>1, <1>11, <2>2 DEF Decide
  <2> QED  BY <1>2, <1>3, <1>11, <2>3 DEF Decide
<1>12. ASSUME NEW i \in Crons, CronStep(i)  PROVE TypeOK'
  <2>1. i \in Jobs /\ "cron" \in Bys  BY DEF Jobs, Bys
  <2>2. {"moveout", "weigh", "sweep", "charge"} \subseteq Pcs  BY DEF Pcs
  <2>3. CASE Tick(i)
    <3>1. PICK pc \in {"moveout", "weigh", "sweep"} : Load(i, Latest, "cron", pc)
      BY <2>3 DEF Tick
    <3>2. job' \in [Jobs -> Job]  BY <1>1, <2>1, <2>2, <3>1, LatestType, LoadMoves
    <3> QED  BY <1>2, <1>3, <2>3, <3>2 DEF Tick
  <2>4. CASE EndTenancy(i)
    <3>1. job' \in [Jobs -> Job]  BY <1>1, <2>1, <2>2, <2>4, ToMoves DEF EndTenancy
    <3> QED  BY <1>1, <1>2, <2>4, <3>1 DEF EndTenancy, entries, history
  <2>5. CASE Sweep(i)
    <3>1. Candidates # {} => Max(Candidates) \in Letters  BY HasMax DEF Candidates, Live
    <3>2. job' \in [Jobs -> Job]
      BY <1>1, <2>1, <2>2, <2>5, <3>1, FinishMoves, LoadMoves DEF Sweep
    <3> QED  BY <1>2, <1>3, <2>5, <3>2 DEF Sweep
  <2> QED  BY <1>12, <2>3, <2>4, <2>5 DEF CronStep
<1>13. ASSUME NEW l \in Letters, Revise(l)  PROVE TypeOK'
  <2>1. job' \in [Jobs -> Job]
    <3>1. \A k \in Jobs : Unfresh(k) \in Job  BY <1>1, JobFields DEF Unfresh
    <3> QED  BY <1>13, <3>1 DEF Revise, Unfresh
  <2>2. letter' \in [Letters -> Row]
    <3>1. [letter[l] EXCEPT !.superseded = TRUE] \in Row  BY <1>1 DEF Row
    <3>2. [letter EXCEPT ![l].superseded = TRUE] \in [Letters -> Row]  BY <1>1, <3>1
    <3>3. letter' = [[letter EXCEPT ![l].superseded = TRUE] EXCEPT ![l + 1] = Sent(TRUE)]
      BY <1>13 DEF Revise
    <3> QED  BY <3>2, <3>3, IdleIsJob
  <2>3. charged' \in [Letters -> [Fees -> Nat]]
    <3>1. [f \in Fees |-> 0] \in [Fees -> Nat]  OBVIOUS
    <3> QED  BY <1>1, <1>13, <3>1 DEF Revise, Reversed
  <2> QED  BY <1>1, <1>2, <1>13, <2>1, <2>2, <2>3 DEF Revise, history
<1>14. ASSUME NEW l \in Letters, SendAgain(l)  PROVE TypeOK'
  <2>1. letter[l].authored \in BOOLEAN  BY <1>1 DEF Row
  <2>2. PICK b \in BOOLEAN : letter' = [letter EXCEPT ![l] = Sent(b)]
    BY <1>14, <2>1 DEF SendAgain
  <2>3. letter' \in [Letters -> Row]  BY <1>1, <2>2, IdleIsJob
  <2> QED  BY <1>1, <1>2, <1>14, <2>3 DEF SendAgain, entries, history
<1>15. ASSUME Expire  PROVE TypeOK'
  BY <1>1, <1>2, <1>15 DEF Expire, entries, history
<1> QED
  BY <1>4, <1>5, <1>6, <1>7, <1>8, <1>9, <1>10, <1>11, <1>12, <1>13, <1>14, <1>15 DEF Next

-----------------------------------------------------------------------------
(* The letters: only a revision makes another letter the latest.           *)

Keeps == Latest' = Latest /\ \A l \in Letters : letter[l].paid => letter'[l].paid

LEMMA LatestStays ==
  ASSUME TypeOK, TypeOK', LettersOK,
         letter'[Latest].status # "none" /\ ~letter'[Latest].superseded,
         \A l \in Letters : l > Latest => letter'[l] = letter[l],
         \A l \in Letters : letter[l].paid => letter'[l].paid,
         \A l \in Letters : l < Latest => letter'[l].superseded = letter[l].superseded \/ letter'[l].paid
  PROVE  LettersOK' /\ Keeps
<1>1. letter' \in [Letters -> Row] /\ Latest \in Letters  BY LatestType DEF TypeOK
<1>2. \A l \in Letters : l > Latest => letter'[l] = NoLetter  BY DEF LettersOK
<1>3. Latest' = Latest
  <2>1. Latest' = Max({l \in Letters : letter'[l].status # "none" /\ ~letter'[l].superseded})
    BY DEF Latest, Live
  <2> QED  BY <1>1, <1>2, <2>1, LatestIsLetter
<1>4. Latest' \in Live'  BY <1>1, <1>3 DEF Live
<1>5. \A l \in Letters : l < Latest => letter'[l].superseded \/ letter'[l].paid
  BY DEF LettersOK
<1> QED  BY <1>2, <1>3, <1>4, <1>5 DEF LettersOK, Keeps

LEMMA LettersUnchanged ==
  ASSUME LettersOK, UNCHANGED letter
  PROVE  LettersOK' /\ Keeps /\ Live' = Live
<1>1. Live' = Live  BY DEF Live
<1>2. Latest' = Latest  BY <1>1 DEF Latest
<1> QED  BY <1>1, <1>2 DEF LettersOK, Keeps

LEMMA Writers ==
  ASSUME Next
  PROVE  \/ UNCHANGED letter
         \/ \E c \in Calls : Accept(c) \/ Decline(c)
         \/ \E j \in Jobs : MarkLetter(j)
         \/ \E c \in Calls, l \in Letters : Pay(c, l)
         \/ \E l \in Letters : Revise(l) \/ SendAgain(l)
<1>1. ASSUME NEW j \in Jobs, ChargeStep(j)  PROVE UNCHANGED letter
  BY <1>1 DEF ChargeStep, CheckCharge, CheckPeriod, PostCharge, Entry, rows
<1>2. ASSUME NEW j \in Jobs, RollStep(j)  PROVE UNCHANGED letter \/ MarkLetter(j)
  BY <1>2 DEF RollStep, WeighWallet, WeighCharge, Flip, OpenPeriod, Dedup, Debit, Settle, Entry, rows
<1>3. ASSUME NEW j \in Jobs, Die(j)  PROVE UNCHANGED letter  BY <1>3 DEF Die, rows
<1>4. ASSUME NEW c \in Calls, TenantStep(c)  PROVE UNCHANGED letter \/ Accept(c) \/ Decline(c)
  BY <1>4 DEF TenantStep, Refetch, rows
<1>5. ASSUME NEW c \in Calls, RenewNow(c) \/ PaymentStep(c)  PROVE UNCHANGED letter
  BY <1>5 DEF RenewNow, PaymentStep, FindRent, EndRent, ClearRent, Credit, rows
<1>6. ASSUME NEW c \in Calls, NEW l \in Letters, NEW to \in {"accept", "decline"},
             Decide(c, l, to)
      PROVE  UNCHANGED letter
  BY <1>6 DEF Decide, rows
<1>7. ASSUME NEW i \in Crons, CronStep(i)  PROVE UNCHANGED letter
  BY <1>7 DEF CronStep, Tick, EndTenancy, Sweep, rows
<1>8. Expire => UNCHANGED letter  BY DEF Expire
<1> QED  BY <1>1, <1>2, <1>3, <1>4, <1>5, <1>6, <1>7, <1>8 DEF Next

Supersedes(l) == Revise(l) /\ l = Latest /\ Latest' = Latest + 1

LEMMA ReviseSupersedes ==
  ASSUME TypeOK, TypeOK', LettersOK, NEW l \in Letters, Revise(l)
  PROVE  LettersOK' /\ Supersedes(l)
<1>0. letter \in [Letters -> Row]  BY DEF TypeOK
<1> DEFINE n == l + 1
<1>1. /\ l = Latest /\ l < Versions
      /\ letter' = [letter EXCEPT ![l].superseded = TRUE, ![n] = Sent(TRUE)]
  BY DEF Revise
<1>2. n \in Letters /\ n # l  BY <1>1, SizeAssumption DEF Letters
<1>3. Sent(TRUE).status # "none" /\ ~Sent(TRUE).superseded  BY DEF Sent, NoLetter
<1>4. letter'[n] = Sent(TRUE) /\ letter'[l].superseded
  BY <1>0, <1>1, <1>2 DEF Row
<1>5. \A m \in Letters \ {l, n} : letter'[m] = letter[m]  BY <1>0, <1>1, <1>2
<1>6. \A m \in Letters : m > n => letter'[m] = NoLetter
  <2>1. \A m \in Letters : m > n => m > Latest /\ m \notin {l, n}  BY <1>1 DEF Letters
  <2> QED  BY <1>5, <2>1 DEF LettersOK
<1>7. Latest' = n
  <2>1. Latest' = Max({m \in Letters : letter'[m].status # "none" /\ ~letter'[m].superseded})
    BY DEF Latest, Live
  <2>2. letter' \in [Letters -> Row]  BY DEF TypeOK
  <2> HIDE DEF n
  <2> QED  BY <1>2, <1>3, <1>4, <1>6, <2>1, <2>2, LatestIsLetter
<1>8. Latest' \in Live'  BY <1>2, <1>3, <1>4, <1>7 DEF Live
<1>9. \A m \in Letters : m < n => letter'[m].superseded \/ letter'[m].paid
  <2>1. \A m \in Letters : m < n => m = l \/ (m < Latest /\ m # n)
    BY <1>1 DEF Letters
  <2> QED  BY <1>4, <1>5, <2>1 DEF LettersOK
<1> QED  BY <1>1, <1>6, <1>7, <1>8, <1>9 DEF LettersOK, Supersedes

LEMMA LettersStep ==
  ASSUME TypeOK, TypeOK', LettersOK, HandlersOK, Next
  PROVE  LettersOK' /\ (Keeps \/ \E l \in Letters : Supersedes(l))
<1>1. /\ letter \in [Letters -> Row] /\ Latest \in Letters
      /\ letter[Latest].status # "none" /\ ~letter[Latest].superseded
  BY LatestType DEF TypeOK
<1>2. CASE UNCHANGED letter  BY <1>2, LettersUnchanged
<1>3. ASSUME NEW c \in Calls, NEW st \in {"accepted", "declined"}, Record(c, st),
             job[c].pc \in Deciding
      PROVE  LettersOK' /\ Keeps
  <2> DEFINE l == job[c].of
  <2>1. letter' = [letter EXCEPT ![l].status = st]  BY <1>3 DEF Record
  <2>2. c \in Jobs  BY DEF Jobs
  <2>3. l # 0 /\ l \in 0..Versions /\ l <= Latest
    BY <1>3, <2>2, JobTyped DEF HandlersOK, JobOK, Holds
  <2>4. l \in Letters  BY <2>3, SizeAssumption DEF Letters
  <2> HIDE DEF l
  <2>5. /\ letter'[Latest].status # "none" /\ ~letter'[Latest].superseded
        /\ \A m \in Letters : /\ letter'[m].superseded = letter[m].superseded
                              /\ letter'[m].paid = letter[m].paid
    BY <1>1, <2>1, <2>4 DEF Row
  <2>6. \A m \in Letters : m > Latest => letter'[m] = letter[m]
    BY <1>1, <2>1, <2>3, <2>4 DEF Letters
  <2> QED  BY <2>5, <2>6, LatestStays
<1>4. ASSUME NEW j \in Jobs, MarkLetter(j)  PROVE LettersOK' /\ Keeps
  <2> DEFINE l == job[j].of
             r == [job[j].copy EXCEPT !.paid = TRUE]
  <2>1. CASE UNCHANGED letter  BY <2>1, LettersUnchanged
  <2>2. CASE ~UNCHANGED letter
    <3>1. l # 0 /\ ~job[j].copy.paid /\ letter' = [letter EXCEPT ![l] = r] /\ job[j].pc = "mark"
      BY <1>4, <2>2 DEF MarkLetter
    <3>2. job[j] \in Job /\ job[j].copy \in Row /\ l \in 0..Versions /\ l <= Latest
      BY JobTyped DEF HandlersOK, JobOK, Holds
    <3>3. l \in Letters  BY <3>1, <3>2, SizeAssumption DEF Letters
    <3>4. job[j].by # "payment"  BY <3>1 DEF HandlersOK, JobOK, Holds, Paying
    <3>5. l = Latest => job[j].copy.status # "none" /\ ~job[j].copy.superseded
      BY <3>1, <3>4 DEF HandlersOK, JobOK, Holds, Rolling
    <3>6. /\ r.status = job[j].copy.status /\ r.superseded = job[j].copy.superseded /\ r.paid
      BY <3>2 DEF Row
    <3> HIDE DEF l, r
    <3>7. letter'[Latest].status # "none" /\ ~letter'[Latest].superseded
      BY <1>1, <3>1, <3>3, <3>5, <3>6
    <3>8. \A m \in Letters : m > Latest => letter'[m] = letter[m]
      BY <1>1, <3>1, <3>2, <3>3 DEF Letters
    <3>9. \A m \in Letters : letter'[m] = letter[m] \/ letter'[m].paid
      BY <1>1, <3>1, <3>3, <3>6
    <3> QED  BY <3>7, <3>8, <3>9, LatestStays
  <2> QED  BY <2>1, <2>2
<1>5. ASSUME NEW c \in Calls, NEW l \in Letters, Pay(c, l)  PROVE LettersOK' /\ Keeps
  <2>1. letter' = [letter EXCEPT ![l].paid = TRUE] /\ letter[l].status = "accepted"
    BY <1>5 DEF Pay
  <2>2. l <= Latest  BY <1>1, <2>1 DEF LettersOK, NoLetter, Letters
  <2>3. /\ letter'[Latest].status # "none" /\ ~letter'[Latest].superseded
        /\ \A m \in Letters : /\ letter'[m].superseded = letter[m].superseded
                              /\ letter[m].paid => letter'[m].paid
    BY <1>1, <2>1 DEF Row
  <2>4. \A m \in Letters : m > Latest => letter'[m] = letter[m]
    BY <1>1, <2>1, <2>2 DEF Letters
  <2> QED  BY <2>3, <2>4, LatestStays
<1>6. ASSUME NEW l \in Letters, SendAgain(l)  PROVE LettersOK' /\ Keeps
  <2>1. PICK b \in BOOLEAN : l = Latest /\ ~letter[l].paid /\ letter' = [letter EXCEPT ![l] = Sent(b)]
    <3>1. letter[l].authored \in BOOLEAN  BY <1>1 DEF Row
    <3> QED  BY <1>6, <3>1 DEF SendAgain
  <2>2. Sent(b).status # "none" /\ ~Sent(b).superseded  BY DEF Sent, NoLetter
  <2>3. letter'[Latest] = Sent(b) /\ \A m \in Letters : m # Latest => letter'[m] = letter[m]
    BY <1>1, <2>1
  <2>4. \A m \in Letters : m > Latest => letter'[m] = letter[m]  BY <1>1, <2>3 DEF Letters
  <2> QED  BY <1>1, <2>1, <2>2, <2>3, <2>4, LatestStays DEF Letters
<1>7. ASSUME NEW l \in Letters, Revise(l)  PROVE LettersOK' /\ Supersedes(l)
  BY <1>7, ReviseSupersedes
<1>8. ASSUME NEW c \in Calls, Accept(c) \/ Decline(c)  PROVE LettersOK' /\ Keeps
  BY <1>3, <1>8 DEF Accept, Decline, Deciding
<1> QED  BY <1>2, <1>4, <1>5, <1>6, <1>7, <1>8, Writers

-----------------------------------------------------------------------------
(* The handlers.                                                           *)

LEMMA IdleHolds ==
  ASSUME NEW L, NEW n \in Letters
  PROVE  Holds(Idle, L, n)
BY DEF Holds, Idle, NoLetter, Letters, Deciding, Charging, Rolling, Paying

LEMMA OthersHold ==
  ASSUME TypeOK, LettersOK, Keeps, NEW k \in Jobs, JobOK(k),
         job'[k] = job[k] \/ job'[k] = Unfresh(k)
  PROVE  JobOK(k)'
<1>1. job[k] \in Job /\ job[k].of \in 0..Versions /\ Latest \in Letters  BY JobTyped, LatestType
<1>2. job[k].of # 0 => job[k].of \in Letters  BY <1>1, SizeAssumption DEF Letters
<1>3. Holds(job[k], letter', Latest)
  BY <1>1, <1>2 DEF JobOK, Holds, Keeps
<1>4. Holds(Unfresh(k), letter', Latest)
  BY <1>1, <1>3, JobFields DEF Unfresh, Holds
<1> QED  BY <1>3, <1>4 DEF JobOK, Keeps

(* A handler that goes on to pc. *)
OnTo(j, pc) == [job[j] EXCEPT !.pc = pc]

LEMMA ChargeHolds ==
  ASSUME TypeOK, LettersOK, Keeps, NEW j \in Jobs, JobOK(j), ChargeStep(j), UNCHANGED letter
  PROVE  JobOK(j)' /\ \A k \in Jobs \ {j} : job'[k] \in {job[k], Unfresh(k)}
<1>1. job \in [Jobs -> Job] /\ Latest \in Letters  BY LatestType DEF TypeOK
<1>2. /\ job[j] \in Job /\ job[j].by \in Bys /\ job[j].pc \in Pcs
      /\ job[j].of \in 0..Versions /\ job[j].copy \in Row
      /\ job[j].todo \in 0..FeeCount /\ job[j].fresh \in BOOLEAN
  BY JobTyped
<1>3. Latest' = Latest  BY DEF Keeps
<1>4. Holds(job[j], letter, Latest)  BY DEF JobOK
<1>5. job[j].pc \in Charging  BY DEF ChargeStep, CheckCharge, CheckPeriod, PostCharge, Charging
<1>6. job[j].by # "payment"  BY <1>4, <1>5 DEF Holds, Paying, Charging
<1>7. AfterCharge(j) \in {"weigh", "idle"} /\ (AfterCharge(j) = "weigh" => job[j].by = "tenant")
  BY DEF AfterCharge
<1>8. Holds(OnTo(j, "weigh"), letter, Latest)
  BY <1>1, <1>2, <1>4, <1>5, <1>6 DEF OnTo, Holds, Charging, Rolling, Deciding, Paying, Job
<1>9. Holds(Idle, letter, Latest)  BY <1>1, IdleHolds
<1>13. Leave(j, AfterCharge(j)) => Same(j) /\ job'[j] \in {Idle, OnTo(j, "weigh")}
  <2>1. AfterCharge(j) \in Pcs  BY <1>7 DEF Pcs
  <2>2. CASE AfterCharge(j) = "weigh"  BY <1>1, <2>1, <2>2, LeaveMoves DEF OnTo
  <2>3. CASE AfterCharge(j) = "idle"  BY <1>1, <2>1, <2>3, LeaveMoves
  <2> QED  BY <1>7, <2>2, <2>3
<1>10. CASE CheckCharge(j)
  <2>1. "period" \in Pcs /\ AfterCharge(j) \in Pcs  BY <1>7 DEF Pcs
  <2>2. /\ Same(j)
        /\ \/ job'[j] = OnTo(j, "period") /\ ~job[j].copy.paid
           \/ job'[j] \in {Idle, OnTo(j, "weigh")}
    <3>1. (To(j, "period") /\ ~job[j].copy.paid) \/ Leave(j, AfterCharge(j))
      BY <1>10 DEF CheckCharge
    <3>2. CASE To(j, "period") /\ ~job[j].copy.paid  BY <1>1, <2>1, <3>2, ToMoves DEF OnTo
    <3> QED  BY <1>13, <3>1, <3>2
  <2>3. ~job[j].copy.paid => Holds(OnTo(j, "period"), letter, Latest)
    BY <1>1, <1>2, <1>4, <1>5, <1>6 DEF OnTo, Holds, Charging, Rolling, Deciding, Paying, Job
  <2> QED  BY <1>3, <1>8, <1>9, <2>2, <2>3 DEF JobOK, Same
<1>11. CASE CheckPeriod(j)
  <2> DEFINE r == [job[j] EXCEPT !.pc = "post", !.todo = FeeCount]
  <2>1. AfterCharge(j) \in Pcs  BY <1>7 DEF Pcs
  <2>2. Same(j) /\ job'[j] \in {r, Idle, OnTo(j, "weigh")}
    <3>1. job' = [job EXCEPT ![j] = r] \/ Leave(j, AfterCharge(j))
      BY <1>11 DEF CheckPeriod
    <3>2. CASE job' = [job EXCEPT ![j] = r]  BY <1>1, <3>2 DEF Same
    <3> QED  BY <1>13, <3>1, <3>2
  <2>3. Holds(r, letter, Latest)
    <3>1. job[j].pc = "period" /\ ~job[j].copy.paid
      BY <1>4, <1>5, <1>11 DEF CheckPeriod, Holds, Charging
    <3> QED
      BY <1>1, <1>2, <1>4, <1>5, <1>6, <3>1, SizeAssumption
      DEF Holds, Charging, Rolling, Deciding, Paying, Job
  <2> QED  BY <1>3, <1>8, <1>9, <2>2, <2>3 DEF JobOK, Same
<1>12. CASE PostCharge(j)
  <2>1. AfterCharge(j) \in Pcs  BY <1>7 DEF Pcs
  <2>2. job'[j] = Posted(j, AfterCharge(j)) /\ Outdates(j)
    BY <1>1, <1>12, <2>1, EntryMoves DEF PostCharge
  <2>3. job[j].pc = "post" /\ ~job[j].copy.paid
    BY <1>4, <1>5, <1>12 DEF PostCharge, Holds, Charging
  <2>4. Holds(Posted(j, AfterCharge(j)), letter, Latest)
    <3>1. CASE job[j].todo > 1
      <4> DEFINE r == [job[j] EXCEPT !.todo = @ - 1]
      <4>1. Posted(j, AfterCharge(j)) = r  BY <3>1 DEF Posted
      <4>2. r.todo = job[j].todo - 1 /\ r.todo # 0  BY <1>2, <3>1, SizeAssumption DEF Job
      <4>3. Holds(r, letter, Latest)  BY <1>2, <1>4, <4>2 DEF Holds, Job
      <4> QED  BY <4>1, <4>3
    <3>2. CASE ~(job[j].todo > 1) /\ AfterCharge(j) = "weigh"
      <4> DEFINE r == [job[j] EXCEPT !.todo = 0, !.pc = "weigh"]
      <4>1. Posted(j, AfterCharge(j)) = r  BY <3>2 DEF Posted
      <4>2. Holds(r, letter, Latest)
        BY <1>1, <1>2, <1>4, <1>5, <1>6, <2>3 DEF Holds, Charging, Rolling, Deciding, Paying, Job
      <4> QED  BY <4>1, <4>2
    <3>3. CASE ~(job[j].todo > 1) /\ AfterCharge(j) = "idle"  BY <1>9, <3>3 DEF Posted
    <3> QED  BY <1>7, <3>1, <3>2, <3>3
  <2> QED  BY <1>3, <2>2, <2>4 DEF JobOK, Outdates
<1> QED  BY <1>10, <1>11, <1>12 DEF ChargeStep

LEMMA RollHolds ==
  ASSUME TypeOK, LettersOK, Keeps, NEW j \in Jobs, JobOK(j), RollStep(j)
  PROVE  JobOK(j)' /\ \A k \in Jobs \ {j} : job'[k] \in {job[k], Unfresh(k)}
<1>1. job \in [Jobs -> Job] /\ Latest \in Letters  BY LatestType DEF TypeOK
<1>2. /\ job[j] \in Job /\ job[j].by \in Bys /\ job[j].pc \in Pcs
      /\ job[j].of \in 0..Versions /\ job[j].copy \in Row
      /\ job[j].todo \in 0..FeeCount /\ job[j].fresh \in BOOLEAN
  BY JobTyped
<1>3. Latest' = Latest  BY DEF Keeps
<1>4. Holds(job[j], letter, Latest)  BY DEF JobOK
<1>5. job[j].of # 0 => job[j].of \in Letters  BY <1>2, SizeAssumption DEF Letters
<1>6. Holds(job[j], letter', Latest)  BY <1>1, <1>2, <1>4, <1>5 DEF Holds, Keeps
<1>7. job[j].pc \in Rolling
  BY DEF RollStep, WeighWallet, WeighCharge, Flip, OpenPeriod, Dedup, Debit, Settle, MarkLetter, Rolling
<1>8. AfterRoll(j) \in {"idle", "sweep"} /\ (AfterRoll(j) = "sweep" => job[j].by = "cron")
  BY DEF AfterRoll
<1>9. Holds(Idle, letter', Latest)  BY <1>1, IdleHolds
<1>10. AfterRoll(j) = "sweep" => Holds(OnTo(j, "sweep"), letter', Latest)
  BY <1>1, <1>2, <1>6, <1>7, <1>8 DEF OnTo, Holds, Charging, Rolling, Deciding, Paying, Job
<1>11. AfterRoll(j) \in Pcs /\ {"open", "dedup", "mark", "settle", "credit", "debit"} \subseteq Pcs
  BY <1>8 DEF Pcs
<1>12. ASSUME Leave(j, AfterRoll(j))
       PROVE  Same(j) /\ Holds(job'[j], letter', Latest)
  <2>1. CASE AfterRoll(j) = "sweep"  BY <1>1, <1>10, <1>11, <1>12, <2>1, LeaveMoves DEF OnTo
  <2>2. CASE AfterRoll(j) = "idle"  BY <1>1, <1>9, <1>11, <1>12, <2>2, LeaveMoves
  <2> QED  BY <1>8, <2>1, <2>2
<1>13. ASSUME NEW pc \in {"open", "dedup", "mark", "settle", "credit"}, To(j, pc),
              Holds(OnTo(j, pc), letter', Latest)
       PROVE  Same(j) /\ Holds(job'[j], letter', Latest)
  BY <1>1, <1>11, <1>13, ToMoves DEF OnTo
<1>14. SUFFICES /\ Holds(job'[j], letter', Latest)
                /\ Same(j) \/ Outdates(j)
  BY <1>3 DEF JobOK, Same, Outdates
<1>15. CASE WeighWallet(j)
  <2> DEFINE r == [job[j] EXCEPT !.pc = "covers", !.wallet = Balance]
  <2>1. job' = [job EXCEPT ![j] = r] /\ job[j].pc = "weigh"  BY <1>15 DEF WeighWallet
  <2>2. Holds(r, letter', Latest)
    BY <1>2, <1>6, <2>1 DEF Holds, Charging, Rolling, Deciding, Paying, Job
  <2> QED  BY <1>1, <2>1, <2>2 DEF Same
<1>16. CASE WeighCharge(j)
  <2> DEFINE r == [job[j] EXCEPT !.pc = "flip", !.wallet = 0]
  <2>1. CASE job' = [job EXCEPT ![j] = r] /\ (job[j].by = "tenant" => ~job[j].copy.paid)
    <3>1. job[j].pc = "covers"  BY <1>16 DEF WeighCharge
    <3>2. Holds(r, letter', Latest)
      BY <1>2, <1>6, <2>1, <3>1 DEF Holds, Charging, Rolling, Deciding, Paying, Job
    <3> QED  BY <1>1, <2>1, <3>2 DEF Same
  <2>2. CASE Leave(j, AfterRoll(j))  BY <1>12, <2>2
  <2> QED  BY <1>16, <2>1, <2>2 DEF WeighCharge
<1>17. CASE Flip(j)
  <2>1. job[j].pc = "flip"  BY <1>17 DEF Flip
  <2>2. Holds(OnTo(j, "open"), letter', Latest)
    BY <1>2, <1>6, <2>1 DEF OnTo, Holds, Charging, Rolling, Deciding, Paying, Job
  <2>3. CASE rent
    <3>1. To(j, "open")  BY <1>17, <2>3 DEF Flip, Leave
    <3> QED  BY <1>13, <2>2, <3>1
  <2>4. CASE ~rent
    <3>1. Leave(j, AfterRoll(j))  BY <1>17, <2>4 DEF Flip
    <3> QED  BY <1>12, <3>1
  <2> QED  BY <2>3, <2>4
<1>18. CASE OpenPeriod(j)
  <2>1. job[j].pc = "open" /\ To(j, "dedup")  BY <1>18 DEF OpenPeriod
  <2>2. Holds(OnTo(j, "dedup"), letter', Latest)
    BY <1>2, <1>6, <2>1 DEF OnTo, Holds, Charging, Rolling, Deciding, Paying, Job
  <2> QED  BY <1>13, <2>1, <2>2
<1>19. AfterDebits(j) \in Pcs /\ AfterDebits(j) \in {"settle", "credit"}
  BY <1>11 DEF AfterDebits
<1>20. ASSUME job[j].pc \in {"dedup", "debit"}
       PROVE  Holds([job[j] EXCEPT !.todo = 0, !.pc = AfterDebits(j)], letter', Latest)
              /\ Holds(OnTo(j, AfterDebits(j)), letter', Latest)
  <2>1. CASE job[j].by = "payment"
    <3>1. AfterDebits(j) = "credit"  BY <2>1 DEF AfterDebits
    <3> QED  BY <1>2, <1>6, <1>20, <2>1, <3>1 DEF OnTo, Holds, Charging, Rolling, Deciding, Paying, Job
  <2>2. CASE job[j].by # "payment"
    <3>1. AfterDebits(j) = "settle"  BY <2>2 DEF AfterDebits
    <3> QED  BY <1>2, <1>6, <1>20, <2>2, <3>1 DEF OnTo, Holds, Charging, Rolling, Deciding, Paying, Job
  <2> QED  BY <2>1, <2>2
<1>21. CASE Dedup(j)
  <2> DEFINE r == [job[j] EXCEPT !.pc = "debit", !.todo = FeeCount]
  <2>1. job[j].pc = "dedup"  BY <1>21 DEF Dedup
  <2>2. job' = [job EXCEPT ![j] = OnTo(j, AfterDebits(j))] \/ job' = [job EXCEPT ![j] = r]
    BY <1>21 DEF Dedup, OnTo
  <2>3. Holds(r, letter', Latest)
    BY <1>2, <1>6, <2>1, SizeAssumption DEF Holds, Charging, Rolling, Deciding, Paying, Job
  <2>4. Same(j) /\ job'[j] \in {OnTo(j, AfterDebits(j)), r}  BY <1>1, <2>2 DEF Same
  <2> QED  BY <1>20, <2>1, <2>3, <2>4
<1>22. CASE Debit(j)
  <2>1. job'[j] = Posted(j, AfterDebits(j)) /\ Outdates(j)
    BY <1>1, <1>19, <1>22, EntryMoves DEF Debit
  <2>2. job[j].pc = "debit"  BY <1>22 DEF Debit
  <2>3. CASE job[j].todo > 1
    <3> DEFINE r == [job[j] EXCEPT !.todo = @ - 1]
    <3>1. Posted(j, AfterDebits(j)) = r  BY <2>3 DEF Posted
    <3>2. r.todo = job[j].todo - 1 /\ r.todo # 0  BY <1>2, <2>3, SizeAssumption DEF Job
    <3>3. Holds(r, letter', Latest)  BY <1>2, <1>6, <3>2 DEF Holds, Job
    <3> QED  BY <2>1, <3>1, <3>3
  <2>4. CASE ~(job[j].todo > 1)
    <3>1. Posted(j, AfterDebits(j)) = [job[j] EXCEPT !.todo = 0, !.pc = AfterDebits(j)]
      BY <1>19, <2>4 DEF Posted
    <3> QED  BY <1>20, <2>1, <2>2, <3>1
  <2> QED  BY <2>3, <2>4
<1>23. CASE Settle(j)
  <2>1. job[j].pc = "settle" /\ (To(j, "mark") \/ Leave(j, AfterRoll(j)))  BY <1>23 DEF Settle
  <2>2. Holds(OnTo(j, "mark"), letter', Latest)
    BY <1>2, <1>6, <2>1 DEF OnTo, Holds, Charging, Rolling, Deciding, Paying, Job
  <2> QED  BY <1>12, <1>13, <2>1, <2>2
<1>24. CASE MarkLetter(j)
  <2>1. Leave(j, AfterRoll(j))  BY <1>24 DEF MarkLetter
  <2> QED  BY <1>12, <2>1
<1> QED
  BY <1>15, <1>16, <1>17, <1>18, <1>21, <1>22, <1>23, <1>24 DEF RollStep

LEMMA CallsHold ==
  ASSUME TypeOK, LettersOK, Keeps, NEW c \in Calls, JobOK(c), TenantStep(c) \/ PaymentStep(c)
  PROVE  JobOK(c)' /\ \A k \in Jobs \ {c} : job'[k] \in {job[k], Unfresh(k)}
<1>1. job \in [Jobs -> Job] /\ Latest \in Letters /\ c \in Jobs /\ letter \in [Letters -> Row]
  BY LatestType DEF TypeOK, Jobs
<1>2. /\ job[c] \in Job /\ job[c].by \in Bys /\ job[c].pc \in Pcs
      /\ job[c].of \in 0..Versions /\ job[c].copy \in Row
      /\ job[c].todo \in 0..FeeCount /\ job[c].fresh \in BOOLEAN
  BY <1>1, JobTyped
<1>3. Latest' = Latest  BY DEF Keeps
<1>4. Holds(job[c], letter, Latest)  BY DEF JobOK
<1>5. job[c].of # 0 => job[c].of \in Letters  BY <1>2, SizeAssumption DEF Letters
<1>6. Holds(job[c], letter', Latest)  BY <1>1, <1>2, <1>4, <1>5 DEF Holds, Keeps
<1>7. Holds(Idle, letter', Latest)  BY <1>1, IdleHolds
<1>8. SUFFICES /\ Holds(job'[c], letter', Latest)
               /\ Same(c) \/ Outdates(c)
  BY <1>3 DEF JobOK, Same, Outdates
<1>9. CASE Accept(c)
  <2>1. job[c].pc = "accept"  BY <1>9 DEF Accept
  <2>2. OnTo(c, "accepted") \in Job  BY <1>2, JobFields DEF OnTo, Pcs
  <2>3. job' = [Outdated(c) EXCEPT ![c] = OnTo(c, "accepted")]
    BY <1>1, <1>9 DEF Accept, Outdated, OnTo
  <2>4. job'[c] = OnTo(c, "accepted") /\ Outdates(c)  BY <1>1, <2>2, <2>3, OutdatedMoves
  <2>5. Holds(OnTo(c, "accepted"), letter', Latest)
    BY <1>2, <1>6, <2>1 DEF OnTo, Holds, Charging, Rolling, Deciding, Paying, Job
  <2> QED  BY <2>4, <2>5
<1>10. CASE Decline(c)
  <2>1. job'[c] = Idle /\ Outdates(c)  BY <1>1, <1>10, IdleIsJob, OutdatedMoves DEF Decline
  <2> QED  BY <1>7, <2>1
<1>11. CASE Refetch(c)
  <2> DEFINE l == job[c].of
             pc == IF /\ rent /\ expired
                      /\ letter[l].status = "accepted" /\ ~letter[l].superseded
                   THEN "charge" ELSE "weigh"
             r == [job[c] EXCEPT !.pc = pc, !.copy = letter[l],
                                 !.fresh = ~letter[l].paid /\ ~letter[l].superseded]
  <2>1. job' = [job EXCEPT ![c] = r] /\ job[c].pc = "accepted"  BY <1>11 DEF Refetch
  <2>2. job[c].by = "tenant" /\ l # 0 /\ l <= Latest  BY <1>4, <2>1 DEF Holds, Deciding
  <2>3. l \in Letters /\ letter[l] \in Row  BY <1>1, <1>5, <2>2
  <2>4. letter[l].superseded \/ letter[l].paid \/ l = Latest
    BY <1>1, <2>2, <2>3 DEF LettersOK, Letters
  <2>5. letter[Latest].status # "none" /\ ~letter[Latest].superseded  BY LatestType
  <2>6. pc \in {"charge", "weigh"}  OBVIOUS
  <2>7. /\ r.pc = pc /\ r.copy = letter[l] /\ r.of = l /\ r.by = "tenant"
        /\ r.fresh = (~letter[l].paid /\ ~letter[l].superseded)
    BY <1>2, <2>2 DEF Job
  <2> HIDE DEF pc, r, l
  <2>8. Holds(r, letter', Latest)
    BY <2>2, <2>4, <2>5, <2>6, <2>7 DEF Holds, Charging, Rolling, Deciding, Paying
  <2> QED  BY <1>1, <2>1, <2>8 DEF Same
<1>12. ASSUME NEW pc \in {"end", "clear", "credit", "open"}, To(c, pc), job[c].pc \in Paying
       PROVE  Same(c) /\ Holds(job'[c], letter', Latest)
  <2>1. pc \in Pcs  BY <1>12 DEF Pcs
  <2>2. job'[c] = OnTo(c, pc) /\ Same(c)  BY <1>1, <1>12, <2>1, ToMoves DEF OnTo
  <2>3. job[c].by = "payment"  BY <1>4, <1>12 DEF Holds
  <2>4. Holds(OnTo(c, pc), letter', Latest)
    BY <1>2, <1>6, <1>12, <2>3 DEF OnTo, Holds, Charging, Rolling, Deciding, Paying, Job, NoLetter
  <2> QED  BY <2>2, <2>4
<1>13. CASE FindRent(c)
  <2> DEFINE r == [job[c] EXCEPT !.pc = "open", !.fresh = FALSE]
  <2>1. job[c].pc = "advance" /\ job[c].pc \in Paying  BY <1>13 DEF FindRent, Paying
  <2>2. \/ To(c, "end") \/ To(c, "clear") \/ To(c, "credit")
        \/ job' = [job EXCEPT ![c] = r]
    BY <1>13 DEF FindRent
  <2>3. job[c].by = "payment"  BY <1>4, <2>1 DEF Holds
  <2>4. Holds(r, letter', Latest)
    BY <1>2, <1>6, <2>1, <2>3 DEF Holds, Charging, Rolling, Deciding, Paying, Job, NoLetter
  <2>5. CASE job' = [job EXCEPT ![c] = r]  BY <1>1, <2>4, <2>5 DEF Same
  <2> QED  BY <1>12, <2>1, <2>2, <2>5
<1>14. CASE EndRent(c)  BY <1>12, <1>14 DEF EndRent, Paying
<1>15. CASE ClearRent(c)  BY <1>12, <1>15 DEF ClearRent, Paying
<1>16. CASE Credit(c)
  <2>1. job'[c] = Idle /\ Same(c)  BY <1>1, <1>16, FinishMoves DEF Credit
  <2> QED  BY <1>7, <2>1
<1> QED
  BY <1>9, <1>10, <1>11, <1>13, <1>14, <1>15, <1>16 DEF TenantStep, PaymentStep

(* A letter that was neither replaced nor paid is the latest. *)
LEMMA LiveIsLatest ==
  ASSUME TypeOK, LettersOK, NEW l \in Letters, letter[l].status # "none",
         ~letter[l].superseded, ~letter[l].paid
  PROVE  l = Latest
<1>1. Latest \in Letters  BY LatestType
<1>2. ~(l > Latest)  BY DEF LettersOK, NoLetter
<1>3. ~(l < Latest)  BY DEF LettersOK
<1> QED  BY <1>1, <1>2, <1>3 DEF Letters

LEMMA LoadHolds ==
  ASSUME TypeOK, LettersOK, Keeps, UNCHANGED letter, NEW j \in Jobs,
         NEW by \in {"cron", "landlord"},
         NEW pc \in {"moveout", "weigh", "sweep", "charge"},
         pc = "charge" => ~letter[Latest].paid,
         Load(j, Latest, by, pc)
  PROVE  JobOK(j)' /\ Same(j)
<1>1. job \in [Jobs -> Job] /\ letter \in [Letters -> Row] /\ Latest \in Letters
  BY LatestType DEF TypeOK
<1>2. by \in Bys /\ pc \in Pcs  BY DEF Bys, Pcs
<1>3. job'[j] = Loaded(Latest, by, pc) /\ Same(j)  BY <1>1, <1>2, LoadMoves
<1> DEFINE r == Loaded(Latest, by, pc)
<1>4. /\ r.by = by /\ r.pc = pc /\ r.of = IF letter[Latest].paid THEN 0 ELSE Latest
      /\ r.copy = letter[Latest] /\ r.fresh = ~letter[Latest].paid
  BY DEF Loaded, Idle
<1>5. letter[Latest].status # "none" /\ ~letter[Latest].superseded  BY LatestType
<1>6. Latest # 0 /\ 0 <= Latest /\ Latest <= Latest  BY <1>1 DEF Letters
<1> HIDE DEF r
<1>7. Holds(r, letter, Latest)
  BY <1>4, <1>5, <1>6 DEF Holds, Charging, Rolling, Deciding, Paying
<1> QED  BY <1>3, <1>7 DEF JobOK, Keeps, r

LEMMA CronsHold ==
  ASSUME TypeOK, LettersOK, Keeps, NEW i \in Crons, JobOK(i), CronStep(i), UNCHANGED letter
  PROVE  JobOK(i)' /\ \A k \in Jobs \ {i} : job'[k] \in {job[k], Unfresh(k)}
<1>1. job \in [Jobs -> Job] /\ Latest \in Letters /\ i \in Jobs  BY LatestType DEF TypeOK, Jobs
<1>2. job[i] \in Job  BY <1>1
<1>3. CASE Tick(i)
  <2>1. PICK pc \in {"moveout", "weigh", "sweep"} : Load(i, Latest, "cron", pc)
    BY <1>3 DEF Tick
  <2> QED  BY <1>1, <2>1, LoadHolds DEF Same
<1>4. CASE EndTenancy(i)
  <2>1. job[i].pc = "moveout" /\ To(i, "sweep") /\ "sweep" \in Pcs  BY <1>4 DEF EndTenancy, Pcs
  <2>2. job'[i] = OnTo(i, "sweep") /\ Same(i)  BY <1>1, <2>1, ToMoves DEF OnTo
  <2>3. Holds(OnTo(i, "sweep"), letter, Latest)
    BY <1>2, <2>1 DEF JobOK, OnTo, Holds, Charging, Rolling, Deciding, Paying, Job
  <2> QED  BY <2>2, <2>3 DEF JobOK, Same, Keeps
<1>5. CASE Sweep(i)
  <2>1. CASE Candidates = {}
    <3>1. job'[i] = Idle /\ Same(i)  BY <1>1, <1>5, <2>1, FinishMoves DEF Sweep
    <3>2. Holds(Idle, letter', Latest)  BY <1>1, IdleHolds
    <3> QED  BY <3>1, <3>2 DEF JobOK, Same, Keeps
  <2>2. CASE Candidates # {}
    <3>1. Max(Candidates) \in Candidates  BY <2>2, HasMax DEF Candidates, Live
    <3>2. Max(Candidates) = Latest  BY <3>1, LiveIsLatest DEF Candidates, Live
    <3>3. ~letter[Latest].paid  BY <3>1, <3>2 DEF Candidates
    <3>4. Load(i, Latest, "cron", "charge")  BY <1>5, <2>2, <3>2 DEF Sweep
    <3> QED  BY <1>1, <3>3, <3>4, LoadHolds DEF Same
  <2> QED  BY <2>1, <2>2
<1> QED  BY <1>3, <1>4, <1>5 DEF CronStep

LEMMA StartsHold ==
  ASSUME TypeOK, LettersOK, Keeps, NEW c \in Calls, NEW l \in Letters,
         Pay(c, l) \/ \E to \in {"accept", "decline"} : Decide(c, l, to)
  PROVE  JobOK(c)' /\ \A k \in Jobs \ {c} : job'[k] \in {job[k], Unfresh(k)}
<1>1. job \in [Jobs -> Job] /\ Latest \in Letters /\ c \in Jobs /\ letter \in [Letters -> Row]
  BY LatestType DEF TypeOK, Jobs
<1>2. l # 0 /\ l \in 0..Versions  BY SizeAssumption DEF Letters
<1>3. CASE Pay(c, l)
  <2> DEFINE r == [Idle EXCEPT !.by = "payment", !.pc = "advance", !.of = l, !.fresh = TRUE]
  <2>1. "payment" \in Bys /\ "advance" \in Pcs  BY DEF Bys, Pcs
  <2>2. r \in Job  BY <1>2, <2>1, IdleIsJob, JobFields
  <2>3. job'[c] = r /\ Outdates(c)  BY <1>1, <1>3, <2>2, OutdatedMoves DEF Pay
  <2>4. l = Latest /\ letter'[l].paid  BY <1>1, <1>3, LiveIsLatest DEF Pay, Row
  <2>5. /\ r.by = "payment" /\ r.pc = "advance" /\ r.of = l /\ r.copy = NoLetter
    BY DEF Idle
  <2> HIDE DEF r
  <2>6. Holds(r, letter', Latest)
    BY <1>1, <1>2, <2>4, <2>5 DEF Holds, Charging, Rolling, Deciding, Paying, NoLetter, Letters
  <2> QED  BY <2>3, <2>6 DEF JobOK, Outdates, Keeps
<1>4. ASSUME NEW to \in {"accept", "decline"}, Decide(c, l, to)
      PROVE  JobOK(c)' /\ \A k \in Jobs \ {c} : job'[k] \in {job[k], Unfresh(k)}
  <2> DEFINE r == [Idle EXCEPT !.by = "tenant", !.pc = to, !.of = l]
  <2>1. job' = [job EXCEPT ![c] = r]  BY <1>4 DEF Decide
  <2>2. l <= Latest
    <3>1. letter[l].status = "sent"  BY <1>4 DEF Decide
    <3> QED  BY <1>1, <3>1 DEF LettersOK, NoLetter, Letters
  <2>3. r.by = "tenant" /\ r.pc = to /\ r.of = l /\ r.copy = NoLetter /\ ~r.fresh
    BY DEF Idle
  <2> HIDE DEF r
  <2>4. Holds(r, letter', Latest)
    BY <1>2, <2>2, <2>3 DEF Holds, Charging, Rolling, Deciding, Paying, NoLetter
  <2> QED  BY <1>1, <2>1, <2>4 DEF JobOK, Keeps
<1> QED  BY <1>3, <1>4

LEMMA HandlersStep ==
  ASSUME TypeOK, TypeOK', LettersOK, HandlersOK, Next
  PROVE  HandlersOK'
<1>1. CASE \E l \in Letters : Supersedes(l)
  <2>1. PICK l \in Letters : Revise(l) /\ l = Latest /\ Latest' = Latest + 1
    BY <1>1 DEF Supersedes
  <2>2. Latest \in Int /\ ~letter[Latest].paid  BY <2>1 DEF Revise, Letters
  <2>3. ASSUME NEW m \in Letters, letter[m].paid  PROVE letter'[m].paid
    <3>1. letter' = [letter EXCEPT ![l].superseded = TRUE, ![l + 1] = Sent(TRUE)]  BY <2>1 DEF Revise
    <3>2. m # l + 1
      <4>1. m > Latest => letter[m] = NoLetter  BY DEF LettersOK
      <4> QED  BY <2>1, <2>2, <2>3, <4>1 DEF NoLetter
    <3>3. m # l  BY <2>1, <2>2, <2>3
    <3>4. letter'[m] = letter[m]  BY <3>1, <3>2, <3>3 DEF TypeOK
    <3> QED  BY <2>3, <3>4
  <2>4. ASSUME NEW k \in Jobs  PROVE JobOK(k)'
    <3>1. job[k] \in Job /\ job[k].of \in 0..Versions /\ job'[k] = Unfresh(k)
      BY <2>1, JobTyped DEF Revise, Unfresh
    <3>2. Holds(job[k], letter, Latest)  BY DEF HandlersOK, JobOK
    <3>3. job[k].of # 0 => job[k].of \in Letters  BY <3>1, SizeAssumption DEF Letters
    <3>4. Holds(Unfresh(k), letter', Latest + 1)
      BY <2>2, <2>3, <3>1, <3>2, <3>3 DEF Holds, Unfresh, Job
    <3> QED  BY <2>1, <3>1, <3>4 DEF JobOK
  <2> QED  BY <2>4 DEF HandlersOK
<1>2. CASE Keeps
  <2>1. ASSUME NEW j \in Jobs, JobOK(j)',
               \A k \in Jobs \ {j} : job'[k] \in {job[k], Unfresh(k)}
        PROVE  HandlersOK'
    BY <1>2, <2>1, OthersHold DEF HandlersOK
  <2>2. ASSUME NEW j \in Jobs, ChargeStep(j)  PROVE HandlersOK'
    <3>1. UNCHANGED letter
      BY <2>2 DEF ChargeStep, CheckCharge, CheckPeriod, PostCharge, Entry, rows
    <3> QED  BY <1>2, <2>1, <2>2, <3>1, ChargeHolds DEF HandlersOK
  <2>3. ASSUME NEW j \in Jobs, RollStep(j)  PROVE HandlersOK'
    BY <1>2, <2>1, <2>3, RollHolds DEF HandlersOK
  <2>4. ASSUME NEW j \in Jobs, Die(j)  PROVE HandlersOK'
    <3>1. job \in [Jobs -> Job] /\ Latest \in Letters  BY LatestType DEF TypeOK
    <3>2. job'[j] = Idle /\ Same(j)  BY <2>4, <3>1, FinishMoves DEF Die
    <3>3. Holds(Idle, letter', Latest)  BY <3>1, IdleHolds
    <3>4. JobOK(j)'  BY <1>2, <3>2, <3>3 DEF JobOK, Keeps
    <3> QED  BY <2>1, <3>2, <3>4 DEF Same
  <2>5. ASSUME NEW c \in Calls, TenantStep(c) \/ PaymentStep(c)  PROVE HandlersOK'
    <3>1. c \in Jobs  BY DEF Jobs
    <3> QED  BY <1>2, <2>1, <2>5, <3>1, CallsHold DEF HandlersOK
  <2>6. ASSUME NEW c \in Calls, RenewNow(c)  PROVE HandlersOK'
    <3>1. c \in Jobs  BY DEF Jobs
    <3>2. UNCHANGED letter /\ Load(c, Latest, "landlord", "weigh")  BY <2>6 DEF RenewNow, rows
    <3>3. JobOK(c)' /\ Same(c)  BY <1>2, <3>1, <3>2, LoadHolds
    <3> QED  BY <2>1, <3>1, <3>3 DEF Same
  <2>7. ASSUME NEW c \in Calls, NEW l \in Letters,
               Pay(c, l) \/ \E to \in {"accept", "decline"} : Decide(c, l, to)
        PROVE  HandlersOK'
    <3>1. c \in Jobs  BY DEF Jobs
    <3> QED  BY <1>2, <2>1, <2>7, <3>1, StartsHold
  <2>8. ASSUME NEW i \in Crons, CronStep(i)  PROVE HandlersOK'
    <3>1. i \in Jobs  BY DEF Jobs
    <3>2. UNCHANGED letter  BY <2>8 DEF CronStep, Tick, EndTenancy, Sweep, rows
    <3> QED  BY <1>2, <2>1, <2>8, <3>1, <3>2, CronsHold DEF HandlersOK
  <2>9. ASSUME NEW l \in Letters, Revise(l) \/ SendAgain(l)  PROVE HandlersOK'
    <3>1. \A k \in Jobs : job'[k] = job[k] \/ job'[k] = Unfresh(k)
      BY <2>9 DEF Revise, SendAgain, Unfresh
    <3> QED  BY <1>2, <3>1, OthersHold DEF HandlersOK
  <2>10. CASE Expire
    <3>1. \A k \in Jobs : job'[k] = job[k]  BY <2>10 DEF Expire
    <3> QED  BY <1>2, <3>1, OthersHold DEF HandlersOK
  <2> QED
    BY <2>2, <2>3, <2>4, <2>5, <2>6, <2>7, <2>8, <2>9, <2>10 DEF Next
<1> QED  BY <1>1, <1>2, LettersStep

-----------------------------------------------------------------------------
(* The entries of the period.                                              *)

LEMMA BilledIs ==
  ASSUME TypeOK, LettersOK, NEW f \in Fees
  PROVE  /\ Former(f) \in Nat /\ charged[Latest][f] \in Nat /\ debits[f] \in Nat
         /\ stale[f] \in Nat
         /\ Billed(f) = Former(f) + charged[Latest][f] + debits[f]
<1> DEFINE c == [l \in Letters |-> charged[l][f]]
           g == [l \in Letters |-> IF l = Latest THEN 0 ELSE charged[l][f]]
<1>1. Latest \in Letters /\ charged \in [Letters -> [Fees -> Nat]]
      /\ debits[f] \in Nat /\ stale[f] \in Nat
  BY LatestType DEF TypeOK
<1>2. c \in [Letters -> Nat] /\ g \in [Letters -> Nat]  BY <1>1
<1>3. g = [c EXCEPT ![Latest] = 0] /\ c[Latest] = charged[Latest][f]  BY <1>1
<1>4. Former(f) = Sum(g) /\ Billed(f) = Sum(c) + debits[f]  BY DEF Former, Billed
<1> HIDE DEF c, g
<1>5. Sum(g) \in Nat  BY <1>2, LettersFinite, SumType
<1>6. Sum(c) = Sum(g) + c[Latest]  BY <1>1, <1>2, <1>3, LettersFinite, SumWithout
<1>7. c[Latest] \in Nat  BY <1>1, <1>2
<1> QED  BY <1>1, <1>3, <1>4, <1>5, <1>6, <1>7

LEMMA BillsSame ==
  ASSUME charged' = charged, debits' = debits, Latest' = Latest, NEW f \in Fees
  PROVE  Billed(f)' = Billed(f) /\ Former(f)' = Former(f)
BY DEF Billed, Former

LEMMA ChargeAdds ==
  ASSUME TypeOK, LettersOK, NEW l \in Letters, NEW t \in Fees,
         charged' = [charged EXCEPT ![l][t] = @ + 1], debits' = debits, Latest' = Latest,
         NEW f \in Fees
  PROVE  /\ f # t => Billed(f)' = Billed(f) /\ Former(f)' = Former(f)
         /\ f = t => Billed(f)' = Billed(f) + 1 /\ Former(f)' <= Former(f) + 1
         /\ l = Latest => Former(f)' = Former(f)
         /\ Former(f)' \in Nat
<1> DEFINE c == [m \in Letters |-> charged[m][f]]
           d == [m \in Letters |-> charged'[m][f]]
           g == [m \in Letters |-> IF m = Latest THEN 0 ELSE charged[m][f]]
           h == [m \in Letters |-> IF m = Latest THEN 0 ELSE charged'[m][f]]
<1>1. Latest \in Letters /\ charged \in [Letters -> [Fees -> Nat]] /\ debits[f] \in Nat
  BY LatestType DEF TypeOK
<1>2. c \in [Letters -> Nat] /\ g \in [Letters -> Nat]  BY <1>1
<1>3. /\ Former(f) = Sum(g) /\ Billed(f) = Sum(c) + debits[f]
      /\ Former(f)' = Sum(h) /\ Billed(f)' = Sum(d) + debits[f]
  BY DEF Former, Billed
<1>4. Sum(c) \in Nat /\ Sum(g) \in Nat  BY <1>2, LettersFinite, SumType
<1>5. CASE f # t
  <2>1. d = c /\ h = g  BY <1>1, <1>5
  <2> HIDE DEF c, d, g, h
  <2> QED  BY <1>3, <1>4, <1>5, <2>1
<1>6. CASE f = t
  <2>1. d = [c EXCEPT ![l] = @ + 1]  BY <1>1, <1>6
  <2>2. l = Latest => h = g  BY <1>1, <1>6
  <2>3. l # Latest => h = [g EXCEPT ![l] = @ + 1]  BY <1>1, <1>6
  <2> HIDE DEF c, d, g, h
  <2>4. Sum(d) = Sum(c) + 1  BY <1>2, <2>1, LettersFinite, SumMore
  <2>5. l # Latest => Sum(h) = Sum(g) + 1  BY <1>2, <2>3, LettersFinite, SumMore
  <2> QED  BY <1>1, <1>3, <1>4, <1>6, <2>2, <2>4, <2>5
<1> QED  BY <1>5, <1>6

LEMMA DebitAdds ==
  ASSUME TypeOK, NEW t \in Fees,
         debits' = [debits EXCEPT ![t] = @ + 1], charged' = charged, Latest' = Latest,
         NEW f \in Fees
  PROVE  /\ f # t => Billed(f)' = Billed(f)
         /\ f = t => Billed(f)' = Billed(f) + 1
         /\ Former(f)' = Former(f) /\ Former(f)' \in Nat
<1> DEFINE c == [m \in Letters |-> charged[m][f]]
<1>1. c \in [Letters -> Nat] /\ debits[f] \in Nat  BY DEF TypeOK
<1>2. Billed(f) = Sum(c) + debits[f] /\ Billed(f)' = Sum(c) + debits'[f]  BY DEF Billed
<1>3. Former(f)' = Former(f) /\ Former(f) \in Nat
  <2> DEFINE g == [m \in Letters |-> IF m = Latest THEN 0 ELSE charged[m][f]]
  <2>1. g \in [Letters -> Nat]  BY DEF TypeOK
  <2>2. Former(f) = Sum(g) /\ Former(f)' = Sum(g)  BY DEF Former
  <2> QED  BY <2>1, <2>2, LettersFinite, SumType
<1>4. debits'[f] = IF f = t THEN debits[f] + 1 ELSE debits[f]  BY DEF TypeOK
<1> HIDE DEF c
<1>5. Sum(c) \in Nat  BY <1>1, LettersFinite, SumType
<1> QED  BY <1>1, <1>2, <1>3, <1>4, <1>5

LEMMA ReviseDrops ==
  ASSUME TypeOK, LettersOK, NEW l \in Letters, Supersedes(l), NEW f \in Fees
  PROVE  /\ Billed(f)' <= Billed(f) /\ Former(f)' <= Former(f)
         /\ Billed(f)' \in Int /\ Former(f)' \in Int
<1> DEFINE c == [m \in Letters |-> charged[m][f]]
           d == [m \in Letters |-> charged'[m][f]]
           g == [m \in Letters |-> IF m = Latest THEN 0 ELSE charged[m][f]]
           h == [m \in Letters |-> IF m = Latest' THEN 0 ELSE charged'[m][f]]
<1>1. /\ l = Latest /\ Latest' = l + 1 /\ l < Versions /\ debits' = debits
      /\ charged' = [charged EXCEPT ![l] = [i \in Fees |-> 0]]
  BY DEF Supersedes, Revise, Reversed
<1>2. charged \in [Letters -> [Fees -> Nat]] /\ debits[f] \in Nat  BY DEF TypeOK
<1>3. l + 1 \in Letters  BY <1>1, SizeAssumption DEF Letters
<1>4. d = g  BY <1>1, <1>2
<1>5. h = [d EXCEPT ![l + 1] = 0]
  <2>1. Latest' = l + 1  BY <1>1
  <2> QED  BY <1>3, <2>1
<1>6. g \in [Letters -> Nat]  BY <1>2
<1>7. /\ Former(f) = Sum(g) /\ Former(f)' = Sum(h) /\ Billed(f)' = Sum(d) + debits[f]
  BY <1>1 DEF Former, Billed
<1> HIDE DEF c, d, g, h
<1>8. d[l + 1] \in Nat /\ d \in [Letters -> Nat]  BY <1>3, <1>4, <1>6
<1>9. [d EXCEPT ![l + 1] = 0] \in [Letters -> Nat]  BY <1>8
<1>10. Sum(h) \in Nat /\ Sum(d) \in Nat  BY <1>5, <1>8, <1>9, LettersFinite, SumType
<1>11. Sum(d) = Sum(h) + d[l + 1]  BY <1>3, <1>5, <1>8, LettersFinite, SumWithout
<1> QED  BY <1>2, <1>4, <1>7, <1>8, <1>10, <1>11, BilledIs

LEMMA OthersKnow ==
  ASSUME TypeOK, NEW k \in Jobs, Knows(k), rent' => rent,
         \/ job'[k] = Unfresh(k)
         \/ /\ job'[k] = job[k] /\ charged' = charged /\ debits' = debits /\ stale' = stale
            /\ Latest' = Latest
  PROVE  Knows(k)'
<1>1. CASE job'[k] = Unfresh(k)
  <2>1. job'[k].pc = job[k].pc /\ ~job'[k].fresh  BY <1>1, JobTyped DEF Unfresh, Job
  <2> QED  BY <2>1 DEF Knows
<1>2. CASE /\ job'[k] = job[k] /\ charged' = charged /\ debits' = debits /\ stale' = stale
           /\ Latest' = Latest
  <2>1. \A f \in 1..job[k].todo : f \in Fees
    <3>1. job[k].todo \in 0..FeeCount  BY JobTyped
    <3> QED  BY <3>1, SizeAssumption DEF Fees
  <2>2. \A f \in Fees : Billed(f)' = Billed(f)  BY <1>2, BillsSame
  <2> QED  BY <1>2, <2>1, <2>2 DEF Knows
<1> QED  BY <1>1, <1>2

(* A handler that posts nothing next and opens nothing next. *)
LEMMA Careless ==
  ASSUME NEW j \in Jobs, job'[j].pc \notin {"open", "dedup", "debit", "post", "period", "end"}
  PROVE  Knows(j)'
BY DEF Knows

(* A step that posts nothing. *)
LEMMA Quiet ==
  ASSUME TypeOK, BillsOK, Latest' = Latest, rent' => rent,
         charged' = charged, debits' = debits, stale' = stale,
         NEW j \in Jobs, Knows(j)', \A k \in Jobs \ {j} : job'[k] \in {job[k], Unfresh(k)}
  PROVE  BillsOK'
<1>1. \A k \in Jobs \ {j} : Knows(k)'  BY OthersKnow DEF BillsOK
<1>2. \A f \in Fees : Billed(f)' = Billed(f) /\ Former(f)' = Former(f)  BY BillsSame
<1>3. Totals'  BY <1>2 DEF Totals, BillsOK
<1> QED  BY <1>1, <1>3 DEF BillsOK

(* One entry is posted, by a handler at "post" or "debit". *)
LEMMA EntryBills ==
  ASSUME TypeOK, LettersOK, BillsOK, Latest' = Latest, rent' = rent,
         NEW j \in Jobs, JobOK(j), NEW pc \in {"idle", "weigh", "settle", "credit"},
         job[j].pc \in {"post", "debit"}, Entry(j, pc),
         \A f \in Fees : /\ Former(f)' \in Nat
                         /\ f # job[j].todo => Billed(f)' = Billed(f) /\ Former(f)' = Former(f)
                         /\ f = job[j].todo => /\ Billed(f)' = Billed(f) + 1
                                               /\ Former(f)' <= Former(f) + 1
                                               /\ job[j].fresh => Former(f)' = Former(f),
         rent => debits' = debits
  PROVE  BillsOK'
<1> DEFINE t == job[j].todo
<1>1. job \in [Jobs -> Job] /\ job[j] \in Job /\ t \in 0..FeeCount  BY JobTyped DEF TypeOK
<1>2. t # 0  BY DEF JobOK, Holds
<1>3. t \in Fees /\ FeeCount \in Nat  BY <1>1, <1>2, SizeAssumption DEF Fees
<1>4. pc \in Pcs  BY DEF Pcs
<1>5. job'[j] = Posted(j, pc) /\ Outdates(j)  BY <1>1, <1>4, EntryMoves
<1>6. stale' = [stale EXCEPT ![t] = IF job[j].fresh THEN @ ELSE @ + 1]  BY DEF Entry
<1>7. stale \in [Fees -> Nat]  BY DEF TypeOK
<1>8. \A f \in Fees : f # t => stale'[f] = stale[f]  BY <1>3, <1>6, <1>7
<1>9. stale'[t] = IF job[j].fresh THEN stale[t] ELSE stale[t] + 1  BY <1>3, <1>6, <1>7
<1>10. ASSUME NEW f \in Fees  PROVE Billed(f)' <= 1 + stale'[f] /\ Former(f)' <= stale'[f]
  <2>1. Billed(f) <= 1 + stale[f] /\ Former(f) <= stale[f]  BY DEF BillsOK, Totals
  <2>2. /\ Billed(f) \in Int /\ Former(f) \in Int /\ stale[f] \in Int
        /\ Billed(f)' \in Int /\ Former(f)' \in Int
    BY BilledIs
  <2>3. CASE f # t  BY <1>8, <2>1, <2>3
  <2>4. CASE f = t /\ job[j].fresh
    <3>1. t \in 1..t  BY <1>3 DEF Fees
    <3>2. Billed(f) <= stale[f]  BY <2>4, <3>1 DEF BillsOK, Knows
    <3> QED  BY <1>9, <2>1, <2>2, <2>4, <3>2
  <2>5. CASE f = t /\ ~job[j].fresh  BY <1>9, <2>1, <2>2, <2>5
  <2> QED  BY <2>3, <2>4, <2>5
<1>12. Totals'
  <2>1. rent' => \A f \in Fees : debits'[f] = 0  BY DEF BillsOK, Totals
  <2> QED  BY <1>10, <2>1 DEF Totals
<1>13. \A k \in Jobs \ {j} : Knows(k)'  BY <1>5, OthersKnow DEF BillsOK, Outdates
<1>14. Knows(j)'
  <2>1. CASE t > 1
    <3>1. job'[j] = [job[j] EXCEPT !.todo = t - 1]  BY <1>5, <2>1 DEF Posted
    <3>2. /\ job'[j].todo = t - 1 /\ job'[j].pc = job[j].pc /\ job'[j].fresh = job[j].fresh
      BY <1>1, <3>1 DEF Job
    <3>3. ASSUME NEW f \in 1..(t - 1), job[j].fresh  PROVE Billed(f)' <= stale'[f]
      <4>1. f \in Fees /\ f # t /\ f \in 1..t  BY <1>3 DEF Fees
      <4>2. Billed(f) <= stale[f]  BY <3>3, <4>1 DEF BillsOK, Knows
      <4> QED  BY <1>8, <4>1, <4>2
    <3>4. rent => job[j].pc \notin {"open", "dedup", "debit"}  BY DEF BillsOK, Knows
    <3> QED  BY <3>2, <3>3, <3>4 DEF Knows
  <2>2. CASE ~(t > 1)
    <3>1. job'[j] \in {Idle, [job[j] EXCEPT !.todo = 0, !.pc = pc]}  BY <1>5, <2>2 DEF Posted
    <3>2. CASE job'[j] = Idle  BY <3>2, Careless DEF Idle
    <3>3. CASE job'[j] = [job[j] EXCEPT !.todo = 0, !.pc = pc]
      <4>1. job'[j].pc = pc  BY <1>1, <3>3, JobFields
      <4> QED  BY <4>1, Careless
    <3> QED  BY <3>1, <3>2, <3>3
  <2> QED  BY <2>1, <2>2
<1> QED  BY <1>12, <1>13, <1>14 DEF BillsOK

LEMMA Uncharged ==
  ASSUME TypeOK, LettersOK, ~(OwnCharge(Latest) > 0), NEW f \in Fees
  PROVE  charged[Latest][f] = 0
<1>1. Latest \in Letters /\ Latest \in 0..Versions /\ Latest # 0
  BY LatestType, SizeAssumption DEF Letters
<1>2. charged[Latest] \in [Fees -> Nat]  BY <1>1 DEF TypeOK
<1>3. OwnCharge(Latest) \in Nat  BY <1>1, Amounts
<1>4. Sum(charged[Latest]) = 0  BY <1>1, <1>3 DEF OwnCharge
<1> QED  BY <1>2, <1>4, LettersFinite, SumZero

LEMMA ChargeBills ==
  ASSUME TypeOK, LettersOK, HandlersOK, BillsOK, NEW j \in Jobs, ChargeStep(j)
  PROVE  BillsOK'
<1>1. job \in [Jobs -> Job] /\ job[j] \in Job /\ JobOK(j)  BY DEF TypeOK, HandlersOK
<1>2. UNCHANGED letter
  BY DEF ChargeStep, CheckCharge, CheckPeriod, PostCharge, Entry, rows
<1>3. Latest' = Latest /\ Latest \in Letters  BY <1>2, LettersUnchanged, LatestType DEF Keeps
<1>4. AfterCharge(j) \in {"weigh", "idle"} /\ AfterCharge(j) \in Pcs  BY DEF AfterCharge, Pcs
<1>5. ASSUME Leave(j, AfterCharge(j))  PROVE Same(j) /\ Knows(j)'
  <2>1. /\ Same(j)
        /\ job'[j] = IF AfterCharge(j) = "idle" THEN Idle ELSE [job[j] EXCEPT !.pc = AfterCharge(j)]
    BY <1>1, <1>4, <1>5, LeaveMoves
  <2>2. job'[j].pc \in {"weigh", "idle"}  BY <1>1, <1>4, <2>1, JobFields DEF Idle
  <2> QED  BY <2>1, <2>2, Careless
<1>6. job[j].fresh => job[j].of = Latest  BY <1>1 DEF JobOK, Holds
<1>7. CASE CheckCharge(j)
  <2>1. UNCHANGED <<rent, charged, debits, stale>>  BY <1>7 DEF CheckCharge, rows, entries, history
  <2>2. CASE Leave(j, AfterCharge(j))  BY <1>3, <1>5, <2>1, <2>2, Quiet DEF Same
  <2>3. CASE To(j, "period") /\ ~(OwnCharge(job[j].of) > 0)
    <3>1. "period" \in Pcs  BY DEF Pcs
    <3>2. job'[j] = [job[j] EXCEPT !.pc = "period"] /\ Same(j)  BY <1>1, <2>3, <3>1, ToMoves
    <3>3. job'[j].pc = "period" /\ job'[j].fresh = job[j].fresh  BY <1>1, <3>2 DEF Job
    <3>4. job[j].fresh => \A f \in Fees : charged[Latest][f] = 0  BY <1>6, <2>3, Uncharged
    <3>5. Knows(j)'  BY <1>3, <2>1, <3>3, <3>4 DEF Knows
    <3> QED  BY <1>3, <2>1, <3>2, <3>5, Quiet DEF Same
  <2> QED  BY <1>7, <2>2, <2>3 DEF CheckCharge
<1>8. CASE CheckPeriod(j)
  <2> DEFINE r == [job[j] EXCEPT !.pc = "post", !.todo = FeeCount]
  <2>1. UNCHANGED <<rent, charged, debits, stale>>  BY <1>8 DEF CheckPeriod, rows, entries, history
  <2>2. CASE Leave(j, AfterCharge(j))  BY <1>3, <1>5, <2>1, <2>2, Quiet DEF Same
  <2>3. CASE job' = [job EXCEPT ![j] = r] /\ ~\E f \in Fees : debits[f] > 0
    <3>1. job'[j] = r /\ Same(j)  BY <1>1, <2>3 DEF Same
    <3>2. job'[j].pc = "post" /\ job'[j].fresh = job[j].fresh /\ job'[j].todo = FeeCount
      BY <1>1, <3>1 DEF Job
    <3>3. ASSUME job[j].fresh, NEW f \in Fees  PROVE Billed(f) <= stale[f]
      <4>1. job[j].pc = "period"  BY <1>8 DEF CheckPeriod
      <4>2. charged[Latest][f] = 0 /\ Former(f) <= stale[f]
        BY <3>3, <4>1 DEF BillsOK, Totals, Knows
      <4>3. /\ Former(f) \in Nat /\ debits[f] \in Nat
            /\ Billed(f) = Former(f) + charged[Latest][f] + debits[f]
        BY BilledIs
      <4> QED  BY <2>3, <4>2, <4>3
    <3>4. ASSUME job[j].fresh, NEW f \in 1..FeeCount  PROVE Billed(f)' <= stale'[f]
      <4>1. f \in Fees  BY DEF Fees
      <4>2. Billed(f)' = Billed(f)  BY <1>3, <2>1, <4>1, BillsSame
      <4> QED  BY <2>1, <3>3, <3>4, <4>1, <4>2
    <3>5. Knows(j)'  BY <3>2, <3>4 DEF Knows
    <3> QED  BY <1>3, <2>1, <3>1, <3>5, Quiet DEF Same
  <2> QED  BY <1>8, <2>2, <2>3 DEF CheckPeriod
<1>9. CASE PostCharge(j)
  <2> DEFINE l == job[j].of
             t == job[j].todo
  <2>1. /\ job[j].pc = "post" /\ Entry(j, AfterCharge(j)) /\ debits' = debits
        /\ charged' = [charged EXCEPT ![l][t] = @ + 1] /\ rent' = rent
    BY <1>9 DEF PostCharge, Entry, rows
  <2>2. l \in Letters /\ t \in Fees
    <3>1. l # 0 /\ t # 0  BY <1>1, <2>1 DEF JobOK, Holds, Charging
    <3>2. l \in 0..Versions /\ t \in 0..FeeCount  BY JobTyped
    <3> QED  BY <3>1, <3>2, SizeAssumption DEF Letters, Fees
  <2>3. job[j].fresh => l = Latest  BY <1>6
  <2> HIDE DEF l
  <2>4. \A f \in Fees : /\ Former(f)' \in Nat
                        /\ f # t => Billed(f)' = Billed(f) /\ Former(f)' = Former(f)
                        /\ f = t => Billed(f)' = Billed(f) + 1 /\ Former(f)' <= Former(f) + 1
                        /\ l = Latest => Former(f)' = Former(f)
    BY <1>3, <2>1, <2>2, ChargeAdds
  <2>5. AfterCharge(j) \in {"idle", "weigh", "settle", "credit"}  BY <1>4
  <2> QED  BY <1>1, <1>3, <2>1, <2>3, <2>4, <2>5, EntryBills
<1> QED  BY <1>7, <1>8, <1>9 DEF ChargeStep

LEMMA RollBills ==
  ASSUME TypeOK, LettersOK, HandlersOK, BillsOK, Keeps, NEW j \in Jobs, RollStep(j)
  PROVE  BillsOK'
<1>1. job \in [Jobs -> Job] /\ job[j] \in Job /\ JobOK(j)  BY DEF TypeOK, HandlersOK
<1>2. Latest' = Latest /\ Latest \in Letters  BY LatestType DEF Keeps
<1>3. AfterRoll(j) \in {"idle", "sweep"} /\ AfterRoll(j) \in Pcs  BY DEF AfterRoll, Pcs
<1>4. AfterDebits(j) \in {"settle", "credit"} /\ AfterDebits(j) \in Pcs  BY DEF AfterDebits, Pcs
<1>5. ASSUME Leave(j, AfterRoll(j))  PROVE Same(j) /\ Knows(j)'
  <2>1. /\ Same(j)
        /\ job'[j] = IF AfterRoll(j) = "idle" THEN Idle ELSE [job[j] EXCEPT !.pc = AfterRoll(j)]
    BY <1>1, <1>3, <1>5, LeaveMoves
  <2>2. job'[j].pc \in {"sweep", "idle"}  BY <1>1, <1>3, <2>1, JobFields DEF Idle
  <2> QED  BY <2>1, <2>2, Careless
<1>6. ASSUME UNCHANGED <<charged, debits, stale>>, rent' => rent, Same(j), Knows(j)'
      PROVE  BillsOK'
  BY <1>2, <1>6, Quiet DEF Same
<1>7. ASSUME NEW pc \in Pcs, To(j, pc)
      PROVE  Same(j) /\ job'[j].pc = pc /\ job'[j].fresh = job[j].fresh
  <2>1. job'[j] = [job[j] EXCEPT !.pc = pc] /\ Same(j)  BY <1>1, <1>7, ToMoves
  <2> QED  BY <1>1, <2>1, JobFields
<1>8. {"open", "dedup", "mark"} \subseteq Pcs  BY DEF Pcs
<1>9. CASE WeighWallet(j)
  <2>1. /\ job' = [job EXCEPT ![j] = [job[j] EXCEPT !.pc = "covers", !.wallet = Balance]]
        /\ UNCHANGED <<rent, charged, debits, stale>>
    BY <1>9 DEF WeighWallet, rows, entries, history
  <2>2. job'[j].pc = "covers" /\ Same(j)  BY <1>1, <2>1, JobFields DEF Same
  <2> QED  BY <1>6, <2>1, <2>2, Careless
<1>10. CASE WeighCharge(j)
  <2>1. UNCHANGED <<rent, charged, debits, stale>>  BY <1>10 DEF WeighCharge, rows, entries, history
  <2>2. CASE job' = [job EXCEPT ![j] = [job[j] EXCEPT !.pc = "flip", !.wallet = 0]]
    <3>1. job'[j].pc = "flip" /\ Same(j)  BY <1>1, <2>2, JobFields DEF Same
    <3> QED  BY <1>6, <2>1, <3>1, Careless
  <2>3. CASE Leave(j, AfterRoll(j))  BY <1>5, <1>6, <2>1, <2>3
  <2> QED  BY <1>10, <2>2, <2>3 DEF WeighCharge
<1>11. CASE Flip(j)
  <2>1. UNCHANGED <<charged, debits, stale>> /\ ~rent'  BY <1>11 DEF Flip, entries, history
  <2>2. CASE rent
    <3>1. To(j, "open")  BY <1>11, <2>2 DEF Flip, Leave
    <3>2. Same(j) /\ job'[j].pc = "open"  BY <1>7, <1>8, <3>1
    <3>3. \A f \in Fees : debits'[f] = 0  BY <2>1, <2>2 DEF BillsOK, Totals
    <3>4. Knows(j)'  BY <2>1, <3>2, <3>3 DEF Knows
    <3> QED  BY <1>6, <2>1, <3>2, <3>4
  <2>3. CASE ~rent
    <3>1. Leave(j, AfterRoll(j))  BY <1>11, <2>3 DEF Flip
    <3> QED  BY <1>5, <1>6, <2>1, <3>1
  <2> QED  BY <2>2, <2>3
<1>12. CASE OpenPeriod(j)
  <2>1. /\ job[j].pc = "open" /\ To(j, "dedup") /\ UNCHANGED <<rent, charged, debits, stale>>
    BY <1>12 DEF OpenPeriod, entries, history
  <2>2. Same(j) /\ job'[j].pc = "dedup" /\ job'[j].fresh = job[j].fresh  BY <1>7, <1>8, <2>1
  <2>3. ~rent /\ (job[j].fresh => \A f \in Fees : debits[f] = 0)  BY <2>1 DEF BillsOK, Knows
  <2>4. Knows(j)'  BY <2>1, <2>2, <2>3 DEF Knows
  <2> QED  BY <1>6, <2>1, <2>2, <2>4
<1>13. CASE Dedup(j)
  <2> DEFINE r == [job[j] EXCEPT !.pc = "debit", !.todo = FeeCount]
  <2>1. job[j].pc = "dedup" /\ UNCHANGED <<rent, charged, debits, stale>>
    BY <1>13 DEF Dedup, rows, entries, history
  <2>2. CASE job' = [job EXCEPT ![j].pc = AfterDebits(j)]
    <3>1. To(j, AfterDebits(j))  BY <2>2 DEF To
    <3> QED  BY <1>4, <1>6, <1>7, <2>1, <3>1, Careless
  <2>3. CASE job' = [job EXCEPT ![j] = r] /\ ~(OwnCharge(job[j].of) > 0)
    <3>1. job'[j] = r /\ Same(j)  BY <1>1, <2>3 DEF Same
    <3>2. job'[j].pc = "debit" /\ job'[j].fresh = job[j].fresh /\ job'[j].todo = FeeCount
      BY <1>1, <3>1 DEF Job
    <3>3. ~rent /\ (job[j].fresh => \A f \in Fees : debits[f] = 0)  BY <2>1 DEF BillsOK, Knows
    <3>4. job[j].fresh => job[j].of = Latest  BY <1>1 DEF JobOK, Holds
    <3>5. ASSUME job[j].fresh, NEW f \in 1..FeeCount  PROVE Billed(f)' <= stale'[f]
      <4>1. f \in Fees  BY DEF Fees
      <4>2. Billed(f)' = Billed(f)  BY <1>2, <2>1, <4>1, BillsSame
      <4>3. charged[Latest][f] = 0  BY <2>3, <3>4, <3>5, <4>1, Uncharged
      <4>4. debits[f] = 0 /\ Former(f) <= stale[f]  BY <3>3, <3>5, <4>1 DEF BillsOK, Totals
      <4>5. Former(f) \in Nat /\ Billed(f) = Former(f) + charged[Latest][f] + debits[f]
        BY <4>1, BilledIs
      <4> QED  BY <2>1, <4>2, <4>3, <4>4, <4>5
    <3>6. Knows(j)'  BY <2>1, <3>2, <3>3, <3>5 DEF Knows
    <3> QED  BY <1>6, <2>1, <3>1, <3>6
  <2> QED  BY <1>13, <2>2, <2>3 DEF Dedup
<1>14. CASE Debit(j)
  <2> DEFINE t == job[j].todo
  <2>1. /\ job[j].pc = "debit" /\ Entry(j, AfterDebits(j)) /\ charged' = charged
        /\ debits' = [debits EXCEPT ![t] = @ + 1] /\ rent' = rent
    BY <1>14 DEF Debit, Entry, rows
  <2>2. t \in Fees
    <3>1. t # 0  BY <1>1, <2>1 DEF JobOK, Holds
    <3>2. t \in 0..FeeCount  BY JobTyped
    <3> QED  BY <3>1, <3>2, SizeAssumption DEF Fees
  <2>3. ~rent  BY <2>1 DEF BillsOK, Knows
  <2>4. \A f \in Fees : /\ f # t => Billed(f)' = Billed(f)
                        /\ f = t => Billed(f)' = Billed(f) + 1
                        /\ Former(f)' = Former(f) /\ Former(f)' \in Nat
    BY <1>2, <2>1, <2>2, DebitAdds
  <2>5. \A f \in Fees : Former(f)' <= Former(f) + 1  BY <2>4
  <2>6. AfterDebits(j) \in {"idle", "weigh", "settle", "credit"}  BY <1>4
  <2> QED  BY <1>1, <1>2, <2>1, <2>3, <2>4, <2>5, <2>6, EntryBills
<1>15. CASE Settle(j)
  <2>1. UNCHANGED <<rent, charged, debits, stale>>  BY <1>15 DEF Settle, entries, history
  <2>2. CASE To(j, "mark")  BY <1>6, <1>7, <1>8, <2>1, <2>2, Careless
  <2>3. CASE Leave(j, AfterRoll(j))  BY <1>5, <1>6, <2>1, <2>3
  <2> QED  BY <1>15, <2>2, <2>3 DEF Settle
<1>16. CASE MarkLetter(j)
  <2>1. UNCHANGED <<rent, charged, debits, stale>>  BY <1>16 DEF MarkLetter, entries
  <2> QED  BY <1>5, <1>6, <1>16, <2>1 DEF MarkLetter
<1> QED
  BY <1>9, <1>10, <1>11, <1>12, <1>13, <1>14, <1>15, <1>16 DEF RollStep

LEMMA CallBills ==
  ASSUME TypeOK, LettersOK, HandlersOK, BillsOK, Keeps, NEW c \in Calls,
         TenantStep(c) \/ PaymentStep(c)
  PROVE  BillsOK'
<1>1. job \in [Jobs -> Job] /\ c \in Jobs /\ job[c] \in Job /\ JobOK(c)
  BY DEF TypeOK, HandlersOK, Jobs
<1>2. Latest' = Latest  BY DEF Keeps
<1>3. \A k \in Jobs \ {c} : job'[k] \in {job[k], Unfresh(k)}  BY <1>1, CallsHold
<1>4. ASSUME UNCHANGED <<charged, debits, stale>>, rent' => rent, Knows(c)'  PROVE BillsOK'
  BY <1>1, <1>2, <1>3, <1>4, Quiet
<1>5. ASSUME NEW pc \in {"end", "clear", "credit", "open"}, To(c, pc)
      PROVE  job'[c].pc = pc /\ job'[c].fresh = job[c].fresh
  <2>1. pc \in Pcs  BY DEF Pcs
  <2>2. job'[c] = [job[c] EXCEPT !.pc = pc]  BY <1>1, <1>5, <2>1, ToMoves
  <2> QED  BY <1>1, <2>2, JobFields
<1>6. CASE Accept(c)
  <2>1. UNCHANGED <<rent, charged, debits, stale>>  BY <1>6 DEF Accept, Record, entries
  <2>2. job'[c].pc = "accepted"  BY <1>1, <1>6 DEF Accept, Outdated, Job
  <2> QED  BY <1>1, <1>4, <2>1, <2>2, Careless
<1>7. CASE Decline(c)
  <2>1. UNCHANGED <<rent, charged, debits, stale>>  BY <1>7 DEF Decline, Record, entries
  <2>2. job'[c].pc = "idle"  BY <1>1, <1>7 DEF Decline, Outdated, Idle
  <2> QED  BY <1>1, <1>4, <2>1, <2>2, Careless
<1>8. CASE Refetch(c)
  <2>1. UNCHANGED <<rent, charged, debits, stale>>  BY <1>8 DEF Refetch, rows, entries, history
  <2>2. job'[c].pc \in {"charge", "weigh"}  BY <1>1, <1>8 DEF Refetch, Job
  <2> QED  BY <1>1, <1>4, <2>1, <2>2, Careless
<1>9. CASE FindRent(c)
  <2>1. UNCHANGED <<rent, charged, debits, stale>>  BY <1>9 DEF FindRent, rows, entries
  <2>2. CASE rent
    <3>1. To(c, "end")  BY <1>9, <2>2 DEF FindRent
    <3>2. \A f \in Fees : debits'[f] = 0  BY <2>1, <2>2 DEF BillsOK, Totals
    <3>3. Knows(c)'  BY <1>5, <3>1, <3>2 DEF Knows
    <3> QED  BY <1>4, <2>1, <3>3
  <2>3. CASE ~rent
    <3>1. \/ To(c, "clear") \/ To(c, "credit")
          \/ job' = [job EXCEPT ![c].pc = "open", ![c].fresh = FALSE]
      BY <1>9, <2>3 DEF FindRent
    <3>2. CASE job' = [job EXCEPT ![c].pc = "open", ![c].fresh = FALSE]
      <4>1. ~job'[c].fresh  BY <1>1, <3>2 DEF Job
      <4>2. Knows(c)'  BY <2>1, <2>3, <4>1 DEF Knows
      <4> QED  BY <1>4, <2>1, <4>2
    <3>3. CASE To(c, "clear") \/ To(c, "credit")  BY <1>1, <1>4, <1>5, <2>1, <3>3, Careless
    <3> QED  BY <3>1, <3>2, <3>3
  <2> QED  BY <2>2, <2>3
<1>10. CASE EndRent(c)
  <2>1. /\ job[c].pc = "end" /\ To(c, "open") /\ ~rent'
        /\ UNCHANGED <<charged, debits, stale>>
    BY <1>10 DEF EndRent, entries
  <2>2. job[c].fresh => \A f \in Fees : debits[f] = 0  BY <1>1, <2>1 DEF BillsOK, Knows
  <2>3. Knows(c)'  BY <1>5, <2>1, <2>2 DEF Knows
  <2> QED  BY <1>4, <2>1, <2>3
<1>11. CASE ClearRent(c)
  <2>1. UNCHANGED <<rent, charged, debits, stale>> /\ To(c, "credit")
    BY <1>11 DEF ClearRent, entries, history
  <2> QED  BY <1>1, <1>4, <1>5, <2>1, Careless
<1>12. CASE Credit(c)
  <2>1. UNCHANGED <<rent, charged, debits, stale>>  BY <1>12 DEF Credit, rows, history
  <2>2. job'[c] = Idle  BY <1>1, <1>12, FinishMoves DEF Credit
  <2>3. job'[c].pc = "idle"  BY <2>2 DEF Idle
  <2> QED  BY <1>1, <1>4, <2>1, <2>3, Careless
<1> QED
  BY <1>6, <1>7, <1>8, <1>9, <1>10, <1>11, <1>12 DEF TenantStep, PaymentStep

(* Where the cron, the landlord's button and a new call begin. *)
LEMMA StartPcs ==
  ASSUME TypeOK, LettersOK
  PROVE  /\ \A i \in Crons : CronStep(i) =>
              job'[i].pc \in {"idle", "moveout", "weigh", "sweep", "charge"}
         /\ \A c \in Calls : RenewNow(c) => job'[c].pc = "weigh" /\ Same(c)
         /\ \A c \in Calls, l \in Letters : Pay(c, l) => job'[c].pc = "advance"
         /\ \A c \in Calls, l \in Letters, to \in {"accept", "decline"} :
              Decide(c, l, to) => job'[c].pc = to
<1>1. job \in [Jobs -> Job] /\ letter \in [Letters -> Row] /\ Latest \in Letters
  BY LatestType DEF TypeOK
<1>2. ASSUME NEW j \in Jobs, NEW l \in Letters, NEW by \in Bys, NEW pc \in Pcs, Load(j, l, by, pc)
      PROVE  job'[j].pc = pc /\ Same(j)
  <2>1. job'[j] = Loaded(l, by, pc) /\ Same(j)  BY <1>1, <1>2, LoadMoves
  <2>2. Loaded(l, by, pc).pc = pc  BY DEF Loaded, Idle
  <2> QED  BY <2>1, <2>2
<1>3. ASSUME NEW i \in Crons, CronStep(i)
      PROVE  job'[i].pc \in {"idle", "moveout", "weigh", "sweep", "charge"}
  <2>1. i \in Jobs /\ "cron" \in Bys /\ {"idle", "moveout", "weigh", "sweep", "charge"} \subseteq Pcs
    BY DEF Jobs, Bys, Pcs
  <2>2. CASE Tick(i)
    <3>1. PICK pc \in {"moveout", "weigh", "sweep"} : Load(i, Latest, "cron", pc)
      BY <2>2 DEF Tick
    <3> QED  BY <1>1, <1>2, <2>1, <3>1
  <2>3. CASE EndTenancy(i)
    <3>1. job'[i] = [job[i] EXCEPT !.pc = "sweep"]  BY <1>1, <2>1, <2>3, ToMoves DEF EndTenancy
    <3> QED  BY <1>1, <2>1, <3>1, JobFields
  <2>4. CASE Sweep(i)
    <3>1. CASE Candidates = {}
      <4>1. job'[i] = Idle  BY <1>1, <2>1, <2>4, <3>1, FinishMoves DEF Sweep
      <4> QED  BY <4>1 DEF Idle
    <3>2. CASE Candidates # {}
      <4>1. Max(Candidates) \in Letters  BY <3>2, HasMax DEF Candidates, Live
      <4>2. Load(i, Max(Candidates), "cron", "charge")  BY <2>4, <3>2 DEF Sweep
      <4> QED  BY <1>2, <2>1, <4>1, <4>2
    <3> QED  BY <3>1, <3>2
  <2> QED  BY <1>3, <2>2, <2>3, <2>4 DEF CronStep
<1>4. ASSUME NEW c \in Calls, RenewNow(c)  PROVE job'[c].pc = "weigh" /\ Same(c)
  <2>1. c \in Jobs /\ "landlord" \in Bys /\ "weigh" \in Pcs  BY DEF Jobs, Bys, Pcs
  <2> QED  BY <1>1, <1>2, <1>4, <2>1 DEF RenewNow
<1>5. ASSUME NEW c \in Calls, NEW l \in Letters, Pay(c, l)  PROVE job'[c].pc = "advance"
  <2>1. c \in Jobs  BY DEF Jobs
  <2> QED  BY <1>1, <1>5, <2>1 DEF Pay, Outdated, Idle
<1>6. ASSUME NEW c \in Calls, NEW l \in Letters, NEW to \in {"accept", "decline"}, Decide(c, l, to)
      PROVE  job'[c].pc = to
  <2>1. c \in Jobs  BY DEF Jobs
  <2> QED  BY <1>1, <1>6, <2>1 DEF Decide, Idle
<1> QED  BY <1>3, <1>4, <1>5, <1>6

LEMMA BillsStep ==
  ASSUME TypeOK, TypeOK', LettersOK, HandlersOK, BillsOK, Next
  PROVE  BillsOK'
<1>1. ASSUME NEW l \in Letters, Supersedes(l)  PROVE BillsOK'
  <2>1. Supersedes(l)  BY <1>1
  <2>2. /\ rent' = rent /\ debits' = debits /\ stale' = stale
        /\ \A k \in Jobs : job'[k] = Unfresh(k)
    BY <2>1 DEF Supersedes, Revise, history, Unfresh
  <2>3. \A k \in Jobs : Knows(k)'  BY <2>2, OthersKnow DEF BillsOK
  <2>4. \A f \in Fees : Billed(f)' <= 1 + stale[f] /\ Former(f)' <= stale[f]
    <3> SUFFICES ASSUME NEW f \in Fees  PROVE Billed(f)' <= 1 + stale[f] /\ Former(f)' <= stale[f]
      OBVIOUS
    <3>1. Billed(f)' <= Billed(f) /\ Former(f)' <= Former(f)  BY <2>1, ReviseDrops
    <3>2. Billed(f) <= 1 + stale[f] /\ Former(f) <= stale[f]  BY DEF BillsOK, Totals
    <3>3. /\ Former(f) \in Nat /\ charged[Latest][f] \in Nat /\ debits[f] \in Nat
          /\ stale[f] \in Nat /\ Billed(f) = Former(f) + charged[Latest][f] + debits[f]
      BY BilledIs
    <3>4. Billed(f)' \in Int /\ Former(f)' \in Int  BY <2>1, ReviseDrops
    <3> QED  BY <3>1, <3>2, <3>3, <3>4
  <2>5. Totals'  BY <2>2, <2>4 DEF Totals, BillsOK
  <2> QED  BY <2>3, <2>5 DEF BillsOK
<1>2. CASE Keeps
  <2>1. Latest' = Latest  BY <1>2 DEF Keeps
  <2>2. ASSUME UNCHANGED <<charged, debits, stale>>, rent' => rent, NEW j \in Jobs,
               job'[j].pc \notin {"open", "dedup", "debit", "post", "period", "end"},
               \A k \in Jobs \ {j} : job'[k] \in {job[k], Unfresh(k)}
        PROVE  BillsOK'
    BY <2>1, <2>2, Careless, Quiet
  <2>3. ASSUME NEW j \in Jobs, ChargeStep(j) \/ RollStep(j)  PROVE BillsOK'
    BY <1>2, <2>3, ChargeBills, RollBills
  <2>4. ASSUME NEW j \in Jobs, Die(j)  PROVE BillsOK'
    <3>1. job \in [Jobs -> Job]  BY DEF TypeOK
    <3>2. job'[j] = Idle /\ Same(j)  BY <2>4, <3>1, FinishMoves DEF Die
    <3>3. UNCHANGED <<rent, charged, debits, stale>>  BY <2>4 DEF Die, rows, entries
    <3> QED  BY <2>2, <3>2, <3>3 DEF Idle, Same
  <2>5. ASSUME NEW c \in Calls, TenantStep(c) \/ PaymentStep(c)  PROVE BillsOK'
    BY <1>2, <2>5, CallBills
  <2>6. ASSUME NEW c \in Calls, RenewNow(c)  PROVE BillsOK'
    <3>1. c \in Jobs  BY DEF Jobs
    <3>2. UNCHANGED <<rent, charged, debits, stale>>  BY <2>6 DEF RenewNow, rows, entries, history
    <3>3. job'[c].pc = "weigh" /\ Same(c)  BY <2>6, StartPcs
    <3> QED  BY <2>2, <3>1, <3>2, <3>3 DEF Same
  <2>7. ASSUME NEW c \in Calls, NEW l \in Letters,
               Pay(c, l) \/ \E to \in {"accept", "decline"} : Decide(c, l, to)
        PROVE  BillsOK'
    <3>1. c \in Jobs  BY DEF Jobs
    <3>2. UNCHANGED <<rent, charged, debits, stale>>
      BY <2>7 DEF Pay, Decide, rows, entries, history
    <3>3. \A k \in Jobs \ {c} : job'[k] \in {job[k], Unfresh(k)}  BY <1>2, <2>7, StartsHold
    <3>4. job'[c].pc \in {"advance", "accept", "decline"}  BY <2>7, StartPcs
    <3> QED  BY <2>2, <3>1, <3>2, <3>3, <3>4
  <2>8. ASSUME NEW i \in Crons, CronStep(i)  PROVE BillsOK'
    <3>1. i \in Jobs /\ JobOK(i)  BY DEF Jobs, HandlersOK
    <3>2. UNCHANGED <<letter, charged, debits, stale>> /\ (rent' => rent)
      BY <2>8 DEF CronStep, Tick, EndTenancy, Sweep, rows, entries, history
    <3>3. \A k \in Jobs \ {i} : job'[k] \in {job[k], Unfresh(k)}
      BY <1>2, <2>8, <3>1, <3>2, CronsHold
    <3>4. job'[i].pc \in {"idle", "moveout", "weigh", "sweep", "charge"}  BY <2>8, StartPcs
    <3> QED  BY <2>2, <3>1, <3>2, <3>3, <3>4
  <2>9. ASSUME NEW l \in Letters, Revise(l)  PROVE BillsOK'
    <3>1. Supersedes(l)  BY <2>9, ReviseSupersedes
    <3> QED  BY <1>1, <3>1
  <2>10. ASSUME UNCHANGED <<rent, charged, debits, stale, job>>  PROVE BillsOK'
    <3>1. \A k \in Jobs : Knows(k)'  BY <2>1, <2>10, OthersKnow DEF BillsOK
    <3>2. \A f \in Fees : Billed(f)' = Billed(f) /\ Former(f)' = Former(f)
      BY <2>1, <2>10, BillsSame
    <3> QED  BY <2>10, <3>1, <3>2 DEF BillsOK, Totals
  <2>11. ASSUME NEW l \in Letters, SendAgain(l)  PROVE BillsOK'
    BY <2>10, <2>11 DEF SendAgain, entries, history
  <2>12. Expire => BillsOK'  BY <2>10 DEF Expire, entries, history
  <2> QED
    BY <2>3, <2>4, <2>5, <2>6, <2>7, <2>8, <2>9, <2>11, <2>12 DEF Next
<1> QED  BY <1>1, <1>2, LettersStep

-----------------------------------------------------------------------------
(* The periods opened.                                                     *)

LEMMA JobsFinite == IsFiniteSet(Jobs)
BY SizeAssumption, FS_Union DEF Jobs

LEMMA OpenersType ==
  IsFiniteSet(Openers) /\ Cardinality(Openers) \in Nat
<1>1. Openers \subseteq Jobs  BY DEF Openers
<1>2. IsFiniteSet(Openers)  BY <1>1, JobsFinite, FS_Subset
<1> QED  BY <1>2, FS_CardinalityType

LEMMA OpenersMove ==
  ASSUME TypeOK, NEW j \in Jobs, \A k \in Jobs \ {j} : job'[k] \in {job[k], Unfresh(k)}
  PROVE  /\ job'[j].pc = "open" /\ job[j].pc # "open" =>
              Cardinality(Openers') = Cardinality(Openers) + 1
         /\ job'[j].pc # "open" /\ job[j].pc = "open" =>
              Cardinality(Openers') = Cardinality(Openers) - 1
         /\ (job'[j].pc = "open" <=> job[j].pc = "open") => Openers' = Openers
<1>1. \A k \in Jobs \ {j} : job'[k].pc = job[k].pc  BY JobTyped DEF Unfresh, Job
<1>2. Openers' = {k \in Jobs : job'[k].pc = "open"}  BY DEF Openers
<1>3. IsFiniteSet(Openers) /\ Cardinality(Openers) \in Nat  BY OpenersType
<1>4. CASE job'[j].pc = "open" /\ job[j].pc # "open"
  <2>1. Openers' = Openers \cup {j} /\ j \notin Openers  BY <1>1, <1>2, <1>4 DEF Openers
  <2> QED  BY <1>3, <1>4, <2>1, FS_AddElement
<1>5. CASE job'[j].pc # "open" /\ job[j].pc = "open"
  <2>1. Openers' = Openers \ {j} /\ j \in Openers  BY <1>1, <1>2, <1>5 DEF Openers
  <2> QED  BY <1>3, <1>5, <2>1, FS_RemoveElement
<1>6. CASE job'[j].pc = "open" <=> job[j].pc = "open"
  BY <1>1, <1>2, <1>6 DEF Openers
<1> QED  BY <1>4, <1>5, <1>6

LEMMA RollsStep ==
  ASSUME TypeOK, TypeOK', LettersOK, HandlersOK, RollsOK, Next
  PROVE  RollsOK'
<1> DEFINE n == next.owing + next.paid
           one(r) == IF r THEN 1 ELSE 0
<1>1. /\ job \in [Jobs -> Job] /\ rent \in BOOLEAN /\ rent' \in BOOLEAN
      /\ next \in [owing : Nat, paid : Nat] /\ next' \in [owing : Nat, paid : Nat]
      /\ staleRolls \in Nat /\ staleRolls' \in Nat
  BY DEF TypeOK
<1>2. n \in Nat /\ n' \in Nat /\ Cardinality(Openers) \in Nat
      /\ n + Cardinality(Openers) + one(rent) <= 1 + staleRolls
  BY <1>1, OpenersType DEF RollsOK
<1>3. RollsOK' <=> n' + Cardinality(Openers') + one(rent') <= 1 + staleRolls'
  BY DEF RollsOK
<1> HIDE DEF n
(* Nobody begins to open, and what was opened stays. *)
<1>4. ASSUME n' = n, staleRolls' = staleRolls, rent' => rent, NEW j \in Jobs,
             job'[j].pc = "open" => job[j].pc = "open",
             \A k \in Jobs \ {j} : job'[k] \in {job[k], Unfresh(k)}
      PROVE  RollsOK'
  <2>1. \/ Openers' = Openers
        \/ Cardinality(Openers') = Cardinality(Openers) - 1
    BY <1>4, OpenersMove
  <2>2. one(rent') <= one(rent) /\ one(rent) \in Nat /\ one(rent') \in Nat  BY <1>4
  <2> QED  BY <1>1, <1>2, <1>3, <1>4, <2>1, <2>2
(* A handler begins to open. *)
<1>5. ASSUME n' = n, NEW j \in Jobs, job[j].pc # "open", job'[j].pc = "open",
             \A k \in Jobs \ {j} : job'[k] \in {job[k], Unfresh(k)},
             one(rent') + 1 + staleRolls <= one(rent) + staleRolls'
      PROVE  RollsOK'
  <2>1. Cardinality(Openers') = Cardinality(Openers) + 1  BY <1>5, OpenersMove
  <2>2. one(rent) \in Nat /\ one(rent') \in Nat  OBVIOUS
  <2> HIDE DEF one
  <2>3. n' + Cardinality(Openers') + one(rent') <= 1 + staleRolls'
    BY <1>1, <1>2, <1>5, <2>1, <2>2
  <2> QED  BY <1>3, <2>3
<1>6. UNCHANGED next => n' = n  BY DEF n
<1>7. ASSUME NEW j \in Jobs, ChargeStep(j)  PROVE RollsOK'
  <2>1. UNCHANGED <<next, staleRolls, rent, letter>>
    BY <1>7 DEF ChargeStep, CheckCharge, CheckPeriod, PostCharge, Entry, rows, history
  <2>2. Keeps /\ JobOK(j)  BY <2>1, LettersUnchanged DEF HandlersOK
  <2>3. \A k \in Jobs \ {j} : job'[k] \in {job[k], Unfresh(k)}  BY <1>7, <2>1, <2>2, ChargeHolds
  <2>4. job'[j].pc # "open"
    <3>1. AfterCharge(j) \in {"weigh", "idle"} /\ AfterCharge(j) \in Pcs /\ "period" \in Pcs
      BY DEF AfterCharge, Pcs
    <3>2. Leave(j, AfterCharge(j)) => job'[j].pc # "open"
      <4>1. Leave(j, AfterCharge(j)) =>
              job'[j] = IF AfterCharge(j) = "idle" THEN Idle
                        ELSE [job[j] EXCEPT !.pc = AfterCharge(j)]
        BY <1>1, <3>1, LeaveMoves
      <4> QED  BY <1>1, <3>1, <4>1, JobFields DEF Idle
    <3>3. CASE CheckCharge(j)
      <4>1. CASE To(j, "period")
        <5>1. job'[j] = [job[j] EXCEPT !.pc = "period"]  BY <1>1, <3>1, <4>1, ToMoves
        <5> QED  BY <1>1, <5>1, JobFields
      <4> QED  BY <3>2, <3>3, <4>1 DEF CheckCharge
    <3>4. CASE CheckPeriod(j)
      <4>1. CASE job' = [job EXCEPT ![j].pc = "post", ![j].todo = FeeCount]
        BY <1>1, <4>1 DEF Job
      <4> QED  BY <3>2, <3>4, <4>1 DEF CheckPeriod
    <3>5. CASE PostCharge(j)
      <4>1. job'[j] = Posted(j, AfterCharge(j)) /\ job[j].pc = "post"
        BY <1>1, <3>1, <3>5, EntryMoves DEF PostCharge
      <4>2. CASE job[j].todo > 1  BY <1>1, <4>1, <4>2, JobFields DEF Posted
      <4>3. CASE ~(job[j].todo > 1)  BY <1>1, <3>1, <4>1, <4>3, JobFields DEF Posted, Idle
      <4> QED  BY <4>2, <4>3
    <3> QED  BY <1>7, <3>3, <3>4, <3>5 DEF ChargeStep
  <2> QED  BY <1>4, <1>6, <2>1, <2>3, <2>4
<1>8. ASSUME Keeps, NEW j \in Jobs, RollStep(j)  PROVE RollsOK'
  <2>1. \A k \in Jobs \ {j} : job'[k] \in {job[k], Unfresh(k)}  BY <1>8, RollHolds DEF HandlersOK
  <2>2. AfterRoll(j) \in {"idle", "sweep"} /\ AfterRoll(j) \in Pcs  BY DEF AfterRoll, Pcs
  <2>3. AfterDebits(j) \in {"settle", "credit"} /\ AfterDebits(j) \in Pcs  BY DEF AfterDebits, Pcs
  <2>4. ASSUME Leave(j, AfterRoll(j))  PROVE job'[j].pc # "open"
    <3>1. job'[j] = IF AfterRoll(j) = "idle" THEN Idle ELSE [job[j] EXCEPT !.pc = AfterRoll(j)]
      BY <1>1, <2>2, <2>4, LeaveMoves
    <3> QED  BY <1>1, <2>2, <3>1, JobFields DEF Idle
  <2>5. ASSUME NEW pc \in Pcs, To(j, pc)  PROVE job'[j].pc = pc
    <3>1. job'[j] = [job[j] EXCEPT !.pc = pc]  BY <1>1, <2>5, ToMoves
    <3> QED  BY <1>1, <3>1, JobFields
  <2>6. {"open", "dedup", "mark"} \subseteq Pcs  BY DEF Pcs
  <2>7. ASSUME n' = n, staleRolls' = staleRolls, rent' => rent, job'[j].pc # "open"
        PROVE  RollsOK'
    BY <1>4, <2>1, <2>7
  <2>8. CASE WeighWallet(j)
    <3>1. UNCHANGED <<next, staleRolls, rent>>  BY <2>8 DEF WeighWallet, rows, history
    <3>2. job'[j].pc = "covers"  BY <1>1, <2>8 DEF WeighWallet, Job
    <3> QED  BY <1>6, <2>7, <3>1, <3>2
  <2>9. CASE WeighCharge(j)
    <3>1. UNCHANGED <<next, staleRolls, rent>>  BY <2>9 DEF WeighCharge, rows, history
    <3>2. CASE job' = [job EXCEPT ![j].pc = "flip", ![j].wallet = 0]
      <4>1. job'[j].pc = "flip"  BY <1>1, <3>2 DEF Job
      <4> QED  BY <1>6, <2>7, <3>1, <4>1
    <3>3. CASE Leave(j, AfterRoll(j))  BY <1>6, <2>4, <2>7, <3>1, <3>3
    <3> QED  BY <2>9, <3>2, <3>3 DEF WeighCharge
  <2>10. CASE Flip(j)
    <3>1. UNCHANGED <<next, staleRolls>> /\ ~rent' /\ job[j].pc = "flip"
      BY <2>10 DEF Flip, history
    <3>2. CASE rent
      <4>1. To(j, "open")  BY <2>10, <3>2 DEF Flip, Leave
      <4> QED  BY <1>1, <1>5, <1>6, <2>1, <2>5, <2>6, <3>1, <3>2, <4>1
    <3>3. CASE ~rent
      <4>1. Leave(j, AfterRoll(j))  BY <2>10, <3>3 DEF Flip
      <4> QED  BY <1>6, <2>4, <2>7, <3>1, <4>1
    <3> QED  BY <3>2, <3>3
  <2>11. CASE OpenPeriod(j)
    <3>1. /\ job[j].pc = "open" /\ To(j, "dedup") /\ UNCHANGED <<rent, staleRolls>>
          /\ next' = IF job[j].by = "payment" THEN [next EXCEPT !.paid = @ + 1]
                     ELSE [next EXCEPT !.owing = @ + 1]
      BY <2>11 DEF OpenPeriod, history
    <3>2. n' = n + 1  BY <1>1, <3>1 DEF n
    <3>3. job'[j].pc = "dedup"  BY <2>5, <2>6, <3>1
    <3>4. Cardinality(Openers') = Cardinality(Openers) - 1  BY <2>1, <3>1, <3>3, OpenersMove
    <3>5. one(rent) \in Nat  OBVIOUS
    <3> QED  BY <1>1, <1>2, <1>3, <3>1, <3>2, <3>4, <3>5
  <2>12. CASE Dedup(j)
    <3>1. UNCHANGED <<next, staleRolls, rent>>  BY <2>12 DEF Dedup, rows, history
    <3>2. job'[j].pc \in {AfterDebits(j), "debit"}  BY <1>1, <2>12 DEF Dedup, Job
    <3> QED  BY <1>6, <2>3, <2>7, <3>1, <3>2
  <2>13. CASE Debit(j)
    <3>1. UNCHANGED <<next, staleRolls, rent>>  BY <2>13 DEF Debit, Entry, rows
    <3>2. job'[j] = Posted(j, AfterDebits(j)) /\ job[j].pc = "debit"
      BY <1>1, <2>3, <2>13, EntryMoves DEF Debit
    <3>3. CASE job[j].todo > 1
      <4>1. job'[j].pc = "debit"  BY <1>1, <3>2, <3>3, JobFields DEF Posted
      <4> QED  BY <1>6, <2>7, <3>1, <4>1
    <3>4. CASE ~(job[j].todo > 1)
      <4>1. job'[j].pc = AfterDebits(j)  BY <1>1, <2>3, <3>2, <3>4, JobFields DEF Posted
      <4> QED  BY <1>6, <2>3, <2>7, <3>1, <4>1
    <3> QED  BY <3>3, <3>4
  <2>14. CASE Settle(j)
    <3>1. UNCHANGED <<rent, staleRolls>> /\ next' \in {Cleared, next}
          /\ (To(j, "mark") \/ Leave(j, AfterRoll(j)))
      BY <2>14 DEF Settle, history
    <3>2. n' = n  BY <1>1, <3>1, ClearedType DEF n
    <3>3. job'[j].pc # "open"  BY <2>4, <2>5, <2>6, <3>1
    <3> QED  BY <2>7, <3>1, <3>2, <3>3
  <2>15. CASE MarkLetter(j)
    <3>1. UNCHANGED <<next, staleRolls, rent>> /\ Leave(j, AfterRoll(j))  BY <2>15 DEF MarkLetter
    <3> QED  BY <1>6, <2>4, <2>7, <3>1
  <2> QED
    BY <1>8, <2>8, <2>9, <2>10, <2>11, <2>12, <2>13, <2>14, <2>15 DEF RollStep
<1>9. ASSUME NEW j \in Jobs, Die(j)  PROVE RollsOK'
  <2>1. job'[j] = Idle /\ Same(j)  BY <1>1, <1>9, FinishMoves DEF Die
  <2>2. UNCHANGED <<next, staleRolls, rent>>  BY <1>9 DEF Die, rows
  <2> QED  BY <1>4, <1>6, <2>1, <2>2 DEF Idle, Same
<1>10. ASSUME Keeps, NEW c \in Calls, TenantStep(c) \/ PaymentStep(c)  PROVE RollsOK'
  <2>1. c \in Jobs  BY DEF Jobs
  <2>2. \A k \in Jobs \ {c} : job'[k] \in {job[k], Unfresh(k)}
    BY <1>10, <2>1, CallsHold DEF HandlersOK
  <2>3. ASSUME n' = n, staleRolls' = staleRolls, rent' => rent, job'[c].pc # "open"
        PROVE  RollsOK'
    BY <1>4, <2>1, <2>2, <2>3
  <2>4. ASSUME NEW pc \in {"end", "clear", "credit", "open"}, To(c, pc)  PROVE job'[c].pc = pc
    <3>1. pc \in Pcs  BY DEF Pcs
    <3>2. job'[c] = [job[c] EXCEPT !.pc = pc]  BY <1>1, <2>1, <2>4, <3>1, ToMoves
    <3> QED  BY <1>1, <2>1, <3>2, JobFields
  <2>5. CASE Accept(c)
    <3>1. UNCHANGED <<next, staleRolls, rent>>  BY <2>5 DEF Accept, Record
    <3>2. job'[c].pc = "accepted"  BY <1>1, <2>1, <2>5 DEF Accept, Outdated, Job
    <3> QED  BY <1>6, <2>3, <3>1, <3>2
  <2>6. CASE Decline(c)
    <3>1. UNCHANGED <<next, staleRolls, rent>>  BY <2>6 DEF Decline, Record
    <3>2. job'[c].pc = "idle"  BY <1>1, <2>1, <2>6 DEF Decline, Outdated, Idle
    <3> QED  BY <1>6, <2>3, <3>1, <3>2
  <2>7. CASE Refetch(c)
    <3>1. UNCHANGED <<next, staleRolls, rent>>  BY <2>7 DEF Refetch, rows, history
    <3>2. job'[c].pc \in {"charge", "weigh"}  BY <1>1, <2>1, <2>7 DEF Refetch, Job
    <3> QED  BY <1>6, <2>3, <3>1, <3>2
  <2>8. CASE FindRent(c)
    <3>1. UNCHANGED <<next, rent>> /\ job[c].pc = "advance"  BY <2>8 DEF FindRent, rows
    <3>2. CASE (To(c, "end") \/ To(c, "clear") \/ To(c, "credit")) /\ UNCHANGED staleRolls
      <4>1. job'[c].pc # "open"  BY <2>4, <3>2
      <4> QED  BY <1>6, <2>3, <3>1, <3>2, <4>1
    <3>3. CASE job' = [job EXCEPT ![c].pc = "open", ![c].fresh = FALSE]
               /\ staleRolls' = staleRolls + 1
      <4>1. job'[c].pc = "open"  BY <1>1, <2>1, <3>3 DEF Job
      <4> QED  BY <1>1, <1>5, <1>6, <2>1, <2>2, <3>1, <3>3, <4>1
    <3> QED  BY <2>8, <3>2, <3>3 DEF FindRent
  <2>9. CASE EndRent(c)
    <3>1. /\ UNCHANGED next /\ job[c].pc = "end" /\ To(c, "open") /\ ~rent'
          /\ staleRolls' = IF rent THEN staleRolls ELSE staleRolls + 1
      BY <2>9 DEF EndRent
    <3>2. job'[c].pc = "open"  BY <2>4, <3>1
    <3>3. one(rent') + 1 + staleRolls <= one(rent) + staleRolls'  BY <1>1, <3>1
    <3> QED  BY <1>5, <1>6, <2>1, <2>2, <3>1, <3>2, <3>3
  <2>10. CASE ClearRent(c)
    <3>1. UNCHANGED <<rent, staleRolls>> /\ next' = Cleared /\ To(c, "credit")
      BY <2>10 DEF ClearRent, history
    <3>2. n' = n  BY <1>1, <3>1, ClearedType DEF n
    <3>3. job'[c].pc # "open"  BY <2>4, <3>1
    <3> QED  BY <2>3, <3>1, <3>2, <3>3
  <2>11. CASE Credit(c)
    <3>1. UNCHANGED <<next, staleRolls, rent>>  BY <2>11 DEF Credit, rows, history
    <3>2. job'[c] = Idle  BY <1>1, <2>1, <2>11, FinishMoves DEF Credit
    <3> QED  BY <1>6, <2>3, <3>1, <3>2 DEF Idle
  <2> QED
    BY <1>10, <2>5, <2>6, <2>7, <2>8, <2>9, <2>10, <2>11 DEF TenantStep, PaymentStep
<1>11. ASSUME NEW c \in Calls, RenewNow(c)  PROVE RollsOK'
  <2>1. c \in Jobs  BY DEF Jobs
  <2>2. UNCHANGED <<next, staleRolls, rent>>  BY <1>11 DEF RenewNow, rows, history
  <2>3. job'[c].pc = "weigh" /\ Same(c)  BY <1>11, StartPcs
  <2> QED  BY <1>4, <1>6, <2>1, <2>2, <2>3 DEF Same
<1>12. ASSUME Keeps, NEW c \in Calls, NEW l \in Letters,
              Pay(c, l) \/ \E to \in {"accept", "decline"} : Decide(c, l, to)
       PROVE  RollsOK'
  <2>1. c \in Jobs  BY DEF Jobs
  <2>2. UNCHANGED <<next, staleRolls, rent>>  BY <1>12 DEF Pay, Decide, rows, history
  <2>3. \A k \in Jobs \ {c} : job'[k] \in {job[k], Unfresh(k)}  BY <1>12, StartsHold
  <2>4. job'[c].pc \in {"advance", "accept", "decline"}  BY <1>12, StartPcs
  <2> QED  BY <1>4, <1>6, <2>1, <2>2, <2>3, <2>4
<1>13. ASSUME Keeps, NEW i \in Crons, CronStep(i)  PROVE RollsOK'
  <2>1. i \in Jobs /\ JobOK(i)  BY DEF Jobs, HandlersOK
  <2>2. UNCHANGED <<letter, next, staleRolls>> /\ (rent' => rent)
    BY <1>13 DEF CronStep, Tick, EndTenancy, Sweep, rows, history
  <2>3. \A k \in Jobs \ {i} : job'[k] \in {job[k], Unfresh(k)}
    BY <1>13, <2>1, <2>2, CronsHold
  <2>4. job'[i].pc \in {"idle", "moveout", "weigh", "sweep", "charge"}  BY <1>13, StartPcs
  <2> QED  BY <1>4, <1>6, <2>1, <2>2, <2>3, <2>4
<1>14. ASSUME UNCHANGED <<next, staleRolls, rent>>,
              \A k \in Jobs : job'[k] = job[k] \/ job'[k] = Unfresh(k)
       PROVE  RollsOK'
  <2>1. \A k \in Jobs : job'[k].pc = job[k].pc  BY <1>14, JobTyped DEF Unfresh, Job
  <2>2. Openers' = Openers  BY <2>1 DEF Openers
  <2> QED  BY <1>2, <1>3, <1>6, <1>14, <2>2
<1>15. ASSUME NEW l \in Letters, Revise(l) \/ SendAgain(l)  PROVE RollsOK'
  BY <1>14, <1>15 DEF Revise, SendAgain, history, Unfresh
<1>16. Expire => RollsOK'  BY <1>14 DEF Expire, history
<1>17. Keeps \/ \E l \in Letters : Revise(l)  BY LettersStep DEF Supersedes
<1> QED
  BY <1>7, <1>8, <1>9, <1>10, <1>11, <1>12, <1>13, <1>15, <1>16, <1>17 DEF Next

-----------------------------------------------------------------------------
(* The paid period and its letter.                                         *)

LEMMA SettledStep ==
  ASSUME TypeOK, TypeOK', LettersOK, HandlersOK, SettledOK, Next
  PROVE  SettledOK'
<1>1. /\ job \in [Jobs -> Job] /\ letter \in [Letters -> Row] /\ letter' \in [Letters -> Row]
      /\ Latest \in Letters /\ overwrites \in Nat /\ crashes \in Nat
      /\ overwrites' \in Nat /\ crashes' \in Nat
      /\ next \in [owing : Nat, paid : Nat]
  BY LatestType DEF TypeOK
<1>2. ASSUME NEW l \in Letters, Supersedes(l)  PROVE SettledOK'
  <2>1. /\ l = Latest /\ Latest' = l + 1 /\ l < Versions /\ ~letter[l].paid
        /\ letter' = [letter EXCEPT ![l].superseded = TRUE, ![l + 1] = Sent(TRUE)]
        /\ UNCHANGED <<overwrites, crashes, next>>
        /\ \A k \in Jobs : job'[k] = Unfresh(k)
    BY <1>2 DEF Supersedes, Revise, history, Unfresh
  <2>a. PICK s : letter' = [letter EXCEPT ![l].superseded = TRUE, ![l + 1] = s]  BY <2>1
  <2>b. l # l + 1 /\ l \in Letters /\ ~letter[l].paid /\ letter[l] \in Row  BY <1>1, <2>1 DEF Letters
  <2>2. letter'[l].superseded /\ ~letter'[l].paid  BY <1>1, <2>a, <2>b DEF Row
  <2>3. \A m \in Letters : m < l => letter'[m] = letter[m]  BY <1>1, <2>a DEF Letters
  <2>4. \A m \in Letters : m < l + 1 => m = l \/ m < l  BY DEF Letters
  <2>5. \A k \in Jobs : job'[k].pc = job[k].pc  BY <2>1, JobTyped DEF Unfresh, Job
  <2> QED  BY <2>1, <2>2, <2>3, <2>4, <2>5 DEF SettledOK
(* Letters written by a handler whose overwriting is counted. *)
<1>3. ASSUME Keeps, overwrites' = 0 => overwrites = 0,
             overwrites' = 0 => \A l \in Letters : l < Latest => letter'[l] = letter[l]
      PROVE  overwrites' = 0 =>
               \A l \in Letters : l < Latest' => letter'[l].superseded /\ ~letter'[l].paid
  BY <1>3 DEF Keeps, SettledOK
<1>4. ASSUME Keeps, overwrites' = 0 => overwrites = 0,
             overwrites' = 0 => \A l \in Letters : l < Latest => letter'[l] = letter[l],
             crashes' = 0 => crashes = 0, next'.paid > 0 => next.paid > 0,
             \A k \in Jobs : job[k].pc = "mark" => job'[k].pc = "mark"
      PROVE  SettledOK'
  <2>1. overwrites' = 0 /\ crashes' = 0 /\ next'.paid > 0 =>
          letter'[Latest'].paid \/ \E j \in Jobs : job'[j].pc = "mark"
    BY <1>1, <1>4 DEF Keeps, SettledOK
  <2> QED  BY <1>3, <1>4, <2>1 DEF SettledOK
(* A step that writes no letter and opens no paid period. *)
<1>5. ASSUME UNCHANGED <<letter, overwrites, crashes>>, next'.paid > 0 => next.paid > 0,
             NEW j \in Jobs, job[j].pc # "mark",
             \A k \in Jobs \ {j} : job'[k] \in {job[k], Unfresh(k)}
      PROVE  SettledOK'
  <2>1. Keeps  BY <1>5, LettersUnchanged
  <2>2. \A k \in Jobs : job[k].pc = "mark" => job'[k].pc = "mark"
    BY <1>5, JobTyped DEF Unfresh, Job
  <2> QED  BY <1>4, <1>5, <2>1, <2>2
(* A payment's letter is the latest, as far as nothing was overwritten. *)
<1>6. ASSUME NEW j \in Jobs, job[j].by = "payment", overwrites = 0
      PROVE  letter[Latest].paid
  <2>1. /\ job[j].of \in 0..Versions /\ job[j].of # 0 /\ job[j].of <= Latest
        /\ letter[job[j].of].paid
    BY <1>6, JobTyped DEF HandlersOK, JobOK, Holds
  <2>2. job[j].of \in Letters  BY <2>1, SizeAssumption DEF Letters
  <2>3. ~(job[j].of < Latest)  BY <1>6, <2>1, <2>2 DEF SettledOK
  <2> QED  BY <1>1, <2>1, <2>2, <2>3 DEF Letters
<1>7. ASSUME UNCHANGED <<letter, overwrites, crashes>>, overwrites = 0 => letter[Latest].paid
      PROVE  SettledOK'
  <2>1. Keeps  BY <1>7, LettersUnchanged
  <2> QED  BY <1>7, <2>1 DEF Keeps, SettledOK
<1>8. ASSUME NEW j \in Jobs, ChargeStep(j)  PROVE SettledOK'
  <2>1. UNCHANGED <<next, letter, overwrites, crashes>> /\ job[j].pc # "mark"
    BY <1>8 DEF ChargeStep, CheckCharge, CheckPeriod, PostCharge, Entry, rows, history
  <2>2. Keeps /\ JobOK(j)  BY <2>1, LettersUnchanged DEF HandlersOK
  <2>3. \A k \in Jobs \ {j} : job'[k] \in {job[k], Unfresh(k)}  BY <1>8, <2>1, <2>2, ChargeHolds
  <2> QED  BY <1>5, <2>1, <2>3
<1>9. ASSUME Keeps, NEW j \in Jobs, RollStep(j)  PROVE SettledOK'
  <2>1. \A k \in Jobs \ {j} : job'[k] \in {job[k], Unfresh(k)}  BY <1>9, RollHolds DEF HandlersOK
  <2>2. CASE \/ WeighWallet(j) \/ WeighCharge(j) \/ Flip(j) \/ Dedup(j) \/ Debit(j)
    <3>1. UNCHANGED <<next, letter, overwrites, crashes>> /\ job[j].pc # "mark"
      BY <2>2 DEF WeighWallet, WeighCharge, Flip, Dedup, Debit, Entry, rows, history
    <3> QED  BY <1>5, <2>1, <3>1
  <2>3. CASE OpenPeriod(j)
    <3>1. UNCHANGED <<letter, overwrites, crashes>> /\ job[j].pc # "mark"
      BY <2>3 DEF OpenPeriod, history
    <3>2. CASE job[j].by = "payment"  BY <1>6, <1>7, <3>1, <3>2
    <3>3. CASE job[j].by # "payment"
      <4>1. next'.paid = next.paid  BY <1>1, <2>3, <3>3 DEF OpenPeriod
      <4> QED  BY <1>5, <2>1, <3>1, <4>1
    <3> QED  BY <3>2, <3>3
  <2>4. CASE Settle(j)
    <3>1. UNCHANGED <<letter, overwrites, crashes>> /\ job[j].pc # "mark"
      BY <2>4 DEF Settle, history
    <3>2. CASE Balance >= 0
      <4>1. To(j, "mark") /\ "mark" \in Pcs  BY <2>4, <3>2 DEF Settle, Pcs
      <4>2. job'[j] = [job[j] EXCEPT !.pc = "mark"]  BY <1>1, <4>1, ToMoves
      <4>3. job'[j].pc = "mark"  BY <1>1, <4>2 DEF Job
      <4>4. overwrites' = 0 =>
              \A l \in Letters : l < Latest' => letter'[l].superseded /\ ~letter'[l].paid
        BY <1>3, <1>9, <3>1
      <4> QED  BY <4>3, <4>4 DEF SettledOK
    <3>3. CASE ~(Balance >= 0)
      <4>1. next' = next  BY <2>4, <3>3 DEF Settle
      <4> QED  BY <1>5, <2>1, <3>1, <4>1
    <3> QED  BY <3>2, <3>3
  <2>5. CASE MarkLetter(j)
    <3> DEFINE l == job[j].of
               r == [job[j].copy EXCEPT !.paid = TRUE]
               pays == l # 0 /\ ~job[j].copy.paid
    <3>1. /\ job[j].pc = "mark" /\ UNCHANGED <<next, crashes>>
          /\ letter' = IF pays THEN [letter EXCEPT ![l] = r] ELSE letter
          /\ overwrites' = IF pays /\ (letter[l] # job[j].copy \/ letter[l].superseded)
                             THEN overwrites + 1 ELSE overwrites
      BY <2>5 DEF MarkLetter
    <3>2. l \in 0..Versions /\ l <= Latest /\ job[j].copy \in Row /\ Holds(job[j], letter, Latest)
      BY JobTyped DEF HandlersOK, JobOK, Holds
    <3>3. l # 0 => l \in Letters  BY <3>2, SizeAssumption DEF Letters
    <3>4. r.paid  BY <3>2 DEF Row
    <3> HIDE DEF l, r
    <3>5. CASE overwrites' # 0  BY <3>5 DEF SettledOK
    <3>6. CASE overwrites' = 0
      <4>1. overwrites = 0 /\ (pays => ~letter[l].superseded)  BY <1>1, <3>1, <3>6
      <4>2. pays => l = Latest
        <5>1. pays => ~(l < Latest)  BY <3>3, <4>1 DEF SettledOK
        <5> QED  BY <1>1, <3>2, <3>3, <5>1 DEF Letters
      <4>3. letter'[Latest].paid
        <5>1. CASE pays  BY <1>1, <3>1, <3>4, <4>2, <5>1
        <5>2. CASE l = 0
          <6>1. job[j].of = 0 /\ job[j].pc \in Rolling  BY <3>1, <5>2 DEF l, Rolling
          <6>2. letter[Latest].paid  BY <3>2, <6>1 DEF Holds
          <6> QED  BY <3>1, <5>2, <6>2
        <5>3. CASE l # 0 /\ job[j].copy.paid  BY <3>1, <3>2, <5>3 DEF Holds, l
        <5> QED  BY <5>1, <5>2, <5>3
      <4>4. \A m \in Letters : m < Latest => letter'[m] = letter[m]
        BY <1>1, <3>1, <4>2 DEF Letters
      <4>5. \A m \in Letters : m < Latest => letter'[m].superseded /\ ~letter'[m].paid
        BY <4>1, <4>4 DEF SettledOK
      <4> QED  BY <1>9, <4>3, <4>5 DEF SettledOK, Keeps
    <3> QED  BY <3>5, <3>6
  <2> QED  BY <1>9, <2>2, <2>3, <2>4, <2>5 DEF RollStep
<1>10. ASSUME NEW j \in Jobs, Die(j)  PROVE SettledOK'
  <2>1. UNCHANGED <<letter, overwrites>> /\ crashes' # 0  BY <1>1, <1>10 DEF Die, rows
  <2>2. Latest' = Latest  BY <2>1, LettersUnchanged DEF Keeps
  <2> QED  BY <2>1, <2>2 DEF SettledOK
<1>11. ASSUME Keeps, NEW c \in Calls, TenantStep(c)  PROVE SettledOK'
  <2>1. c \in Jobs  BY DEF Jobs
  <2>2. \A k \in Jobs \ {c} : job'[k] \in {job[k], Unfresh(k)}
    BY <1>11, <2>1, CallsHold DEF HandlersOK
  <2>3. CASE Refetch(c)
    <3>1. UNCHANGED <<next, letter, overwrites, crashes>> /\ job[c].pc # "mark"
      BY <2>3 DEF Refetch, rows, history
    <3> QED  BY <1>5, <2>1, <2>2, <3>1
  <2>4. ASSUME NEW st, Record(c, st), job[c].pc \in Deciding  PROVE SettledOK'
    <3> DEFINE l == job[c].of
    <3>1. /\ letter' = [letter EXCEPT ![l].status = st]
          /\ overwrites' = IF letter[l] = Sent(letter[l].authored) THEN overwrites
                                                                ELSE overwrites + 1
          /\ UNCHANGED <<next, crashes>>
      BY <2>4 DEF Record
    <3>2. l \in 0..Versions /\ l # 0 /\ l <= Latest
      BY <2>1, <2>4, JobTyped DEF HandlersOK, JobOK, Holds
    <3>3. l \in Letters  BY <3>2, SizeAssumption DEF Letters
    <3> HIDE DEF l
    <3>4. overwrites' = 0 => overwrites = 0 /\ letter[l] = Sent(letter[l].authored)  BY <1>1, <3>1
    <3>5. overwrites' = 0 => l = Latest
      <4>1. overwrites = 0 /\ letter[l] = Sent(letter[l].authored) => ~(l < Latest)
        BY <3>3 DEF SettledOK, Sent, NoLetter
      <4> QED  BY <1>1, <3>2, <3>3, <3>4, <4>1 DEF Letters
    <3>6. overwrites' = 0 => \A m \in Letters : m < Latest => letter'[m] = letter[m]
      BY <1>1, <3>1, <3>5 DEF Letters
    <3>7. \A k \in Jobs : job[k].pc = "mark" => job'[k].pc = "mark"
      BY <2>2, <2>4, JobTyped DEF Unfresh, Job, Deciding
    <3> QED  BY <1>4, <1>11, <3>1, <3>4, <3>6, <3>7
  <2>5. CASE Accept(c) \/ Decline(c)  BY <2>4, <2>5 DEF Accept, Decline, Deciding
  <2> QED  BY <1>11, <2>3, <2>5 DEF TenantStep
<1>12. ASSUME Keeps, NEW c \in Calls, PaymentStep(c)  PROVE SettledOK'
  <2>1. c \in Jobs  BY DEF Jobs
  <2>2. \A k \in Jobs \ {c} : job'[k] \in {job[k], Unfresh(k)}
    BY <1>12, <2>1, CallsHold DEF HandlersOK
  <2>3. CASE FindRent(c) \/ EndRent(c) \/ Credit(c)
    <3>1. UNCHANGED <<next, letter, overwrites, crashes>> /\ job[c].pc # "mark"
      BY <2>3 DEF FindRent, EndRent, Credit, rows, history
    <3> QED  BY <1>5, <2>1, <2>2, <3>1
  <2>4. CASE ClearRent(c)
    <3>1. UNCHANGED <<letter, overwrites, crashes>> /\ job[c].pc = "clear"
      BY <2>4 DEF ClearRent, history
    <3>2. job[c].by = "payment"  BY <2>1, <3>1 DEF HandlersOK, JobOK, Holds, Paying
    <3> QED  BY <1>6, <1>7, <2>1, <3>1, <3>2
  <2> QED  BY <1>12, <2>3, <2>4 DEF PaymentStep
<1>13. ASSUME NEW c \in Calls, RenewNow(c)  PROVE SettledOK'
  <2>1. c \in Jobs  BY DEF Jobs
  <2>2. UNCHANGED <<next, letter, overwrites, crashes>> /\ job[c].pc # "mark"
    BY <1>13 DEF RenewNow, rows, history
  <2>3. Same(c)  BY <1>13, StartPcs
  <2> QED  BY <1>5, <2>1, <2>2, <2>3 DEF Same
<1>14. ASSUME Keeps, NEW c \in Calls, NEW l \in Letters,
              Pay(c, l) \/ \E to \in {"accept", "decline"} : Decide(c, l, to)
       PROVE  SettledOK'
  <2>1. c \in Jobs  BY DEF Jobs
  <2>2. \A k \in Jobs \ {c} : job'[k] \in {job[k], Unfresh(k)}  BY <1>14, StartsHold
  <2>3. CASE \E to \in {"accept", "decline"} : Decide(c, l, to)
    <3>1. UNCHANGED <<next, letter, overwrites, crashes>> /\ job[c].pc # "mark"
      BY <2>3 DEF Decide, rows, history
    <3> QED  BY <1>5, <2>1, <2>2, <3>1
  <2>4. CASE Pay(c, l)
    <3>1. /\ UNCHANGED <<next, overwrites, crashes>> /\ job[c].pc = "idle"
          /\ letter' = [letter EXCEPT ![l].paid = TRUE]
          /\ letter[l].status = "accepted" /\ ~letter[l].superseded /\ ~letter[l].paid
      BY <2>4 DEF Pay, history
    <3>2. l = Latest  BY <3>1, LiveIsLatest
    <3>3. \A m \in Letters : m < Latest => letter'[m] = letter[m]
      BY <1>1, <3>1, <3>2 DEF Letters
    <3>4. \A k \in Jobs : job[k].pc = "mark" => job'[k].pc = "mark"
      BY <2>2, <3>1, JobTyped DEF Unfresh, Job
    <3> QED  BY <1>4, <1>14, <3>1, <3>3, <3>4
  <2> QED  BY <1>14, <2>3, <2>4
<1>15. ASSUME Keeps, NEW i \in Crons, CronStep(i)  PROVE SettledOK'
  <2>1. i \in Jobs /\ JobOK(i)  BY DEF Jobs, HandlersOK
  <2>2. UNCHANGED <<letter, next, overwrites, crashes>> /\ job[i].pc # "mark"
    BY <1>15 DEF CronStep, Tick, EndTenancy, Sweep, rows, history
  <2>3. \A k \in Jobs \ {i} : job'[k] \in {job[k], Unfresh(k)}
    BY <1>15, <2>1, <2>2, CronsHold
  <2> QED  BY <1>5, <2>1, <2>2, <2>3
<1>16. ASSUME NEW l \in Letters, SendAgain(l), Keeps  PROVE SettledOK'
  <2>1. /\ l = Latest /\ \E b : letter' = [letter EXCEPT ![l] = Sent(b)]
        /\ UNCHANGED <<next, overwrites, crashes, job>>
    BY <1>16 DEF SendAgain, history
  <2>2. \A m \in Letters : m < Latest => letter'[m] = letter[m]
    BY <1>1, <2>1 DEF Letters
  <2> QED  BY <1>4, <1>16, <2>1, <2>2
<1>17. ASSUME Expire  PROVE SettledOK'
  <2>1. UNCHANGED <<letter, next, overwrites, crashes, job>>  BY <1>17 DEF Expire, history
  <2>2. Keeps  BY <2>1, LettersUnchanged
  <2> QED  BY <1>4, <2>1, <2>2
<1>18. ASSUME NEW l \in Letters, Revise(l)  PROVE SettledOK'
  BY <1>2, <1>18, ReviseSupersedes
<1>19. Keeps \/ \E l \in Letters : Supersedes(l)  BY LettersStep
<1> QED
  BY <1>2, <1>8, <1>9, <1>10, <1>11, <1>12, <1>13, <1>14, <1>15, <1>16, <1>17, <1>18, <1>19 DEF Next

-----------------------------------------------------------------------------
(* The theorems.                                                           *)

LEMMA SumNone ==
  ASSUME NEW S, NEW c \in [S -> Nat], \A x \in S : c[x] = 0
  PROVE  Sum(c) = 0
<1>1. Entries(c) = {}  BY EntriesAre
<1> QED  BY <1>1, FS_EmptySet DEF Sum

LEMMA InitInv == Init => IInv
<1> SUFFICES ASSUME Init PROVE IInv  OBVIOUS
<1>1. TypeOK  BY InitTyped
<1>2. 1 \in Letters  BY SizeAssumption DEF Letters
<1>3. PICK b \in BOOLEAN : letter = [l \in Letters |-> IF l = 1 THEN Sent(b) ELSE NoLetter]
  BY DEF Init
<1>4. Sent(b).status # "none" /\ ~Sent(b).superseded  BY DEF Sent, NoLetter
<1>5. Latest = 1
  <2>1. letter \in [Letters -> Row]  BY <1>1 DEF TypeOK
  <2>2. letter[1].status # "none" /\ ~letter[1].superseded  BY <1>2, <1>3, <1>4
  <2>3. \A l \in Letters : l > 1 => letter[l] = NoLetter  BY <1>3
  <2> QED  BY <1>2, <2>1, <2>2, <2>3, LatestIsLetter DEF Latest, Live
<1>6. Latest \in Live  BY <1>2, <1>3, <1>4, <1>5 DEF Live
<1>7. \A l \in Letters : ~(l < 1) /\ (l > 1 => letter[l] = NoLetter)
  BY <1>3 DEF Letters
<1>8. LettersOK  BY <1>5, <1>6, <1>7 DEF LettersOK
<1>9. \A j \in Jobs : job[j] = Idle  BY DEF Init
<1>10. HandlersOK
  <2>1. Holds(Idle, letter, Latest)  BY <1>2, <1>5, IdleHolds
  <2> QED  BY <1>9, <2>1 DEF HandlersOK, JobOK
<1>11. BillsOK
  <2>1. \A f \in Fees : debits[f] = 0 /\ stale[f] = 0 /\ \A l \in Letters : charged[l][f] = 0
    BY DEF Init
  <2>2. ASSUME NEW f \in Fees  PROVE Billed(f) = 0 /\ Former(f) = 0
    <3> DEFINE c == [l \in Letters |-> charged[l][f]]
               g == [l \in Letters |-> IF l = Latest THEN 0 ELSE charged[l][f]]
    <3>1. c \in [Letters -> Nat] /\ g \in [Letters -> Nat]  BY <2>1
    <3>2. \A l \in Letters : c[l] = 0 /\ g[l] = 0  BY <2>1
    <3>3. Billed(f) = Sum(c) + debits[f] /\ Former(f) = Sum(g)  BY DEF Billed, Former
    <3> HIDE DEF c, g
    <3>4. Sum(c) = 0 /\ Sum(g) = 0  BY <3>1, <3>2, SumNone
    <3> QED  BY <2>1, <3>3, <3>4
  <2>3. Totals  BY <2>1, <2>2 DEF Totals
  <2>4. \A j \in Jobs : Knows(j)  BY <1>9 DEF Knows, Idle
  <2> QED  BY <2>3, <2>4 DEF BillsOK
<1>12. RollsOK
  <2>1. Openers = {}  BY <1>9 DEF Openers, Idle
  <2>2. Cardinality(Openers) = 0  BY <2>1, FS_EmptySet
  <2> QED  BY <2>2 DEF Init, RollsOK
<1>13. SettledOK  BY <1>5, <1>7 DEF SettledOK, Init
<1> QED  BY <1>1, <1>8, <1>10, <1>11, <1>12, <1>13 DEF IInv

LEMMA StepInv == IInv /\ [Next]_vars => IInv'
<1> SUFFICES ASSUME IInv, [Next]_vars PROVE IInv'  OBVIOUS
<1>1. CASE Next
  <2>1. TypeOK /\ LettersOK /\ HandlersOK /\ BillsOK /\ RollsOK /\ SettledOK  BY DEF IInv
  <2>2. TypeOK'  BY <1>1, <2>1, TypedStep
  <2>3. LettersOK'  BY <1>1, <2>1, <2>2, LettersStep
  <2>4. HandlersOK'  BY <1>1, <2>1, <2>2, HandlersStep
  <2>5. BillsOK'  BY <1>1, <2>1, <2>2, BillsStep
  <2>6. RollsOK'  BY <1>1, <2>1, <2>2, RollsStep
  <2>7. SettledOK'  BY <1>1, <2>1, <2>2, SettledStep
  <2> QED  BY <2>2, <2>3, <2>4, <2>5, <2>6, <2>7 DEF IInv
<1>2. CASE UNCHANGED vars
  <2>1. UNCHANGED <<letter, rent, expired, next, credit, charged, reversed, debits, job,
                    stale, staleRolls, overwrites, crashes>>
    BY <1>2 DEF vars, rows, entries, history
  <2>2. Live' = Live  BY <2>1 DEF Live
  <2>3. Latest' = Latest  BY <2>2 DEF Latest
  <2>4. TypeOK'  BY <2>1 DEF IInv, TypeOK
  <2>5. LettersOK'  BY <2>1, <2>2, <2>3 DEF IInv, LettersOK
  <2>6. HandlersOK'  BY <2>1, <2>3 DEF IInv, HandlersOK, JobOK
  <2>7. BillsOK'
    <3>1. \A f : Billed(f)' = Billed(f) /\ Former(f)' = Former(f)
      BY <2>1, <2>3 DEF Billed, Former
    <3>2. \A k \in Jobs : Knows(k)'  BY <2>1, <2>3, <3>1 DEF IInv, BillsOK, Knows
    <3> QED  BY <2>1, <3>1, <3>2 DEF IInv, BillsOK, Totals
  <2>8. RollsOK'
    <3>1. Openers' = Openers  BY <2>1 DEF Openers
    <3> QED  BY <2>1, <3>1 DEF IInv, RollsOK
  <2>9. SettledOK'  BY <2>1, <2>3 DEF IInv, SettledOK
  <2> QED  BY <2>4, <2>5, <2>6, <2>7, <2>8, <2>9 DEF IInv
<1> QED  BY <1>1, <1>2

(* The inductive invariant of the renewal's handlers, letters and entries  *)
(* (renewal-charge.service.ts, renewal-letters.service.ts).                *)
THEOREM Invariance == Spec => []IInv
<1>1. Init => IInv  BY InitInv
<1>2. IInv /\ [Next]_vars => IInv'  BY StepInv
<1> QED  BY <1>1, <1>2, PTL DEF Spec

(* Rows, entries and handlers keep their types, whatever the interleaving. *)
THEOREM TypeCorrect == Spec => []TypeOK
<1>1. IInv => TypeOK  BY DEF IInv
<1> QED  BY <1>1, Invariance, PTL

(* A fee of the period stands in the wallet once, and once more for each   *)
(* entry that rests on a read overtaken since: the acceptance, the sweeps  *)
(* of all instances, the landlord's button and the payments share one bill *)
(* through the presence checks of chargeAcceptedRenewalAtExpiry and        *)
(* renewOneFromWalletCredit.                                               *)
THEOREM BilledOnce == Spec => []PeriodBilledOnce
<1>1. IInv => PeriodBilledOnce  BY DEF IInv, BillsOK, Totals, Billed, PeriodBilledOnce
<1> QED  BY <1>1, Invariance, PTL

(* One period is opened by the handlers that race for it: the turn of the  *)
(* rent to INACTIVE elects one, and only a payment that ended or found the *)
(* rent too late opens another.                                            *)
THEOREM OpenedOnce == Spec => []RolledOnce
<1>1. IInv => RolledOnce
  <2> SUFFICES ASSUME IInv PROVE RolledOnce  OBVIOUS
  <2>1. Cardinality(Openers) \in Nat  BY OpenersType
  <2>2. next \in [owing : Nat, paid : Nat] /\ staleRolls \in Nat  BY DEF IInv, TypeOK
  <2>3. next.owing + next.paid + Cardinality(Openers) + (IF rent THEN 1 ELSE 0) <= 1 + staleRolls
    BY DEF IInv, RollsOK
  <2>4. (IF rent THEN 1 ELSE 0) \in Nat  OBVIOUS
  <2> QED  BY <2>1, <2>2, <2>3, <2>4 DEF RolledOnce
<1> QED  BY <1>1, Invariance, PTL

(* At rest a PAID next period leaves no accepted letter to be paid again,  *)
(* unless a handler died or wrote an old copy over a newer letter.         *)
THEOREM SettledWithLetter == Spec => []SettledTogether
<1>1. IInv => SettledTogether
  <2> SUFFICES ASSUME IInv, \A j \in Jobs : job[j].pc = "idle",
                      crashes = 0, overwrites = 0, next.paid > 0,
                      NEW l \in Live, letter[l].status = "accepted"
               PROVE  letter[l].paid
    BY DEF SettledTogether
  <2>1. letter[Latest].paid  BY DEF IInv, SettledOK
  <2>2. l \in Letters /\ ~letter[l].superseded /\ Latest \in Letters
    BY LatestType DEF IInv, Live
  <2>3. ~(l < Latest)  BY <2>2 DEF IInv, SettledOK
  <2>4. ~(l > Latest)  BY <2>2 DEF IInv, LettersOK, NoLetter
  <2> QED  BY <2>1, <2>2, <2>3, <2>4 DEF Letters
<1> QED  BY <1>1, Invariance, PTL
=============================================================================
