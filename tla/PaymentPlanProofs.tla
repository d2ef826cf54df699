-------------------------- MODULE PaymentPlanProofs --------------------------
(***************************************************************************)
(* Theorems about PaymentPlan, for any number of installments, references, *)
(* reports of a payment and requests of the landlord.                      *)
(***************************************************************************)
EXTENDS PaymentPlan, FiniteSetTheorems, WellFoundedInduction, TLAPS

-----------------------------------------------------------------------------
(* Sums.  A table f of naturals on a finite set S has Sum(f) entries.      *)

LEMMA EntriesAre ==
  ASSUME NEW S, NEW f \in [S -> Nat]
  PROVE  Entries(f) = {e \in S \X Nat : e[2] \in 1..f[e[1]]}
BY DEF Entries

LEMMA EntriesFinite ==
  ASSUME NEW S, IsFiniteSet(S), NEW f \in [S -> Nat]
  PROVE  IsFiniteSet(Entries(f))
<1> DEFINE Of(x) == {x} \X (1..f[x])
           pieces == {Of(x) : x \in S}
           piece == [x \in S |-> Of(x)]
<1>1. IsFiniteSet(pieces)
  <2>1. piece \in Surjection(S, pieces)  BY DEF Surjection
  <2> QED  BY <2>1, FS_Surjection
<1>2. ASSUME NEW x \in S  PROVE IsFiniteSet(Of(x))
  <2> f[x] \in Int /\ 1 \in Int  OBVIOUS
  <2>1. IsFiniteSet({x}) /\ IsFiniteSet(1..f[x])  BY FS_Singleton, FS_Interval
  <2> QED  BY <2>1, FS_Product
<1>3. \A T \in pieces : IsFiniteSet(T)  BY <1>2
<1>4. Entries(f) = UNION pieces  BY DEF Entries
<1> QED  BY <1>1, <1>3, <1>4, FS_UNION

LEMMA SumType ==
  ASSUME NEW S, IsFiniteSet(S), NEW f \in [S -> Nat]
  PROVE  Sum(f) \in Nat
BY EntriesFinite, FS_CardinalityType DEF Sum

(* A table of zeros.                                                       *)
LEMMA SumNone ==
  ASSUME NEW S, NEW f \in [S -> Nat], \A x \in S : f[x] = 0
  PROVE  Sum(f) = 0
<1>1. Entries(f) = {}  BY EntriesAre
<1> QED  BY <1>1, FS_EmptySet DEF Sum

(* A table that counts one place only.                                     *)
LEMMA SumOne ==
  ASSUME NEW S, NEW x \in S, NEW n \in Nat
  PROVE  Sum([y \in S |-> IF y = x THEN n ELSE 0]) = n
<1> DEFINE f == [y \in S |-> IF y = x THEN n ELSE 0]
<1>1. f \in [S -> Nat]  OBVIOUS
<1>2. Entries(f) = {x} \X (1..n)
  <2>1. Entries(f) = {e \in S \X Nat : e[2] \in 1..f[e[1]]}  BY <1>1, EntriesAre
  <2>2. \A e \in S \X Nat : e[2] \in 1..f[e[1]] <=> e[1] = x /\ e[2] \in 1..n  OBVIOUS
  <2>3. {x} \X (1..n) \subseteq S \X Nat  OBVIOUS
  <2> HIDE DEF f
  <2> QED  BY <2>1, <2>2, <2>3
<1>3. Cardinality({x} \X (1..n)) = n
  <2>1. IsFiniteSet({x}) /\ Cardinality({x}) = 1  BY FS_Singleton
  <2>2. n \in Int /\ 1 \in Int /\ n \in Nat  OBVIOUS
  <2>3. IsFiniteSet(1..n) /\ Cardinality(1..n) = n  BY <2>2, FS_Interval
  <2>4. Cardinality({x} \X (1..n)) = 1 * n  BY <2>1, <2>3, FS_Product
  <2> QED  BY <2>2, <2>4
<1> HIDE DEF f
<1> QED  BY <1>2, <1>3 DEF Sum, f

(* The sum of two tables.                                                  *)
LEMMA SumPlus ==
  ASSUME NEW S, IsFiniteSet(S), NEW f \in [S -> Nat], NEW g \in [S -> Nat],
         NEW h \in [S -> Nat], \A x \in S : h[x] = f[x] + g[x]
  PROVE  Sum(h) = Sum(f) + Sum(g)
<1> DEFINE Up(e) == <<e[1], f[e[1]] + e[2]>>
           up == [e \in Entries(g) |-> Up(e)]
           above == {Up(e) : e \in Entries(g)}
<1>1. Entries(f) = {e \in S \X Nat : e[2] \in 1..f[e[1]]}  BY EntriesAre
<1>2. Entries(g) = {e \in S \X Nat : e[2] \in 1..g[e[1]]}  BY EntriesAre
<1>3. Entries(h) = {e \in S \X Nat : e[2] \in 1..h[e[1]]}  BY EntriesAre
<1>4. IsFiniteSet(Entries(f)) /\ IsFiniteSet(Entries(g)) /\ IsFiniteSet(Entries(h))
  BY EntriesFinite
<1>5. IsFiniteSet(above) /\ Cardinality(above) = Cardinality(Entries(g))
  <2>1. up \in Bijection(Entries(g), above)
    <3>1. up \in [Entries(g) -> above]  OBVIOUS
    <3>2. ASSUME NEW d \in Entries(g), NEW e \in Entries(g), Up(d) = Up(e)  PROVE d = e
      <4>1. d[1] = e[1] /\ f[d[1]] + d[2] = f[e[1]] + e[2]  BY <3>2
      <4>2. d \in S \X Nat /\ e \in S \X Nat  BY <1>2
      <4>3. f[d[1]] \in Nat /\ f[e[1]] = f[d[1]] /\ d[2] \in Nat /\ e[2] \in Nat  BY <4>1, <4>2
      <4>4. d[2] = e[2]  BY <4>1, <4>3
      <4> QED  BY <4>1, <4>2, <4>4
    <3>3. up \in Injection(Entries(g), above)  BY <3>1, <3>2 DEF Injection, IsInjective
    <3>4. up \in Surjection(Entries(g), above)  BY <3>1 DEF Surjection
    <3> QED  BY <3>3, <3>4 DEF Bijection
  <2>2. ExistsBijection(Entries(g), above)  BY <2>1 DEF ExistsBijection
  <2> HIDE DEF up, above
  <2>3. IsFiniteSet(above) /\ Cardinality(Entries(g)) = Cardinality(above)
    BY <1>4, <2>2, FS_Bijection
  <2> QED  BY <2>3
<1>6. Entries(h) = Entries(f) \cup above
  <2>1. ASSUME NEW e \in Entries(h)  PROVE e \in Entries(f) \cup above
    <3>1. e \in S \X Nat /\ e[2] \in 1..h[e[1]]  BY <1>3
    <3>2. PICK x \in S, k \in Nat : e = <<x, k>>  BY <3>1
    <3>3. f[x] \in Nat /\ g[x] \in Nat /\ h[x] = f[x] + g[x] /\ k \in 1..h[x]  BY <3>1, <3>2
    <3>4. CASE k <= f[x]
      <4>1. k \in 1..f[x]  BY <3>3, <3>4
      <4> QED  BY <1>1, <3>1, <3>2, <4>1
    <3>5. CASE k > f[x]
      <4>1. k - f[x] \in Nat /\ k - f[x] \in 1..g[x] /\ f[x] + (k - f[x]) = k
        BY <3>3, <3>5
      <4>2. <<x, k - f[x]>> \in Entries(g)  BY <1>2, <4>1
      <4>3. Up(<<x, k - f[x]>>) = e  BY <3>2, <4>1
      <4> QED  BY <4>2, <4>3
    <3> QED  BY <3>3, <3>4, <3>5
  <2>2. ASSUME NEW e \in Entries(f)  PROVE e \in Entries(h)
    <3>1. PICK x \in S, k \in Nat : e = <<x, k>>  BY <1>1
    <3>2. k \in 1..f[x] /\ f[x] \in Nat /\ g[x] \in Nat /\ h[x] = f[x] + g[x]  BY <1>1, <3>1
    <3>3. k \in 1..h[x]  BY <3>2
    <3> QED  BY <1>3, <3>1, <3>3
  <2>3. ASSUME NEW d \in Entries(g)  PROVE Up(d) \in Entries(h)
    <3>1. PICK x \in S, k \in Nat : d = <<x, k>>  BY <1>2
    <3>2. k \in 1..g[x] /\ f[x] \in Nat /\ g[x] \in Nat /\ h[x] = f[x] + g[x]  BY <1>2, <3>1
    <3>3. f[x] + k \in Nat /\ f[x] + k \in 1..h[x]  BY <3>2
    <3>4. Up(d) = <<x, f[x] + k>>  BY <3>1
    <3> QED  BY <1>3, <3>3, <3>4
  <2> QED  BY <2>1, <2>2, <2>3
<1>7. Entries(f) \cap above = {}
  <2> SUFFICES ASSUME NEW d \in Entries(g), Up(d) \in Entries(f)  PROVE FALSE
    OBVIOUS
  <2>1. PICK x \in S, k \in Nat : d = <<x, k>>  BY <1>2
  <2>2. k \in 1..g[x] /\ f[x] \in Nat /\ g[x] \in Nat  BY <1>2, <2>1
  <2>3. f[x] + k \in 1..f[x]  BY <1>1, <2>1
  <2> QED  BY <2>2, <2>3
<1> HIDE DEF above
<1>8. Cardinality(Entries(f)) \in Nat /\ Cardinality(Entries(g)) \in Nat
  BY <1>4, FS_CardinalityType
<1>9. Cardinality(Entries(f) \cap above) = 0  BY <1>7, FS_EmptySet
<1>10. Cardinality(Entries(f) \cup above) =
         Cardinality(Entries(f)) + Cardinality(above) - Cardinality(Entries(f) \cap above)
  BY <1>4, <1>5, FS_Union
<1> QED  BY <1>5, <1>6, <1>8, <1>9, <1>10 DEF Sum

(* A table on a part of S, and zero elsewhere.                             *)
LEMMA SumExtend ==
  ASSUME NEW S, NEW T \in SUBSET S, NEW f \in [T -> Nat]
  PROVE  Sum(f) = Sum([x \in S |-> IF x \in T THEN f[x] ELSE 0])
<1> DEFINE g == [x \in S |-> IF x \in T THEN f[x] ELSE 0]
<1>1. g \in [S -> Nat]  OBVIOUS
<1>2. Entries(f) = {e \in T \X Nat : e[2] \in 1..f[e[1]]}  BY EntriesAre
<1>3. Entries(g) = {e \in S \X Nat : e[2] \in 1..g[e[1]]}  BY <1>1, EntriesAre
<1>4. \A x \in S : g[x] = IF x \in T THEN f[x] ELSE 0  OBVIOUS
<1> HIDE DEF g
<1>5. Entries(f) = Entries(g)
  <2>1. ASSUME NEW e \in Entries(f)  PROVE e \in Entries(g)
    BY <1>2, <1>3, <1>4
  <2>2. ASSUME NEW e \in Entries(g)  PROVE e \in Entries(f)
    <3>1. e[1] \in T  BY <1>3, <1>4
    <3> QED  BY <1>2, <1>3, <1>4, <3>1
  <2> QED  BY <2>1, <2>2
<1> QED  BY <1>5 DEF Sum, g

(* One place raised by n.                                                  *)
LEMMA SumRaise ==
  ASSUME NEW S, IsFiniteSet(S), NEW f \in [S -> Nat], NEW g \in [S -> Nat],
         NEW x \in S, NEW n \in Nat, g[x] = f[x] + n, \A y \in S \ {x} : g[y] = f[y]
  PROVE  Sum(g) = Sum(f) + n
<1> DEFINE one == [y \in S |-> IF y = x THEN n ELSE 0]
<1>1. one \in [S -> Nat] /\ \A y \in S : g[y] = f[y] + one[y]  OBVIOUS
<1>2. Sum(one) = n  BY SumOne
<1> HIDE DEF one
<1> QED  BY <1>1, <1>2, SumPlus

(* A smaller table has a smaller sum, and the same sum only if it is the   *)
(* same table.                                                             *)
LEMMA SumBelow ==
  ASSUME NEW S, IsFiniteSet(S), NEW f \in [S -> Nat], NEW g \in [S -> Nat],
         \A x \in S : f[x] <= g[x]
  PROVE  Sum(f) <= Sum(g) /\ (Sum(f) = Sum(g) => \A x \in S : f[x] = g[x])
<1> DEFINE gap == [x \in S |-> g[x] - f[x]]
<1>1. gap \in [S -> Nat] /\ \A x \in S : g[x] = f[x] + gap[x]  OBVIOUS
<1> HIDE DEF gap
<1>2. Sum(g) = Sum(f) + Sum(gap) /\ Sum(f) \in Nat /\ Sum(gap) \in Nat
  BY <1>1, SumPlus, SumType
<1>3. ASSUME Sum(gap) = 0, NEW x \in S  PROVE gap[x] = 0
  <2> DEFINE one == [y \in S |-> IF y = x THEN gap[x] ELSE 0]
             rest == [y \in S |-> IF y = x THEN 0 ELSE gap[y]]
  <2>1. one \in [S -> Nat] /\ rest \in [S -> Nat] /\ \A y \in S : gap[y] = rest[y] + one[y]
    BY <1>1
  <2>2. gap[x] \in Nat  BY <1>1
  <2>3. Sum(one) = gap[x]  BY <2>2, SumOne
  <2> HIDE DEF one, rest
  <2>4. Sum(gap) = Sum(rest) + Sum(one)  BY <1>1, <2>1, SumPlus
  <2>5. Sum(rest) \in Nat  BY <2>1, SumType
  <2> QED  BY <1>3, <2>2, <2>3, <2>4, <2>5
<1>4. ASSUME Sum(f) = Sum(g), NEW x \in S  PROVE f[x] = g[x]
  <2>1. gap[x] = 0  BY <1>2, <1>3, <1>4
  <2> QED  BY <1>1, <2>1
<1> QED  BY <1>2, <1>4

(* Where a sum is positive, so is an entry.                                *)
LEMMA SumSome ==
  ASSUME NEW S, NEW f \in [S -> Nat], Sum(f) > 0
  PROVE  \E x \in S : f[x] > 0
<1> SUFFICES ASSUME \A x \in S : ~(f[x] > 0)  PROVE FALSE
  OBVIOUS
<1>1. \A x \in S : f[x] = 0  OBVIOUS
<1> QED  BY <1>1, SumNone

-----------------------------------------------------------------------------
(* Installments and what they add up to.                                   *)

LEMMA RowsFinite == IsFiniteSet(Rows) /\ Rows \subseteq Nat /\ 0 \notin Rows
<1>1. 1 \in Int /\ Places \in Int  BY PlacesAssumption
<1>2. IsFiniteSet(1..Places)  BY <1>1, FS_Interval
<1> QED  BY <1>2, PlacesAssumption DEF Rows

LEMMA RowParts ==
  ASSUME NEW row \in Row
  PROVE  /\ PaidToDate(row) \in Nat /\ Remaining(row) \in Nat
         /\ Remaining(row) <= row.amount /\ PaidToDate(row) <= row.paid
         /\ (IF row.status = "paid" THEN row.paid ELSE 0) \in Nat
<1>1. PaidToDate(row) \in Nat /\ PaidToDate(row) <= row.paid  BY DEF Row, PaidToDate
<1>2. Remaining(row) \in Nat /\ Remaining(row) <= row.amount
  <2>1. row.amount \in Nat  BY DEF Row
  <2> QED  BY <1>1, <2>1 DEF Remaining
<1> QED  BY <1>1, <1>2 DEF Row

LEMMA SumsType ==
  ASSUME NEW rows \in [Rows -> Row]
  PROVE  PaidSum(rows) \in Nat /\ SettledSum(rows) \in Nat
<1> DEFINE f == [i \in Rows |-> PaidToDate(rows[i])]
           g == [i \in Rows |-> IF rows[i].status = "paid" THEN rows[i].paid ELSE 0]
<1>1. f \in [Rows -> Nat] /\ g \in [Rows -> Nat]  BY RowParts
<1>2. PaidSum(rows) = Sum(f) /\ SettledSum(rows) = Sum(g)  BY DEF PaidSum, SettledSum
<1> HIDE DEF f, g
<1> QED  BY <1>1, <1>2, RowsFinite, SumType

LEMMA ScheduleTotal ==
  ASSUME NEW total \in Int, NEW s \in Schedules(total)
  PROVE  s \in [Rows -> Nat] /\ Sum(s) = total /\ total \in Nat
<1>1. s \in [Rows -> 0..total] /\ Sum(s) = total  BY DEF Schedules
<1>2. s \in [Rows -> Nat]  BY <1>1
<1> QED  BY <1>1, <1>2, RowsFinite, SumType

LEMMA MinIs ==
  ASSUME NEW S \in SUBSET Int, NEW n \in S, \A y \in S : n <= y
  PROVE  Min(S) \in S
<1>1. \E x \in S : \A y \in S : x =< y  OBVIOUS
<1> QED  BY <1>1 DEF Min

LEMMA HasMin ==
  ASSUME NEW S \in SUBSET Rows, S # {}
  PROVE  Min(S) \in S
<1> DEFINE Down == OpToRel(<, Nat)
<1>1. S \subseteq Nat  BY RowsFinite
<1>2. PICK t \in S : \A y \in S : ~(<<y, t>> \in Down)
  BY <1>1, NatLessThanWellFounded, WFMin
<1>3. ASSUME NEW y \in S  PROVE t <= y
  <2>1. y \in Nat /\ t \in Nat  BY <1>1
  <2>2. y < t => <<y, t>> \in Down  BY <2>1, Zenon DEF OpToRel
  <2>3. ~(y < t)  BY <1>2, <2>2
  <2> QED  BY <2>1, <2>3
<1>4. S \in SUBSET Int  BY <1>1
<1> QED  BY <1>3, <1>4, MinIs

(* The sums of tables on the rows.                                         *)
LEMMA RowsPlus ==
  \A f, g, h \in [Rows -> Nat] :
    (\A i \in Rows : h[i] = f[i] + g[i]) => Sum(h) = Sum(f) + Sum(g)
BY RowsFinite, SumPlus

LEMMA RowsBelow ==
  \A f, g \in [Rows -> Nat] :
    (\A i \in Rows : f[i] <= g[i]) =>
      Sum(f) <= Sum(g) /\ (Sum(f) = Sum(g) => \A i \in Rows : f[i] = g[i])
BY RowsFinite, SumBelow

-----------------------------------------------------------------------------
(* The inductive invariant.                                                *)

OnRow == {"priced", "claimed", "settling", "reading", "rippling", "confirming"}

TillOK(j) ==
  /\ till[j].pc \in OnRow => till[j].row \in Rows
  /\ till[j].pc \in {"walking", "confirming"} => PaysOff(j)

(* What a handler holds fits the records: a reference has the row it was   *)
(* minted for, a payoff its reference, and without a plan there are no     *)
(* rows and no allocations.                                                *)
Shape ==
  /\ drawn.invoice <= plan.cover /\ drawn.arrears <= plan.arrears
  /\ plan.status = "none" => plan = NoPlan /\ inst = NoSchedule /\ alloc = [i \in Rows |-> 0]
  /\ \A r \in Refs : /\ checkout[r].target = "row" => rowOf[r] \in Rows
                     /\ checkout[r].target \in {"row", "payoff"} => plan.status # "none"
  /\ \A j \in Jobs : job[j].pc = "accepted" =>
       RefOf[j] # None /\ checkout[RefOf[j]].target = "link"
  /\ \A j \in Jobs : TillOK(j)
  /\ \A d \in Desks : change[d].pc = "planning" => change[d].wallet < 0

-----------------------------------------------------------------------------
(* What each kind of step leaves alone.                                    *)

(* The steps of a report that only read.                                   *)
ReadingStep(j) ==
  \/ Notice(j) \/ RowGone(j) \/ VerifySkips(j)
  \/ \E i \in Rows, amount \in 1..(Bill + Fee + Arrears) : MarkPaidManual(j, i, amount)
  \/ MarkPlanPaidOff(j) \/ NextRow(j) \/ ConfirmRow(j) \/ FinishPayoff(j)
  \/ Lose(j) \/ ReadRenewal(j)

(* The ripple that writes, and the one that throws.                        *)
Ripple(j) == RippleUp(j) \/ RippleFails(j)

records == <<invoice, balance, checkout, received, job, edit, plan, inst, alloc, drawn,
             renewal, rowOf, change, crashes, credited, stale>>

LEMMA TillFields ==
  ASSUME NEW t \in Till, NEW pc \in TillSteps, NEW row \in Rows, NEW amount \in Nat
  PROVE  /\ NoTill \in Till /\ [NoTill EXCEPT !.pc = pc] \in Till
         /\ [t EXCEPT !.pc = pc] \in Till
         /\ [NoTill EXCEPT !.pc = pc, !.row = row, !.amount = amount] \in Till
         /\ [t EXCEPT !.pc = pc, !.row = row, !.amount = amount] \in Till
BY DEF Till, NoTill, TillSteps, Ended

LEMMA TillMoves ==
  ASSUME till \in [Jobs -> Till], NEW j \in Jobs, NEW t \in Till, till' = [till EXCEPT ![j] = t]
  PROVE  /\ till' \in [Jobs -> Till] /\ till'[j] = t
         /\ \A k \in Jobs \ {j} : till'[k] = till[k]
OBVIOUS

LEMMA PcSteps ==
  /\ TillSteps = {"idle", "priced", "walking", "confirming", "claimed", "settling",
                  "reading", "rippling", "done", "lost"}
  /\ Ended = {"done", "lost"}
BY DEF TillSteps, Ended

LEMMA Reporting ==
  ASSUME TypeOK, NEW j \in Jobs, NEW target, Reports(j, target)
  PROVE  RefOf[j] \in Refs /\ RefOf[j] # None /\ checkout[RefOf[j]].target = target
BY RefAssumption DEF TypeOK, InvoiceTypeOK, Reports

LEMMA PayingOff ==
  ASSUME NEW j \in Jobs, PaysOff(j)
  PROVE  RefOf[j] \in Refs
BY JobAssumption DEF PaysOff

LEMMA Leaving ==
  ASSUME till \in [Jobs -> Till], NEW j \in Jobs, NEW pc \in Ended, Leave(j, pc)
  PROVE  /\ till' \in [Jobs -> Till] /\ till'[j] = [NoTill EXCEPT !.pc = pc]
         /\ till'[j].pc = pc
         /\ \A k \in Jobs \ {j} : till'[k] = till[k]
<1>1. [NoTill EXCEPT !.pc = pc] \in Till  BY DEF Till, NoTill, TillSteps
<1>2. [NoTill EXCEPT !.pc = pc].pc = pc  BY DEF NoTill
<1>3. till' = [till EXCEPT ![j] = [NoTill EXCEPT !.pc = pc]]  BY DEF Leave
<1> QED  BY <1>1, <1>2, <1>3, TillMoves

LEMMA Moving ==
  ASSUME till \in [Jobs -> Till], NEW j \in Jobs, NEW pc \in TillSteps, Move(j, pc)
  PROVE  /\ till' \in [Jobs -> Till] /\ till'[j] = [till[j] EXCEPT !.pc = pc]
         /\ till'[j].pc = pc /\ till'[j].row = till[j].row
         /\ till'[j].amount = till[j].amount /\ till'[j].last = till[j].last
         /\ \A k \in Jobs \ {j} : till'[k] = till[k]
<1>1. [till[j] EXCEPT !.pc = pc] \in Till  BY DEF Till
<1>2. till' = [till EXCEPT ![j] = [till[j] EXCEPT !.pc = pc]]  BY DEF Move
<1>3. LET t == [till[j] EXCEPT !.pc = pc] IN
      t.pc = pc /\ t.row = till[j].row /\ t.amount = till[j].amount /\ t.last = till[j].last
  BY DEF Till
<1> QED  BY <1>1, <1>2, <1>3, TillMoves

(* A payoff goes back to its rows, any other report is done.               *)
LEMMA Returning ==
  ASSUME till \in [Jobs -> Till], NEW j \in Jobs, Return(j)
  PROVE  /\ till' \in [Jobs -> Till]
         /\ \A k \in Jobs \ {j} : till'[k] = till[k]
         /\ \/ PaysOff(j) /\ till'[j].pc = "confirming" /\ till'[j].row = till[j].row
            \/ ~PaysOff(j) /\ till'[j].pc = "done"
<1>1. CASE PaysOff(j)
  <2>1. Move(j, "confirming")  BY <1>1 DEF Return
  <2> QED  BY <1>1, <2>1, Moving, PcSteps
<1>2. CASE ~PaysOff(j)
  <2>1. Leave(j, "done")  BY <1>2 DEF Return
  <2> QED  BY <1>2, <2>1, Leaving, PcSteps
<1> QED  BY <1>1, <1>2

LEMMA Filing ==
  ASSUME filed \subseteq Refs, NEW r \in Refs, NEW needed, Files(r, needed)
  PROVE  filed' \subseteq Refs
BY DEF Files

(* A step that only reads changes what its report holds, and no row of the *)
(* records but the history of refunds.                                     *)
LEMMA Reading ==
  ASSUME TypeOK, Shape, NEW j \in Jobs, ReadingStep(j)
  PROVE  /\ till' \in [Jobs -> Till] /\ filed' \subseteq Refs
         /\ \A k \in Jobs \ {j} : till'[k] = till[k]
         /\ UNCHANGED records
         /\ till[j].pc \in {"idle", "priced", "walking", "confirming", "reading"}
         /\ till'[j].pc \in {"priced", "walking", "confirming", "rippling", "done", "lost"}
         /\ till'[j].pc \in OnRow => till'[j].row \in Rows
         /\ till'[j].pc \in {"walking", "confirming"} => PaysOff(j)
<1> DEFINE Goal ==
      /\ till' \in [Jobs -> Till] /\ filed' \subseteq Refs
      /\ \A k \in Jobs \ {j} : till'[k] = till[k]
      /\ UNCHANGED records
      /\ till[j].pc \in {"idle", "priced", "walking", "confirming", "reading"}
      /\ till'[j].pc \in {"priced", "walking", "confirming", "rippling", "done", "lost"}
      /\ till'[j].pc \in OnRow => till'[j].row \in Rows
      /\ till'[j].pc \in {"walking", "confirming"} => PaysOff(j)
<1>1. /\ till \in [Jobs -> Till] /\ filed \subseteq Refs /\ inst \in [Rows -> Row]
      /\ TillOK(j) /\ till[j] \in Till
  BY DEF TypeOK, InvoiceTypeOK, Shape
<1>2. CASE Notice(j)
  <2> DEFINE r == RefOf[j]
             row == inst[rowOf[r]]
             t == [NoTill EXCEPT !.pc = "priced", !.row = rowOf[r], !.amount = Remaining(row)]
  <2>1. r \in Refs /\ checkout[r].target = "row"  BY <1>2, Reporting DEF Notice
  <2>2. rowOf[r] \in Rows  BY <2>1 DEF Shape
  <2>3. Remaining(row) \in Nat  BY <1>1, <2>2, RowParts
  <2>4. t \in Till /\ t.pc = "priced" /\ t.row = rowOf[r]
    BY <2>2, <2>3 DEF Till, NoTill, TillSteps
  <2>5. filed' \subseteq Refs /\ UNCHANGED records /\ till[j].pc = "idle"
    BY <1>1, <1>2, <2>1, Filing DEF Notice, InvoiceKept, PlanKept, records
  <2>6. CASE till' = [till EXCEPT ![j] = t]
    <3> HIDE DEF t
    <3> QED  BY <1>1, <2>2, <2>4, <2>5, <2>6, TillMoves
  <2>7. CASE Leave(j, "done")
    BY <1>1, <2>5, <2>7, Leaving, PcSteps DEF OnRow
  <2> QED  BY <1>2, <2>6, <2>7 DEF Notice
<1>3. CASE RowGone(j)
  <2>1. Leave(j, "lost") /\ UNCHANGED records /\ till[j].pc = "idle" /\ UNCHANGED filed
    BY <1>3 DEF RowGone, InvoiceKept, PlanKept, records
  <2> QED  BY <1>1, <2>1, Leaving, PcSteps DEF OnRow
<1>4. CASE VerifySkips(j)
  <2>1. Leave(j, "done") /\ UNCHANGED records /\ till[j].pc = "idle" /\ UNCHANGED filed
    BY <1>4 DEF VerifySkips, InvoiceKept, PlanKept, records
  <2> QED  BY <1>1, <2>1, Leaving, PcSteps DEF OnRow
<1>5. ASSUME NEW i \in Rows, NEW amount \in 1..(Bill + Fee + Arrears), MarkPaidManual(j, i, amount)
      PROVE  Goal
  <2> DEFINE t == [NoTill EXCEPT !.pc = "priced", !.row = i, !.amount = amount]
  <2>1. amount \in Nat  BY BillAssumption, DebtAssumption
  <2>2. t \in Till /\ t.pc = "priced" /\ t.row = i
    BY <2>1 DEF Till, NoTill, TillSteps
  <2>3. /\ till' = [till EXCEPT ![j] = t] /\ UNCHANGED records /\ till[j].pc = "idle"
        /\ UNCHANGED filed
    BY <1>5 DEF MarkPaidManual, InvoiceKept, PlanKept, records
  <2> HIDE DEF t
  <2> QED  BY <1>1, <2>2, <2>3, TillMoves
<1>6. CASE MarkPlanPaidOff(j)
  <2> DEFINE t == [NoTill EXCEPT !.pc = "walking", !.todo = OpenRows]
  <2>1. RefOf[j] \in Refs /\ PaysOff(j)
    BY <1>6, Reporting DEF MarkPlanPaidOff, PaysOff
  <2>2. t \in Till /\ t.pc = "walking"  BY DEF Till, NoTill, TillSteps, OpenRows
  <2>3. filed' \subseteq Refs /\ UNCHANGED records /\ till[j].pc = "idle"
    BY <1>1, <1>6, <2>1, Filing DEF MarkPlanPaidOff, InvoiceKept, PlanKept, records
  <2>4. CASE till' = [till EXCEPT ![j] = t]
    <3> HIDE DEF t
    <3> QED  BY <1>1, <2>1, <2>2, <2>3, <2>4, TillMoves DEF OnRow
  <2>5. CASE Leave(j, "done")
    BY <1>1, <2>3, <2>5, Leaving, PcSteps DEF OnRow
  <2> QED  BY <1>6, <2>4, <2>5 DEF MarkPlanPaidOff
<1>7. CASE NextRow(j)
  <2> DEFINE i == Min(till[j].todo)
             row == inst[i]
             gone == [NoTill EXCEPT !.pc = "lost"]
             on == [till[j] EXCEPT !.todo = till[j].todo \ {i}]
             t == [till[j] EXCEPT !.pc = "priced", !.row = i, !.amount = Remaining(row)]
  <2>1. till[j].pc = "walking" /\ till[j].todo # {} /\ till[j].todo \subseteq Rows
    BY <1>1, <1>7 DEF NextRow, Till
  <2>2. i \in Rows  BY <2>1, HasMin
  <2>3. Remaining(row) \in Nat  BY <1>1, <2>2, RowParts
  <2>4. PaysOff(j)  BY <1>1, <2>1 DEF TillOK
  <2>5. UNCHANGED records /\ UNCHANGED filed
    BY <1>7 DEF NextRow, InvoiceKept, PlanKept, records
  <2>6. /\ gone \in Till /\ gone.pc = "lost"
        /\ on \in Till /\ on.pc = "walking"
        /\ t \in Till /\ t.pc = "priced" /\ t.row = i
    <3> HIDE DEF i, row
    <3> QED  BY <1>1, <2>1, <2>2, <2>3 DEF Till, NoTill, TillSteps, Ended
  <2>7. \/ till' = [till EXCEPT ![j] = gone] \/ till' = [till EXCEPT ![j] = on]
        \/ till' = [till EXCEPT ![j] = t]
    <3>1. till' = [till EXCEPT ![j] =
             IF row.status = "none" THEN gone
             ELSE IF row.status = "paid" \/ Remaining(row) = 0 THEN on ELSE t]
      BY <1>7 DEF NextRow
    <3> HIDE DEF gone, on, t
    <3> QED  BY <3>1
  <2> HIDE DEF gone, on, t
  <2> QED  BY <1>1, <2>1, <2>2, <2>4, <2>5, <2>6, <2>7, TillMoves DEF OnRow
<1>8. CASE ConfirmRow(j)
  <2> DEFINE row == inst[till[j].row]
             n == IF row.status = "paid" /\ row.ref = RefOf[j] THEN till[j].amount ELSE 0
             t == [till[j] EXCEPT !.pc = "walking", !.todo = till[j].todo \ {till[j].row},
                                  !.applied = till[j].applied + n]
  <2>1. till[j].pc = "confirming" /\ PaysOff(j)  BY <1>1, <1>8 DEF ConfirmRow, TillOK
  <2>2. t \in Till /\ t.pc = "walking"
    <3>1. n \in Nat  BY <1>1 DEF Till
    <3> HIDE DEF n
    <3>2. till[j].applied + n \in Nat /\ till[j].todo \ {till[j].row} \in SUBSET Rows
      BY <1>1, <3>1 DEF Till
    <3> QED  BY <1>1, <3>2 DEF Till, TillSteps
  <2>3. till' = [till EXCEPT ![j] = t]  BY <1>8 DEF ConfirmRow
  <2>4. UNCHANGED records /\ UNCHANGED filed
    BY <1>8 DEF ConfirmRow, InvoiceKept, PlanKept, records
  <2> HIDE DEF t
  <2> QED  BY <1>1, <2>1, <2>2, <2>3, <2>4, TillMoves DEF OnRow
<1>9. CASE FinishPayoff(j)
  <2>1. till[j].pc = "walking" /\ PaysOff(j)  BY <1>1, <1>9 DEF FinishPayoff, TillOK
  <2>2. RefOf[j] \in Refs  BY <2>1, PayingOff
  <2>3. Leave(j, "done") /\ UNCHANGED records /\ filed' \subseteq Refs
    BY <1>1, <1>9, <2>2, Filing DEF FinishPayoff, InvoiceKept, PlanKept, records
  <2> QED  BY <1>1, <2>1, <2>3, Leaving, PcSteps DEF OnRow
<1>10. CASE Lose(j)
  <2>1. till[j].pc = "priced" /\ UNCHANGED records /\ UNCHANGED filed
    BY <1>10 DEF Lose, InvoiceKept, PlanKept, records
  <2>2. till[j].row \in Rows  BY <1>1, <2>1 DEF TillOK, OnRow
  <2>3. (PaysOff(j) /\ Move(j, "confirming")) \/ Leave(j, "lost")
    BY <1>10 DEF Lose
  <2>4. CASE PaysOff(j) /\ Move(j, "confirming")
    BY <1>1, <2>1, <2>2, <2>4, Moving, PcSteps
  <2>5. CASE Leave(j, "lost")
    BY <1>1, <2>1, <2>5, Leaving, PcSteps DEF OnRow
  <2> QED  BY <2>3, <2>4, <2>5
<1>11. CASE ReadRenewal(j)
  <2> DEFINE t == [till[j] EXCEPT !.pc = "rippling", !.last = plan.status = "completed"]
  <2>1. till[j].pc = "reading" /\ UNCHANGED records /\ UNCHANGED filed
    BY <1>11 DEF ReadRenewal, InvoiceKept, PlanKept, records
  <2>2. till[j].row \in Rows  BY <1>1, <2>1 DEF TillOK, OnRow
  <2>3. t \in Till /\ t.pc = "rippling" /\ t.row = till[j].row
    BY <1>1 DEF Till, TillSteps
  <2>4. Return(j) \/ till' = [till EXCEPT ![j] = t]  BY <1>1, <1>11 DEF ReadRenewal
  <2>5. CASE Return(j)  BY <1>1, <2>1, <2>2, <2>5, Returning DEF OnRow
  <2>6. CASE till' = [till EXCEPT ![j] = t]
    <3> HIDE DEF t
    <3> QED  BY <1>1, <2>1, <2>2, <2>3, <2>6, TillMoves
  <2> QED  BY <2>4, <2>5, <2>6
<1> QED
  BY <1>2, <1>3, <1>4, <1>5, <1>6, <1>7, <1>8, <1>9, <1>10, <1>11 DEF ReadingStep

-----------------------------------------------------------------------------
(* Every step keeps the types and the shape.                               *)

LEMMA Minted ==
  ASSUME NEW r, checkout[r].target # None
  PROVE  checkout[r] # NoCheckout
BY DEF NoCheckout

LEMMA NoInvoiceType == NoInvoice \in InvoiceRow
BY DEF NoInvoice, InvoiceRow

LEMMA DueType ==
  ASSUME NEW i \in InvoiceRow
  PROVE  Due(i) \in Nat
BY DEF Due, InvoiceRow

LEMMA LeastType ==
  ASSUME NEW x \in Nat, NEW y \in Nat
  PROVE  Least(x, y) \in Nat /\ Least(x, y) <= x /\ Least(x, y) <= y
BY DEF Least

InvoiceShape ==
  \A j \in Jobs : job[j].pc = "accepted" =>
    RefOf[j] # None /\ checkout[RefOf[j]].target = "link"

(* What a checkout was minted for does not change.                         *)
CheckoutsKept ==
  \A r \in Refs : checkout'[r] = checkout[r] \/ checkout[r] = NoCheckout

LEMMA JobMoves ==
  ASSUME InvoiceTypeOK, NEW j \in Jobs, NEW pc \in Ended, To(j, pc)
  PROVE  /\ job' \in [Jobs -> [pc : {"idle", "accepted"} \cup Ended, copy : InvoiceRow]]
         /\ \A k \in Jobs : job'[k].pc = "accepted" => job'[k] = job[k]
<1> DEFINE new == [pc |-> pc, copy |-> NoInvoice]
<1>1. new \in [pc : {"idle", "accepted"} \cup Ended, copy : InvoiceRow] /\ new.pc # "accepted"
  BY NoInvoiceType DEF Ended
<1>2. job' = [job EXCEPT ![j] = new]  BY DEF To
<1> HIDE DEF new
<1> QED  BY <1>1, <1>2 DEF InvoiceTypeOK

LEMMA InvoiceTyped ==
  ASSUME InvoiceTypeOK, InvoiceShape, InvoiceNext
  PROVE  /\ InvoiceTypeOK' /\ CheckoutsKept
         /\ \A r \in Refs : checkout'[r] = checkout[r] \/ checkout'[r].target = "link"
         /\ \A k \in Jobs : job'[k].pc = "accepted" =>
              job'[k] = job[k] \/ (Reports(k, "link") /\ checkout' = checkout)
<1> DEFINE Goal ==
      /\ InvoiceTypeOK' /\ CheckoutsKept
      /\ \A r \in Refs : checkout'[r] = checkout[r] \/ checkout'[r].target = "link"
      /\ \A k \in Jobs : job'[k].pc = "accepted" =>
           job'[k] = job[k] \/ (Reports(k, "link") /\ checkout' = checkout)
<1>1. CASE CreateInvoice
  <2>1. [NoInvoice EXCEPT !.status = "pending", !.total = Bill, !.covered = FALSE] \in InvoiceRow
    BY BillAssumption DEF NoInvoice, InvoiceRow
  <2>2. balance - Bill \in Int  BY BillAssumption DEF InvoiceTypeOK
  <2> QED  BY <1>1, <2>1, <2>2 DEF CreateInvoice, Billed, InvoiceTypeOK, CheckoutsKept
<1>2. ASSUME NEW r \in Refs, InitializePublicPayment(r)  PROVE Goal
  <2> DEFINE new == [target |-> "link", amount |-> Due(invoice)]
  <2>1. new \in [target : {"link", "row", "payoff", None}, amount : Nat] /\ new.target = "link"
    BY DueType DEF InvoiceTypeOK
  <2>2. checkout' = [checkout EXCEPT ![r] = new] /\ checkout[r] = NoCheckout
    BY <1>2 DEF InitializePublicPayment
  <2>3. checkout' \in [Refs -> [target : {"link", "row", "payoff", None}, amount : Nat]]
        /\ checkout'[r] = new /\ \A q \in Refs \ {r} : checkout'[q] = checkout[q]
    <3> HIDE DEF new
    <3> QED  BY <2>1, <2>2 DEF InvoiceTypeOK
  <2>4. CheckoutsKept  BY <2>2, <2>3 DEF CheckoutsKept
  <2> HIDE DEF new
  <2> QED  BY <1>2, <2>1, <2>3, <2>4 DEF InitializePublicPayment, InvoiceTypeOK
<1>3. ASSUME NEW r \in Refs, GatewayTakes(r)  PROVE Goal
  BY <1>3 DEF GatewayTakes, InvoiceTypeOK, CheckoutsKept
<1>4. ASSUME NEW j \in Jobs, VerifyTurnsAway(j)  PROVE Goal
  <2>1. To(j, "done")  BY <1>4 DEF VerifyTurnsAway
  <2>2. "done" \in Ended  BY DEF Ended
  <2> QED
    BY <1>4, <2>1, <2>2, JobMoves DEF VerifyTurnsAway, InvoiceTypeOK, CheckoutsKept
<1>5. ASSUME NEW j \in Jobs, SetAside(j)  PROVE Goal
  <2>1. To(j, "done") /\ RefOf[j] \in Refs  BY <1>5 DEF SetAside, Reports, InvoiceTypeOK
  <2>2. "done" \in Ended  BY DEF Ended
  <2>3. filed' \subseteq Refs  BY <1>5, <2>1 DEF SetAside, InvoiceTypeOK
  <2> QED  BY <1>5, <2>1, <2>2, <2>3, JobMoves DEF SetAside, InvoiceTypeOK, CheckoutsKept
<1>6. ASSUME NEW j \in Jobs, Accept(j)  PROVE Goal
  <2> DEFINE new == [pc |-> "accepted", copy |-> invoice]
  <2>1. new \in [pc : {"idle", "accepted"} \cup Ended, copy : InvoiceRow]
    BY DEF InvoiceTypeOK
  <2>2. job' = [job EXCEPT ![j] = new] /\ Reports(j, "link")  BY <1>6 DEF Accept
  <2> HIDE DEF new
  <2>3. /\ job' \in [Jobs -> [pc : {"idle", "accepted"} \cup Ended, copy : InvoiceRow]]
        /\ \A k \in Jobs \ {j} : job'[k] = job[k]
    BY <2>1, <2>2 DEF InvoiceTypeOK
  <2> QED  BY <1>6, <2>2, <2>3 DEF Accept, InvoiceTypeOK, CheckoutsKept
<1>7. ASSUME NEW j \in Jobs, ClaimInvoice(j)  PROVE Goal
  <2> DEFINE amount == Least(checkout[RefOf[j]].amount, Due(job[j].copy))
  <2>1. job[j].pc = "accepted" /\ To(j, "done")  BY <1>7 DEF ClaimInvoice
  <2>2. RefOf[j] \in Refs  BY <2>1, JobAssumption DEF InvoiceShape
  <2>3. job[j].copy \in InvoiceRow /\ checkout[RefOf[j]].amount \in Nat
    BY <2>2 DEF InvoiceTypeOK
  <2>4. amount \in Nat  BY <2>3, DueType, LeastType
  <2>5. job[j].copy.total \in Nat  BY <2>3 DEF InvoiceRow
  <2>6. [invoice EXCEPT !.status = "paid", !.paid = job[j].copy.total, !.ref = RefOf[j]]
          \in InvoiceRow
    BY <2>2, <2>5 DEF InvoiceTypeOK, InvoiceRow
  <2>7. invoice' \in InvoiceRow  BY <1>7, <2>6 DEF ClaimInvoice
  <2>8. balance' = balance + amount /\ credited' = [credited EXCEPT ![RefOf[j]] = @ + amount]
    BY <1>7 DEF ClaimInvoice
  <2> HIDE DEF amount
  <2>9. balance' \in Int /\ credited' \in [Refs \cup {None} -> Nat]
    BY <2>2, <2>4, <2>8 DEF InvoiceTypeOK
  <2>10. stale' \in BOOLEAN  BY <1>7 DEF ClaimInvoice, InvoiceTypeOK
  <2>11. "done" \in Ended  BY DEF Ended
  <2>12. UNCHANGED <<checkout, received, edit, filed>>  BY <1>7 DEF ClaimInvoice
  <2> QED
    BY <2>1, <2>7, <2>9, <2>10, <2>11, <2>12, JobMoves DEF InvoiceTypeOK, CheckoutsKept
<1>8. ASSUME NEW j \in Jobs, ClaimLost(j)  PROVE Goal
  <2>1. To(j, "lost")  BY <1>8 DEF ClaimLost
  <2>2. "lost" \in Ended  BY DEF Ended
  <2> QED  BY <1>8, <2>1, <2>2, JobMoves DEF ClaimLost, InvoiceTypeOK, CheckoutsKept
<1>9. ASSUME NEW d \in Desks, NEW pc \in {"editing", "cancelling"}, OpenInvoice(d, pc)  PROVE Goal
  BY <1>9 DEF OpenInvoice, InvoiceTypeOK, CheckoutsKept
<1>10. ASSUME NEW d \in Desks, NEW total \in Rebills, UpdateInvoice(d, total)  PROVE Goal
  <2> DEFINE new == [pc |-> IF total < invoice.paid THEN "undercut" ELSE "done", copy |-> NoInvoice]
  <2>1. total \in Nat  BY BillAssumption
  <2>2. edit[d].copy.total \in Nat  BY DEF InvoiceTypeOK, InvoiceRow
  <2>3. balance' \in Int  BY <1>10, <2>1, <2>2 DEF UpdateInvoice, InvoiceTypeOK
  <2>4. invoice' \in InvoiceRow
    BY <1>10, <2>1 DEF UpdateInvoice, InvoiceTypeOK, InvoiceRow
  <2>5. new \in [pc : {"idle", "editing", "cancelling"} \cup Written, copy : InvoiceRow]
    BY NoInvoiceType DEF Written
  <2>6. edit' = [edit EXCEPT ![d] = new]  BY <1>10 DEF UpdateInvoice
  <2> HIDE DEF new
  <2>7. edit' \in [Desks -> [pc : {"idle", "editing", "cancelling"} \cup Written, copy : InvoiceRow]]
    BY <2>5, <2>6 DEF InvoiceTypeOK
  <2>8. stale' \in BOOLEAN  BY <1>10 DEF UpdateInvoice, InvoiceTypeOK
  <2> QED
    BY <1>10, <2>3, <2>4, <2>7, <2>8 DEF UpdateInvoice, InvoiceTypeOK, CheckoutsKept
<1>11. ASSUME NEW d \in Desks, CancelInvoice(d)  PROVE Goal
  <2>1. edit[d].copy.total \in Nat  BY DEF InvoiceTypeOK, InvoiceRow
  <2>2. balance' \in Int  BY <1>11, <2>1 DEF CancelInvoice, InvoiceTypeOK
  <2>3. invoice' \in InvoiceRow  BY <1>11 DEF CancelInvoice, InvoiceTypeOK, InvoiceRow
  <2>4. edit' \in [Desks -> [pc : {"idle", "editing", "cancelling"} \cup Written, copy : InvoiceRow]]
    BY <1>11, NoInvoiceType DEF CancelInvoice, InvoiceTypeOK, Written
  <2>5. stale' \in BOOLEAN  BY <1>11 DEF CancelInvoice, InvoiceTypeOK
  <2> QED
    BY <1>11, <2>2, <2>3, <2>4, <2>5 DEF CancelInvoice, InvoiceTypeOK, CheckoutsKept
<1> QED
  BY <1>1, <1>2, <1>3, <1>4, <1>5, <1>6, <1>7, <1>8, <1>9, <1>10, <1>11 DEF InvoiceNext

LEMMA PayoffKept ==
  ASSUME CheckoutsKept, NEW k \in Jobs, PaysOff(k)
  PROVE  PaysOff(k)'
<1>1. RefOf[k] \in Refs  BY PayingOff
<1>2. checkout[RefOf[k]].target = "payoff"  BY DEF PaysOff
<1>3. checkout[RefOf[k]] # NoCheckout  BY <1>2, RefAssumption, Minted
<1>4. checkout'[RefOf[k]] = checkout[RefOf[k]]  BY <1>1, <1>3 DEF CheckoutsKept
<1> QED  BY <1>1, <1>4, RefAssumption DEF PaysOff

LEMMA TillKept ==
  ASSUME CheckoutsKept, NEW k \in Jobs, TillOK(k), till'[k] = till[k]
  PROVE  TillOK(k)'
<1>1. till'[k].pc \in {"walking", "confirming"} => PaysOff(k)'  BY PayoffKept DEF TillOK
<1> QED  BY <1>1 DEF TillOK

LEMMA AcceptedKept ==
  ASSUME CheckoutsKept, NEW k \in Jobs, RefOf[k] # None, checkout[RefOf[k]].target = "link"
  PROVE  checkout'[RefOf[k]].target = "link"
<1>1. RefOf[k] \in Refs  BY JobAssumption
<1>2. checkout[RefOf[k]] # NoCheckout  BY RefAssumption, Minted
<1> QED  BY <1>1, <1>2 DEF CheckoutsKept

LEMMA SameCheckouts ==
  ASSUME checkout' = checkout
  PROVE  CheckoutsKept
BY DEF CheckoutsKept

Good == TypeOK /\ Shape

LEMMA InvoiceGood ==
  ASSUME Good, InvoiceNext, UNCHANGED planVars
  PROVE  Good'
<1>1. InvoiceTypeOK /\ InvoiceShape  BY DEF Good, TypeOK, Shape, InvoiceShape
<1>2. /\ InvoiceTypeOK' /\ CheckoutsKept
      /\ \A r \in Refs : checkout'[r] = checkout[r] \/ checkout'[r].target = "link"
      /\ \A k \in Jobs : job'[k].pc = "accepted" =>
              job'[k] = job[k] \/ (Reports(k, "link") /\ checkout' = checkout)
  BY <1>1, InvoiceTyped
<1>3. TypeOK'  BY <1>2 DEF Good, TypeOK, planVars
<1>4. ASSUME NEW k \in Jobs, job'[k].pc = "accepted"
      PROVE  RefOf[k] # None /\ checkout'[RefOf[k]].target = "link"
  <2>1. CASE job'[k] = job[k]
    BY <1>1, <1>2, <1>4, <2>1, AcceptedKept DEF InvoiceShape
  <2>2. CASE Reports(k, "link") /\ checkout' = checkout
    BY <2>2, Reporting DEF Good
  <2> QED  BY <1>2, <1>4, <2>1, <2>2
<1>5. \A k \in Jobs : TillOK(k)'  BY <1>2, TillKept DEF Good, Shape, planVars
<1>6. \A r \in Refs : /\ checkout'[r].target = "row" => rowOf'[r] \in Rows
                      /\ checkout'[r].target \in {"row", "payoff"} => plan'.status # "none"
  BY <1>2 DEF Good, Shape, planVars
<1> QED  BY <1>3, <1>4, <1>5, <1>6 DEF Good, Shape, planVars

(* A step of a report, whatever it reads, when the plan and the checkouts  *)
(* are the same.                                                           *)
LEMMA ReadingGood ==
  ASSUME Good, NEW j \in Jobs, ReadingStep(j)
  PROVE  Good'
<1>1. TypeOK /\ Shape  BY DEF Good
<1>2. /\ till' \in [Jobs -> Till] /\ filed' \subseteq Refs
      /\ \A k \in Jobs \ {j} : till'[k] = till[k]
      /\ UNCHANGED records
      /\ till'[j].pc \in OnRow => till'[j].row \in Rows
      /\ till'[j].pc \in {"walking", "confirming"} => PaysOff(j)
  BY <1>1, Reading
<1>3. CheckoutsKept  BY <1>2, SameCheckouts DEF records
<1>4. TypeOK'  BY <1>1, <1>2 DEF TypeOK, InvoiceTypeOK, records
<1>5. TillOK(j)'  BY <1>2, <1>3, PayoffKept DEF TillOK
<1>6. \A k \in Jobs : TillOK(k)'  BY <1>1, <1>2, <1>3, <1>5, TillKept DEF Shape
<1> QED  BY <1>1, <1>2, <1>4, <1>6 DEF Good, Shape, records

(* A new plan: one row for each amount of its schedule.                    *)
LEMMA NewPlanRows ==
  ASSUME Good, NEW kind, NEW s \in [Rows -> Nat], NEW cover \in Nat, NEW arrears \in Nat,
         NewPlan(kind, s, cover, arrears)
  PROVE  /\ plan.status = "none" /\ plan' \in PlanRow /\ plan'.status = "active"
         /\ plan'.kind = kind /\ plan'.total = Sum(s)
         /\ plan'.cover = cover /\ plan'.arrears = arrears
         /\ inst' \in [Rows -> Row]
         /\ \A i \in Rows : /\ inst'[i].amount = s[i] /\ inst'[i].paid = 0
                            /\ s[i] = 0 => inst'[i] = NoRow
                            /\ s[i] # 0 => inst'[i].status = "pending"
         /\ UNCHANGED <<alloc, drawn, rowOf, till, crashes>>
<1>1. Sum(s) \in Nat  BY RowsFinite, SumType
<1>2. kind \in {"adhoc", "balance", "fee", "tenancy"}  BY KindAssumption DEF NewPlan
<1>3. plan' = [status |-> "active", kind |-> kind, cover |-> cover, arrears |-> arrears,
               total |-> Sum(s)]
  BY DEF NewPlan
<1>4. ASSUME NEW i \in Rows
      PROVE  LET row == IF s[i] = 0 THEN NoRow
                        ELSE [NoRow EXCEPT !.amount = s[i], !.status = "pending"]
             IN /\ row \in Row /\ row.amount = s[i] /\ row.paid = 0
                /\ s[i] = 0 => row = NoRow
                /\ s[i] # 0 => row.status = "pending"
  BY <1>4 DEF Row, NoRow, OpenStatus
<1>5. inst' = [i \in Rows |-> IF s[i] = 0 THEN NoRow
                              ELSE [NoRow EXCEPT !.amount = s[i], !.status = "pending"]]
  BY DEF NewPlan
<1>6. plan' \in PlanRow  BY <1>1, <1>2, <1>3 DEF PlanRow
<1>7. inst' \in [Rows -> Row]  BY <1>4, <1>5
<1>8. \A i \in Rows : /\ inst'[i].amount = s[i] /\ inst'[i].paid = 0
                      /\ s[i] = 0 => inst'[i] = NoRow
                      /\ s[i] # 0 => inst'[i].status = "pending"
  BY <1>4, <1>5
<1>9. plan.status = "none" /\ UNCHANGED <<alloc, drawn, rowOf, till, crashes>>  BY DEF NewPlan
<1> QED  BY <1>3, <1>6, <1>7, <1>8, <1>9

(* The shape after a plan is made, whatever it covers.                     *)
LEMMA NewPlanGood ==
  ASSUME Good, NEW kind, NEW s \in [Rows -> Nat], NEW cover \in Nat, NEW arrears \in Nat,
         NewPlan(kind, s, cover, arrears), InvoiceTypeOK',
         renewal' \in RenewalRow,
         change' \in [Desks -> Change],
         \A d \in Desks : change'[d].pc = "planning" => change'[d] = change[d],
         UNCHANGED <<checkout, job>>
  PROVE  Good'
<1>1. TypeOK /\ Shape  BY DEF Good
<1>2. /\ plan.status = "none" /\ plan' \in PlanRow /\ plan'.status = "active"
      /\ plan'.cover = cover /\ plan'.arrears = arrears
      /\ inst' \in [Rows -> Row]
      /\ UNCHANGED <<alloc, drawn, rowOf, till, crashes>>
  BY NewPlanRows
<1>3. TypeOK'  BY <1>1, <1>2 DEF TypeOK
<1>4. \A k \in Jobs : TillOK(k)'  BY <1>1, <1>2, SameCheckouts, TillKept DEF Shape
<1>5. drawn.invoice <= cover /\ drawn.arrears <= arrears
  <2>1. plan.cover = 0 /\ plan.arrears = 0  BY <1>1, <1>2 DEF Shape, NoPlan
  <2>2. drawn.invoice \in Nat /\ drawn.arrears \in Nat  BY <1>1 DEF TypeOK, Drawn
  <2>3. drawn.invoice <= 0 /\ drawn.arrears <= 0  BY <1>1, <2>1 DEF Shape
  <2> QED  BY <2>2, <2>3
<1> QED  BY <1>1, <1>2, <1>3, <1>4, <1>5 DEF Good, Shape

(* createPlan, for each of its kinds, makes a plan with a schedule.        *)
Creation ==
  CreateAdHocInvoicePlan \/ CreateNewChargePlan \/ CreateFeePlan \/ CreateTenancyPlan
    \/ \E d \in Desks : CreateOutstandingBalancePlan(d)

(* The plan that a branch of createPlan makes, and the debt it is about.   *)
Makes(kind, s, cover, arrears) ==
  /\ NewPlan(kind, s, cover, arrears)
  /\ Sum(s) \in Nat /\ Sum(s) > 0
  /\ kind \in {"adhoc", "balance"} => Sum(s) = cover + arrears
  /\ kind = "adhoc" => arrears = 0 /\ cover > 0
  /\ kind \in {"fee", "tenancy"} => Sum(s) = renewal.fee /\ UNCHANGED invoiceVars
  /\ renewal' = IF kind = "fee" THEN [renewal EXCEPT !.fee = 0] ELSE renewal

LEMMA Creating ==
  ASSUME Good, Creation
  PROVE  \E kind \in {"adhoc", "balance", "fee", "tenancy"}, s \in [Rows -> Nat],
            cover \in Nat, arrears \in Nat : Makes(kind, s, cover, arrears)
<1> DEFINE Goal ==
      \E kind \in {"adhoc", "balance", "fee", "tenancy"}, s \in [Rows -> Nat],
         cover \in Nat, arrears \in Nat : Makes(kind, s, cover, arrears)
<1>1. invoice \in InvoiceRow /\ renewal.fee \in Nat /\ 0 \in Nat
  BY DEF Good, TypeOK, RenewalRow, InvoiceTypeOK
<1>2. CASE CreateAdHocInvoicePlan
  <2>1. PICK s \in Schedules(Due(invoice)) : NewPlan("adhoc", s, Due(invoice), 0)
    BY <1>2 DEF CreateAdHocInvoicePlan
  <2>2. Due(invoice) \in Nat /\ Due(invoice) > 0  BY <1>1, <1>2, DueType DEF CreateAdHocInvoicePlan
  <2>3. s \in [Rows -> Nat] /\ Sum(s) = Due(invoice)  BY <2>2, ScheduleTotal
  <2>4. UNCHANGED renewal  BY <1>2 DEF CreateAdHocInvoicePlan
  <2>5. Makes("adhoc", s, Due(invoice), 0)  BY <2>1, <2>2, <2>3, <2>4 DEF Makes
  <2> QED  BY <1>1, <2>2, <2>3, <2>5
<1>3. CASE CreateNewChargePlan
  <2>1. PICK s \in Schedules(Bill) : NewPlan("adhoc", s, Bill, 0)
    BY <1>3 DEF CreateNewChargePlan
  <2>2. Bill \in Nat /\ Bill > 0  BY <1>3, BillAssumption DEF CreateNewChargePlan, Billed
  <2>3. s \in [Rows -> Nat] /\ Sum(s) = Bill  BY <2>2, ScheduleTotal
  <2>4. UNCHANGED renewal  BY <1>3 DEF CreateNewChargePlan
  <2>5. Makes("adhoc", s, Bill, 0)  BY <2>1, <2>2, <2>3, <2>4 DEF Makes
  <2> QED  BY <1>1, <2>2, <2>3, <2>5
<1>4. CASE CreateFeePlan
  <2>1. PICK s \in Schedules(renewal.fee) : NewPlan("fee", s, 0, 0)
    BY <1>4 DEF CreateFeePlan
  <2>2. s \in [Rows -> Nat] /\ Sum(s) = renewal.fee  BY <1>1, <2>1, ScheduleTotal
  <2>3. renewal.fee > 0 /\ renewal' = [renewal EXCEPT !.fee = 0] /\ UNCHANGED invoiceVars
    BY <1>4 DEF CreateFeePlan
  <2>4. Makes("fee", s, 0, 0)  BY <1>1, <2>1, <2>2, <2>3 DEF Makes
  <2> QED  BY <1>1, <2>2, <2>4
<1>5. CASE CreateTenancyPlan
  <2>1. PICK s \in Schedules(renewal.fee) : NewPlan("tenancy", s, 0, 0)
    BY <1>5 DEF CreateTenancyPlan
  <2>2. s \in [Rows -> Nat] /\ Sum(s) = renewal.fee  BY <1>1, <2>1, ScheduleTotal
  <2>3. renewal.fee > 0 /\ UNCHANGED renewal /\ UNCHANGED invoiceVars
    BY <1>5 DEF CreateTenancyPlan
  <2>4. Makes("tenancy", s, 0, 0)  BY <1>1, <2>1, <2>2, <2>3 DEF Makes
  <2> QED  BY <1>1, <2>2, <2>4
<1>6. ASSUME NEW d \in Desks, CreateOutstandingBalancePlan(d)  PROVE Goal
  <2> DEFINE owed == -change[d].wallet
             free == invoice.status \in OpenStatus /\ ~invoice.covered
             cover == IF free THEN Least(Due(invoice), owed) ELSE 0
  <2>1. change[d].wallet \in Int /\ change[d].wallet < 0
    BY <1>6 DEF CreateOutstandingBalancePlan, Good, TypeOK, Change, Shape
  <2>2. owed \in Nat /\ owed > 0  BY <2>1
  <2>3. PICK s \in Schedules(owed) : NewPlan("balance", s, cover, owed - cover)
    BY <1>6 DEF CreateOutstandingBalancePlan
  <2>4. s \in [Rows -> Nat] /\ Sum(s) = owed  BY <2>2, ScheduleTotal
  <2>5. cover \in Nat /\ cover <= owed
    <3> HIDE DEF owed
    <3>1. Due(invoice) \in Nat  BY <1>1, DueType
    <3>2. Least(Due(invoice), owed) \in Nat /\ Least(Due(invoice), owed) <= owed
      BY <2>2, <3>1, LeastType
    <3> QED  BY <2>2, <3>2
  <2>6. UNCHANGED renewal  BY <1>6 DEF CreateOutstandingBalancePlan
  <2> HIDE DEF owed, cover
  <2>7. owed - cover \in Nat /\ owed = cover + (owed - cover)  BY <2>2, <2>5
  <2>8. Makes("balance", s, cover, owed - cover)
    BY <2>2, <2>3, <2>4, <2>6, <2>7 DEF Makes
  <2> QED  BY <2>4, <2>5, <2>7, <2>8
<1> QED  BY <1>2, <1>3, <1>4, <1>5, <1>6 DEF Creation

LEMMA CoverType ==
  ASSUME NEW i \in InvoiceRow, NEW b \in BOOLEAN
  PROVE  [i EXCEPT !.covered = b] \in InvoiceRow
BY DEF InvoiceRow

LEMMA NoChangeType == NoChange \in Change /\ [NoChange EXCEPT !.pc = "done"] \in Change
<1>1. NoSchedule \in [Rows -> Row]  BY DEF NoSchedule, Row, NoRow
<1>2. NothingDrawn \in Drawn  BY DEF NothingDrawn, Drawn
<1> QED  BY <1>1, <1>2, NoInvoiceType DEF NoChange, Change

LEMMA CreationGood ==
  ASSUME Good, Creation
  PROVE  Good'
<1>1. TypeOK /\ Shape  BY DEF Good
<1>2. PICK kind \in {"adhoc", "balance", "fee", "tenancy"}, s \in [Rows -> Nat],
         cover \in Nat, arrears \in Nat :
           /\ NewPlan(kind, s, cover, arrears)
           /\ renewal' = IF kind = "fee" THEN [renewal EXCEPT !.fee = 0] ELSE renewal
  BY Creating DEF Makes
<1>3. renewal' \in RenewalRow
  BY <1>1, <1>2 DEF TypeOK, RenewalRow
<1>4. InvoiceTypeOK' /\ UNCHANGED <<checkout, job>>
  <2>1. CASE CreateAdHocInvoicePlan
    <3>1. invoice' \in InvoiceRow
      BY <1>1, <2>1, CoverType DEF CreateAdHocInvoicePlan, TypeOK, InvoiceTypeOK
    <3> QED  BY <1>1, <2>1, <3>1 DEF CreateAdHocInvoicePlan, TypeOK, InvoiceTypeOK
  <2>2. CASE CreateNewChargePlan
    <3>1. [NoInvoice EXCEPT !.status = "pending", !.total = Bill, !.covered = TRUE] \in InvoiceRow
      BY BillAssumption DEF NoInvoice, InvoiceRow
    <3>2. balance - Bill \in Int  BY <1>1, BillAssumption DEF TypeOK, InvoiceTypeOK
    <3> QED
      BY <1>1, <2>2, <3>1, <3>2 DEF CreateNewChargePlan, Billed, TypeOK, InvoiceTypeOK
  <2>3. CASE CreateFeePlan \/ CreateTenancyPlan
    BY <1>1, <2>3 DEF CreateFeePlan, CreateTenancyPlan, invoiceVars, TypeOK, InvoiceTypeOK
  <2>4. ASSUME NEW d \in Desks, CreateOutstandingBalancePlan(d)
        PROVE  InvoiceTypeOK' /\ UNCHANGED <<checkout, job>>
    <3>1. PICK b \in BOOLEAN : invoice' = [invoice EXCEPT !.covered = b]
      BY <1>1, <2>4 DEF CreateOutstandingBalancePlan, TypeOK, InvoiceTypeOK, InvoiceRow
    <3>2. invoice' \in InvoiceRow  BY <1>1, <3>1, CoverType DEF TypeOK, InvoiceTypeOK
    <3>3. stale' \in BOOLEAN  BY <1>1, <2>4 DEF CreateOutstandingBalancePlan, TypeOK, InvoiceTypeOK
    <3> QED
      BY <1>1, <2>4, <3>2, <3>3 DEF CreateOutstandingBalancePlan, TypeOK, InvoiceTypeOK
  <2> QED  BY <2>1, <2>2, <2>3, <2>4 DEF Creation
<1>5. /\ change' \in [Desks -> Change]
      /\ \A d \in Desks : change'[d].pc = "planning" => change'[d] = change[d]
  <2>1. CASE CreateAdHocInvoicePlan \/ CreateNewChargePlan \/ CreateFeePlan \/ CreateTenancyPlan
    BY <1>1, <2>1 DEF CreateAdHocInvoicePlan, CreateNewChargePlan, CreateFeePlan,
                      CreateTenancyPlan, TypeOK
  <2>2. ASSUME NEW d \in Desks, CreateOutstandingBalancePlan(d)
        PROVE  /\ change' \in [Desks -> Change]
               /\ \A e \in Desks : change'[e].pc = "planning" => change'[e] = change[e]
    <3>1. change' = [change EXCEPT ![d] = NoChange]  BY <2>2 DEF CreateOutstandingBalancePlan
    <3>2. NoChange.pc # "planning"  BY DEF NoChange
    <3> QED  BY <1>1, <3>1, <3>2, NoChangeType DEF TypeOK
  <2> QED  BY <2>1, <2>2 DEF Creation
<1> QED  BY <1>2, <1>3, <1>4, <1>5, NewPlanGood

LEMMA ChangeMoves ==
  ASSUME change \in [Desks -> Change], NEW d \in Desks, NEW c \in Change,
         change' = [change EXCEPT ![d] = c]
  PROVE  /\ change' \in [Desks -> Change] /\ change'[d] = c
         /\ \A e \in Desks \ {d} : change'[e] = change[e]
OBVIOUS

(* A checkout of the plan: a row's or all that remains.                    *)
Minting == \E r \in Refs : \/ InitializePlanPayoffPayment(r)
                           \/ \E i \in Rows : InitializeInstallmentPayment(r, i)

LEMMA PlanCheckouts ==
  ASSUME TypeOK, NEW r \in Refs,
         \/ InitializePlanPayoffPayment(r)
         \/ \E i \in Rows : InitializeInstallmentPayment(r, i)
  PROVE  /\ CheckoutsKept /\ checkout[r] = NoCheckout /\ plan.status = "active"
         /\ checkout' \in [Refs -> [target : {"link", "row", "payoff", None}, amount : Nat]]
         /\ \A q \in Refs \ {r} : checkout'[q] = checkout[q] /\ rowOf'[q] = rowOf[q]
         /\ rowOf' \in [Refs -> Rows \cup {0}]
         /\ \/ checkout'[r].target = "payoff"
            \/ checkout'[r].target = "row" /\ rowOf'[r] \in Rows
         /\ UNCHANGED <<invoice, balance, received, job, edit, filed, credited, stale>>
         /\ UNCHANGED <<plan, inst, alloc, drawn, renewal, till, change, crashes>>
<1>1. CASE InitializePlanPayoffPayment(r)
  <2> DEFINE left == plan.total - PaidSum(inst)
             new == [target |-> "payoff", amount |-> left]
  <2>1. plan.total \in Nat /\ PaidSum(inst) \in Nat  BY SumsType DEF TypeOK, PlanRow
  <2>2. left \in Nat  BY <1>1, <2>1 DEF InitializePlanPayoffPayment
  <2>3. /\ checkout' = [checkout EXCEPT ![r] = new] /\ checkout[r] = NoCheckout
        /\ plan.status = "active"
        /\ UNCHANGED <<invoice, balance, received, job, edit, filed, credited, stale>>
        /\ UNCHANGED <<plan, inst, alloc, drawn, renewal, till, change, crashes, rowOf>>
    BY <1>1 DEF InitializePlanPayoffPayment, planVars
  <2> HIDE DEF left
  <2>4. new \in [target : {"link", "row", "payoff", None}, amount : Nat] /\ new.target = "payoff"
    BY <2>2
  <2> HIDE DEF new
  <2> QED  BY <2>3, <2>4 DEF TypeOK, InvoiceTypeOK, CheckoutsKept
<1>2. ASSUME NEW i \in Rows, InitializeInstallmentPayment(r, i)
      PROVE  /\ CheckoutsKept /\ checkout[r] = NoCheckout /\ plan.status = "active"
             /\ checkout' \in [Refs -> [target : {"link", "row", "payoff", None}, amount : Nat]]
             /\ \A q \in Refs \ {r} : checkout'[q] = checkout[q] /\ rowOf'[q] = rowOf[q]
             /\ rowOf' \in [Refs -> Rows \cup {0}]
             /\ checkout'[r].target = "row" /\ rowOf'[r] \in Rows
             /\ UNCHANGED <<invoice, balance, received, job, edit, filed, credited, stale>>
             /\ UNCHANGED <<plan, inst, alloc, drawn, renewal, till, change, crashes>>
  <2> DEFINE new == [target |-> "row", amount |-> Remaining(inst[i])]
  <2>1. Remaining(inst[i]) \in Nat  BY RowParts DEF TypeOK
  <2>2. /\ checkout' = [checkout EXCEPT ![r] = new] /\ checkout[r] = NoCheckout
        /\ rowOf' = [rowOf EXCEPT ![r] = i]
        /\ plan.status = "active"
        /\ UNCHANGED <<invoice, balance, received, job, edit, filed, credited, stale>>
        /\ UNCHANGED <<plan, inst, alloc, drawn, renewal, till, change, crashes>>
    BY <1>2 DEF InitializeInstallmentPayment
  <2>3. new \in [target : {"link", "row", "payoff", None}, amount : Nat] /\ new.target = "row"
    BY <2>1
  <2> HIDE DEF new
  <2> QED  BY <2>2, <2>3 DEF TypeOK, InvoiceTypeOK, CheckoutsKept
<1> QED  BY <1>1, <1>2

LEMMA MintingGood ==
  ASSUME Good, Minting
  PROVE  Good'
<1>1. TypeOK /\ Shape  BY DEF Good
<1>2. PICK r \in Refs :
         \/ InitializePlanPayoffPayment(r)
         \/ \E i \in Rows : InitializeInstallmentPayment(r, i)
  BY DEF Minting
<1>3. /\ CheckoutsKept /\ checkout[r] = NoCheckout /\ plan.status = "active"
      /\ checkout' \in [Refs -> [target : {"link", "row", "payoff", None}, amount : Nat]]
      /\ \A q \in Refs \ {r} : checkout'[q] = checkout[q] /\ rowOf'[q] = rowOf[q]
      /\ rowOf' \in [Refs -> Rows \cup {0}]
      /\ \/ checkout'[r].target = "payoff"
         \/ checkout'[r].target = "row" /\ rowOf'[r] \in Rows
      /\ UNCHANGED <<invoice, balance, received, job, edit, filed, credited, stale>>
      /\ UNCHANGED <<plan, inst, alloc, drawn, renewal, till, change, crashes>>
  BY <1>1, <1>2, PlanCheckouts
<1>4. TypeOK'  BY <1>1, <1>3 DEF TypeOK, InvoiceTypeOK
<1>5. \A k \in Jobs : TillOK(k)'  BY <1>1, <1>3, TillKept DEF Shape
<1>6. \A k \in Jobs : job'[k].pc = "accepted" =>
        RefOf[k] # None /\ checkout'[RefOf[k]].target = "link"
  BY <1>1, <1>3, AcceptedKept DEF Shape
<1>7. \A q \in Refs : /\ checkout'[q].target = "row" => rowOf'[q] \in Rows
                      /\ checkout'[q].target \in {"row", "payoff"} => plan'.status # "none"
  BY <1>1, <1>3 DEF Shape
<1> QED  BY <1>1, <1>3, <1>4, <1>5, <1>6, <1>7 DEF Good, Shape

-----------------------------------------------------------------------------
(* A claim holds an open row that can take its amount, alone: no other     *)
(* claim has the row, and of a wallet-backed plan there is no other claim. *)
Claims ==
  /\ \A j \in Jobs : till[j].pc = "claimed" => Takes(j)
  /\ \A j, k \in Jobs : j # k /\ till[j].pc = "claimed" /\ till[k].pc = "claimed" =>
       till[j].row # till[k].row /\ ~WalletBacked

LEMMA OpenIsNotNone == ~Open(NoRow)
BY DEF Open, NoRow, OpenStatus

LEMMA OpenHasPlan ==
  ASSUME Shape, NEW i \in Rows, Open(inst[i])
  PROVE  plan.status # "none"
BY OpenIsNotNone DEF Shape, NoSchedule

LEMMA Claiming ==
  ASSUME Good, NEW j \in Jobs, Claim(j)
  PROVE  /\ till[j].pc = "priced" /\ till[j].row \in Rows /\ Takes(j)
         /\ till' \in [Jobs -> Till]
         /\ till'[j].pc = "claimed" /\ till'[j].row = till[j].row
         /\ till'[j].amount = till[j].amount
         /\ till'[j].last = (Settles(j) /\ OpenRows \subseteq {till[j].row})
         /\ \A k \in Jobs \ {j} : till'[k] = till[k]
         /\ UNCHANGED records /\ UNCHANGED filed
<1> DEFINE last == Settles(j) /\ OpenRows \subseteq {till[j].row}
           t == [till[j] EXCEPT !.pc = "claimed", !.last = last]
<1>1. till \in [Jobs -> Till] /\ till[j] \in Till /\ TillOK(j)  BY DEF Good, TypeOK, Shape
<1>2. /\ till[j].pc = "priced" /\ Takes(j) /\ UNCHANGED records /\ UNCHANGED filed
      /\ till' = [till EXCEPT ![j].pc = "claimed", ![j].last = last]
  BY DEF Claim, InvoiceKept, PlanKept, records
<1>3. till[j].row \in Rows  BY <1>1, <1>2 DEF TillOK, OnRow
<1>4. last \in BOOLEAN  OBVIOUS
<1> HIDE DEF last
<1>5. /\ t \in Till /\ t.pc = "claimed" /\ t.row = till[j].row /\ t.amount = till[j].amount
      /\ t.last = last
  BY <1>1, <1>4 DEF Till, TillSteps
<1>6. till' = [till EXCEPT ![j] = t]  BY <1>1, <1>2
<1> HIDE DEF t
<1> QED  BY <1>1, <1>2, <1>3, <1>5, <1>6, TillMoves DEF last

(* What markInstallmentPaid commits.                                       *)
LEMMA Committing ==
  ASSUME Good, Claims, NEW j \in Jobs, Commit(j)
  PROVE  LET i == till[j].row  n == till[j].amount IN
         /\ i \in Rows /\ n \in Nat /\ till[j].pc = "claimed"
         /\ Open(inst[i]) /\ inst[i].paid + n <= inst[i].amount /\ plan.status # "none"
         /\ inst' \in [Rows -> Row]
         /\ \A k \in Rows \ {i} : inst'[k] = inst[k]
         /\ inst'[i].amount = inst[i].amount /\ inst'[i].paid = inst[i].paid + n
         /\ inst'[i].ref = RefOf[j]
         /\ inst'[i].status = IF Settles(j) THEN "paid" ELSE "partial"
         /\ plan' = IF till[j].last THEN [plan EXCEPT !.status = "completed"] ELSE plan
         /\ balance' = IF WalletBacked THEN balance + n ELSE balance
         /\ RefOf[j] \in Refs \cup {None}
         /\ credited' = [credited EXCEPT ![RefOf[j]] = credited[RefOf[j]] + n]
         /\ stale' = (stale \/ plan.status # "active" \/ Repriced(j))
         /\ till' \in [Jobs -> Till]
         /\ \A k \in Jobs \ {j} : till'[k] = till[k]
         /\ till'[j].row = i \/ till'[j].pc = "done"
         /\ HasSources => till'[j].pc = "settling"
         /\ plan.kind = "tenancy" => till'[j].pc = "reading"
         /\ ~HasSources /\ plan.kind # "tenancy" =>
              (PaysOff(j) /\ till'[j].pc = "confirming") \/ till'[j].pc = "done"
         /\ UNCHANGED <<invoice, checkout, received, job, edit, filed>>
         /\ UNCHANGED <<alloc, drawn, renewal, rowOf, change, crashes>>
<1> DEFINE i == till[j].row
           n == till[j].amount
           row == inst[i]
           new == [row EXCEPT !.paid = row.paid + n, !.ref = RefOf[j],
                              !.status = IF Settles(j) THEN "paid" ELSE "partial"]
<1>1. /\ till \in [Jobs -> Till] /\ inst \in [Rows -> Row] /\ TillOK(j) /\ till[j] \in Till
  BY DEF Good, TypeOK, Shape
<1>2. till[j].pc = "claimed" /\ Takes(j)  BY DEF Commit, Claims
<1>3. i \in Rows /\ n \in Nat  BY <1>1, <1>2 DEF TillOK, OnRow, Till
<1>4. Open(row) /\ row.paid + n <= row.amount  BY <1>2 DEF Takes
<1>5. plan.status # "none"  BY <1>3, <1>4, OpenHasPlan DEF Good
<1>6. RefOf[j] \in Refs \cup {None}  BY JobAssumption
<1>7. row \in Row /\ row.paid \in Nat  BY <1>1, <1>3 DEF Row
<1>8. /\ new \in Row /\ new.amount = row.amount /\ new.paid = row.paid + n
      /\ new.ref = RefOf[j] /\ new.status = IF Settles(j) THEN "paid" ELSE "partial"
  <2> HIDE DEF i, n, row
  <2>1. row.paid + n \in Nat  BY <1>3, <1>7
  <2>2. (IF Settles(j) THEN "paid" ELSE "partial") \in {"none", "paid"} \cup OpenStatus
    BY DEF OpenStatus
  <2> QED  BY <1>6, <1>7, <2>1, <2>2 DEF Row
<1>9. inst' = [inst EXCEPT ![i] = new]  BY DEF Commit
<1>10. /\ inst' \in [Rows -> Row] /\ inst'[i] = new
       /\ \A k \in Rows \ {i} : inst'[k] = inst[k]
  <2> HIDE DEF new, i
  <2> QED  BY <1>1, <1>3, <1>8, <1>9
<1>11. IF HasSources THEN Move(j, "settling")
       ELSE IF plan.kind = "tenancy" THEN Move(j, "reading") ELSE Return(j)
  BY DEF Commit
<1>12. /\ till' \in [Jobs -> Till]
       /\ \A k \in Jobs \ {j} : till'[k] = till[k]
       /\ till'[j].row = i \/ till'[j].pc = "done"
       /\ HasSources => till'[j].pc = "settling"
       /\ plan.kind = "tenancy" => till'[j].pc = "reading"
       /\ ~HasSources /\ plan.kind # "tenancy" =>
              (PaysOff(j) /\ till'[j].pc = "confirming") \/ till'[j].pc = "done"
  <2>1. CASE HasSources
    <3>1. Move(j, "settling") /\ plan.kind # "tenancy"  BY <1>11, <2>1 DEF HasSources
    <3> QED  BY <1>1, <2>1, <3>1, Moving, PcSteps
  <2>2. CASE ~HasSources /\ plan.kind = "tenancy"
    <3>1. Move(j, "reading")  BY <1>11, <2>2
    <3> QED  BY <1>1, <2>2, <3>1, Moving, PcSteps
  <2>3. CASE ~HasSources /\ plan.kind # "tenancy"
    <3>1. Return(j)  BY <1>11, <2>3
    <3> QED  BY <1>1, <2>3, <3>1, Returning
  <2> QED  BY <2>1, <2>2, <2>3
<1>13. /\ plan' = IF till[j].last THEN [plan EXCEPT !.status = "completed"] ELSE plan
       /\ balance' = IF WalletBacked THEN balance + n ELSE balance
       /\ credited' = [credited EXCEPT ![RefOf[j]] = credited[RefOf[j]] + n]
       /\ stale' = (stale \/ plan.status # "active" \/ Repriced(j))
       /\ UNCHANGED <<invoice, checkout, received, job, edit, filed>>
       /\ UNCHANGED <<alloc, drawn, renewal, rowOf, change, crashes>>
  BY DEF Commit
<1> HIDE DEF new
<1> QED
  BY <1>2, <1>3, <1>4, <1>5, <1>6, <1>8, <1>10, <1>12, <1>13

LEMMA CompletedType ==
  ASSUME plan \in PlanRow, NEW status \in {"completed", "cancelled"}
  PROVE  LET p == [plan EXCEPT !.status = status] IN
         /\ p \in PlanRow /\ p.status = status /\ p.kind = plan.kind /\ p.total = plan.total
         /\ p.cover = plan.cover /\ p.arrears = plan.arrears
BY DEF PlanRow

(* Completing a plan changes its status only.                              *)
LEMMA CommitPlan ==
  ASSUME Good, NEW j \in Jobs,
         plan' = IF till[j].last THEN [plan EXCEPT !.status = "completed"] ELSE plan
  PROVE  /\ plan' \in PlanRow /\ plan'.kind = plan.kind /\ plan'.total = plan.total
         /\ plan'.cover = plan.cover /\ plan'.arrears = plan.arrears
         /\ plan'.status = IF till[j].last THEN "completed" ELSE plan.status
<1>1. plan \in PlanRow  BY DEF Good, TypeOK
<1>2. CASE till[j].last  BY <1>1, <1>2, CompletedType
<1>3. CASE ~till[j].last  BY <1>1, <1>3
<1> QED  BY <1>2, <1>3

LEMMA ClaimGood ==
  ASSUME Good, NEW j \in Jobs, Claim(j)
  PROVE  Good'
<1>1. TypeOK /\ Shape  BY DEF Good
<1>2. /\ till[j].row \in Rows /\ till' \in [Jobs -> Till]
      /\ till'[j].pc = "claimed" /\ till'[j].row = till[j].row
      /\ \A k \in Jobs \ {j} : till'[k] = till[k]
      /\ UNCHANGED records /\ UNCHANGED filed
  BY Claiming
<1>3. CheckoutsKept  BY <1>2, SameCheckouts DEF records
<1>4. TypeOK'  BY <1>1, <1>2 DEF TypeOK, InvoiceTypeOK, records
<1>5. TillOK(j)'  BY <1>2 DEF TillOK
<1>6. \A k \in Jobs : TillOK(k)'  BY <1>1, <1>2, <1>3, <1>5, TillKept DEF Shape
<1> QED  BY <1>1, <1>2, <1>4, <1>6 DEF Good, Shape, records

LEMMA CommitGood ==
  ASSUME Good, Claims, NEW j \in Jobs, Commit(j)
  PROVE  Good'
<1> DEFINE i == till[j].row
           n == till[j].amount
<1>1. TypeOK /\ Shape  BY DEF Good
<1>2. /\ i \in Rows /\ n \in Nat /\ plan.status # "none"
      /\ inst' \in [Rows -> Row]
      /\ plan' = IF till[j].last THEN [plan EXCEPT !.status = "completed"] ELSE plan
      /\ balance' = IF WalletBacked THEN balance + n ELSE balance
      /\ RefOf[j] \in Refs \cup {None}
      /\ credited' = [credited EXCEPT ![RefOf[j]] = credited[RefOf[j]] + n]
      /\ stale' = (stale \/ plan.status # "active" \/ Repriced(j))
      /\ till' \in [Jobs -> Till]
      /\ \A k \in Jobs \ {j} : till'[k] = till[k]
      /\ till'[j].row = i \/ till'[j].pc = "done"
      /\ \/ till'[j].pc \in {"settling", "reading", "done"}
         \/ PaysOff(j) /\ till'[j].pc = "confirming"
      /\ UNCHANGED <<invoice, checkout, received, job, edit, filed>>
      /\ UNCHANGED <<alloc, drawn, renewal, rowOf, change, crashes>>
  BY Committing
<1> HIDE DEF i, n
<1>3. /\ plan' \in PlanRow /\ plan'.cover = plan.cover /\ plan'.arrears = plan.arrears
      /\ plan'.status # "none"
  BY <1>2, CommitPlan
<1>4. balance' \in Int  BY <1>1, <1>2 DEF TypeOK, InvoiceTypeOK
<1>5. credited' \in [Refs \cup {None} -> Nat]
  <2>1. credited[RefOf[j]] + n \in Nat  BY <1>1, <1>2 DEF TypeOK, InvoiceTypeOK
  <2> QED  BY <1>1, <1>2, <2>1 DEF TypeOK, InvoiceTypeOK
<1>6. stale' \in BOOLEAN  BY <1>2, <1>1 DEF TypeOK, InvoiceTypeOK
<1>7. TypeOK'  BY <1>1, <1>2, <1>3, <1>4, <1>5, <1>6 DEF TypeOK, InvoiceTypeOK
<1>8. CheckoutsKept  BY <1>2, SameCheckouts
<1>9. TillOK(j)'  BY <1>2, <1>8, PayoffKept DEF TillOK, OnRow
<1>10. \A k \in Jobs : TillOK(k)'  BY <1>1, <1>2, <1>8, <1>9, TillKept DEF Shape
<1> QED  BY <1>1, <1>2, <1>3, <1>7, <1>10 DEF Good, Shape

(* What a settlement draws.                                                *)
LEMMA Settling ==
  ASSUME Good, NEW j \in Jobs, SettleSources(j)
  PROVE  LET i == till[j].row IN
         /\ i \in Rows /\ till[j].pc = "settling"
         /\ UNCHANGED <<balance, checkout, received, job, edit, filed, credited, stale>>
         /\ UNCHANGED <<plan, inst, renewal, rowOf, change, crashes>>
         /\ till' \in [Jobs -> Till]
         /\ \A k \in Jobs \ {j} : till'[k] = till[k]
         /\ (till'[j].pc = "confirming" /\ till'[j].row = i /\ PaysOff(j)) \/ till'[j].pc = "done"
         /\ \/ UNCHANGED <<alloc, drawn, invoice>>
            \/ \E x \in Nat, y \in Nat :
                 /\ x = Least(inst[i].paid - alloc[i], plan.cover - drawn.invoice)
                 /\ y = Least(inst[i].paid - alloc[i] - x, plan.arrears - drawn.arrears)
                 /\ x + y <= inst[i].paid - alloc[i] /\ plan.status # "none"
                 /\ drawn.invoice + x <= plan.cover /\ drawn.arrears + y <= plan.arrears
                 /\ alloc' = [alloc EXCEPT ![i] = alloc[i] + x + y]
                 /\ drawn' = [invoice |-> drawn.invoice + x, arrears |-> drawn.arrears + y]
                 /\ invoice' = SettledInvoice(x, plan.cover - drawn.invoice - x)
<1> DEFINE i == till[j].row
           gap == inst[i].paid - alloc[i]
           x == Least(gap, plan.cover - drawn.invoice)
           y == Least(gap - x, plan.arrears - drawn.arrears)
<1>1. /\ till \in [Jobs -> Till] /\ TillOK(j) /\ drawn \in Drawn /\ plan \in PlanRow
      /\ inst \in [Rows -> Row] /\ alloc \in [Rows -> Nat]
      /\ drawn.invoice <= plan.cover /\ drawn.arrears <= plan.arrears
  BY DEF Good, TypeOK, Shape
<1>2. till[j].pc = "settling"  BY DEF SettleSources
<1>3. i \in Rows  BY <1>1, <1>2 DEF TillOK, OnRow
<1>4. /\ till' \in [Jobs -> Till]
      /\ \A k \in Jobs \ {j} : till'[k] = till[k]
      /\ (till'[j].pc = "confirming" /\ till'[j].row = i /\ PaysOff(j)) \/ till'[j].pc = "done"
  <2>1. Return(j)  BY DEF SettleSources
  <2> QED  BY <1>1, <2>1, Returning
<1>5. /\ UNCHANGED <<balance, checkout, received, job, edit, filed, credited, stale>>
      /\ UNCHANGED <<plan, inst, renewal, rowOf, change, crashes>>
  BY DEF SettleSources
<1>6. CASE ~(gap > 0)
  <2>1. UNCHANGED <<alloc, drawn, invoice>>  BY <1>6 DEF SettleSources
  <2> QED  BY <1>2, <1>3, <1>4, <1>5, <2>1
<1>7. CASE gap > 0
  <2>1. /\ alloc' = [alloc EXCEPT ![i] = @ + x + y]
        /\ drawn' = [invoice |-> drawn.invoice + x, arrears |-> drawn.arrears + y]
        /\ invoice' = SettledInvoice(x, plan.cover - drawn.invoice - x)
    BY <1>7 DEF SettleSources
  <2>2. /\ inst[i].paid \in Nat /\ alloc[i] \in Nat /\ drawn.invoice \in Nat
        /\ drawn.arrears \in Nat /\ plan.cover \in Nat /\ plan.arrears \in Nat
    BY <1>1, <1>3 DEF Row, Drawn, PlanRow
  <2>3. gap \in Nat /\ plan.cover - drawn.invoice \in Nat /\ plan.arrears - drawn.arrears \in Nat
    BY <1>1, <1>7, <2>2
  <2>4. x \in Nat /\ x <= gap /\ x <= plan.cover - drawn.invoice
    <3> HIDE DEF gap
    <3> QED  BY <2>3, LeastType
  <2>5. y \in Nat /\ y <= gap - x /\ y <= plan.arrears - drawn.arrears
    <3> HIDE DEF gap, x
    <3>1. gap - x \in Nat  BY <2>3, <2>4
    <3> QED  BY <2>3, <3>1, LeastType
  <2>6. plan.status # "none"
    <3>1. inst[i].paid # 0  BY <1>7, <2>2
    <3> QED  BY <1>3, <3>1 DEF Good, Shape, NoSchedule, NoRow
  <2>7. drawn.invoice + x <= plan.cover /\ drawn.arrears + y <= plan.arrears /\ x + y <= gap
    <3> HIDE DEF x, y, gap
    <3> QED  BY <2>2, <2>3, <2>4, <2>5
  <2> HIDE DEF x, y
  <2>8. x = Least(inst[i].paid - alloc[i], plan.cover - drawn.invoice)
        /\ y = Least(inst[i].paid - alloc[i] - x, plan.arrears - drawn.arrears)
    BY DEF x, y
  <2> QED  BY <1>2, <1>3, <1>4, <1>5, <2>1, <2>4, <2>5, <2>6, <2>7, <2>8
<1> QED  BY <1>6, <1>7

LEMMA SettledInvoiceType ==
  ASSUME invoice \in InvoiceRow, NEW x \in Nat, NEW left
  PROVE  /\ SettledInvoice(x, left) \in InvoiceRow
         /\ invoice.status \notin OpenStatus => SettledInvoice(x, left) = invoice
<1>1. invoice.total \in Nat /\ invoice.paid + x \in Nat  BY DEF InvoiceRow
<1>2. Least(invoice.total, invoice.paid + x) \in Nat  BY <1>1, LeastType
<1>3. [invoice EXCEPT !.status = "paid", !.paid = invoice.total, !.covered = FALSE] \in InvoiceRow
  BY <1>1 DEF InvoiceRow
<1>4. [invoice EXCEPT !.status = "partial", !.paid = Least(invoice.total, invoice.paid + x)]
        \in InvoiceRow
  BY <1>2 DEF InvoiceRow
<1> QED  BY <1>3, <1>4 DEF SettledInvoice

LEMMA SettleGood ==
  ASSUME Good, NEW j \in Jobs, SettleSources(j)
  PROVE  Good'
<1> DEFINE i == till[j].row
<1>1. TypeOK /\ Shape  BY DEF Good
<1>2. /\ i \in Rows
      /\ UNCHANGED <<balance, checkout, received, job, edit, filed, credited, stale>>
      /\ UNCHANGED <<plan, inst, renewal, rowOf, change, crashes>>
      /\ till' \in [Jobs -> Till]
      /\ \A k \in Jobs \ {j} : till'[k] = till[k]
      /\ (till'[j].pc = "confirming" /\ till'[j].row = i /\ PaysOff(j)) \/ till'[j].pc = "done"
      /\ \/ UNCHANGED <<alloc, drawn, invoice>>
         \/ \E x \in Nat, y \in Nat :
              /\ drawn.invoice + x <= plan.cover /\ drawn.arrears + y <= plan.arrears
              /\ plan.status # "none"
              /\ alloc' = [alloc EXCEPT ![i] = alloc[i] + x + y]
              /\ drawn' = [invoice |-> drawn.invoice + x, arrears |-> drawn.arrears + y]
              /\ invoice' = SettledInvoice(x, plan.cover - drawn.invoice - x)
  BY Settling
<1>3. CheckoutsKept  BY <1>2, SameCheckouts
<1>4. TillOK(j)'  BY <1>2, <1>3, PayoffKept DEF TillOK, OnRow
<1>5. \A k \in Jobs : TillOK(k)'  BY <1>1, <1>2, <1>3, <1>4, TillKept DEF Shape
<1>6. CASE UNCHANGED <<alloc, drawn, invoice>>
  <2>1. TypeOK'  BY <1>1, <1>2, <1>6 DEF TypeOK, InvoiceTypeOK
  <2> QED  BY <1>1, <1>2, <1>5, <1>6, <2>1 DEF Good, Shape
<1>7. ASSUME NEW x \in Nat, NEW y \in Nat,
             drawn.invoice + x <= plan.cover, drawn.arrears + y <= plan.arrears,
             plan.status # "none",
             alloc' = [alloc EXCEPT ![i] = alloc[i] + x + y],
             drawn' = [invoice |-> drawn.invoice + x, arrears |-> drawn.arrears + y],
             invoice' = SettledInvoice(x, plan.cover - drawn.invoice - x)
      PROVE  Good'
  <2>1. drawn' \in Drawn  BY <1>1, <1>7 DEF TypeOK, Drawn
  <2>2. alloc' \in [Rows -> Nat]
    <3> HIDE DEF i
    <3>1. alloc[i] + x + y \in Nat  BY <1>1, <1>2 DEF TypeOK
    <3> QED  BY <1>1, <1>7, <3>1 DEF TypeOK
  <2>3. invoice' \in InvoiceRow  BY <1>1, <1>7, SettledInvoiceType DEF TypeOK, InvoiceTypeOK
  <2>4. TypeOK'  BY <1>1, <1>2, <2>1, <2>2, <2>3 DEF TypeOK, InvoiceTypeOK
  <2>5. drawn'.invoice <= plan'.cover /\ drawn'.arrears <= plan'.arrears  BY <1>2, <1>7
  <2> QED  BY <1>1, <1>2, <1>5, <1>7, <2>4, <2>5 DEF Good, Shape
<1> QED  BY <1>2, <1>6, <1>7

LEMMA Rippling ==
  ASSUME Good, NEW j \in Jobs, Ripple(j)
  PROVE  /\ till[j].pc = "rippling"
         /\ till' \in [Jobs -> Till]
         /\ \A k \in Jobs \ {j} : till'[k] = till[k]
         /\ (till'[j].pc = "confirming" /\ till'[j].row = till[j].row /\ PaysOff(j))
              \/ till'[j].pc = "done"
         /\ renewal' \in RenewalRow
         /\ renewal'.fee = renewal.fee
         /\ renewal'.superseded = renewal.superseded
         /\ renewal.missed => renewal'.missed
         /\ \/ /\ renewal'.status = IF till[j].last THEN "paid" ELSE "partial"
               /\ stale' = (stale \/ (~till[j].last /\ renewal.status = "paid"))
            \/ /\ renewal'.status = renewal.status /\ stale' = stale
               /\ till[j].last => renewal.superseded \/ renewal'.missed
         /\ UNCHANGED <<credited, filed, invoice, balance, checkout, received, job, edit>>
         /\ UNCHANGED <<plan, inst, alloc, drawn, rowOf, change, crashes>>
<1>1. /\ till[j].pc = "rippling" /\ Return(j)
      /\ UNCHANGED <<credited, filed, invoice, balance, checkout, received, job, edit>>
      /\ UNCHANGED <<plan, inst, alloc, drawn, rowOf, change, crashes>>
  BY DEF Ripple, RippleUp, RippleFails, RippleKept, InvoiceKept
<1>2. till \in [Jobs -> Till] /\ till[j].last \in BOOLEAN /\ renewal \in RenewalRow
  BY DEF Good, TypeOK, Till
<1>3. /\ till' \in [Jobs -> Till]
      /\ \A k \in Jobs \ {j} : till'[k] = till[k]
      /\ (till'[j].pc = "confirming" /\ till'[j].row = till[j].row /\ PaysOff(j))
           \/ till'[j].pc = "done"
  BY <1>1, <1>2, Returning
<1>4. CASE RippleUp(j)
  <2>1. /\ renewal' = [renewal EXCEPT !.status = IF till[j].last THEN "paid" ELSE "partial"]
        /\ stale' = (stale \/ (~till[j].last /\ renewal.status = "paid"))
    BY <1>4 DEF RippleUp
  <2>2. /\ renewal' \in RenewalRow /\ renewal'.fee = renewal.fee
        /\ renewal'.superseded = renewal.superseded /\ renewal'.missed = renewal.missed
        /\ renewal'.status = IF till[j].last THEN "paid" ELSE "partial"
    BY <1>2, <2>1 DEF RenewalRow
  <2> QED  BY <1>1, <1>3, <2>1, <2>2
<1>5. CASE RippleFails(j)
  <2> DEFINE m == renewal.missed \/ (till[j].last /\ ~renewal.superseded)
  <2>1. renewal' = [renewal EXCEPT !.missed = m] /\ stale' = stale
    BY <1>5 DEF RippleFails
  <2>2. m \in BOOLEAN  OBVIOUS
  <2>3. /\ renewal.missed => m
        /\ till[j].last => renewal.superseded \/ m
    OBVIOUS
  <2> HIDE DEF m
  <2>4. /\ renewal' \in RenewalRow /\ renewal'.fee = renewal.fee
        /\ renewal'.superseded = renewal.superseded /\ renewal'.missed = m
        /\ renewal'.status = renewal.status
    BY <1>2, <2>1, <2>2 DEF RenewalRow
  <2> QED  BY <1>1, <1>3, <2>1, <2>3, <2>4
<1> QED  BY <1>4, <1>5 DEF Ripple

LEMMA RippleGood ==
  ASSUME Good, NEW j \in Jobs, Ripple(j)
  PROVE  Good'
<1>1. TypeOK /\ Shape  BY DEF Good
<1>2. /\ till[j].pc = "rippling"
      /\ till' \in [Jobs -> Till]
      /\ \A k \in Jobs \ {j} : till'[k] = till[k]
      /\ (till'[j].pc = "confirming" /\ till'[j].row = till[j].row /\ PaysOff(j))
           \/ till'[j].pc = "done"
      /\ renewal' \in RenewalRow
      /\ stale' = stale \/ stale' = (stale \/ (~till[j].last /\ renewal.status = "paid"))
      /\ UNCHANGED <<credited, filed, invoice, balance, checkout, received, job, edit>>
      /\ UNCHANGED <<plan, inst, alloc, drawn, rowOf, change, crashes>>
  BY Rippling
<1>3. CheckoutsKept  BY <1>2, SameCheckouts
<1>4. till[j].row \in Rows  BY <1>1, <1>2 DEF Shape, TillOK, OnRow
<1>5. TillOK(j)'  BY <1>2, <1>3, <1>4, PayoffKept DEF TillOK, OnRow
<1>6. \A k \in Jobs : TillOK(k)'  BY <1>1, <1>2, <1>3, <1>5, TillKept DEF Shape
<1>7. stale' \in BOOLEAN  BY <1>1, <1>2 DEF TypeOK, InvoiceTypeOK
<1>8. TypeOK'  BY <1>1, <1>2, <1>7 DEF TypeOK, InvoiceTypeOK
<1> QED  BY <1>1, <1>2, <1>6, <1>8 DEF Good, Shape

LEMMA Crashing ==
  ASSUME Good, NEW j \in Jobs, Crash(j)
  PROVE  /\ till' \in [Jobs -> Till]
         /\ \A k \in Jobs \ {j} : till'[k] = till[k]
         /\ till'[j].pc \in {"idle", "done"}
         /\ till[j].pc \notin {"idle", "done", "lost"}
         /\ crashes' \in 0..MaxCrashes /\ crashes' # 0
         /\ UNCHANGED <<credited, stale, filed, invoice, balance, checkout, received, job, edit>>
         /\ UNCHANGED <<plan, inst, alloc, drawn, renewal, rowOf, change>>
<1> DEFINE t == IF RefOf[j] = None THEN [NoTill EXCEPT !.pc = "done"] ELSE NoTill
<1>1. t \in Till /\ t.pc \in {"idle", "done"}  BY DEF Till, NoTill, TillSteps, Ended
<1>2. till' = [till EXCEPT ![j] = t]  BY DEF Crash
<1>3. till \in [Jobs -> Till] /\ crashes \in 0..MaxCrashes /\ MaxCrashes \in Nat
  BY DebtAssumption DEF Good, TypeOK
<1>4. crashes < MaxCrashes /\ crashes' = crashes + 1  BY DEF Crash
<1>5. /\ UNCHANGED <<credited, stale, filed, invoice, balance, checkout, received, job, edit>>
      /\ UNCHANGED <<plan, inst, alloc, drawn, renewal, rowOf, change>>
      /\ till[j].pc \notin {"idle", "done", "lost"}
  BY DEF Crash, InvoiceKept, Ended
<1> HIDE DEF t
<1>6. crashes' \in 0..MaxCrashes /\ crashes' # 0  BY <1>3, <1>4
<1> QED  BY <1>1, <1>2, <1>3, <1>5, <1>6, TillMoves

LEMMA CrashGood ==
  ASSUME Good, NEW j \in Jobs, Crash(j)
  PROVE  Good'
<1>1. TypeOK /\ Shape  BY DEF Good
<1>2. /\ till' \in [Jobs -> Till]
      /\ \A k \in Jobs \ {j} : till'[k] = till[k]
      /\ till'[j].pc \in {"idle", "done"}
      /\ crashes' \in 0..MaxCrashes
      /\ UNCHANGED <<credited, stale, filed, invoice, balance, checkout, received, job, edit>>
      /\ UNCHANGED <<plan, inst, alloc, drawn, renewal, rowOf, change>>
  BY Crashing
<1>3. TypeOK'  BY <1>1, <1>2 DEF TypeOK, InvoiceTypeOK
<1>4. TillOK(j)'  BY <1>2 DEF TillOK, OnRow
<1>5. \A k \in Jobs : TillOK(k)'  BY <1>1, <1>2, <1>4, SameCheckouts, TillKept DEF Shape
<1> QED  BY <1>1, <1>2, <1>3, <1>5 DEF Good, Shape

(* The landlord's reads, and a revised letter, which the plan's records do *)
(* not notice.                                                             *)
Looking(d) == ReadPlannable(d) \/ OpenPlan(d, "cancelling") \/ OpenPlan(d, "rescheduling")
                \/ WeighSources(d) \/ ReviseLetter(d)

LEMMA LookingGood ==
  ASSUME Good, NEW d \in Desks, Looking(d)
  PROVE  /\ Good' /\ UNCHANGED <<invoiceVars, plan, inst, alloc, drawn, rowOf, till, crashes>>
         /\ renewal'.fee = renewal.fee /\ renewal'.status = renewal.status
         /\ renewal.superseded => renewal'.superseded
         /\ renewal'.missed = renewal.missed
<1>1. TypeOK /\ Shape  BY DEF Good
<1>2. /\ change \in [Desks -> Change] /\ inst \in [Rows -> Row] /\ invoice \in InvoiceRow
      /\ drawn \in Drawn /\ balance \in Int /\ change[d] \in Change
  BY <1>1 DEF TypeOK, InvoiceTypeOK
<1>3. PICK c \in Change : change' = [change EXCEPT ![d] = c] /\ (c.pc = "planning" => c.wallet < 0)
  <2>1. CASE ReadPlannable(d)
    <3> DEFINE c == [change[d] EXCEPT !.pc = "planning", !.wallet = balance]
    <3>1. c \in Change /\ c.wallet = balance  BY <1>2 DEF Change
    <3>2. change' = [change EXCEPT ![d] = c] /\ balance < 0  BY <1>2, <2>1 DEF ReadPlannable
    <3> HIDE DEF c
    <3> QED  BY <3>1, <3>2
  <2>2. ASSUME NEW pc \in {"cancelling", "rescheduling"}, OpenPlan(d, pc)
        PROVE  \E c \in Change : change' = [change EXCEPT ![d] = c] /\ (c.pc = "planning" => c.wallet < 0)
    <3> DEFINE c == [change[d] EXCEPT !.pc = pc, !.rows = inst]
    <3>1. c \in Change /\ c.pc # "planning"  BY <1>2 DEF Change
    <3>2. change' = [change EXCEPT ![d] = c]  BY <1>2, <2>2 DEF OpenPlan
    <3> HIDE DEF c
    <3> QED  BY <3>1, <3>2
  <2>3. CASE WeighSources(d)
    <3> DEFINE c == [change[d] EXCEPT !.pc = "weighed", !.invoice = invoice, !.drawn = drawn]
    <3>1. c \in Change /\ c.pc # "planning"  BY <1>2 DEF Change
    <3>2. change' = [change EXCEPT ![d] = c]  BY <1>2, <2>3 DEF WeighSources
    <3> HIDE DEF c
    <3> QED  BY <3>1, <3>2
  <2>4. CASE ReviseLetter(d)
    <3> DEFINE c == [change[d] EXCEPT !.pc = "done"]
    <3>1. c \in Change /\ c.pc # "planning"  BY <1>2 DEF Change
    <3>2. change' = [change EXCEPT ![d] = c]  BY <1>2, <2>4 DEF ReviseLetter
    <3> HIDE DEF c
    <3> QED  BY <3>1, <3>2
  <2> QED  BY <2>1, <2>2, <2>3, <2>4 DEF Looking
<1>4. /\ change' \in [Desks -> Change] /\ change'[d] = c
      /\ \A e \in Desks \ {d} : change'[e] = change[e]
  BY <1>2, <1>3
<1>5. UNCHANGED <<invoiceVars, plan, inst, alloc, drawn, rowOf, till, crashes>>
  BY DEF Looking, ReadPlannable, OpenPlan, WeighSources, ReviseLetter
<1>9. renewal' = renewal \/ renewal' = [renewal EXCEPT !.superseded = TRUE]
  BY DEF Looking, ReadPlannable, OpenPlan, WeighSources, ReviseLetter
<1>10. /\ renewal' \in RenewalRow
       /\ renewal'.fee = renewal.fee /\ renewal'.status = renewal.status
       /\ renewal.superseded => renewal'.superseded
       /\ renewal'.missed = renewal.missed
  BY <1>1, <1>9 DEF TypeOK, RenewalRow
<1>6. /\ UNCHANGED <<invoice, balance, checkout, received, job, edit, filed, credited, stale>>
      /\ UNCHANGED <<plan, inst, alloc, drawn, rowOf, till, crashes>>
  BY <1>5 DEF invoiceVars
<1>7. TypeOK'  BY <1>1, <1>4, <1>6, <1>10 DEF TypeOK, InvoiceTypeOK
<1>8. \A k \in Jobs : TillOK(k)'  BY <1>1, <1>6, SameCheckouts, TillKept DEF Shape
<1> QED  BY <1>1, <1>3, <1>4, <1>5, <1>6, <1>7, <1>8, <1>10 DEF Good, Shape

-----------------------------------------------------------------------------
LEMMA ReopenedType ==
  ASSUME invoice \in InvoiceRow, NEW copy \in InvoiceRow, NEW residual \in Int
  PROVE  ReopenedInvoice(copy, residual) \in InvoiceRow
<1> DEFINE paid == copy.total - Least(copy.total, residual)
           status == IF paid = copy.total THEN "paid" ELSE IF paid > 0 THEN "partial" ELSE "pending"
<1>1. copy.total \in Nat  BY DEF InvoiceRow
<1>2. Least(copy.total, residual) \in Int /\ Least(copy.total, residual) <= copy.total
  BY <1>1 DEF Least
<1>3. paid \in Nat  BY <1>1, <1>2
<1>4. status \in {"paid", "partial", "pending"}  OBVIOUS
<1> HIDE DEF paid, status
<1>5. [invoice EXCEPT !.covered = FALSE, !.paid = paid, !.status = status] \in InvoiceRow
  BY <1>3, <1>4 DEF InvoiceRow
<1>6. [invoice EXCEPT !.covered = FALSE] \in InvoiceRow  BY DEF InvoiceRow
<1> QED  BY <1>5, <1>6 DEF ReopenedInvoice, paid, status

LEMMA Cancelling ==
  ASSUME Good, NEW d \in Desks, CancelPlan(d)
  PROVE  LET was == change[d]  unpaid == plan.total - SettledSum(was.rows) IN
         /\ was.pc = "weighed" /\ unpaid \in Int
         /\ plan' \in PlanRow /\ plan'.status = "cancelled" /\ plan'.kind = plan.kind
         /\ plan'.total = plan.total /\ plan'.cover = plan.cover /\ plan'.arrears = plan.arrears
         /\ renewal' \in RenewalRow
         /\ renewal'.fee = IF plan.kind = "fee" /\ unpaid > 0
                             THEN renewal.fee + unpaid ELSE renewal.fee
         /\ renewal'.status = renewal.status
         /\ invoice' \in InvoiceRow
         /\ invoice' = IF HasSources
                         THEN ReopenedInvoice(was.invoice, plan.cover - was.drawn.invoice)
                         ELSE invoice
         /\ stale' = (stale \/ plan.status # "active" \/ was.rows # inst \/ was.invoice # invoice
                            \/ was.drawn # drawn \/ (HasSources /\ ~AllocationsAreWhole))
         /\ change' \in [Desks -> Change] /\ change'[d] = [NoChange EXCEPT !.pc = "done"]
         /\ \A e \in Desks \ {d} : change'[e] = change[e]
         /\ UNCHANGED <<balance, checkout, received, job, edit, filed, credited>>
         /\ UNCHANGED <<inst, alloc, drawn, rowOf, till, crashes>>
<1> DEFINE was == change[d]
           unpaid == plan.total - SettledSum(was.rows)
<1>1. /\ plan \in PlanRow /\ change \in [Desks -> Change] /\ invoice \in InvoiceRow
      /\ renewal \in RenewalRow
  BY DEF Good, TypeOK, InvoiceTypeOK
<1>2. /\ was.rows \in [Rows -> Row] /\ was.invoice \in InvoiceRow /\ was.drawn.invoice \in Nat
  BY <1>1 DEF Change, Drawn
<1>3. unpaid \in Int
  <2>1. SettledSum(was.rows) \in Nat  BY <1>2, SumsType
  <2>2. plan.total \in Nat  BY <1>1 DEF PlanRow
  <2> QED  BY <2>1, <2>2
<1>4. /\ was.pc = "weighed"
      /\ renewal' = IF plan.kind = "fee" /\ unpaid > 0
                      THEN [renewal EXCEPT !.fee = @ + unpaid] ELSE renewal
      /\ invoice' = IF HasSources
                      THEN ReopenedInvoice(was.invoice, plan.cover - was.drawn.invoice) ELSE invoice
      /\ plan' = [plan EXCEPT !.status = "cancelled"]
      /\ stale' = (stale \/ plan.status # "active" \/ was.rows # inst \/ was.invoice # invoice
                         \/ was.drawn # drawn \/ (HasSources /\ ~AllocationsAreWhole))
      /\ change' = [change EXCEPT ![d] = [NoChange EXCEPT !.pc = "done"]]
      /\ UNCHANGED <<balance, checkout, received, job, edit, filed, credited>>
      /\ UNCHANGED <<inst, alloc, drawn, rowOf, till, crashes>>
  BY DEF CancelPlan
<1>5. /\ renewal' \in RenewalRow
      /\ renewal'.fee = IF plan.kind = "fee" /\ unpaid > 0
                          THEN renewal.fee + unpaid ELSE renewal.fee
      /\ renewal'.status = renewal.status
  <2> HIDE DEF unpaid
  <2> QED  BY <1>1, <1>3, <1>4 DEF RenewalRow
<1>6. invoice' \in InvoiceRow
  <2>1. plan.cover - was.drawn.invoice \in Int  BY <1>1, <1>2 DEF PlanRow
  <2> HIDE DEF was
  <2> QED  BY <1>1, <1>2, <1>4, <2>1, ReopenedType
<1>7. /\ plan' \in PlanRow /\ plan'.status = "cancelled" /\ plan'.kind = plan.kind
      /\ plan'.total = plan.total /\ plan'.cover = plan.cover /\ plan'.arrears = plan.arrears
  BY <1>1, <1>4, CompletedType
<1>8. /\ change' \in [Desks -> Change] /\ change'[d] = [NoChange EXCEPT !.pc = "done"]
      /\ \A e \in Desks \ {d} : change'[e] = change[e]
  BY <1>1, <1>4, NoChangeType, ChangeMoves
<1> HIDE DEF unpaid
<1> QED  BY <1>3, <1>4, <1>5, <1>6, <1>7, <1>8 DEF unpaid

LEMMA CancelGood ==
  ASSUME Good, NEW d \in Desks, CancelPlan(d)
  PROVE  Good'
<1>1. TypeOK /\ Shape  BY DEF Good
<1>2. /\ plan' \in PlanRow /\ plan'.status = "cancelled"
      /\ plan'.cover = plan.cover /\ plan'.arrears = plan.arrears
      /\ renewal' \in RenewalRow
      /\ invoice' \in InvoiceRow
      /\ stale' \in BOOLEAN
      /\ change' \in [Desks -> Change] /\ change'[d] = [NoChange EXCEPT !.pc = "done"]
      /\ \A e \in Desks \ {d} : change'[e] = change[e]
      /\ UNCHANGED <<balance, checkout, received, job, edit, filed, credited>>
      /\ UNCHANGED <<inst, alloc, drawn, rowOf, till, crashes>>
  BY <1>1, Cancelling DEF TypeOK, InvoiceTypeOK
<1>3. change'[d].pc # "planning"  BY <1>2 DEF NoChange
<1>4. TypeOK'  BY <1>1, <1>2 DEF TypeOK, InvoiceTypeOK
<1>5. \A k \in Jobs : TillOK(k)'  BY <1>1, <1>2, SameCheckouts, TillKept DEF Shape
<1> QED  BY <1>1, <1>2, <1>3, <1>4, <1>5 DEF Good, Shape

(* What updatePlan writes, from the copy it read.                          *)
LEMMA Rescheduling ==
  ASSUME Good, NEW d \in Desks, UpdatePlan(d)
  PROVE  LET was == change[d].rows  budget == plan.total - SettledSum(was)
             free == {i \in Rows : was[i].status # "paid"}
         IN
         /\ plan.status # "none" /\ budget \in Nat /\ budget > 0 /\ was \in [Rows -> Row]
         /\ \A i \in Rows : RowLocked(i) => was[i].status = "paid"
         /\ inst' \in [Rows -> Row]
         /\ \E s \in [free -> Nat] :
              /\ Sum(s) = budget
              /\ \A i \in free : was[i].paid > 0 => s[i] > was[i].paid
              /\ \A i \in Rows :
                   inst'[i] = IF i \in free THEN Rescheduled(s, i, was[i]) ELSE inst[i]
         /\ stale' = (stale \/ plan.status # "active" \/ was # inst)
         /\ change' \in [Desks -> Change] /\ change'[d] = [NoChange EXCEPT !.pc = "done"]
         /\ \A e \in Desks \ {d} : change'[e] = change[e]
         /\ UNCHANGED <<invoice, balance, checkout, received, job, edit, filed, credited>>
         /\ UNCHANGED <<plan, alloc, drawn, renewal, rowOf, till, crashes>>
<1> DEFINE was == change[d].rows
           budget == plan.total - SettledSum(was)
           free == {i \in Rows : was[i].status # "paid"}
<1>1. /\ plan \in PlanRow /\ change \in [Desks -> Change] /\ inst \in [Rows -> Row]
  BY DEF Good, TypeOK
<1>2. was \in [Rows -> Row]  BY <1>1 DEF Change
<1>3. SettledSum(was) \in Nat /\ plan.total \in Nat  BY <1>1, <1>2, SumsType DEF PlanRow
<1>4. /\ SettledSum(was) < plan.total
      /\ \A i \in Rows : RowLocked(i) => was[i].status = "paid"
      /\ \E s \in NewSchedules(was) :
           inst' = [i \in Rows |-> IF i \in DOMAIN s THEN Rescheduled(s, i, was[i]) ELSE inst[i]]
      /\ stale' = (stale \/ plan.status # "active" \/ was # inst)
      /\ change' = [change EXCEPT ![d] = [NoChange EXCEPT !.pc = "done"]]
      /\ UNCHANGED <<invoice, balance, checkout, received, job, edit, filed, credited>>
      /\ UNCHANGED <<plan, alloc, drawn, renewal, rowOf, till, crashes>>
  BY DEF UpdatePlan
<1>5. budget \in Nat /\ budget > 0  BY <1>3, <1>4
<1>6. plan.status # "none"  BY <1>3, <1>4 DEF Good, Shape, NoPlan
<1>7. PICK s \in NewSchedules(was) :
        inst' = [i \in Rows |-> IF i \in DOMAIN s THEN Rescheduled(s, i, was[i]) ELSE inst[i]]
  BY <1>4
<1>8. /\ s \in [free -> 0..budget] /\ Sum(s) = budget
      /\ \A i \in free : was[i].paid > 0 => s[i] > was[i].paid
  BY <1>7 DEF NewSchedules
<1>9. s \in [free -> Nat] /\ DOMAIN s = free  BY <1>5, <1>8
<1>10. \A i \in Rows : inst'[i] = IF i \in free THEN Rescheduled(s, i, was[i]) ELSE inst[i]
  BY <1>7, <1>9
<1>11. ASSUME NEW i \in free  PROVE Rescheduled(s, i, was[i]) \in Row
  <2>1. NoRow \in Row  BY DEF NoRow, Row
  <2>2. i \in Rows /\ s[i] \in Nat /\ inst[i] \in Row  BY <1>1, <1>9
  <2>3. [inst[i] EXCEPT !.amount = s[i], !.status = IF was[i].paid > 0 THEN "partial" ELSE "pending"]
          \in Row
    BY <2>2 DEF Row, OpenStatus
  <2> QED  BY <2>1, <2>3 DEF Rescheduled
<1>12. inst' \in [Rows -> Row]
  <2> HIDE DEF free
  <2>1. \A i \in Rows : (IF i \in free THEN Rescheduled(s, i, was[i]) ELSE inst[i]) \in Row
    BY <1>1, <1>11
  <2> QED  BY <1>7, <1>9, <2>1
<1>13. /\ change' \in [Desks -> Change] /\ change'[d] = [NoChange EXCEPT !.pc = "done"]
       /\ \A e \in Desks \ {d} : change'[e] = change[e]
  BY <1>1, <1>4, NoChangeType, ChangeMoves
<1> HIDE DEF budget
<1> QED  BY <1>2, <1>4, <1>5, <1>6, <1>8, <1>9, <1>10, <1>12, <1>13 DEF budget

LEMMA UpdateGood ==
  ASSUME Good, NEW d \in Desks, UpdatePlan(d)
  PROVE  Good'
<1>1. TypeOK /\ Shape  BY DEF Good
<1>2. /\ plan.status # "none" /\ inst' \in [Rows -> Row]
      /\ stale' = (stale \/ plan.status # "active" \/ change[d].rows # inst)
      /\ change' \in [Desks -> Change] /\ change'[d] = [NoChange EXCEPT !.pc = "done"]
      /\ \A e \in Desks \ {d} : change'[e] = change[e]
      /\ UNCHANGED <<invoice, balance, checkout, received, job, edit, filed, credited>>
      /\ UNCHANGED <<plan, alloc, drawn, renewal, rowOf, till, crashes>>
  BY Rescheduling
<1>3. change'[d].pc # "planning"  BY <1>2 DEF NoChange
<1>4. stale' \in BOOLEAN  BY <1>1, <1>2 DEF TypeOK, InvoiceTypeOK
<1>5. TypeOK'  BY <1>1, <1>2, <1>4 DEF TypeOK, InvoiceTypeOK
<1>6. \A k \in Jobs : TillOK(k)'  BY <1>1, <1>2, SameCheckouts, TillKept DEF Shape
<1> QED  BY <1>1, <1>2, <1>3, <1>5, <1>6 DEF Good, Shape

(* The steps of the specification, by what they may change.                *)
LEMMA NextIs ==
  ASSUME Next
  PROVE  \/ InvoiceNext /\ UNCHANGED planVars
         \/ Creation \/ Minting
         \/ \E j \in Jobs : \/ ReadingStep(j) \/ Claim(j) \/ Commit(j) \/ SettleSources(j)
                            \/ Ripple(j) \/ Crash(j)
         \/ \E d \in Desks : Looking(d) \/ CancelPlan(d) \/ UpdatePlan(d)
<1>1. ASSUME NEW j \in Jobs, PayStep(j)
      PROVE  \/ ReadingStep(j) \/ Claim(j) \/ Commit(j) \/ SettleSources(j)
             \/ Ripple(j) \/ Crash(j)
  BY <1>1 DEF PayStep, ReadingStep, Ripple
<1>2. ASSUME NEW d \in Desks, LandlordStep(d)
      PROVE  Creation \/ Looking(d) \/ CancelPlan(d) \/ UpdatePlan(d)
  BY <1>2 DEF LandlordStep, Creation, Looking
<1> QED  BY <1>1, <1>2 DEF Next, Creation, Minting

LEMMA GoodStep ==
  ASSUME Good, Claims, Next
  PROVE  Good'
<1>1. CASE InvoiceNext /\ UNCHANGED planVars  BY <1>1, InvoiceGood
<1>2. CASE Creation  BY <1>2, CreationGood
<1>3. CASE Minting  BY <1>3, MintingGood
<1>4. ASSUME NEW j \in Jobs, \/ ReadingStep(j) \/ Claim(j) \/ Commit(j) \/ SettleSources(j)
                             \/ Ripple(j) \/ Crash(j)
      PROVE  Good'
  BY <1>4, ReadingGood, ClaimGood, CommitGood, SettleGood, RippleGood, CrashGood
<1>5. ASSUME NEW d \in Desks, Looking(d) \/ CancelPlan(d) \/ UpdatePlan(d)
      PROVE  Good'
  BY <1>5, LookingGood, CancelGood, UpdateGood
<1> QED  BY <1>1, <1>2, <1>3, <1>4, <1>5, NextIs

-----------------------------------------------------------------------------
(* The claims of the installments.                                         *)

(* A claim stands while its row does and no other is made.                 *)
LEMMA ClaimsKept ==
  ASSUME Claims, plan'.kind = plan.kind,
         \A k \in Jobs : till'[k].pc = "claimed" =>
           till'[k] = till[k] /\ inst'[till[k].row] = inst[till[k].row]
  PROVE  Claims'
<1>1. ASSUME NEW k \in Jobs, till'[k].pc = "claimed"  PROVE Takes(k)'
  <2>1. Takes(k)  BY <1>1 DEF Claims
  <2> QED  BY <1>1, <2>1 DEF Takes, Open
<1>2. WalletBacked' = WalletBacked  BY DEF WalletBacked
<1> QED  BY <1>1, <1>2 DEF Claims

LEMMA ClaimsStep ==
  ASSUME Good, Claims, Next
  PROVE  Claims'
<1> USE DEF Good
<1>1. CASE InvoiceNext /\ UNCHANGED planVars  BY <1>1, ClaimsKept DEF planVars
<1>2. CASE Creation
  <2>1. /\ plan.status = "none" /\ UNCHANGED till
    BY <1>2, Creating, NewPlanRows DEF Makes
  <2>2. ASSUME NEW k \in Jobs  PROVE till[k].pc # "claimed"
    <3>1. SUFFICES ASSUME till[k].pc = "claimed" PROVE FALSE  OBVIOUS
    <3>2. till[k].row \in Rows /\ Open(inst[till[k].row])
      BY <3>1 DEF Claims, Takes, Shape, TillOK, OnRow
    <3> QED  BY <2>1, <3>2, OpenHasPlan
  <2> QED  BY <2>1, <2>2 DEF Claims
<1>3. CASE Minting
  <2>1. UNCHANGED <<plan, inst, till>>
    BY <1>3 DEF Minting, InitializePlanPayoffPayment, InitializeInstallmentPayment, planVars
  <2> QED  BY <2>1, ClaimsKept
<1>4. ASSUME NEW j \in Jobs, ReadingStep(j)  PROVE Claims'
  <2>1. /\ \A k \in Jobs \ {j} : till'[k] = till[k]
        /\ till'[j].pc \in {"priced", "walking", "confirming", "rippling", "done", "lost"}
        /\ UNCHANGED <<plan, inst>>
    BY <1>4, Reading DEF records
  <2> QED  BY <2>1, ClaimsKept
<1>5. ASSUME NEW j \in Jobs, Claim(j)  PROVE Claims'
  <2>1. /\ till[j].row \in Rows /\ Takes(j)
        /\ till'[j].pc = "claimed" /\ till'[j].row = till[j].row
        /\ till'[j].amount = till[j].amount
        /\ \A k \in Jobs \ {j} : till'[k] = till[k]
        /\ UNCHANGED <<plan, inst>>
    BY <1>5, Claiming DEF records
  <2>2. Takes(j)'  BY <2>1 DEF Takes, Open
  <2>3. ASSUME NEW k \in Jobs \ {j}, till[k].pc = "claimed"  PROVE Takes(k)'
    BY <2>1, <2>3 DEF Claims, Takes, Open
  <2>4. /\ \A k \in Jobs : till[k].pc = "claimed" => till[k].row # till[j].row
        /\ WalletBacked => \A k \in Jobs : till[k].pc # "claimed"
    BY <1>5 DEF Claim, RowLocked
  <2>5. WalletBacked' = WalletBacked  BY <2>1 DEF WalletBacked
  <2> QED  BY <2>1, <2>2, <2>3, <2>4, <2>5 DEF Claims
<1>6. ASSUME NEW j \in Jobs, Commit(j)  PROVE Claims'
  <2>1. /\ till[j].pc = "claimed" /\ till[j].row \in Rows
        /\ \A k \in Rows \ {till[j].row} : inst'[k] = inst[k]
        /\ \A k \in Jobs \ {j} : till'[k] = till[k]
        /\ HasSources => till'[j].pc = "settling"
        /\ plan.kind = "tenancy" => till'[j].pc = "reading"
        /\ ~HasSources /\ plan.kind # "tenancy" =>
             (PaysOff(j) /\ till'[j].pc = "confirming") \/ till'[j].pc = "done"
        /\ plan' = IF till[j].last THEN [plan EXCEPT !.status = "completed"] ELSE plan
    BY <1>6, Committing
  <2>2. till'[j].pc # "claimed"  BY <2>1
  <2>3. plan'.kind = plan.kind  BY <2>1, CommitPlan
  <2>4. ASSUME NEW k \in Jobs, till'[k].pc = "claimed"
        PROVE  till'[k] = till[k] /\ inst'[till[k].row] = inst[till[k].row]
    <3>1. k # j /\ till'[k] = till[k]  BY <2>1, <2>2, <2>4
    <3>2. till[k].row \in Rows /\ till[k].row # till[j].row
      BY <2>1, <2>4, <3>1 DEF Claims, Shape, TillOK, OnRow
    <3> QED  BY <2>1, <3>1, <3>2
  <2> QED  BY <2>3, <2>4, ClaimsKept
<1>7. ASSUME NEW j \in Jobs, SettleSources(j)  PROVE Claims'
  <2>1. /\ \A k \in Jobs \ {j} : till'[k] = till[k]
        /\ till'[j].pc \in {"confirming", "done"}
        /\ UNCHANGED <<plan, inst>>
    BY <1>7, Settling
  <2> QED  BY <2>1, ClaimsKept
<1>8. ASSUME NEW j \in Jobs, Ripple(j)  PROVE Claims'
  <2>1. /\ \A k \in Jobs \ {j} : till'[k] = till[k]
        /\ till'[j].pc \in {"confirming", "done"}
        /\ UNCHANGED <<plan, inst>>
    BY <1>8, Rippling
  <2> QED  BY <2>1, ClaimsKept
<1>9. ASSUME NEW j \in Jobs, Crash(j)  PROVE Claims'
  <2>1. /\ \A k \in Jobs \ {j} : till'[k] = till[k]
        /\ till'[j].pc \in {"idle", "done"}
        /\ UNCHANGED <<plan, inst>>
    BY <1>9, Crashing
  <2> QED  BY <2>1, ClaimsKept
<1>10. ASSUME NEW d \in Desks, Looking(d)  PROVE Claims'
  <2>1. UNCHANGED <<plan, inst, till>>  BY <1>10, LookingGood
  <2> QED  BY <2>1, ClaimsKept
<1>11. ASSUME NEW d \in Desks, CancelPlan(d)  PROVE Claims'
  <2>1. plan'.kind = plan.kind /\ UNCHANGED <<inst, till>>  BY <1>11, Cancelling
  <2> QED  BY <2>1, ClaimsKept
<1>12. ASSUME NEW d \in Desks, UpdatePlan(d)  PROVE Claims'
  <2>1. /\ UNCHANGED <<plan, till>>
        /\ \A i \in Rows : RowLocked(i) => inst'[i] = inst[i]
    BY <1>12, Rescheduling
  <2>2. ASSUME NEW k \in Jobs, till[k].pc = "claimed"
        PROVE  inst'[till[k].row] = inst[till[k].row]
    <3>1. till[k].row \in Rows  BY <2>2 DEF Shape, TillOK, OnRow
    <3>2. RowLocked(till[k].row)  BY <2>2 DEF RowLocked
    <3> QED  BY <2>1, <3>1, <3>2
  <2> QED  BY <2>1, <2>2, ClaimsKept
<1> QED
  BY <1>1, <1>2, <1>3, <1>4, <1>5, <1>6, <1>7, <1>8, <1>9, <1>10, <1>11, <1>12, NextIs

(* A paid row is written again only over an older read of it.              *)
LEMMA KeptStep ==
  ASSUME Good, Claims, Next, NEW i \in Rows, inst[i].status = "paid", inst'[i] # inst[i]
  PROVE  stale'
<1> USE DEF Good
<1>1. CASE InvoiceNext /\ UNCHANGED planVars  BY <1>1 DEF planVars
<1>2. CASE Creation
  <2>1. plan.status = "none"  BY <1>2, Creating, NewPlanRows DEF Makes
  <2> QED  BY <2>1 DEF Shape, NoSchedule, NoRow
<1>3. CASE Minting
  BY <1>3 DEF Minting, InitializePlanPayoffPayment, InitializeInstallmentPayment, planVars
<1>4. ASSUME NEW j \in Jobs, ReadingStep(j)  PROVE stale'
  BY <1>4, Reading DEF records
<1>5. ASSUME NEW j \in Jobs, Claim(j)  PROVE stale'
  BY <1>5, Claiming DEF records
<1>6. ASSUME NEW j \in Jobs, Commit(j)  PROVE stale'
  <2>1. Open(inst[till[j].row]) /\ \A k \in Rows \ {till[j].row} : inst'[k] = inst[k]
    BY <1>6, Committing
  <2> QED  BY <2>1 DEF Open, OpenStatus
<1>7. ASSUME NEW j \in Jobs, SettleSources(j) \/ Ripple(j) \/ Crash(j)  PROVE stale'
  BY <1>7, Settling, Rippling, Crashing
<1>8. ASSUME NEW d \in Desks, Looking(d) \/ CancelPlan(d)  PROVE stale'
  BY <1>8, LookingGood, Cancelling
<1>9. ASSUME NEW d \in Desks, UpdatePlan(d)  PROVE stale'
  <2>1. stale' = (stale \/ plan.status # "active" \/ change[d].rows # inst)
    BY <1>9, Rescheduling
  <2>2. change[d].rows[i].status = "paid" => inst'[i] = inst[i]
    BY <1>9, Rescheduling
  <2> QED  BY <2>1, <2>2
<1> QED  BY <1>1, <1>2, <1>3, <1>4, <1>5, <1>6, <1>7, <1>8, <1>9, NextIs

-----------------------------------------------------------------------------
(* The rows add up to the plan.  A row collects no more than it asks for   *)
(* and is paid when it has collected that.                                 *)
Amounts == [i \in Rows |-> inst[i].amount]
Paids == [i \in Rows |-> inst[i].paid]

RowOK(row) ==
  /\ row.paid <= row.amount
  /\ row.status = "pending" => row.paid = 0
  /\ row.status = "paid" => row.paid = row.amount
  /\ row.status = "none" => row = NoRow

RowsOK == ~stale => Sum(Amounts) = plan.total /\ \A i \in Rows : RowOK(inst[i])

LEMMA TablesType ==
  ASSUME Good
  PROVE  /\ Amounts \in [Rows -> Nat] /\ Paids \in [Rows -> Nat] /\ alloc \in [Rows -> Nat]
         /\ Sum(Amounts) \in Nat /\ Sum(Paids) \in Nat /\ Sum(alloc) \in Nat
         /\ PaidSum(inst) \in Nat /\ SettledSum(inst) \in Nat
         /\ plan.total \in Nat /\ plan.cover \in Nat /\ plan.arrears \in Nat
         /\ stale \in BOOLEAN
<1>1. inst \in [Rows -> Row]  BY DEF Good, TypeOK
<1>2. Amounts \in [Rows -> Nat] /\ Paids \in [Rows -> Nat]
  BY <1>1 DEF Amounts, Paids, Row
<1>3. alloc \in [Rows -> Nat]  BY DEF Good, TypeOK
<1>4. plan.total \in Nat /\ plan.cover \in Nat /\ plan.arrears \in Nat /\ stale \in BOOLEAN
  BY DEF Good, TypeOK, InvoiceTypeOK, PlanRow
<1> QED  BY <1>1, <1>2, <1>3, <1>4, RowsFinite, SumType, SumsType

(* A sound row: what it has collected, and what remains.                   *)
LEMMA SoundRow ==
  ASSUME NEW row \in Row, RowOK(row)
  PROVE  /\ PaidToDate(row) = row.paid /\ Remaining(row) = row.amount - row.paid
         /\ row.amount \in Nat /\ row.paid \in Nat
<1>1. row.amount \in Nat /\ row.paid \in Nat /\ row.status \in {"none", "paid", "pending", "partial"}
  BY DEF Row, OpenStatus
<1>2. PaidToDate(row) = row.paid
  <2>1. CASE row.status \in {"paid", "partial"}  BY <2>1 DEF PaidToDate
  <2>2. CASE row.status = "pending"  BY <2>2 DEF RowOK, PaidToDate
  <2>3. CASE row.status = "none"  BY <2>3 DEF RowOK, PaidToDate, NoRow
  <2> QED  BY <1>1, <2>1, <2>2, <2>3
<1>3. Remaining(row) = row.amount - row.paid  BY <1>1, <1>2 DEF Remaining, RowOK
<1> QED  BY <1>1, <1>2, <1>3

(* What the rows have collected and what they still ask for.               *)
LEMMA RowSums ==
  ASSUME Good, RowsOK, ~stale
  PROVE  /\ PaidSum(inst) = Sum(Paids) /\ Sum(Paids) <= plan.total
         /\ PaidSum(inst) + StillAsked = plan.total
         /\ SettledSum(inst) <= plan.total
<1> DEFINE f == [i \in Rows |-> PaidToDate(inst[i])]
           g == [i \in Rows |-> Remaining(inst[i])]
           h == [i \in Rows |-> IF inst[i].status = "paid" THEN inst[i].paid ELSE 0]
<1>1. inst \in [Rows -> Row]  BY DEF Good, TypeOK
<1>2. /\ Amounts \in [Rows -> Nat] /\ Paids \in [Rows -> Nat]
      /\ Sum(Amounts) = plan.total /\ \A i \in Rows : RowOK(inst[i])
      /\ Sum(Paids) \in Nat /\ Sum(Amounts) \in Nat
  BY TablesType DEF RowsOK
<1>3. \A i \in Rows : /\ f[i] = inst[i].paid /\ g[i] = inst[i].amount - inst[i].paid
                      /\ inst[i].amount \in Nat /\ inst[i].paid \in Nat
                      /\ inst[i].paid <= inst[i].amount
  BY <1>1, <1>2, SoundRow DEF RowOK
<1>4. f = Paids  BY <1>3 DEF Paids
<1>5. g \in [Rows -> Nat] /\ h \in [Rows -> Nat]
  <2>1. \A i \in Rows : g[i] \in Nat /\ h[i] \in Nat  BY <1>3
  <2> QED  BY <2>1
<1>6. \A i \in Rows : Amounts[i] = Paids[i] + g[i] /\ Paids[i] <= Amounts[i] /\ h[i] <= Amounts[i]
  <2>1. \A i \in Rows : Amounts[i] = inst[i].amount /\ Paids[i] = inst[i].paid
    BY DEF Amounts, Paids
  <2>2. \A i \in Rows : h[i] = inst[i].paid \/ h[i] = 0  OBVIOUS
  <2> HIDE DEF f, g, h
  <2> QED  BY <1>3, <2>1, <2>2
<1>7. PaidSum(inst) = Sum(f) /\ StillAsked = Sum(g) /\ SettledSum(inst) = Sum(h)
  BY DEF PaidSum, StillAsked, SettledSum
<1> HIDE DEF f, g, h
<1>8. Sum(Amounts) = Sum(Paids) + Sum(g)
  <2>1. \A i \in Rows : Amounts[i] = Paids[i] + g[i]  BY <1>6
  <2> QED  BY <1>2, <1>5, <2>1, RowsPlus
<1>9. Sum(Paids) <= Sum(Amounts) /\ Sum(h) <= Sum(Amounts)
  BY <1>2, <1>5, <1>6, RowsFinite, SumBelow
<1> QED  BY <1>2, <1>4, <1>7, <1>8, <1>9

(* A reschedule that saw the plan as it is keeps what was collected and    *)
(* asks for the rest of the total in the rows that are not paid.           *)
LEMMA Reschedules ==
  ASSUME Good, Claims, RowsOK, NEW d \in Desks, UpdatePlan(d), ~stale'
  PROVE  /\ ~stale /\ plan.status = "active"
         /\ \A j \in Jobs : till[j].pc # "claimed"
         /\ Paids' = Paids /\ Sum(Amounts') = plan.total
         /\ \A i \in Rows : RowOK(inst'[i]) /\ (inst[i].status = "paid" => inst'[i] = inst[i])
         /\ \E i \in Rows : Open(inst'[i])
<1> DEFINE was == change[d].rows
           budget == plan.total - SettledSum(was)
           free == {i \in Rows : was[i].status # "paid"}
<1>1. /\ stale' = (stale \/ plan.status # "active" \/ was # inst)
      /\ budget \in Nat /\ budget > 0
      /\ \A i \in Rows : RowLocked(i) => was[i].status = "paid"
      /\ inst' \in [Rows -> Row]
      /\ UNCHANGED <<plan, till>>
  BY Rescheduling
<1>2. ~stale /\ plan.status = "active" /\ was = inst  BY <1>1 DEF Good, TypeOK, InvoiceTypeOK
<1>3. PICK s \in [free -> Nat] :
              /\ Sum(s) = budget
              /\ \A i \in free : was[i].paid > 0 => s[i] > was[i].paid
              /\ \A i \in Rows :
                   inst'[i] = IF i \in free THEN Rescheduled(s, i, was[i]) ELSE inst[i]
  BY Rescheduling
<1>4. inst \in [Rows -> Row] /\ \A i \in Rows : RowOK(inst[i])
  BY <1>2 DEF Good, TypeOK, RowsOK
<1>5. ASSUME NEW j \in Jobs, till[j].pc = "claimed"  PROVE FALSE
  <2>1. till[j].row \in Rows /\ Open(inst[till[j].row])
    BY <1>5 DEF Good, Shape, TillOK, OnRow, Claims, Takes
  <2>2. inst[till[j].row].status = "paid"  BY <1>1, <1>2, <1>5, <2>1 DEF RowLocked
  <2> QED  BY <2>1, <2>2 DEF Open, OpenStatus
<1>6. ASSUME NEW i \in free
      PROVE  /\ inst'[i].paid = inst[i].paid /\ inst'[i].amount = s[i]
             /\ RowOK(inst'[i]) /\ (s[i] > 0 => Open(inst'[i]))
  <2>1. /\ i \in Rows /\ inst[i] \in Row /\ inst[i].paid \in Nat /\ s[i] \in Nat
        /\ inst[i].paid > 0 => s[i] > inst[i].paid
    BY <1>2, <1>3, <1>4 DEF Row
  <2>2. inst'[i] = Rescheduled(s, i, inst[i])  BY <1>2, <1>3, <2>1
  <2>3. CASE s[i] = 0
    <3>1. inst'[i] = NoRow /\ inst[i].paid = 0  BY <2>1, <2>2, <2>3 DEF Rescheduled
    <3> QED  BY <2>3, <3>1 DEF NoRow, RowOK
  <2>4. CASE s[i] # 0
    <3> DEFINE status == IF inst[i].paid > 0 THEN "partial" ELSE "pending"
    <3>1. inst'[i] = [inst[i] EXCEPT !.amount = s[i], !.status = status]
      BY <2>2, <2>4 DEF Rescheduled
    <3>2. status \in {"partial", "pending"} /\ (status = "pending" => inst[i].paid = 0)
      BY <2>1
    <3> HIDE DEF status
    <3>3. inst'[i].paid = inst[i].paid /\ inst'[i].amount = s[i] /\ inst'[i].status = status
      BY <2>1, <3>1 DEF Row
    <3> QED  BY <2>1, <2>4, <3>2, <3>3 DEF RowOK, Open, OpenStatus
  <2> QED  BY <2>3, <2>4
<1>7. \A i \in Rows : inst[i].status = "paid" => i \notin free /\ inst'[i] = inst[i]
  BY <1>2, <1>3
<1>8. \A i \in Rows : inst[i].status # "paid" => i \in free  BY <1>2
<1>9. \A i \in Rows : RowOK(inst'[i]) /\ inst'[i].paid = inst[i].paid
  BY <1>4, <1>6, <1>7, <1>8
<1>10. Paids' = Paids  BY <1>9 DEF Paids
<1>11. Sum(Amounts') = plan.total
  <2> DEFINE f == [i \in Rows |-> IF i \in free THEN s[i] ELSE 0]
             h == [i \in Rows |-> IF inst[i].status = "paid" THEN inst[i].paid ELSE 0]
             a == [i \in Rows |-> inst'[i].amount]
  <2>1. Amounts' = a  BY DEF Amounts
  <2>2. f \in [Rows -> Nat] /\ h \in [Rows -> Nat] /\ a \in [Rows -> Nat]
    BY <1>1, <1>4 DEF Row
  <2>3. ASSUME NEW i \in Rows  PROVE a[i] = f[i] + h[i]
    <3>1. CASE inst[i].status = "paid"
      <4>1. inst'[i] = inst[i] /\ i \notin free /\ inst[i].amount = inst[i].paid
            /\ inst[i].paid \in Nat
        BY <1>4, <1>7, <3>1 DEF RowOK, Row
      <4> QED  BY <3>1, <4>1
    <3>2. CASE inst[i].status # "paid"
      <4>1. i \in free /\ inst'[i].amount = s[i] /\ s[i] \in Nat  BY <1>3, <1>6, <1>8, <3>2
      <4> QED  BY <3>2, <4>1
    <3> QED  BY <3>1, <3>2
  <2>4. Sum(f) = Sum(s)
    <3>1. free \in SUBSET Rows  OBVIOUS
    <3> HIDE DEF free
    <3> QED  BY <1>3, <3>1, SumExtend
  <2>5. Sum(h) = SettledSum(inst)  BY DEF SettledSum
  <2> HIDE DEF f, h, a
  <2>6. Sum(a) = Sum(f) + Sum(h)  BY <2>2, <2>3, RowsPlus
  <2>7. SettledSum(inst) \in Nat /\ plan.total \in Nat  BY TablesType
  <2>8. Sum(s) = plan.total - SettledSum(inst)  BY <1>2, <1>3
  <2> QED  BY <2>1, <2>4, <2>5, <2>6, <2>7, <2>8
<1>12. \E i \in Rows : Open(inst'[i])
  <2>1. Sum(s) > 0  BY <1>1, <1>3
  <2> HIDE DEF free
  <2>2. PICK i \in free : s[i] > 0  BY <1>3, <2>1, SumSome
  <2> QED  BY <1>6, <2>2 DEF free
<1> QED  BY <1>2, <1>5, <1>7, <1>9, <1>10, <1>11, <1>12

LEMMA StaleKept ==
  ASSUME Good, Next, stale
  PROVE  stale'
<1>1. CASE InvoiceNext
  BY <1>1 DEF InvoiceNext, CreateInvoice, InitializePublicPayment, GatewayTakes, VerifyTurnsAway,
     SetAside, Accept, ClaimInvoice, ClaimLost, OpenInvoice, UpdateInvoice, CancelInvoice
<1>2. CASE Creation
  BY <1>2 DEF Creation, CreateAdHocInvoicePlan, CreateNewChargePlan, CreateFeePlan,
     CreateTenancyPlan, CreateOutstandingBalancePlan, invoiceVars
<1>3. CASE Minting
  BY <1>3 DEF Minting, InitializePlanPayoffPayment, InitializeInstallmentPayment
<1>4. ASSUME NEW j \in Jobs, \/ ReadingStep(j) \/ Claim(j) \/ Commit(j) \/ SettleSources(j)
                             \/ Ripple(j) \/ Crash(j)
      PROVE  stale'
  <2>1. CASE ReadingStep(j)  BY <2>1, Reading DEF Good, records
  <2>2. CASE Claim(j)  BY <2>2, Claiming DEF records
  <2>3. CASE Commit(j) \/ SettleSources(j) \/ Ripple(j) \/ Crash(j)
    BY <2>3 DEF Commit, SettleSources, Ripple, RippleUp, RippleFails, RippleKept, InvoiceKept, Crash
  <2> QED  BY <1>4, <2>1, <2>2, <2>3
<1>5. ASSUME NEW d \in Desks, Looking(d) \/ CancelPlan(d) \/ UpdatePlan(d)
      PROVE  stale'
  BY <1>5, LookingGood DEF CancelPlan, UpdatePlan, invoiceVars
<1> QED  BY <1>1, <1>2, <1>3, <1>4, <1>5, NextIs

(* The steps that write the plan or its rows, and those that claim a row.  *)
LEMMA PlanSteps ==
  ASSUME Good, Next
  PROVE  \/ /\ UNCHANGED <<plan, inst>>
            /\ \A k \in Jobs : till'[k].pc = "claimed" => till'[k] = till[k]
         \/ Creation
         \/ \E j \in Jobs : Claim(j) \/ Commit(j)
         \/ \E d \in Desks : CancelPlan(d) \/ UpdatePlan(d)
<1> DEFINE Same == /\ UNCHANGED <<plan, inst>>
                   /\ \A k \in Jobs : till'[k].pc = "claimed" => till'[k] = till[k]
<1>1. CASE InvoiceNext /\ UNCHANGED planVars  BY <1>1 DEF planVars
<1>2. CASE Minting
  BY <1>2 DEF Minting, InitializePlanPayoffPayment, InitializeInstallmentPayment, planVars
<1>3. ASSUME NEW j \in Jobs, ReadingStep(j)  PROVE Same
  <2>1. /\ \A k \in Jobs \ {j} : till'[k] = till[k]
        /\ till'[j].pc \in {"priced", "walking", "confirming", "rippling", "done", "lost"}
        /\ UNCHANGED <<plan, inst>>
    BY <1>3, Reading DEF Good, records
  <2> QED  BY <2>1
<1>4. ASSUME NEW j \in Jobs, SettleSources(j) \/ Ripple(j) \/ Crash(j)  PROVE Same
  <2>1. /\ \A k \in Jobs \ {j} : till'[k] = till[k]
        /\ till'[j].pc \in {"confirming", "done", "idle"}
        /\ UNCHANGED <<plan, inst>>
    BY <1>4, Settling, Rippling, Crashing
  <2> QED  BY <2>1
<1>5. ASSUME NEW d \in Desks, Looking(d)  PROVE Same
  BY <1>5, LookingGood
<1> QED  BY <1>1, <1>2, <1>3, <1>4, <1>5, NextIs

LEMMA CreatingRows ==
  ASSUME Good, Creation
  PROVE  /\ plan.status = "none" /\ plan'.status = "active" /\ UNCHANGED till
         /\ Sum(Amounts') = plan'.total /\ \A i \in Rows : RowOK(inst'[i])
         /\ \E i \in Rows : Open(inst'[i])
         /\ renewal' = IF plan'.kind = "fee" THEN [renewal EXCEPT !.fee = 0] ELSE renewal
         /\ plan'.kind = "fee" => plan'.total = renewal.fee
         /\ UNCHANGED <<alloc, drawn, rowOf, crashes>>
<1>1. PICK kind \in {"adhoc", "balance", "fee", "tenancy"}, s \in [Rows -> Nat],
           cover \in Nat, arrears \in Nat : Makes(kind, s, cover, arrears)
  BY Creating
<1>2. /\ plan.status = "none" /\ plan'.status = "active" /\ UNCHANGED till
      /\ plan'.kind = kind /\ plan'.total = Sum(s)
      /\ inst' \in [Rows -> Row]
      /\ \A i \in Rows : /\ inst'[i].amount = s[i] /\ inst'[i].paid = 0
                         /\ s[i] = 0 => inst'[i] = NoRow
                         /\ s[i] # 0 => inst'[i].status = "pending"
      /\ UNCHANGED <<alloc, drawn, rowOf, crashes>>
  BY <1>1, NewPlanRows DEF Makes
<1>3. Amounts' = s
  <2>1. Amounts' = [i \in Rows |-> inst'[i].amount]  BY DEF Amounts
  <2>2. \A i \in Rows : Amounts'[i] = s[i]  BY <1>2, <2>1
  <2> QED  BY <2>1, <2>2
<1>4. ASSUME NEW i \in Rows  PROVE RowOK(inst'[i])
  <2>1. s[i] \in Nat  OBVIOUS
  <2> QED  BY <1>2, <2>1 DEF RowOK, NoRow
<1>5. \E i \in Rows : Open(inst'[i])
  <2>1. PICK i \in Rows : s[i] > 0  BY <1>1, SumSome DEF Makes
  <2> QED  BY <1>2, <2>1 DEF Open, OpenStatus
<1>6. /\ renewal' = IF kind = "fee" THEN [renewal EXCEPT !.fee = 0] ELSE renewal
      /\ kind = "fee" => Sum(s) = renewal.fee
  BY <1>1 DEF Makes
<1> QED  BY <1>2, <1>3, <1>4, <1>5, <1>6

(* A payment that saw the plan as it is: the row that settles is paid.     *)
LEMMA CommitRows ==
  ASSUME Good, Claims, RowsOK, NEW j \in Jobs, Commit(j), ~stale'
  PROVE  LET i == till[j].row IN
         /\ ~stale /\ plan.status = "active" /\ ~Repriced(j)
         /\ RowOK(inst'[i]) /\ (Settles(j) => inst'[i].status = "paid")
         /\ (~Settles(j) => Open(inst'[i]))
         /\ Amounts' = Amounts /\ Paids' = [Paids EXCEPT ![i] = inst[i].paid + till[j].amount]
<1> DEFINE i == till[j].row
           n == till[j].amount
<1>1. /\ i \in Rows /\ n \in Nat
      /\ Open(inst[i]) /\ inst[i].paid + n <= inst[i].amount
      /\ inst' \in [Rows -> Row]
      /\ \A k \in Rows \ {i} : inst'[k] = inst[k]
      /\ inst'[i].amount = inst[i].amount /\ inst'[i].paid = inst[i].paid + n
      /\ inst'[i].status = IF Settles(j) THEN "paid" ELSE "partial"
      /\ stale' = (stale \/ plan.status # "active" \/ Repriced(j))
  BY Committing
<1>2. ~stale /\ plan.status = "active" /\ ~Repriced(j)
  BY <1>1 DEF Good, TypeOK, InvoiceTypeOK
<1>3. inst[i].paid \in Nat /\ inst[i].amount \in Nat
  BY <1>1 DEF Good, TypeOK, Row
<1>4. Settles(j) <=> inst[i].paid + n >= inst[i].amount  BY DEF Settles
<1> HIDE DEF n
<1>5. RowOK(inst'[i])  BY <1>1, <1>3, <1>4 DEF RowOK
<1>6. (Settles(j) => inst'[i].status = "paid") /\ (~Settles(j) => Open(inst'[i]))
  BY <1>1 DEF Open, OpenStatus
<1>7. Amounts' = Amounts
  <2>1. \A k \in Rows : inst'[k].amount = inst[k].amount  BY <1>1
  <2> QED  BY <2>1 DEF Amounts
<1>8. Paids' = [Paids EXCEPT ![i] = inst[i].paid + n]
  <2>1. \A k \in Rows : inst'[k].paid = IF k = i THEN inst[i].paid + n ELSE inst[k].paid
    BY <1>1
  <2> HIDE DEF i
  <2> QED  BY <1>1, <2>1 DEF Paids
<1> QED  BY <1>2, <1>5, <1>6, <1>7, <1>8 DEF n

LEMMA RowsStep ==
  ASSUME Good, Claims, RowsOK, Next
  PROVE  RowsOK'
<1> SUFFICES ASSUME ~stale' PROVE Sum(Amounts') = plan'.total /\ \A i \in Rows : RowOK(inst'[i])
  BY DEF RowsOK
<1>1. ~stale  BY StaleKept
<1>2. Sum(Amounts) = plan.total /\ \A i \in Rows : RowOK(inst[i])  BY <1>1 DEF RowsOK
<1>3. CASE UNCHANGED <<plan, inst>>  BY <1>2, <1>3 DEF Amounts
<1>4. CASE Creation  BY <1>4, CreatingRows
<1>5. ASSUME NEW j \in Jobs, Claim(j)
      PROVE  Sum(Amounts') = plan'.total /\ \A i \in Rows : RowOK(inst'[i])
  BY <1>2, <1>5, Claiming DEF records, Amounts
<1>6. ASSUME NEW j \in Jobs, Commit(j)
      PROVE  Sum(Amounts') = plan'.total /\ \A i \in Rows : RowOK(inst'[i])
  <2>1. Amounts' = Amounts /\ RowOK(inst'[till[j].row])  BY <1>6, CommitRows
  <2>2. /\ \A k \in Rows \ {till[j].row} : inst'[k] = inst[k]
        /\ plan' = IF till[j].last THEN [plan EXCEPT !.status = "completed"] ELSE plan
    BY <1>6, Committing
  <2>3. plan'.total = plan.total  BY <2>2, CommitPlan
  <2> QED  BY <1>2, <2>1, <2>2, <2>3
<1>7. ASSUME NEW d \in Desks, CancelPlan(d)
      PROVE  Sum(Amounts') = plan'.total /\ \A i \in Rows : RowOK(inst'[i])
  <2>1. plan'.total = plan.total /\ UNCHANGED inst  BY <1>7, Cancelling
  <2> QED  BY <1>2, <2>1 DEF Amounts
<1>8. ASSUME NEW d \in Desks, UpdatePlan(d)
      PROVE  Sum(Amounts') = plan'.total /\ \A i \in Rows : RowOK(inst'[i])
  BY <1>8, Reschedules, Rescheduling
<1> QED  BY <1>3, <1>4, <1>5, <1>6, <1>7, <1>8, PlanSteps

-----------------------------------------------------------------------------
(* What a claim of a wallet-backed plan counted stays true until it        *)
(* commits: it holds the wallet, and no reschedule saw its row unpaid.     *)
LastsOK == ~stale /\ WalletBacked =>
  /\ \A j \in Jobs : till[j].pc = "claimed" =>
       till[j].last = (Settles(j) /\ OpenRows \subseteq {till[j].row})
  /\ plan.status = "active" => OpenRows # {}
  /\ plan.status = "completed" => OpenRows = {}

LEMMA SameCounts ==
  ASSUME UNCHANGED inst, NEW k \in Jobs, till'[k] = till[k]
  PROVE  Settles(k)' = Settles(k) /\ OpenRows' = OpenRows
BY DEF Settles, OpenRows

LEMMA LastsStep ==
  ASSUME Good, Claims, RowsOK, LastsOK, Next
  PROVE  LastsOK'
<1> DEFINE Goal ==
      /\ \A k \in Jobs : till'[k].pc = "claimed" =>
           till'[k].last = (Settles(k)' /\ OpenRows' \subseteq {till'[k].row})
      /\ plan'.status = "active" => OpenRows' # {}
      /\ plan'.status = "completed" => OpenRows' = {}
<1> SUFFICES ASSUME ~stale', WalletBacked' PROVE Goal
  BY DEF LastsOK
<1>1. ~stale  BY StaleKept
<1>2. /\ UNCHANGED plan.kind =>
           WalletBacked /\
           (/\ \A k \in Jobs : till[k].pc = "claimed" =>
                 till[k].last = (Settles(k) /\ OpenRows \subseteq {till[k].row})
            /\ plan.status = "active" => OpenRows # {}
            /\ plan.status = "completed" => OpenRows = {})
  BY <1>1 DEF LastsOK, WalletBacked
<1>3. OpenRows' = {i \in Rows : Open(inst'[i])}  BY DEF OpenRows, Open
<1>4. CASE /\ UNCHANGED <<plan, inst>>
           /\ \A k \in Jobs : till'[k].pc = "claimed" => till'[k] = till[k]
  <2>1. OpenRows' = OpenRows  BY <1>4 DEF OpenRows
  <2> QED  BY <1>2, <1>4, <2>1, SameCounts
<1>5. CASE Creation
  <2>1. /\ plan.status = "none" /\ plan'.status = "active" /\ UNCHANGED till
        /\ \E i \in Rows : Open(inst'[i])
    BY <1>5, CreatingRows
  <2>2. ASSUME NEW k \in Jobs, till[k].pc = "claimed"  PROVE FALSE
    <3>1. till[k].row \in Rows /\ Open(inst[till[k].row])
      BY <2>2 DEF Claims, Takes, Good, Shape, TillOK, OnRow
    <3> QED  BY <2>1, <3>1, OpenHasPlan DEF Good
  <2> QED  BY <1>3, <2>1, <2>2
<1>6. ASSUME NEW j \in Jobs, Claim(j)  PROVE Goal
  <2>1. /\ till'[j].pc = "claimed" /\ till'[j].row = till[j].row
        /\ till'[j].amount = till[j].amount
        /\ till'[j].last = (Settles(j) /\ OpenRows \subseteq {till[j].row})
        /\ \A k \in Jobs \ {j} : till'[k] = till[k]
        /\ UNCHANGED <<plan, inst>>
    BY <1>6, Claiming DEF records
  <2>2. OpenRows' = OpenRows /\ Settles(j)' = Settles(j)  BY <2>1 DEF OpenRows, Settles
  <2> QED  BY <1>2, <2>1, <2>2, SameCounts
<1>7. ASSUME NEW j \in Jobs, Commit(j)  PROVE Goal
  <2> DEFINE i == till[j].row
  <2>1. /\ i \in Rows /\ till[j].pc = "claimed" /\ Open(inst[i])
        /\ \A k \in Rows \ {i} : inst'[k] = inst[k]
        /\ plan' = IF till[j].last THEN [plan EXCEPT !.status = "completed"] ELSE plan
        /\ \A k \in Jobs \ {j} : till'[k] = till[k]
        /\ HasSources => till'[j].pc = "settling"
        /\ plan.kind = "tenancy" => till'[j].pc = "reading"
    BY <1>7, Committing
  <2>2. /\ plan.status = "active"
        /\ Settles(j) => inst'[i].status = "paid"
        /\ ~Settles(j) => Open(inst'[i])
    BY <1>7, CommitRows
  <2>3. plan'.kind = plan.kind /\ plan'.status = IF till[j].last THEN "completed" ELSE plan.status
    BY <2>1, CommitPlan
  <2>4. /\ WalletBacked
        /\ till[j].last = (Settles(j) /\ OpenRows \subseteq {i})
    BY <1>2, <2>1, <2>3
  <2>5. ASSUME NEW k \in Jobs, till'[k].pc = "claimed"  PROVE FALSE
    <3>1. till'[j].pc # "claimed"
      BY <2>1, <2>4 DEF WalletBacked, HasSources, Good, TypeOK, PlanRow
    <3>2. k # j /\ till[k].pc = "claimed"  BY <2>1, <2>5, <3>1
    <3> QED  BY <2>1, <2>4, <3>2 DEF Claims
  <2>6. CASE till[j].last
    <3>1. \A k \in Rows : ~Open(inst'[k])
      <4>1. \A k \in Rows \ {i} : ~Open(inst[k])  BY <2>4, <2>6 DEF OpenRows
      <4>2. ~Open(inst'[i])  BY <2>2, <2>4, <2>6 DEF Open, OpenStatus
      <4> QED  BY <2>1, <4>1, <4>2
    <3> QED  BY <1>3, <2>3, <2>5, <2>6, <3>1
  <2>7. CASE ~till[j].last
    <3>1. \E k \in Rows : Open(inst'[k])
      <4>1. CASE ~Settles(j)  BY <2>1, <2>2, <4>1
      <4>2. CASE ~(OpenRows \subseteq {i})
        <5>1. PICK k \in Rows \ {i} : Open(inst[k])  BY <4>2 DEF OpenRows
        <5> QED  BY <2>1, <5>1
      <4> QED  BY <2>4, <2>7, <4>1, <4>2
    <3> QED  BY <1>3, <2>2, <2>3, <2>5, <2>7, <3>1
  <2> QED  BY <2>6, <2>7
<1>8. ASSUME NEW d \in Desks, CancelPlan(d)  PROVE Goal
  <2>1. plan'.kind = plan.kind /\ plan'.status = "cancelled" /\ UNCHANGED <<inst, till>>
    BY <1>8, Cancelling
  <2>2. OpenRows' = OpenRows  BY <2>1 DEF OpenRows
  <2> QED  BY <1>2, <2>1, <2>2, SameCounts
<1>9. ASSUME NEW d \in Desks, UpdatePlan(d)  PROVE Goal
  <2>1. UNCHANGED <<plan, till>>  BY <1>9, Rescheduling
  <2>2. /\ plan.status = "active" /\ \A k \in Jobs : till[k].pc # "claimed"
        /\ \E i \in Rows : Open(inst'[i])
    BY <1>9, Reschedules
  <2> QED  BY <1>3, <2>1, <2>2
<1> QED  BY <1>4, <1>5, <1>6, <1>7, <1>8, <1>9, PlanSteps

-----------------------------------------------------------------------------
(* A completed tenancy plan has paid its renewal invoice, or a report that *)
(* knows it completed is about to.                                         *)
Ripples(j) == till[j].pc = "reading" \/ (till[j].pc = "rippling" /\ till[j].last)

Settled == renewal.status = "paid" \/ renewal.superseded \/ renewal.missed

RipplesOK ==
  plan.kind = "tenancy" /\ plan.status = "completed" /\ ~stale /\ crashes = 0 =>
    Settled \/ \E j \in Jobs : Ripples(j)

LEMMA RipplesKept ==
  ASSUME Good, RipplesOK, Next, plan'.kind = plan.kind,
         plan'.status = "completed" => plan.status = "completed",
         Settled => Settled',
         crashes' = 0 => crashes = 0, \A k \in Jobs : Ripples(k) => Ripples(k)'
  PROVE  RipplesOK'
<1> SUFFICES ASSUME plan'.kind = "tenancy", plan'.status = "completed", ~stale', crashes' = 0
             PROVE  Settled' \/ \E j \in Jobs : Ripples(j)'
  BY DEF RipplesOK, Ripples
<1>1. ~stale  BY StaleKept
<1>2. Settled \/ \E j \in Jobs : Ripples(j)  BY <1>1 DEF RipplesOK
<1> QED  BY <1>2

LEMMA ReadsRenewal ==
  ASSUME Good, NEW j \in Jobs, ReadingStep(j), till[j].pc = "reading"
  PROVE  IF renewal.status = "paid" \/ renewal.superseded THEN TRUE
         ELSE till'[j].pc = "rippling" /\ till'[j].last = (plan.status = "completed")
<1>1. ReadRenewal(j)
  BY DEF ReadingStep, Notice, RowGone, VerifySkips, MarkPaidManual, MarkPlanPaidOff, NextRow,
         ConfirmRow, FinishPayoff, Lose
<1> DEFINE last == plan.status = "completed"
           t == [till[j] EXCEPT !.pc = "rippling", !.last = last]
<1>2. till \in [Jobs -> Till] /\ till[j] \in Till  BY DEF Good, TypeOK
<1>3. renewal.status # "paid" /\ ~renewal.superseded => till' = [till EXCEPT ![j] = t]  BY <1>1, <1>2 DEF ReadRenewal
<1> HIDE DEF last
<1>4. t.pc = "rippling" /\ t.last = last  BY <1>2 DEF Till
<1> HIDE DEF t
<1> QED  BY <1>2, <1>3, <1>4 DEF last

LEMMA RipplesStep ==
  ASSUME Good, Claims, RipplesOK, Next
  PROVE  RipplesOK'
<1>1. CASE InvoiceNext /\ UNCHANGED planVars
  BY <1>1, RipplesKept DEF planVars, Ripples, Settled
<1>2. CASE Creation
  <2>1. plan'.status = "active"  BY <1>2, CreatingRows
  <2> QED  BY <2>1 DEF RipplesOK
<1>3. CASE Minting
  BY <1>3, RipplesKept DEF Minting, InitializePlanPayoffPayment, InitializeInstallmentPayment,
     planVars, Ripples, Settled
<1>4. ASSUME NEW j \in Jobs, ReadingStep(j)  PROVE RipplesOK'
  <2>1. /\ \A k \in Jobs \ {j} : till'[k] = till[k]
        /\ UNCHANGED <<plan, renewal, crashes, stale>>
        /\ till[j].pc \in {"idle", "priced", "walking", "confirming", "reading"}
    BY <1>4, Reading DEF Good, records
  <2>2. ASSUME NEW k \in Jobs \ {j}, Ripples(k)  PROVE Ripples(k)'
    BY <2>1, <2>2 DEF Ripples
  <2>3. CASE till[j].pc # "reading"
    <3>1. ~Ripples(j)  BY <2>1, <2>3 DEF Ripples
    <3> QED  BY <2>1, <2>2, <3>1, RipplesKept DEF Settled
  <2>4. CASE till[j].pc = "reading"
    <3>1. CASE plan.status = "completed" /\ ~Settled
      <4>1. Ripples(j)'  BY <1>4, <2>4, <3>1, ReadsRenewal DEF Ripples, Settled
      <4> QED  BY <4>1 DEF RipplesOK, Ripples
    <3>2. CASE plan.status # "completed" \/ Settled
      BY <2>1, <3>2 DEF RipplesOK, Settled
    <3> QED  BY <3>1, <3>2
  <2> QED  BY <2>3, <2>4
<1>5. ASSUME NEW j \in Jobs, Claim(j)  PROVE RipplesOK'
  <2>1. /\ till[j].pc = "priced" /\ \A k \in Jobs \ {j} : till'[k] = till[k]
        /\ UNCHANGED <<plan, renewal, crashes>>
    BY <1>5, Claiming DEF records
  <2>2. \A k \in Jobs : Ripples(k) => Ripples(k)'  BY <2>1 DEF Ripples
  <2> QED  BY <2>1, <2>2, RipplesKept DEF Settled
<1>6. ASSUME NEW j \in Jobs, Commit(j)  PROVE RipplesOK'
  <2>1. /\ till[j].pc = "claimed" /\ \A k \in Jobs \ {j} : till'[k] = till[k]
        /\ plan.kind = "tenancy" => till'[j].pc = "reading"
        /\ plan' = IF till[j].last THEN [plan EXCEPT !.status = "completed"] ELSE plan
        /\ UNCHANGED <<renewal, crashes>>
    BY <1>6, Committing
  <2>2. plan'.kind = plan.kind  BY <2>1, CommitPlan
  <2>3. CASE plan.kind = "tenancy"
    <3>1. Ripples(j)'  BY <2>1, <2>3 DEF Ripples
    <3> QED  BY <3>1 DEF RipplesOK, Ripples
  <2>4. CASE plan.kind # "tenancy"  BY <2>2, <2>4 DEF RipplesOK
  <2> QED  BY <2>3, <2>4
<1>7. ASSUME NEW j \in Jobs, SettleSources(j)  PROVE RipplesOK'
  <2>1. /\ till[j].pc = "settling" /\ \A k \in Jobs \ {j} : till'[k] = till[k]
        /\ UNCHANGED <<plan, renewal, crashes>>
    BY <1>7, Settling
  <2>2. \A k \in Jobs : Ripples(k) => Ripples(k)'  BY <2>1 DEF Ripples
  <2> QED  BY <2>1, <2>2, RipplesKept DEF Settled
<1>8. ASSUME NEW j \in Jobs, Ripple(j)  PROVE RipplesOK'
  <2>1. /\ till[j].pc = "rippling" /\ \A k \in Jobs \ {j} : till'[k] = till[k]
        /\ renewal'.superseded = renewal.superseded /\ (renewal.missed => renewal'.missed)
        /\ \/ /\ renewal'.status = IF till[j].last THEN "paid" ELSE "partial"
              /\ stale' = (stale \/ (~till[j].last /\ renewal.status = "paid"))
           \/ /\ renewal'.status = renewal.status /\ stale' = stale
              /\ till[j].last => renewal.superseded \/ renewal'.missed
        /\ UNCHANGED <<plan, crashes>>
    BY <1>8, Rippling
  <2>2. stale \in BOOLEAN /\ till[j].last \in BOOLEAN
    BY DEF Good, TypeOK, InvoiceTypeOK, Till
  <2>3. CASE till[j].last
    <3>1. Settled'  BY <2>1, <2>3 DEF Settled
    <3> QED  BY <3>1, Zenon DEF RipplesOK
  <2>4. CASE ~till[j].last /\ (Settled => Settled')
    <3>1. ~Ripples(j)  BY <2>1, <2>4 DEF Ripples
    <3>2. \A k \in Jobs : Ripples(k) => Ripples(k)'  BY <2>1, <3>1 DEF Ripples
    <3> QED  BY <2>1, <2>4, <3>2, RipplesKept
  <2>5. CASE ~till[j].last /\ Settled /\ ~Settled'
    <3>1. stale'  BY <2>1, <2>2, <2>5 DEF Settled
    <3> QED  BY <3>1 DEF RipplesOK
  <2> QED  BY <2>2, <2>3, <2>4, <2>5
<1>9. ASSUME NEW j \in Jobs, Crash(j)  PROVE RipplesOK'
  BY <1>9, Crashing DEF RipplesOK
<1>10. ASSUME NEW d \in Desks, Looking(d)  PROVE RipplesOK'
  <2>1. UNCHANGED <<plan, till, crashes>>  BY <1>10, LookingGood
  <2>2. /\ renewal'.status = renewal.status /\ renewal'.missed = renewal.missed
        /\ renewal.superseded => renewal'.superseded
    BY <1>10, LookingGood
  <2>3. Settled => Settled'  BY <2>2, Zenon DEF Settled
  <2> QED  BY <2>1, <2>3, RipplesKept DEF Ripples
<1>11. ASSUME NEW d \in Desks, CancelPlan(d)  PROVE RipplesOK'
  <2>1. plan'.status = "cancelled"  BY <1>11, Cancelling
  <2> QED  BY <2>1 DEF RipplesOK
<1>12. ASSUME NEW d \in Desks, UpdatePlan(d)  PROVE RipplesOK'
  <2>1. UNCHANGED <<plan, renewal, till, crashes>>  BY <1>12, Rescheduling
  <2> QED  BY <2>1, RipplesKept DEF Ripples, Settled
<1> QED
  BY <1>1, <1>2, <1>3, <1>4, <1>5, <1>6, <1>7, <1>8, <1>9, <1>10, <1>11, <1>12, NextIs

-----------------------------------------------------------------------------
(* A fee is in the plan from its creation on, and back on the invoice, but *)
(* for what its paid rows collected, from its cancellation on.             *)
FeesOK ==
  /\ plan.status = "none" => renewal.fee = Fee
  /\ plan.kind = "fee" /\ ~stale =>
       /\ plan.status \in {"active", "completed"} => renewal.fee = 0 /\ plan.total = Fee
       /\ plan.status = "cancelled" => plan.total = Fee /\ renewal.fee = Fee - SettledSum(inst)

LEMMA FeesStep ==
  ASSUME Good, Claims, RowsOK, FeesOK, Next
  PROVE  FeesOK'
<1>0. stale => stale'  BY StaleKept
<1>1. CASE UNCHANGED <<plan, inst>>
  <2>1. renewal'.fee = renewal.fee \/ Creation \/ \E d \in Desks : CancelPlan(d)
    <3>1. CASE InvoiceNext /\ UNCHANGED planVars  BY <3>1 DEF planVars
    <3>2. CASE Minting
      BY <3>2 DEF Minting, InitializePlanPayoffPayment, InitializeInstallmentPayment, planVars
    <3>3. ASSUME NEW j \in Jobs, \/ ReadingStep(j) \/ Claim(j) \/ Commit(j) \/ SettleSources(j)
                                 \/ Ripple(j) \/ Crash(j)
          PROVE  renewal'.fee = renewal.fee
      BY <3>3, Reading, Claiming, Committing, Settling, Rippling, Crashing DEF Good, records
    <3>4. ASSUME NEW d \in Desks, Looking(d) \/ UpdatePlan(d)
          PROVE  renewal'.fee = renewal.fee
      BY <3>4, LookingGood, Rescheduling
    <3> QED  BY <3>1, <3>2, <3>3, <3>4, NextIs
  <2>2. ~Creation  BY <1>1, CreatingRows
  <2>3. SettledSum(inst)' = SettledSum(inst)  BY <1>1 DEF SettledSum
  <2>4. CASE renewal'.fee = renewal.fee  BY <1>0, <1>1, <2>3, <2>4 DEF FeesOK
  <2>5. ASSUME NEW d \in Desks, CancelPlan(d)  PROVE FeesOK'
    <3>1. /\ plan'.status = "cancelled"
          /\ stale' = (stale \/ plan.status # "active" \/ change[d].rows # inst
                             \/ change[d].invoice # invoice
                             \/ change[d].drawn # drawn \/ (HasSources /\ ~AllocationsAreWhole))
      BY <2>5, Cancelling
    <3>2. stale'  BY <1>1, <3>1
    <3> QED  BY <3>1, <3>2 DEF FeesOK
  <2> QED  BY <2>1, <2>2, <2>4, <2>5
<1>2. CASE Creation
  <2>1. /\ plan.status = "none" /\ plan'.status = "active"
        /\ renewal' = IF plan'.kind = "fee" THEN [renewal EXCEPT !.fee = 0] ELSE renewal
        /\ plan'.kind = "fee" => plan'.total = renewal.fee
    BY <1>2, CreatingRows
  <2>2. renewal.fee = Fee  BY <2>1 DEF FeesOK
  <2>3. plan'.kind = "fee" => renewal'.fee = 0  BY <2>1 DEF Good, TypeOK
  <2> QED  BY <2>1, <2>2, <2>3 DEF FeesOK
<1>3. ASSUME NEW j \in Jobs, Claim(j)  PROVE FeesOK'
  <2>1. UNCHANGED <<plan, inst>>  BY <1>3, Claiming DEF records
  <2> QED  BY <1>1, <2>1
<1>4. ASSUME NEW j \in Jobs, Commit(j)  PROVE FeesOK'
  <2>1. /\ plan' = IF till[j].last THEN [plan EXCEPT !.status = "completed"] ELSE plan
        /\ plan.status # "none" /\ UNCHANGED renewal
    BY <1>4, Committing
  <2>2. /\ plan'.kind = plan.kind /\ plan'.total = plan.total
        /\ plan'.status = IF till[j].last THEN "completed" ELSE plan.status
    BY <2>1, CommitPlan
  <2>3. ~stale' => ~stale /\ plan.status = "active"  BY <1>4, CommitRows
  <2> QED  BY <2>1, <2>2, <2>3 DEF FeesOK
<1>5. ASSUME NEW d \in Desks, CancelPlan(d)  PROVE FeesOK'
  <2> DEFINE unpaid == plan.total - SettledSum(change[d].rows)
  <2>1. /\ plan'.status = "cancelled" /\ plan'.kind = plan.kind /\ plan'.total = plan.total
        /\ renewal'.fee = IF plan.kind = "fee" /\ unpaid > 0
                            THEN renewal.fee + unpaid ELSE renewal.fee
        /\ stale' = (stale \/ plan.status # "active" \/ change[d].rows # inst
                           \/ change[d].invoice # invoice
                           \/ change[d].drawn # drawn \/ (HasSources /\ ~AllocationsAreWhole))
        /\ UNCHANGED inst
    BY <1>5, Cancelling
  <2>2. SUFFICES ASSUME plan.kind = "fee", ~stale'
                 PROVE  plan'.total = Fee /\ renewal'.fee = Fee - SettledSum(inst)'
    BY <2>1 DEF FeesOK
  <2>3. ~stale /\ plan.status = "active" /\ change[d].rows = inst
    BY <2>1, <2>2 DEF Good, TypeOK, InvoiceTypeOK
  <2>4. renewal.fee = 0 /\ plan.total = Fee  BY <2>2, <2>3 DEF FeesOK
  <2>5. SettledSum(inst) \in Nat /\ SettledSum(inst) <= plan.total /\ plan.total \in Nat
    BY <2>3, RowSums, TablesType
  <2>6. SettledSum(inst)' = SettledSum(inst)  BY <2>1 DEF SettledSum
  <2>7. unpaid = Fee - SettledSum(inst)  BY <2>3, <2>4
  <2> HIDE DEF unpaid
  <2> QED  BY <2>1, <2>2, <2>4, <2>5, <2>6, <2>7
<1>6. ASSUME NEW d \in Desks, UpdatePlan(d)  PROVE FeesOK'
  <2>1. plan.status # "none" /\ UNCHANGED <<plan, renewal>>  BY <1>6, Rescheduling
  <2>2. ~stale' => ~stale /\ plan.status = "active"  BY <1>6, Reschedules
  <2> QED  BY <2>1, <2>2 DEF FeesOK
<1> QED  BY <1>1, <1>2, <1>3, <1>4, <1>5, <1>6, PlanSteps

-----------------------------------------------------------------------------
(* A report of a reference handles an installment or a payoff, and an      *)
(* installment's the row and the amount its checkout was priced at.        *)
TillFits(j) ==
  till[j].pc \notin {"idle"} \cup Ended /\ RefOf[j] # None =>
    LET r == RefOf[j] IN
    /\ checkout[r].target \in {"row", "payoff"}
    /\ checkout[r].target = "row" /\ till[j].pc \in {"priced", "claimed"} =>
         till[j].row = rowOf[r] /\ till[j].amount = checkout[r].amount

TillsOK == \A j \in Jobs : TillFits(j)

(* Its checkout and row are not written again.                             *)
LEMMA FitKept ==
  ASSUME Good, NEW j \in Jobs, TillFits(j), till'[j] = till[j],
         \A r \in Refs : checkout[r] = NoCheckout \/
           (checkout'[r] = checkout[r] /\ rowOf'[r] = rowOf[r])
  PROVE  TillFits(j)'
<1> SUFFICES ASSUME till[j].pc \notin {"idle"} \cup Ended, RefOf[j] # None
             PROVE  LET r == RefOf[j] IN
                    /\ checkout'[r].target \in {"row", "payoff"}
                    /\ checkout'[r].target = "row" /\ till[j].pc \in {"priced", "claimed"} =>
                         till[j].row = rowOf'[r] /\ till[j].amount = checkout'[r].amount
  BY DEF TillFits
<1>1. RefOf[j] \in Refs  BY JobAssumption
<1>2. checkout[RefOf[j]].target \in {"row", "payoff"}  BY DEF TillFits
<1>3. checkout[RefOf[j]] # NoCheckout  BY <1>2, RefAssumption, Minted
<1> QED  BY <1>1, <1>3 DEF TillFits

(* A payoff, or a step that goes on with what it had.                      *)
LEMMA PayoffFits ==
  ASSUME NEW j \in Jobs, PaysOff(j), UNCHANGED checkout
  PROVE  TillFits(j)'
BY RefAssumption DEF TillFits, PaysOff

LEMMA LaterFits ==
  ASSUME TillsOK, NEW j \in Jobs, till[j].pc \notin {"idle"} \cup Ended,
         till'[j].pc \notin {"priced", "claimed"}, UNCHANGED checkout
  PROVE  TillFits(j)'
BY DEF TillFits, TillsOK

LEMMA EndedFits ==
  ASSUME NEW j \in Jobs, till'[j].pc \in {"idle", "done", "lost"}
  PROVE  TillFits(j)'
BY DEF TillFits, Ended

LEMMA ReadingFits ==
  ASSUME Good, TillsOK, NEW j \in Jobs, ReadingStep(j)
  PROVE  TillFits(j)'
<1>1. /\ till \in [Jobs -> Till] /\ inst \in [Rows -> Row] /\ TillOK(j) /\ till[j] \in Till
  BY DEF Good, TypeOK, Shape
<1>2. UNCHANGED <<checkout, rowOf>>  BY Reading DEF Good, records
<1>3. CASE Notice(j)
  <2> DEFINE r == RefOf[j]
             n == Remaining(inst[rowOf[r]])
             t == [NoTill EXCEPT !.pc = "priced", !.row = rowOf[r], !.amount = n]
  <2>1. r \in Refs /\ checkout[r].target = "row"  BY <1>3, Reporting DEF Notice, Good
  <2>2. rowOf[r] \in Rows  BY <2>1 DEF Good, Shape
  <2>3. t.pc = "priced" /\ t.row = rowOf[r] /\ t.amount = n  BY DEF NoTill
  <2>4. (till' = [till EXCEPT ![j] = t] /\ checkout[r].amount = n) \/ Leave(j, "done")
    BY <1>3 DEF Notice
  <2> HIDE DEF t, n
  <2>5. CASE till' = [till EXCEPT ![j] = t] /\ checkout[r].amount = n
    <3>1. till'[j] = t  BY <1>1, <2>5
    <3> QED  BY <1>2, <2>1, <2>3, <2>5, <3>1 DEF TillFits
  <2>6. CASE Leave(j, "done")  BY <1>1, <2>6, Leaving, PcSteps, EndedFits
  <2> QED  BY <2>4, <2>5, <2>6
<1>4. CASE RowGone(j) \/ VerifySkips(j)
  BY <1>1, <1>4, Leaving, PcSteps, EndedFits DEF RowGone, VerifySkips
<1>5. ASSUME NEW i \in Rows, NEW amount \in 1..(Bill + Fee + Arrears), MarkPaidManual(j, i, amount)
      PROVE  TillFits(j)'
  BY <1>5 DEF MarkPaidManual, TillFits
<1>6. CASE MarkPlanPaidOff(j)
  <2>1. PaysOff(j)  BY <1>6, Reporting DEF MarkPlanPaidOff, PaysOff, Good
  <2> QED  BY <1>2, <2>1, PayoffFits
<1>7. CASE NextRow(j) \/ ConfirmRow(j) \/ FinishPayoff(j)
  <2>1. PaysOff(j)  BY <1>1, <1>7 DEF NextRow, ConfirmRow, FinishPayoff, TillOK
  <2> QED  BY <1>2, <2>1, PayoffFits
<1>8. CASE Lose(j)
  <2>1. CASE PaysOff(j)  BY <1>2, <2>1, PayoffFits
  <2>2. CASE ~PaysOff(j)
    <3>1. Leave(j, "lost")  BY <1>8, <2>2 DEF Lose
    <3> QED  BY <1>1, <3>1, Leaving, PcSteps, EndedFits
  <2> QED  BY <2>1, <2>2
<1>9. CASE ReadRenewal(j)
  <2> DEFINE t == [till[j] EXCEPT !.pc = "rippling", !.last = plan.status = "completed"]
  <2>1. till[j].pc = "reading" /\ (Return(j) \/ till' = [till EXCEPT ![j] = t])
    BY <1>1, <1>9 DEF ReadRenewal
  <2>2. t.pc = "rippling"  BY <1>1 DEF Till
  <2> HIDE DEF t
  <2>3. till'[j].pc \in {"rippling", "confirming", "done"}
    <3>1. CASE Return(j)  BY <1>1, <3>1, Returning
    <3>2. CASE till' = [till EXCEPT ![j] = t]  BY <1>1, <2>2, <3>2
    <3> QED  BY <2>1, <3>1, <3>2
  <2> QED  BY <1>2, <2>1, <2>3, LaterFits DEF Ended
<1> QED  BY <1>3, <1>4, <1>5, <1>6, <1>7, <1>8, <1>9 DEF ReadingStep

LEMMA TillsStep ==
  ASSUME Good, Claims, TillsOK, Next
  PROVE  TillsOK'
<1> DEFINE Others(j) == \A k \in Jobs \ {j} : till'[k] = till[k]
<1>1. ASSUME NEW j \in Jobs, TillFits(j)', Others(j), UNCHANGED <<checkout, rowOf>>
      PROVE  TillsOK'
  <2>1. ASSUME NEW k \in Jobs \ {j}  PROVE TillFits(k)'
    BY <1>1, <2>1, FitKept DEF TillsOK
  <2> QED  BY <1>1, <2>1 DEF TillsOK
<1>2. ASSUME UNCHANGED till,
             \A r \in Refs : checkout[r] = NoCheckout \/
               (checkout'[r] = checkout[r] /\ rowOf'[r] = rowOf[r])
      PROVE  TillsOK'
  BY <1>2, FitKept DEF TillsOK
<1>3. CASE InvoiceNext /\ UNCHANGED planVars
  <2>1. CheckoutsKept
    BY <1>3, InvoiceTyped DEF Good, TypeOK, Shape, InvoiceShape
  <2> QED  BY <1>2, <1>3, <2>1 DEF CheckoutsKept, planVars
<1>4. CASE Creation
  <2>1. UNCHANGED <<till, rowOf>>  BY <1>4, CreatingRows
  <2>2. UNCHANGED checkout
    BY <1>4 DEF Creation, CreateAdHocInvoicePlan, CreateNewChargePlan, CreateFeePlan,
       CreateTenancyPlan, CreateOutstandingBalancePlan, invoiceVars
  <2> QED  BY <1>2, <2>1, <2>2
<1>5. CASE Minting
  <2>1. PICK r \in Refs :
         \/ InitializePlanPayoffPayment(r)
         \/ \E i \in Rows : InitializeInstallmentPayment(r, i)
    BY <1>5 DEF Minting
  <2>2. /\ checkout[r] = NoCheckout /\ UNCHANGED till
        /\ \A q \in Refs \ {r} : checkout'[q] = checkout[q] /\ rowOf'[q] = rowOf[q]
    BY <2>1, PlanCheckouts DEF Good
  <2> QED  BY <1>2, <2>2
<1>6. ASSUME NEW j \in Jobs, ReadingStep(j)  PROVE TillsOK'
  <2>1. Others(j) /\ UNCHANGED <<checkout, rowOf>>  BY <1>6, Reading DEF Good, records
  <2> QED  BY <1>1, <1>6, <2>1, ReadingFits
<1>7. ASSUME NEW j \in Jobs, Claim(j)  PROVE TillsOK'
  <2>1. /\ till[j].pc = "priced" /\ till'[j].pc = "claimed" /\ till'[j].row = till[j].row
        /\ till'[j].amount = till[j].amount /\ Others(j) /\ UNCHANGED <<checkout, rowOf>>
    BY <1>7, Claiming DEF records
  <2>2. TillFits(j)'  BY <2>1 DEF TillsOK, TillFits, Ended
  <2> QED  BY <1>1, <2>1, <2>2
<1>8. ASSUME NEW j \in Jobs, Commit(j) \/ SettleSources(j) \/ Ripple(j)  PROVE TillsOK'
  <2>1. /\ till[j].pc \in {"claimed", "settling", "rippling"}
        /\ till'[j].pc \in {"settling", "reading", "confirming", "done"}
        /\ Others(j) /\ UNCHANGED <<checkout, rowOf>>
    BY <1>8, Committing, Settling, Rippling
  <2>2. TillFits(j)'  BY <2>1, LaterFits DEF Ended
  <2> QED  BY <1>1, <2>1, <2>2
<1>9. ASSUME NEW j \in Jobs, Crash(j)  PROVE TillsOK'
  <2>1. till'[j].pc \in {"idle", "done"} /\ Others(j) /\ UNCHANGED <<checkout, rowOf>>
    BY <1>9, Crashing
  <2> QED  BY <1>1, <2>1, EndedFits
<1>10. ASSUME NEW d \in Desks, Looking(d) \/ CancelPlan(d) \/ UpdatePlan(d)  PROVE TillsOK'
  <2>1. UNCHANGED <<till, checkout, rowOf>>
    BY <1>10, LookingGood, Cancelling, Rescheduling DEF invoiceVars
  <2> QED  BY <1>2, <2>1
<1> QED  BY <1>3, <1>4, <1>5, <1>6, <1>7, <1>8, <1>9, <1>10, NextIs

-----------------------------------------------------------------------------
(* What a reference has added to the records fits what it paid: a link's   *)
(* once and with the invoice, an installment's once and with its row, a    *)
(* payoff's no more than the rows have collected since it was priced.      *)
CreditOK(r) ==
  /\ checkout[r].target = None => credited[r] = 0
  /\ checkout[r].target = "link" /\ credited[r] > 0 =>
       invoice.status \in {"paid", "cancelled"} /\ credited[r] <= checkout[r].amount
  /\ checkout[r].target = "row" /\ credited[r] > 0 =>
       inst[rowOf[r]].status = "paid" /\ credited[r] <= checkout[r].amount
  /\ checkout[r].target = "payoff" => credited[r] + plan.total <= Sum(Paids) + checkout[r].amount

CreditsOK == ~stale => \A r \in Refs : CreditOK(r)

LEMMA CreditKept ==
  ASSUME Good, NEW r \in Refs, CreditOK(r),
         checkout'[r] = checkout[r], rowOf'[r] = rowOf[r], credited'[r] = credited[r],
         plan'.total = plan.total, Paids' = Paids,
         invoice.status \in {"paid", "cancelled"} => invoice'.status \in {"paid", "cancelled"},
         \A i \in Rows : inst[i].status = "paid" => inst'[i].status = "paid"
  PROVE  CreditOK(r)'
<1>1. checkout[r].target = "row" => rowOf[r] \in Rows  BY DEF Good, Shape
<1>2. Sum(Paids)' = Sum(Paids)  BY DEF Sum, Entries
<1> QED  BY <1>1, <1>2 DEF CreditOK

LEMMA SumPaidsRaise ==
  ASSUME Good, NEW i \in Rows, NEW n \in Nat, Paids' = [Paids EXCEPT ![i] = inst[i].paid + n]
  PROVE  Sum(Paids') = Sum(Paids) + n
<1> DEFINE f == Paids
           g == Paids'
           one == [k \in Rows |-> IF k = i THEN n ELSE 0]
<1>1. f \in [Rows -> Nat] /\ f[i] = inst[i].paid  BY TablesType DEF Paids
<1>2. g = [f EXCEPT ![i] = f[i] + n]  BY <1>1
<1>3. one \in [Rows -> Nat] /\ Sum(one) = n  BY SumOne
<1>4. \A k \in Rows : one[k] = IF k = i THEN n ELSE 0  OBVIOUS
<1> HIDE DEF f, g, one
<1>5. g \in [Rows -> Nat]  BY <1>1, <1>2
<1>6. \A k \in Rows : g[k] = f[k] + one[k]  BY <1>1, <1>2, <1>4
<1>7. Sum(g) = Sum(f) + Sum(one)  BY <1>1, <1>3, <1>5, <1>6, RowsPlus
<1> QED  BY <1>3, <1>7 DEF f, g

LEMMA InvoiceCredits ==
  ASSUME Good, CreditsOK, ~stale, InvoiceNext, UNCHANGED planVars, NEW q \in Refs
  PROVE  CreditOK(q)'
<1>1. /\ CreditOK(q) /\ UNCHANGED <<plan, inst, rowOf>> /\ Paids' = Paids
  BY DEF CreditsOK, planVars, Paids
<1>2. ASSUME checkout'[q] = checkout[q], credited'[q] = credited[q],
             invoice.status \in {"paid", "cancelled"} => invoice'.status \in {"paid", "cancelled"}
      PROVE  CreditOK(q)'
  BY <1>1, <1>2, CreditKept
<1>3. invoice \in InvoiceRow /\ credited \in [Refs \cup {None} -> Nat]
  BY DEF Good, TypeOK, InvoiceTypeOK
<1>4. CASE CreateInvoice  BY <1>2, <1>4 DEF CreateInvoice, Billed
<1>5. ASSUME NEW r \in Refs, InitializePublicPayment(r)  PROVE CreditOK(q)'
  <2> DEFINE new == [target |-> "link", amount |-> Due(invoice)]
  <2>1. /\ checkout[r] = NoCheckout /\ UNCHANGED <<invoice, credited>>
        /\ checkout' = [checkout EXCEPT ![r] = new]
        /\ checkout \in [Refs -> [target : {"link", "row", "payoff", None}, amount : Nat]]
    BY <1>5 DEF InitializePublicPayment, Good, TypeOK, InvoiceTypeOK
  <2>2. new.target = "link"  OBVIOUS
  <2> HIDE DEF new
  <2>3. CASE q # r  BY <1>2, <2>1, <2>3
  <2>4. CASE q = r
    <3>1. checkout'[q].target = "link"  BY <2>1, <2>2, <2>4
    <3>2. credited'[q] = 0  BY <1>1, <2>1, <2>4 DEF CreditOK, NoCheckout
    <3> QED  BY <3>1, <3>2, RefAssumption DEF CreditOK
  <2> QED  BY <2>3, <2>4
<1>6. ASSUME NEW j \in Jobs, ClaimInvoice(j)  PROVE CreditOK(q)'
  <2> DEFINE r == RefOf[j]
             n == Least(checkout[r].amount, Due(job[j].copy))
  <2>1. job[j].pc = "accepted" /\ invoice.status \in OpenStatus  BY <1>6 DEF ClaimInvoice
  <2>2. r \in Refs /\ checkout[r].target = "link"
    BY <2>1, JobAssumption DEF Good, Shape
  <2>3. /\ UNCHANGED checkout /\ credited' = [credited EXCEPT ![r] = credited[r] + n]
        /\ invoice' = [invoice EXCEPT !.status = "paid", !.paid = job[j].copy.total, !.ref = r]
    BY <1>6 DEF ClaimInvoice
  <2>4. invoice'.status = "paid"  BY <1>3, <2>3 DEF InvoiceRow
  <2>5. n \in Nat /\ n <= checkout[r].amount
    <3>1. checkout[r].amount \in Nat /\ job[j].copy \in InvoiceRow
      BY <2>2 DEF Good, TypeOK, InvoiceTypeOK
    <3> QED  BY <3>1, DueType, LeastType
  <2> HIDE DEF n
  <2>6. CASE q # r  BY <1>2, <1>3, <2>2, <2>3, <2>4, <2>6
  <2>7. CASE q = r
    <3>1. credited[q] = 0
      BY <1>1, <1>3, <2>1, <2>2, <2>7 DEF CreditOK, OpenStatus
    <3>2. credited'[q] = n  BY <1>3, <2>3, <2>5, <2>7, <3>1
    <3> QED  BY <2>2, <2>3, <2>4, <2>5, <2>7, <3>2, RefAssumption DEF CreditOK
  <2> QED  BY <2>6, <2>7
<1>7. ASSUME NEW r \in Refs, GatewayTakes(r)  PROVE CreditOK(q)'
  BY <1>2, <1>7 DEF GatewayTakes
<1>8. ASSUME NEW j \in Jobs, VerifyTurnsAway(j) \/ SetAside(j) \/ Accept(j) \/ ClaimLost(j)
      PROVE  CreditOK(q)'
  BY <1>2, <1>8 DEF VerifyTurnsAway, SetAside, Accept, ClaimLost
<1>9. ASSUME NEW d \in Desks, OpenInvoice(d, "editing") \/ OpenInvoice(d, "cancelling")
      PROVE  CreditOK(q)'
  BY <1>2, <1>9 DEF OpenInvoice
<1>10. ASSUME NEW d \in Desks, NEW total \in Rebills, UpdateInvoice(d, total)
       PROVE  CreditOK(q)'
  <2>1. invoice'.status = invoice.status /\ UNCHANGED <<checkout, credited>>
    BY <1>3, <1>10 DEF UpdateInvoice, InvoiceRow
  <2> QED  BY <1>2, <2>1
<1>11. ASSUME NEW d \in Desks, CancelInvoice(d)  PROVE CreditOK(q)'
  <2>1. invoice'.status = "cancelled" /\ UNCHANGED <<checkout, credited>>
    BY <1>3, <1>11 DEF CancelInvoice, InvoiceRow
  <2> QED  BY <1>2, <2>1
<1> QED
  BY <1>4, <1>5, <1>6, <1>7, <1>8, <1>9, <1>10, <1>11 DEF InvoiceNext

LEMMA CommitCredits ==
  ASSUME Good, Claims, RowsOK, TillsOK, CreditsOK, NEW j \in Jobs, Commit(j), ~stale',
         NEW q \in Refs
  PROVE  CreditOK(q)'
<1> DEFINE i == till[j].row
           n == till[j].amount
           r == RefOf[j]
<1>1. /\ i \in Rows /\ n \in Nat /\ till[j].pc = "claimed" /\ Open(inst[i])
      /\ inst' \in [Rows -> Row]
      /\ \A k \in Rows \ {i} : inst'[k] = inst[k]
      /\ inst'[i].status = IF Settles(j) THEN "paid" ELSE "partial"
      /\ plan' = IF till[j].last THEN [plan EXCEPT !.status = "completed"] ELSE plan
      /\ r \in Refs \cup {None}
      /\ credited' = [credited EXCEPT ![r] = credited[r] + n]
      /\ UNCHANGED <<invoice, checkout, rowOf>>
  BY Committing
<1>2. /\ ~stale /\ ~Repriced(j) /\ Paids' = [Paids EXCEPT ![i] = inst[i].paid + n]
      /\ RowOK(inst[i])
  BY <1>1, CommitRows DEF RowsOK
<1> HIDE DEF i, n
<1>3. plan'.total = plan.total  BY <1>1, CommitPlan
<1>4. Sum(Paids') = Sum(Paids) + n  BY <1>1, <1>2, SumPaidsRaise
<1>5. /\ CreditOK(q) /\ credited \in [Refs \cup {None} -> Nat] /\ Sum(Paids) \in Nat
      /\ inst \in [Rows -> Row] /\ plan.total \in Nat
      /\ checkout[q].target = "row" => rowOf[q] \in Rows
      /\ checkout[q].amount \in Nat
      /\ checkout[q].target \in {"link", "row", "payoff", None}
  BY <1>2, TablesType DEF CreditsOK, Good, TypeOK, InvoiceTypeOK, Shape
<1>6. Sum(Paids)' = Sum(Paids')  OBVIOUS
<1>7. CASE q # r
  <2>1. credited'[q] = credited[q]  BY <1>1, <1>5, <1>7
  <2>2. checkout[q].target = "row" /\ credited[q] > 0 => inst'[rowOf[q]].status = "paid"
    <3>1. SUFFICES ASSUME checkout[q].target = "row", credited[q] > 0
                   PROVE  inst'[rowOf[q]].status = "paid"
      OBVIOUS
    <3>2. inst[rowOf[q]].status = "paid" /\ rowOf[q] \in Rows  BY <1>5, <3>1 DEF CreditOK
    <3>3. rowOf[q] # i  BY <1>1, <3>2 DEF Open, OpenStatus
    <3> QED  BY <1>1, <3>2, <3>3
  <2>3. checkout[q].target = "payoff" =>
          credited'[q] + plan'.total <= Sum(Paids)' + checkout[q].amount
    BY <1>1, <1>3, <1>4, <1>5, <1>6, <2>1 DEF CreditOK
  <2> QED  BY <1>1, <1>5, <2>1, <2>2, <2>3 DEF CreditOK
<1>8. CASE q = r
  <2>1. credited'[q] = credited[q] + n  BY <1>1, <1>5, <1>8
  <2>2. q # None  BY RefAssumption
  <2>3. TillFits(j)  BY DEF TillsOK
  <2>4. till[j].pc \notin {"idle"} \cup Ended  BY <1>1 DEF Ended
  <2>5. checkout[q].target \in {"row", "payoff"}  BY <1>8, <2>2, <2>3, <2>4 DEF TillFits
  <2>6. CASE checkout[q].target = "row"
    <3>1. i = rowOf[q] /\ n = checkout[q].amount
      BY <1>1, <1>8, <2>2, <2>3, <2>4, <2>6 DEF TillFits, i, n
    <3>2. credited[q] = 0
      <4>1. inst[rowOf[q]].status # "paid"  BY <1>1, <3>1 DEF Open, OpenStatus
      <4> QED  BY <1>5, <2>6, <4>1 DEF CreditOK
    <3>3. Settles(j)
      <4>1. inst[i] \in Row  BY <1>1, <1>5
      <4>2. Remaining(inst[i]) = inst[i].amount - inst[i].paid
            /\ inst[i].amount \in Nat /\ inst[i].paid \in Nat
        BY <1>2, <4>1, SoundRow
      <4>3. ~(Remaining(inst[i]) > n)  BY <1>2, <1>8, <2>2 DEF Repriced, i, n
      <4>4. inst[i].paid + n >= inst[i].amount  BY <1>1, <4>2, <4>3
      <4> QED  BY <4>4 DEF Settles, i, n
    <3>4. inst'[rowOf[q]].status = "paid"  BY <1>1, <3>1, <3>3
    <3>5. credited'[q] <= checkout[q].amount  BY <1>1, <1>5, <2>1, <3>1, <3>2
    <3> QED  BY <1>1, <2>6, <3>4, <3>5, RefAssumption DEF CreditOK
  <2>7. CASE checkout[q].target = "payoff"
    <3>1. credited[q] + plan.total <= Sum(Paids) + checkout[q].amount  BY <1>5, <2>7 DEF CreditOK
    <3>2. credited'[q] + plan'.total <= Sum(Paids)' + checkout[q].amount
      BY <1>1, <1>3, <1>4, <1>5, <1>6, <2>1, <3>1
    <3> QED  BY <1>1, <2>7, <3>2, RefAssumption DEF CreditOK
  <2> QED  BY <2>5, <2>6, <2>7
<1> QED  BY <1>7, <1>8

LEMMA MintingCredits ==
  ASSUME Good, RowsOK, CreditsOK, ~stale, Minting, NEW q \in Refs
  PROVE  CreditOK(q)'
<1>1. PICK r \in Refs :
         \/ InitializePlanPayoffPayment(r)
         \/ \E i \in Rows : InitializeInstallmentPayment(r, i)
  BY DEF Minting
<1>2. /\ checkout[r] = NoCheckout /\ UNCHANGED <<invoice, credited, plan, inst>>
      /\ \A p \in Refs \ {r} : checkout'[p] = checkout[p] /\ rowOf'[p] = rowOf[p]
  BY <1>1, PlanCheckouts DEF Good
<1>3. CreditOK(q) /\ Paids' = Paids  BY <1>2 DEF CreditsOK, Paids
<1>4. CASE q # r  BY <1>2, <1>3, <1>4, CreditKept
<1>5. CASE q = r
  <2>1. credited[q] = 0  BY <1>2, <1>3, <1>5 DEF CreditOK, NoCheckout
  <2>2. CASE InitializePlanPayoffPayment(r)
    <3> DEFINE left == plan.total - PaidSum(inst)
               new == [target |-> "payoff", amount |-> left]
    <3>1. checkout' = [checkout EXCEPT ![r] = new]  BY <2>2 DEF InitializePlanPayoffPayment
    <3>2. checkout \in [Refs -> [target : {"link", "row", "payoff", None}, amount : Nat]]
      BY DEF Good, TypeOK, InvoiceTypeOK
    <3>3. checkout'[q].target = "payoff" /\ checkout'[q].amount = left
      BY <1>5, <3>1, <3>2
    <3>4. /\ PaidSum(inst) = Sum(Paids) /\ Sum(Paids) \in Nat /\ plan.total \in Nat
      BY RowSums, TablesType
    <3>5. Sum(Paids)' = Sum(Paids)  BY <1>3 DEF Sum, Entries
    <3>6. credited'[q] + plan'.total <= Sum(Paids)' + checkout'[q].amount
      BY <1>2, <2>1, <3>3, <3>4, <3>5
    <3> HIDE DEF left
    <3> QED  BY <3>3, <3>6, RefAssumption DEF CreditOK
  <2>3. ASSUME NEW i \in Rows, InitializeInstallmentPayment(r, i)  PROVE CreditOK(q)'
    <3> DEFINE new == [target |-> "row", amount |-> Remaining(inst[i])]
    <3>1. checkout' = [checkout EXCEPT ![r] = new]  BY <2>3 DEF InitializeInstallmentPayment
    <3>2. checkout \in [Refs -> [target : {"link", "row", "payoff", None}, amount : Nat]]
      BY DEF Good, TypeOK, InvoiceTypeOK
    <3>3. checkout'[q].target = "row"  BY <1>5, <3>1, <3>2
    <3>4. credited'[q] = 0  BY <1>2, <2>1
    <3> QED  BY <3>3, <3>4, RefAssumption DEF CreditOK
  <2> QED  BY <1>1, <2>2, <2>3
<1> QED  BY <1>4, <1>5

LEMMA CreditsStep ==
  ASSUME Good, Claims, RowsOK, TillsOK, CreditsOK, Next
  PROVE  CreditsOK'
<1> SUFFICES ASSUME ~stale', NEW q \in Refs PROVE CreditOK(q)'
  BY DEF CreditsOK
<1>1. ~stale  BY StaleKept
<1>2. CreditOK(q)  BY <1>1 DEF CreditsOK
<1>3. CASE InvoiceNext /\ UNCHANGED planVars  BY <1>1, <1>3, InvoiceCredits
<1>4. CASE Creation
  <2>1. /\ plan.status = "none" /\ UNCHANGED rowOf  BY <1>4, CreatingRows
  <2>2. /\ UNCHANGED <<checkout, credited>>
        /\ invoice.status \in {"paid", "cancelled"} => invoice'.status \in {"paid", "cancelled"}
    <3>1. CASE CreateAdHocInvoicePlan
      BY <3>1 DEF CreateAdHocInvoicePlan, OpenStatus
    <3>2. CASE CreateNewChargePlan  BY <3>2 DEF CreateNewChargePlan, Billed
    <3>3. CASE CreateFeePlan \/ CreateTenancyPlan
      BY <3>3 DEF CreateFeePlan, CreateTenancyPlan, invoiceVars
    <3>4. ASSUME NEW d \in Desks, CreateOutstandingBalancePlan(d)
          PROVE  UNCHANGED <<checkout, credited>> /\ invoice'.status = invoice.status
      <4>1. invoice \in InvoiceRow  BY DEF Good, TypeOK, InvoiceTypeOK
      <4> QED  BY <3>4, <4>1 DEF CreateOutstandingBalancePlan, InvoiceRow
    <3> QED  BY <1>4, <3>1, <3>2, <3>3, <3>4 DEF Creation
  <2>3. checkout[q].target \notin {"row", "payoff"}  BY <2>1 DEF Good, Shape
  <2> QED  BY <1>2, <2>2, <2>3 DEF CreditOK
<1>5. CASE Minting  BY <1>1, <1>5, MintingCredits
<1>6. ASSUME NEW j \in Jobs, ReadingStep(j) \/ Claim(j) \/ Ripple(j) \/ Crash(j)
      PROVE  CreditOK(q)'
  <2>1. UNCHANGED <<checkout, rowOf, credited, plan, inst, invoice>>
    BY <1>6, Reading, Claiming, Rippling, Crashing DEF Good, records
  <2>2. Paids' = Paids  BY <2>1 DEF Paids
  <2> QED  BY <1>2, <2>1, <2>2, CreditKept
<1>7. ASSUME NEW j \in Jobs, Commit(j)  PROVE CreditOK(q)'
  BY <1>7, CommitCredits
<1>8. ASSUME NEW j \in Jobs, SettleSources(j)  PROVE CreditOK(q)'
  <2>1. /\ UNCHANGED <<checkout, rowOf, credited, plan, inst>>
        /\ \/ UNCHANGED invoice
           \/ \E x \in Nat : invoice' = SettledInvoice(x, plan.cover - drawn.invoice - x)
    BY <1>8, Settling
  <2>2. invoice.status \in {"paid", "cancelled"} => invoice' = invoice
    BY <2>1, SettledInvoiceType DEF Good, TypeOK, InvoiceTypeOK, OpenStatus
  <2>3. Paids' = Paids  BY <2>1 DEF Paids
  <2> QED  BY <1>2, <2>1, <2>2, <2>3, CreditKept
<1>9. ASSUME NEW d \in Desks, Looking(d)  PROVE CreditOK(q)'
  <2>1. UNCHANGED <<checkout, rowOf, credited, plan, inst, invoice>>
    BY <1>9, LookingGood DEF invoiceVars
  <2>2. Paids' = Paids  BY <2>1 DEF Paids
  <2> QED  BY <1>2, <2>1, <2>2, CreditKept
<1>10. ASSUME NEW d \in Desks, CancelPlan(d)  PROVE CreditOK(q)'
  <2> DEFINE was == change[d]
  <2>1. /\ plan'.total = plan.total /\ UNCHANGED <<checkout, rowOf, credited, inst>>
        /\ invoice' = IF HasSources
                        THEN ReopenedInvoice(was.invoice, plan.cover - was.drawn.invoice)
                        ELSE invoice
        /\ stale' = (stale \/ plan.status # "active" \/ was.rows # inst \/ was.invoice # invoice
                           \/ was.drawn # drawn \/ (HasSources /\ ~AllocationsAreWhole))
    BY <1>10, Cancelling
  <2>2. was.invoice = invoice  BY <2>1 DEF Good, TypeOK, InvoiceTypeOK
  <2>3. invoice.status \in {"paid", "cancelled"} => invoice'.status = invoice.status
    <3>1. SUFFICES ASSUME invoice.status \in {"paid", "cancelled"}
                   PROVE  invoice'.status = invoice.status
      OBVIOUS
    <3>2. invoice.status \notin OpenStatus /\ invoice \in InvoiceRow
      BY <3>1 DEF OpenStatus, Good, TypeOK, InvoiceTypeOK
    <3>3. invoice' = invoice \/ invoice' = [invoice EXCEPT !.covered = FALSE]
      BY <2>1, <2>2, <3>2 DEF ReopenedInvoice
    <3> QED  BY <3>2, <3>3 DEF InvoiceRow
  <2>4. Paids' = Paids  BY <2>1 DEF Paids
  <2> QED  BY <1>2, <2>1, <2>3, <2>4, CreditKept
<1>11. ASSUME NEW d \in Desks, UpdatePlan(d)  PROVE CreditOK(q)'
  <2>1. UNCHANGED <<invoice, checkout, credited, plan, rowOf>>  BY <1>11, Rescheduling
  <2>2. Paids' = Paids /\ \A i \in Rows : inst[i].status = "paid" => inst'[i] = inst[i]
    BY <1>11, Reschedules
  <2> QED  BY <1>2, <2>1, <2>2, CreditKept
<1> QED  BY <1>3, <1>4, <1>5, <1>6, <1>7, <1>8, <1>9, <1>10, <1>11, NextIs

-----------------------------------------------------------------------------
(* What a handler of the link holds was open and not covered when it was   *)
(* read, and a payment that was accepted is enough for it.                 *)
CopiesOK ==
  /\ \A j \in Jobs : job[j].pc = "accepted" =>
       ~job[j].copy.covered /\ checkout[RefOf[j]].amount >= Due(job[j].copy)
  /\ \A d \in Desks : edit[d].pc \in {"editing", "cancelling"} =>
       edit[d].copy.status \in OpenStatus /\ ~edit[d].copy.covered

LEMMA CopiesKept ==
  ASSUME Good, CopiesOK, CheckoutsKept,
         \A k \in Jobs : job'[k].pc = "accepted" => job'[k] = job[k],
         \A e \in Desks : edit'[e].pc \in {"editing", "cancelling"} => edit'[e] = edit[e]
  PROVE  CopiesOK'
<1>1. ASSUME NEW k \in Jobs, job'[k].pc = "accepted"
      PROVE  ~job'[k].copy.covered /\ checkout'[RefOf[k]].amount >= Due(job'[k].copy)
  <2>1. job'[k] = job[k] /\ job[k].pc = "accepted"  BY <1>1
  <2>2. RefOf[k] \in Refs /\ checkout[RefOf[k]].target = "link"
    BY <2>1, JobAssumption DEF Good, Shape
  <2>3. checkout'[RefOf[k]] = checkout[RefOf[k]]
    BY <2>2, RefAssumption, Minted DEF CheckoutsKept
  <2> QED  BY <2>1, <2>3 DEF CopiesOK
<1>2. ASSUME NEW e \in Desks, edit'[e].pc \in {"editing", "cancelling"}
      PROVE  edit'[e].copy.status \in OpenStatus /\ ~edit'[e].copy.covered
  <2>1. edit'[e] = edit[e]  BY <1>2
  <2> QED  BY <1>2, <2>1 DEF CopiesOK
<1> QED  BY <1>1, <1>2 DEF CopiesOK

LEMMA InvoiceCopies ==
  ASSUME Good, CopiesOK, InvoiceNext
  PROVE  CopiesOK'
<1>1. CheckoutsKept  BY InvoiceTyped DEF Good, TypeOK, Shape, InvoiceShape
<1>2. /\ job \in [Jobs -> [pc : {"idle", "accepted"} \cup Ended, copy : InvoiceRow]]
      /\ edit \in [Desks -> [pc : {"idle", "editing", "cancelling"} \cup Written, copy : InvoiceRow]]
      /\ InvoiceTypeOK
  BY DEF Good, TypeOK, InvoiceTypeOK
<1>3. CASE CreateInvoice \/ \E r \in Refs : InitializePublicPayment(r) \/ GatewayTakes(r)
  BY <1>1, <1>3, CopiesKept DEF CreateInvoice, InitializePublicPayment, GatewayTakes
<1>4. ASSUME NEW j \in Jobs, VerifyTurnsAway(j) \/ SetAside(j) \/ ClaimInvoice(j) \/ ClaimLost(j)
      PROVE  CopiesOK'
  <2>1. PICK pc \in {"done", "lost"} : To(j, pc)
    BY <1>4 DEF VerifyTurnsAway, SetAside, ClaimInvoice, ClaimLost
  <2>2. \A k \in Jobs : job'[k].pc = "accepted" => job'[k] = job[k]
    BY <1>2, <2>1, JobMoves DEF Ended
  <2>3. UNCHANGED edit  BY <1>4 DEF VerifyTurnsAway, SetAside, ClaimInvoice, ClaimLost
  <2> QED  BY <1>1, <2>2, <2>3, CopiesKept
<1>5. ASSUME NEW j \in Jobs, Accept(j)  PROVE CopiesOK'
  <2> DEFINE new == [pc |-> "accepted", copy |-> invoice]
  <2>1. job' = [job EXCEPT ![j] = new] /\ UNCHANGED <<edit, checkout>> /\ Payable(RefOf[j])
    BY <1>5 DEF Accept
  <2>2. new.copy = invoice  OBVIOUS
  <2> HIDE DEF new
  <2>3. job'[j].copy = invoice /\ \A k \in Jobs \ {j} : job'[k] = job[k]
    BY <1>2, <2>1, <2>2
  <2> QED  BY <2>1, <2>3 DEF CopiesOK, Payable
<1>6. ASSUME NEW d \in Desks, NEW pc \in {"editing", "cancelling"}, OpenInvoice(d, pc)
      PROVE  CopiesOK'
  <2> DEFINE new == [pc |-> pc, copy |-> invoice]
  <2>1. /\ edit' = [edit EXCEPT ![d] = new] /\ UNCHANGED <<job, checkout>>
        /\ invoice.status \in OpenStatus /\ ~invoice.covered
    BY <1>6 DEF OpenInvoice
  <2>2. new.copy = invoice  OBVIOUS
  <2> HIDE DEF new
  <2>3. edit'[d].copy = invoice /\ \A e \in Desks \ {d} : edit'[e] = edit[e]
    BY <1>2, <2>1, <2>2
  <2> QED  BY <2>1, <2>3 DEF CopiesOK
<1>7. ASSUME NEW d \in Desks, CancelInvoice(d) \/ \E total \in Rebills : UpdateInvoice(d, total)
      PROVE  CopiesOK'
  <2>1. PICK pc \in Written : edit' = [edit EXCEPT ![d] = [pc |-> pc, copy |-> NoInvoice]]
    <3>1. CASE CancelInvoice(d)
      BY <3>1 DEF CancelInvoice, Written
    <3>2. ASSUME NEW total \in Rebills, UpdateInvoice(d, total)
          PROVE  \E pc \in Written : edit' = [edit EXCEPT ![d] = [pc |-> pc, copy |-> NoInvoice]]
      <4> DEFINE pc == IF total < invoice.paid THEN "undercut" ELSE "done"
      <4>1. edit' = [edit EXCEPT ![d] = [pc |-> pc, copy |-> NoInvoice]]
        BY <3>2 DEF UpdateInvoice
      <4>2. pc \in Written  BY DEF Written
      <4> HIDE DEF pc
      <4> QED  BY <4>1, <4>2
    <3> QED  BY <1>7, <3>1, <3>2
  <2> DEFINE new == [pc |-> pc, copy |-> NoInvoice]
  <2>2. new.pc \notin {"editing", "cancelling"}  BY DEF Written
  <2>3. edit' = [edit EXCEPT ![d] = new]  BY <2>1
  <2> HIDE DEF new
  <2>4. \A e \in Desks : edit'[e].pc \in {"editing", "cancelling"} => edit'[e] = edit[e]
    BY <1>2, <2>2, <2>3
  <2>5. UNCHANGED job  BY <1>7 DEF CancelInvoice, UpdateInvoice
  <2> QED  BY <1>1, <2>4, <2>5, CopiesKept
<1> QED  BY <1>3, <1>4, <1>5, <1>6, <1>7 DEF InvoiceNext

(* The plan's own steps leave the handlers of the link alone.              *)
LEMMA PlanLeavesCopies ==
  ASSUME Good, Next
  PROVE  (InvoiceNext /\ UNCHANGED planVars) \/ (CheckoutsKept /\ UNCHANGED <<job, edit>>)
<1> DEFINE Kept == CheckoutsKept /\ UNCHANGED <<job, edit>>
<1>1. CASE Creation
  <2>1. UNCHANGED <<checkout, job, edit>>
    BY <1>1 DEF Creation, CreateAdHocInvoicePlan, CreateNewChargePlan, CreateFeePlan,
       CreateTenancyPlan, CreateOutstandingBalancePlan, invoiceVars
  <2> QED  BY <2>1, SameCheckouts
<1>2. CASE Minting  BY <1>2, PlanCheckouts DEF Minting, Good
<1>3. ASSUME NEW j \in Jobs, \/ ReadingStep(j) \/ Claim(j) \/ Commit(j) \/ SettleSources(j)
                             \/ Ripple(j) \/ Crash(j)
      PROVE  Kept
  <2>1. UNCHANGED <<checkout, job, edit>>
    <3>1. CASE ReadingStep(j)  BY <3>1, Reading DEF Good, records
    <3>2. CASE Claim(j)  BY <3>2, Claiming DEF records
    <3>3. CASE Commit(j) \/ SettleSources(j)
      BY <3>3 DEF Commit, SettleSources
    <3>4. CASE Ripple(j) \/ Crash(j)  BY <3>4, Rippling, Crashing
    <3> QED  BY <1>3, <3>1, <3>2, <3>3, <3>4
  <2> QED  BY <2>1, SameCheckouts
<1>4. ASSUME NEW d \in Desks, Looking(d) \/ CancelPlan(d) \/ UpdatePlan(d)
      PROVE  Kept
  <2>1. UNCHANGED <<checkout, job, edit>>
    BY <1>4, LookingGood DEF CancelPlan, UpdatePlan, invoiceVars
  <2> QED  BY <2>1, SameCheckouts
<1> QED  BY <1>1, <1>2, <1>3, <1>4, NextIs

LEMMA CopiesStep ==
  ASSUME Good, CopiesOK, Next
  PROVE  CopiesOK'
BY PlanLeavesCopies, InvoiceCopies, CopiesKept

-----------------------------------------------------------------------------
(* Who owes what.  While no write rests on an old read, no invoice was     *)
(* cancelled and no edit asked for less than was collected, the wallet     *)
(* owes the arrears, the invoice and no more, less what was paid and not   *)
(* yet settled.                                                            *)
InvoiceDue == IF invoice.status \in OpenStatus THEN invoice.total - invoice.paid ELSE 0

Sound == ~stale /\ HasSources /\ invoice.status # "cancelled"
           /\ \A d \in Desks : edit[d].pc # "undercut"

Books ==
  /\ -balance = Arrears - drawn.arrears + InvoiceDue - Sum(Paids) + Sum(alloc)
  /\ Sum(alloc) = drawn.invoice + drawn.arrears
  /\ \A i \in Rows : alloc[i] <= inst[i].paid
  /\ invoice.status \in OpenStatus => invoice.paid <= invoice.total
  /\ plan.status = "cancelled" => Sum(alloc) = Sum(Paids)

(* A covered invoice waits for what the plan has not yet drawn for it; one *)
(* that the plan has released was paid by it.                              *)
Coverage ==
  /\ invoice.covered =>
       /\ plan.status \in {"active", "completed"} /\ invoice.status \in OpenStatus
       /\ plan.cover > drawn.invoice
       /\ invoice.total - invoice.paid = plan.cover - drawn.invoice
  /\ plan.status \in {"active", "completed"} /\ plan.cover > 0 /\ ~invoice.covered =>
       drawn.invoice = plan.cover /\ invoice.status = "paid"

(* A plan asks for the rest of its invoice, and one over the balance for   *)
(* the arrears too.                                                        *)
Asks ==
  plan.status # "none" =>
    /\ plan.total = plan.cover + plan.arrears
    /\ plan.kind = "adhoc" => plan.arrears = 0 /\ plan.cover > 0
    /\ plan.kind = "balance" => plan.arrears = Arrears

DebtsOK == Sound => Books /\ Coverage /\ Asks

LEMMA DebtTypes ==
  ASSUME Good
  PROVE  /\ balance \in Int /\ Arrears \in Nat /\ invoice \in InvoiceRow
         /\ drawn.invoice \in Nat /\ drawn.arrears \in Nat
         /\ drawn.invoice <= plan.cover /\ drawn.arrears <= plan.arrears
         /\ plan.cover \in Nat /\ plan.arrears \in Nat /\ plan.total \in Nat
         /\ invoice.total \in Nat /\ invoice.paid \in Nat /\ InvoiceDue \in Int
         /\ Sum(Paids) \in Nat /\ Sum(alloc) \in Nat
         /\ alloc \in [Rows -> Nat] /\ inst \in [Rows -> Row]
         /\ \A i \in Rows : inst[i].paid \in Nat /\ alloc[i] \in Nat
<1>1. /\ invoice \in InvoiceRow /\ balance \in Int /\ drawn \in Drawn
      /\ plan \in PlanRow /\ alloc \in [Rows -> Nat] /\ inst \in [Rows -> Row]
  BY DEF Good, TypeOK, InvoiceTypeOK
<1>2. invoice.total \in Nat /\ invoice.paid \in Nat  BY <1>1 DEF InvoiceRow
<1>3. InvoiceDue \in Int  BY <1>2 DEF InvoiceDue
<1>4. drawn.invoice <= plan.cover /\ drawn.arrears <= plan.arrears  BY DEF Good, Shape
<1>5. drawn.invoice \in Nat /\ drawn.arrears \in Nat  BY <1>1 DEF Drawn
<1>6. plan.cover \in Nat /\ plan.arrears \in Nat /\ plan.total \in Nat  BY <1>1 DEF PlanRow
<1>7. \A i \in Rows : inst[i].paid \in Nat /\ alloc[i] \in Nat  BY <1>1 DEF Row
<1>8. Sum(Paids) \in Nat /\ Sum(alloc) \in Nat  BY TablesType
<1> QED  BY <1>1, <1>2, <1>3, <1>4, <1>5, <1>6, <1>7, <1>8, DebtAssumption

LEMMA SamePaids ==
  ASSUME UNCHANGED inst
  PROVE  Paids' = Paids /\ Sum(Paids)' = Sum(Paids)
BY DEF Paids, Sum, Entries

(* A step that leaves the debt's records alone.                            *)
LEMMA DebtsKept ==
  ASSUME DebtsOK, stale => stale', UNCHANGED <<invoice, balance, edit, plan, inst, alloc, drawn>>
  PROVE  DebtsOK'
<1> SUFFICES ASSUME Sound' PROVE Books' /\ Coverage' /\ Asks'
  BY DEF DebtsOK
<1>1. Sound  BY DEF Sound, HasSources
<1>2. Sum(Paids)' = Sum(Paids) /\ InvoiceDue' = InvoiceDue /\ Sum(alloc)' = Sum(alloc)
  BY SamePaids DEF InvoiceDue, Sum, Entries
<1>3. Books /\ Coverage /\ Asks  BY <1>1 DEF DebtsOK
<1> QED  BY <1>2, <1>3 DEF Books, Coverage, Asks

(* A write of the link: what the wallet and the invoice move by agrees,    *)
(* and a covered invoice is left alone.                                    *)
LEMMA LinkWrites ==
  ASSUME Good, Good', Books, Coverage, Asks, UNCHANGED planVars,
         invoice.covered => UNCHANGED invoice,
         invoice'.covered = invoice.covered,
         -balance' = -balance + (InvoiceDue' - InvoiceDue),
         invoice'.status \in OpenStatus => invoice'.paid <= invoice'.total,
         invoice.status = "paid" => UNCHANGED invoice
  PROVE  Books' /\ Coverage' /\ Asks'
<1>1. UNCHANGED <<plan, inst, alloc, drawn>>  BY DEF planVars
<1>2. Sum(Paids)' = Sum(Paids) /\ Sum(alloc)' = Sum(alloc)
  BY <1>1, SamePaids DEF Sum, Entries
<1>3. Books'
  <2>1. -balance' = Arrears - drawn.arrears + InvoiceDue' - Sum(Paids) + Sum(alloc)
    <3>1. -balance = Arrears - drawn.arrears + InvoiceDue - Sum(Paids) + Sum(alloc)
      BY DEF Books
    <3>2. balance' \in Int /\ InvoiceDue' \in Int
      <4>1. invoice' \in InvoiceRow /\ balance' \in Int  BY DEF Good, TypeOK, InvoiceTypeOK
      <4>2. invoice'.total \in Nat /\ invoice'.paid \in Nat  BY <4>1 DEF InvoiceRow
      <4> QED  BY <4>1, <4>2 DEF InvoiceDue
    <3>3. balance \in Int /\ InvoiceDue \in Int  BY DebtTypes
    <3>4. Arrears \in Nat /\ drawn.arrears \in Nat /\ Sum(Paids) \in Nat /\ Sum(alloc) \in Nat
      BY DebtTypes
    <3> QED  BY <3>1, <3>2, <3>3, <3>4
  <2> QED  BY <1>1, <1>2, <2>1 DEF Books
<1>4. Coverage'  BY <1>1 DEF Coverage
<1> QED  BY <1>1, <1>3, <1>4 DEF Asks

LEMMA InvoiceDebts ==
  ASSUME Good, CopiesOK, DebtsOK, InvoiceNext, UNCHANGED planVars
  PROVE  DebtsOK'
<1> SUFFICES ASSUME Sound' PROVE Books' /\ Coverage' /\ Asks'
  BY DEF DebtsOK
<1> DEFINE Goal == Books' /\ Coverage' /\ Asks'
<1>1. Good'  BY InvoiceGood
<1>2. /\ invoice \in InvoiceRow /\ balance \in Int
      /\ invoice.total \in Nat /\ invoice.paid \in Nat
      /\ edit \in [Desks -> [pc : {"idle", "editing", "cancelling"} \cup Written, copy : InvoiceRow]]
      /\ job \in [Jobs -> [pc : {"idle", "accepted"} \cup Ended, copy : InvoiceRow]]
  BY DebtTypes DEF Good, TypeOK, InvoiceTypeOK
<1>3. ~stale /\ HasSources /\ ~stale'
  <2>1. stale => stale'
    BY DEF InvoiceNext, CreateInvoice, InitializePublicPayment, GatewayTakes, VerifyTurnsAway,
       SetAside, Accept, ClaimInvoice, ClaimLost, OpenInvoice, UpdateInvoice, CancelInvoice
  <2>2. ~stale' /\ HasSources'  BY DEF Sound
  <2>3. plan' = plan  BY DEF planVars
  <2> QED  BY <2>1, <2>2, <2>3 DEF HasSources
<1>4. ASSUME invoice.status # "cancelled", \A d \in Desks : edit[d].pc # "undercut"
      PROVE  Books /\ Coverage /\ Asks
  BY <1>3, <1>4 DEF DebtsOK, Sound
<1>5. ASSUME UNCHANGED <<invoice, balance, edit>>  PROVE Goal
  <2>1. UNCHANGED <<plan, inst, alloc, drawn>>  BY DEF planVars
  <2>2. DebtsOK'  BY <1>3, <1>5, <2>1, DebtsKept
  <2> QED  BY <2>2 DEF DebtsOK
<1>6. CASE CreateInvoice
  <2>1. /\ UNCHANGED edit /\ invoice.status = "none" /\ balance' = balance - Bill
        /\ invoice' = [NoInvoice EXCEPT !.status = "pending", !.total = Bill, !.covered = FALSE]
    BY <1>6 DEF CreateInvoice, Billed
  <2>2. invoice'.status = "pending" /\ invoice'.total = Bill /\ invoice'.paid = 0 /\ ~invoice'.covered
    BY <2>1 DEF NoInvoice
  <2>3. Books /\ Coverage /\ Asks  BY <1>4, <2>1 DEF Sound
  <2>4. ~invoice.covered  BY <2>1, <2>3 DEF Coverage, OpenStatus
  <2>5. InvoiceDue = 0 /\ InvoiceDue' = Bill /\ Bill \in Nat
    BY <2>1, <2>2, BillAssumption DEF InvoiceDue, OpenStatus
  <2>6. -balance' = -balance + (InvoiceDue' - InvoiceDue)  BY <1>2, <2>1, <2>5
  <2>7. invoice'.status \in OpenStatus => invoice'.paid <= invoice'.total
    BY <2>2, BillAssumption
  <2>8. /\ invoice.covered => UNCHANGED invoice
        /\ invoice'.covered = invoice.covered
        /\ invoice.status = "paid" => UNCHANGED invoice
    <3>1. invoice.covered \in BOOLEAN /\ invoice'.covered \in BOOLEAN
      BY <1>1, <1>2 DEF Good, TypeOK, InvoiceTypeOK, InvoiceRow
    <3>2. invoice'.covered = invoice.covered  BY <2>2, <2>4, <3>1, Zenon
    <3> QED  BY <2>1, <2>4, <3>2
  <2> QED  BY <1>1, <2>3, <2>6, <2>7, <2>8, LinkWrites
<1>7. ASSUME NEW r \in Refs, InitializePublicPayment(r) \/ GatewayTakes(r)  PROVE Goal
  BY <1>5, <1>7 DEF InitializePublicPayment, GatewayTakes
<1>8. ASSUME NEW j \in Jobs, VerifyTurnsAway(j) \/ SetAside(j) \/ Accept(j) \/ ClaimLost(j)
      PROVE  Goal
  BY <1>5, <1>8 DEF VerifyTurnsAway, SetAside, Accept, ClaimLost
<1>9. ASSUME NEW j \in Jobs, ClaimInvoice(j)  PROVE Goal
  <2> DEFINE n == Least(checkout[RefOf[j]].amount, Due(job[j].copy))
  <2>1. /\ job[j].pc = "accepted" /\ invoice.status \in OpenStatus /\ UNCHANGED edit
        /\ invoice' = [invoice EXCEPT !.status = "paid", !.paid = job[j].copy.total, !.ref = RefOf[j]]
        /\ balance' = balance + n
        /\ stale' = (stale \/ job[j].copy # invoice)
    BY <1>9 DEF ClaimInvoice
  <2>2. job[j].copy = invoice  BY <1>3, <2>1
  <2>3. Books /\ Coverage /\ Asks
    BY <1>4, <2>1 DEF Sound, OpenStatus
  <2>4. ~invoice.covered /\ checkout[RefOf[j]].amount >= Due(invoice)
    BY <2>1, <2>2 DEF CopiesOK
  <2>5. RefOf[j] \in Refs  BY <2>1, JobAssumption DEF Good, Shape
  <2>6. checkout[RefOf[j]].amount \in Nat  BY <2>5 DEF Good, TypeOK, InvoiceTypeOK
  <2>7. Due(invoice) = InvoiceDue /\ InvoiceDue \in Nat
    BY <1>2, <2>1, <2>3 DEF Books, Due, InvoiceDue
  <2>8. n = InvoiceDue  BY <2>2, <2>4, <2>6, <2>7 DEF Least
  <2> HIDE DEF n
  <2>9. invoice'.status = "paid" /\ ~invoice'.covered  BY <1>2, <2>1, <2>4 DEF InvoiceRow
  <2>10. InvoiceDue' = 0  BY <2>9 DEF InvoiceDue, OpenStatus
  <2>11. -balance' = -balance + (InvoiceDue' - InvoiceDue)
    BY <1>2, <2>1, <2>7, <2>8, <2>10
  <2> QED
    BY <1>1, <2>1, <2>3, <2>4, <2>9, <2>11, LinkWrites DEF OpenStatus
<1>10. ASSUME NEW d \in Desks, OpenInvoice(d, "editing") \/ OpenInvoice(d, "cancelling")
       PROVE  Goal
  <2>1. PICK pc \in {"editing", "cancelling"} :
               edit' = [edit EXCEPT ![d] = [pc |-> pc, copy |-> invoice]]
    BY <1>10 DEF OpenInvoice
  <2>2. /\ UNCHANGED <<invoice, balance>> /\ edit[d].pc = "idle"
        /\ \A e \in Desks \ {d} : edit'[e] = edit[e]
    BY <1>2, <1>10, <2>1 DEF OpenInvoice
  <2>3. \A e \in Desks : edit[e].pc # "undercut"  BY <2>2 DEF Sound
  <2>4. Books /\ Coverage /\ Asks  BY <1>4, <2>2, <2>3 DEF Sound
  <2>5. InvoiceDue' = InvoiceDue  BY <2>2 DEF InvoiceDue
  <2>6. -balance' = -balance + (InvoiceDue' - InvoiceDue)  BY <2>2, <2>5, DebtTypes
  <2> QED  BY <1>1, <2>2, <2>4, <2>6, LinkWrites DEF Books
<1>11. ASSUME NEW d \in Desks, NEW total \in Rebills, UpdateInvoice(d, total)  PROVE Goal
  <2> DEFINE pc == IF total < invoice.paid THEN "undercut" ELSE "done"
             new == [pc |-> pc, copy |-> NoInvoice]
  <2>1. /\ edit[d].pc = "editing" /\ invoice' = [invoice EXCEPT !.total = total]
        /\ balance' = balance - (total - edit[d].copy.total)
        /\ stale' = (stale \/ edit[d].copy # invoice)
        /\ edit' = [edit EXCEPT ![d] = new]
    BY <1>11 DEF UpdateInvoice
  <2>2. edit[d].copy = invoice  BY <1>3, <2>1
  <2>3. invoice.status \in OpenStatus /\ ~invoice.covered  BY <2>1, <2>2 DEF CopiesOK
  <2>4. new.pc = pc  OBVIOUS
  <2> HIDE DEF new
  <2>5. edit'[d].pc = pc /\ \A e \in Desks \ {d} : edit'[e] = edit[e]  BY <1>2, <2>1, <2>4
  <2>6. pc # "undercut"  BY <2>5 DEF Sound
  <2>7. total \in Nat /\ invoice.paid <= total  BY <1>2, <2>6, BillAssumption
  <2>8. \A e \in Desks : edit[e].pc # "undercut"  BY <2>1, <2>5 DEF Sound
  <2>9. Books /\ Coverage /\ Asks  BY <1>4, <2>3, <2>8 DEF OpenStatus
  <2>10. /\ invoice'.status = invoice.status /\ invoice'.total = total
         /\ invoice'.paid = invoice.paid /\ invoice'.covered = invoice.covered
    BY <1>2, <2>1 DEF InvoiceRow
  <2>11. InvoiceDue' = total - invoice.paid /\ InvoiceDue = invoice.total - invoice.paid
    BY <2>3, <2>10 DEF InvoiceDue
  <2>12. -balance' = -balance + (InvoiceDue' - InvoiceDue)
    BY <1>2, <2>1, <2>2, <2>7, <2>11
  <2> QED
    BY <1>1, <2>3, <2>7, <2>9, <2>10, <2>12, LinkWrites DEF OpenStatus
<1>12. ASSUME NEW d \in Desks, CancelInvoice(d)  PROVE Goal
  <2>1. invoice'.status = "cancelled"  BY <1>2, <1>12 DEF CancelInvoice, InvoiceRow
  <2> QED  BY <2>1 DEF Sound
<1> QED
  BY <1>6, <1>7, <1>8, <1>9, <1>10, <1>11, <1>12 DEF InvoiceNext

LEMMA NoPlanDebts ==
  ASSUME Good, plan.status = "none"
  PROVE  /\ Sum(alloc) = 0 /\ Sum(Paids) = 0 /\ drawn.invoice = 0 /\ drawn.arrears = 0
         /\ plan.kind = "adhoc" /\ \A i \in Rows : alloc[i] = 0
<1>1. plan = NoPlan /\ inst = NoSchedule /\ alloc = [i \in Rows |-> 0]  BY DEF Good, Shape
<1>2. \A i \in Rows : alloc[i] = 0 /\ Paids[i] = 0  BY <1>1 DEF Paids, NoSchedule, NoRow
<1>3. Sum(alloc) = 0 /\ Sum(Paids) = 0
  <2>1. alloc \in [Rows -> Nat] /\ Paids \in [Rows -> Nat]  BY TablesType
  <2> QED  BY <1>2, <2>1, SumNone
<1>4. plan.cover = 0 /\ plan.arrears = 0 /\ plan.kind = "adhoc"  BY <1>1 DEF NoPlan
<1> QED  BY <1>2, <1>3, <1>4, DebtTypes

(* A new plan over what the wallet owes.                                   *)
LEMMA NewDebts ==
  ASSUME Good, Good', NEW kind \in {"adhoc", "balance"}, NEW s \in [Rows -> Nat],
         NEW cover \in Nat, NEW arrears \in Nat, NewPlan(kind, s, cover, arrears),
         Sum(s) = cover + arrears,
         kind = "adhoc" => arrears = 0 /\ cover > 0,
         kind = "balance" => arrears = Arrears,
         -balance' = Arrears + InvoiceDue',
         invoice'.status \in OpenStatus => invoice'.paid <= invoice'.total,
         invoice'.covered <=> cover > 0,
         cover > 0 => invoice'.status \in OpenStatus /\ invoice'.total - invoice'.paid = cover
  PROVE  Books' /\ Coverage' /\ Asks'
<1>1. /\ plan.status = "none" /\ plan'.status = "active" /\ plan'.kind = kind
      /\ plan'.total = Sum(s) /\ plan'.cover = cover /\ plan'.arrears = arrears
      /\ \A i \in Rows : inst'[i].paid = 0
      /\ UNCHANGED <<alloc, drawn>>
  BY NewPlanRows
<1>2. /\ Sum(alloc) = 0 /\ drawn.invoice = 0 /\ drawn.arrears = 0
      /\ \A i \in Rows : alloc[i] = 0
  BY <1>1, NoPlanDebts
<1>3. Sum(Paids') = 0
  <2>1. Paids' = [i \in Rows |-> inst'[i].paid]  BY DEF Paids
  <2>2. \A i \in Rows : Paids'[i] = 0  BY <1>1, <2>1
  <2>3. Paids' \in [Rows -> Nat]  BY <2>1, <2>2
  <2> HIDE DEF Paids
  <2> QED  BY <2>2, <2>3, SumNone
<1>4. Sum(Paids)' = Sum(Paids') /\ Sum(alloc)' = Sum(alloc)  BY <1>1 DEF Sum, Entries
<1>5. InvoiceDue' \in Int
  <2>1. invoice' \in InvoiceRow  BY DEF Good, TypeOK, InvoiceTypeOK
  <2>2. invoice'.total \in Nat /\ invoice'.paid \in Nat  BY <2>1 DEF InvoiceRow
  <2> QED  BY <2>2 DEF InvoiceDue
<1>6. Books'
  <2>1. -balance' = Arrears - drawn'.arrears + InvoiceDue' - Sum(Paids)' + Sum(alloc)'
    BY <1>1, <1>2, <1>3, <1>4, <1>5, DebtAssumption
  <2>2. Sum(alloc)' = drawn'.invoice + drawn'.arrears  BY <1>1, <1>2, <1>4
  <2>3. \A i \in Rows : alloc'[i] <= inst'[i].paid  BY <1>1, <1>2
  <2> QED  BY <1>1, <2>1, <2>2, <2>3 DEF Books
<1>7. Coverage'  BY <1>1, <1>2 DEF Coverage
<1>8. Asks'  BY <1>1 DEF Asks
<1> QED  BY <1>6, <1>7, <1>8

LEMMA CreationDebts ==
  ASSUME Good, DebtsOK, Creation
  PROVE  DebtsOK'
<1> SUFFICES ASSUME Sound' PROVE Books' /\ Coverage' /\ Asks'
  BY DEF DebtsOK
<1> DEFINE Goal == Books' /\ Coverage' /\ Asks'
<1>1. Good'  BY CreationGood
<1>2. plan.status = "none"  BY CreatingRows
<1>3. /\ Sum(alloc) = 0 /\ Sum(Paids) = 0 /\ drawn.invoice = 0 /\ drawn.arrears = 0
      /\ plan.kind = "adhoc"
  BY <1>2, NoPlanDebts
<1>4. /\ invoice \in InvoiceRow /\ balance \in Int /\ InvoiceDue \in Int /\ Arrears \in Nat
      /\ invoice.total \in Nat /\ invoice.paid \in Nat
  BY DebtTypes
<1>5. ASSUME ~stale, invoice.status # "cancelled", UNCHANGED edit
      PROVE  /\ -balance = Arrears + InvoiceDue /\ ~invoice.covered
             /\ invoice.status \in OpenStatus => invoice.paid <= invoice.total
  <2>1. Sound  BY <1>3, <1>5 DEF Sound, HasSources
  <2>2. Books /\ Coverage  BY <2>1 DEF DebtsOK
  <2>3. ~invoice.covered  BY <1>2, <2>2 DEF Coverage
  <2>4. -balance = Arrears - drawn.arrears + InvoiceDue - Sum(Paids) + Sum(alloc)
    BY <2>2 DEF Books
  <2>5. -balance = Arrears + InvoiceDue  BY <1>3, <1>4, <2>4
  <2> QED  BY <2>2, <2>3, <2>5 DEF Books
<1>6. CASE CreateAdHocInvoicePlan
  <2>1. PICK s \in Schedules(Due(invoice)) : NewPlan("adhoc", s, Due(invoice), 0)
    BY <1>6 DEF CreateAdHocInvoicePlan
  <2>2. /\ invoice.status \in OpenStatus /\ Due(invoice) > 0
        /\ invoice' = [invoice EXCEPT !.covered = TRUE]
        /\ UNCHANGED <<balance, edit, stale>>
    BY <1>6 DEF CreateAdHocInvoicePlan
  <2>3. /\ invoice'.covered /\ invoice'.status = invoice.status
        /\ invoice'.total = invoice.total /\ invoice'.paid = invoice.paid
    BY <1>4, <2>2 DEF InvoiceRow
  <2>4. /\ -balance = Arrears + InvoiceDue /\ invoice.paid <= invoice.total
    BY <1>5, <2>2 DEF Sound, OpenStatus
  <2>5. InvoiceDue' = InvoiceDue /\ Due(invoice) = invoice.total - invoice.paid
        /\ Due(invoice) \in Nat
    BY <1>4, <2>2, <2>3, <2>4 DEF InvoiceDue, Due
  <2>6. s \in [Rows -> Nat] /\ Sum(s) = Due(invoice)  BY <2>1, <2>5, ScheduleTotal
  <2> QED
    BY <1>1, <2>1, <2>2, <2>3, <2>4, <2>5, <2>6, NewDebts
<1>7. CASE CreateNewChargePlan
  <2>1. PICK s \in Schedules(Bill) : NewPlan("adhoc", s, Bill, 0)
    BY <1>7 DEF CreateNewChargePlan
  <2>2. /\ invoice.status = "none" /\ balance' = balance - Bill /\ Bill > 0 /\ Bill \in Nat
        /\ invoice' = [NoInvoice EXCEPT !.status = "pending", !.total = Bill, !.covered = TRUE]
        /\ UNCHANGED <<edit, stale>>
    BY <1>7, BillAssumption DEF CreateNewChargePlan, Billed
  <2>3. /\ invoice'.covered /\ invoice'.status = "pending"
        /\ invoice'.total = Bill /\ invoice'.paid = 0
    BY <2>2 DEF NoInvoice
  <2>4. -balance = Arrears + InvoiceDue  BY <1>5, <2>2 DEF Sound
  <2>5. InvoiceDue = 0 /\ InvoiceDue' = Bill
    BY <2>2, <2>3 DEF InvoiceDue, OpenStatus
  <2>6. -balance' = Arrears + InvoiceDue'  BY <1>4, <2>2, <2>4, <2>5
  <2>7. s \in [Rows -> Nat] /\ Sum(s) = Bill  BY <2>1, <2>2, ScheduleTotal
  <2> QED
    BY <1>1, <2>1, <2>2, <2>3, <2>6, <2>7, NewDebts DEF OpenStatus
<1>8. ASSUME NEW d \in Desks, CreateOutstandingBalancePlan(d)  PROVE Goal
  <2> DEFINE owed == -change[d].wallet
             free == invoice.status \in OpenStatus /\ ~invoice.covered
             cover == IF free THEN Least(Due(invoice), owed) ELSE 0
  <2>1. PICK s \in Schedules(owed) : NewPlan("balance", s, cover, owed - cover)
    BY <1>8 DEF CreateOutstandingBalancePlan
  <2>2. /\ invoice' = [invoice EXCEPT !.covered = invoice.covered \/ cover > 0]
        /\ stale' = (stale \/ change[d].wallet # balance)
        /\ UNCHANGED <<balance, edit>>
    BY <1>8 DEF CreateOutstandingBalancePlan
  <2>3. ~stale /\ change[d].wallet = balance  BY <2>2 DEF Sound
  <2>4. /\ invoice'.status = invoice.status /\ invoice'.total = invoice.total
        /\ invoice'.paid = invoice.paid
    BY <1>4, <2>2 DEF InvoiceRow
  <2>5. /\ -balance = Arrears + InvoiceDue /\ ~invoice.covered
        /\ invoice.status \in OpenStatus => invoice.paid <= invoice.total
    BY <1>5, <2>2, <2>3, <2>4 DEF Sound
  <2>6. cover = InvoiceDue /\ cover \in Nat
    <3>1. CASE invoice.status \in OpenStatus
      <4>1. Due(invoice) = InvoiceDue /\ InvoiceDue \in Nat
        BY <1>4, <2>5, <3>1 DEF Due, InvoiceDue
      <4>2. owed = Arrears + InvoiceDue  BY <2>3, <2>5
      <4>3. cover = Least(Due(invoice), owed)  BY <2>5, <3>1
      <4> QED  BY <1>4, <4>1, <4>2, <4>3 DEF Least
    <3>2. CASE invoice.status \notin OpenStatus
      BY <3>2 DEF InvoiceDue
    <3> QED  BY <3>1, <3>2
  <2>7. InvoiceDue' = InvoiceDue  BY <2>4 DEF InvoiceDue
  <2>8. owed = Arrears + cover /\ owed \in Nat
    <3>1. owed = Arrears + InvoiceDue  BY <2>3, <2>5
    <3> HIDE DEF owed, cover
    <3> QED  BY <1>4, <2>6, <3>1
  <2>9. s \in [Rows -> Nat] /\ Sum(s) = owed
    <3> HIDE DEF owed
    <3> QED  BY <2>1, <2>8, ScheduleTotal
  <2>10. cover > 0 => invoice.status \in OpenStatus /\ invoice.total - invoice.paid = cover
    <3> HIDE DEF cover
    <3> QED  BY <2>6 DEF InvoiceDue
  <2>11. invoice'.covered = (invoice.covered \/ cover > 0)
    <3> HIDE DEF cover
    <3> QED  BY <1>4, <2>2 DEF InvoiceRow
  <2> HIDE DEF cover, owed
  <2>12. owed - cover = Arrears  BY <1>4, <2>6, <2>8
  <2>13. NewPlan("balance", s, cover, Arrears)  BY <2>1, <2>12
  <2>14. -balance' = Arrears + InvoiceDue'  BY <2>2, <2>5, <2>7
  <2>15. Sum(s) = cover + Arrears  BY <1>4, <2>6, <2>8, <2>9
  <2>16. invoice'.covered <=> cover > 0  BY <2>5, <2>11
  <2>17. /\ invoice'.status \in OpenStatus => invoice'.paid <= invoice'.total
         /\ cover > 0 => invoice'.status \in OpenStatus /\ invoice'.total - invoice'.paid = cover
    BY <2>4, <2>5, <2>10
  <2>18. "balance" # "adhoc" /\ "balance" \in {"adhoc", "balance"}  OBVIOUS
  <2>19. s \in [Rows -> Nat] /\ cover \in Nat /\ Arrears \in Nat  BY <1>4, <2>6, <2>9
  <2> QED
    BY <1>1, <2>13, <2>14, <2>15, <2>16, <2>17, <2>18, <2>19, NewDebts
<1>9. CASE CreateFeePlan \/ CreateTenancyPlan
  <2>1. PICK kind \in {"fee", "tenancy"}, s \in Schedules(renewal.fee) : NewPlan(kind, s, 0, 0)
    BY <1>9 DEF CreateFeePlan, CreateTenancyPlan
  <2>2. plan'.kind = kind  BY <2>1 DEF NewPlan
  <2> QED  BY <2>2 DEF Sound, HasSources
<1> QED  BY <1>6, <1>7, <1>8, <1>9 DEF Creation

LEMMA CommitDebts ==
  ASSUME Good, Claims, RowsOK, DebtsOK, NEW j \in Jobs, Commit(j)
  PROVE  DebtsOK'
<1> SUFFICES ASSUME Sound' PROVE Books' /\ Coverage' /\ Asks'
  BY DEF DebtsOK
<1> DEFINE i == till[j].row
           n == till[j].amount
<1>1. /\ i \in Rows /\ n \in Nat
      /\ \A k \in Rows \ {i} : inst'[k] = inst[k]
      /\ inst'[i].paid = inst[i].paid + n
      /\ plan' = IF till[j].last THEN [plan EXCEPT !.status = "completed"] ELSE plan
      /\ balance' = IF WalletBacked THEN balance + n ELSE balance
      /\ UNCHANGED <<invoice, edit, alloc, drawn>>
  BY Committing
<1>2. /\ ~stale /\ plan.status = "active" /\ Paids' = [Paids EXCEPT ![i] = inst[i].paid + n]
  BY CommitRows DEF Sound
<1> HIDE DEF i, n
<1>3. /\ plan'.kind = plan.kind /\ plan'.total = plan.total /\ plan'.cover = plan.cover
      /\ plan'.arrears = plan.arrears /\ plan'.status \in {"active", "completed"}
  BY <1>1, <1>2, CommitPlan
<1>4. Sound  BY <1>1, <1>2, <1>3 DEF Sound, HasSources
<1>5. Books /\ Coverage /\ Asks  BY <1>4 DEF DebtsOK
<1>6. balance' = balance + n  BY <1>1, <1>4 DEF Sound, HasSources, WalletBacked
<1>7. Sum(Paids)' = Sum(Paids') /\ Sum(Paids') = Sum(Paids) + n
  BY <1>1, <1>2, SumPaidsRaise
<1>8. InvoiceDue' = InvoiceDue /\ Sum(alloc)' = Sum(alloc)
  BY <1>1 DEF InvoiceDue, Sum, Entries
<1>9. Books'
  <2>1. -balance' = Arrears - drawn'.arrears + InvoiceDue' - Sum(Paids)' + Sum(alloc)'
    <3>1. -balance = Arrears - drawn.arrears + InvoiceDue - Sum(Paids) + Sum(alloc)
      BY <1>5 DEF Books
    <3> QED  BY <1>1, <1>6, <1>7, <1>8, <3>1, DebtTypes
  <2>2. \A k \in Rows : alloc'[k] <= inst'[k].paid
    <3>1. \A k \in Rows : alloc[k] <= inst[k].paid  BY <1>5 DEF Books
    <3> QED  BY <1>1, <3>1, DebtTypes
  <2> QED  BY <1>1, <1>3, <1>5, <1>8, <2>1, <2>2 DEF Books
<1>10. Coverage'  BY <1>1, <1>2, <1>3, <1>5 DEF Coverage
<1>11. Asks'  BY <1>2, <1>3, <1>5 DEF Asks
<1> QED  BY <1>9, <1>10, <1>11

LEMMA SumRaiseAlloc ==
  ASSUME Good, NEW i \in Rows, NEW n \in Nat, alloc' = [alloc EXCEPT ![i] = alloc[i] + n]
  PROVE  Sum(alloc)' = Sum(alloc) + n
<1> DEFINE f == alloc
           g == alloc'
           one == [k \in Rows |-> IF k = i THEN n ELSE 0]
<1>1. f \in [Rows -> Nat]  BY TablesType
<1>2. g = [f EXCEPT ![i] = f[i] + n]  OBVIOUS
<1>3. one \in [Rows -> Nat] /\ Sum(one) = n  BY SumOne
<1>4. \A k \in Rows : one[k] = IF k = i THEN n ELSE 0  OBVIOUS
<1>5. Sum(alloc)' = Sum(alloc')  OBVIOUS
<1> HIDE DEF f, g, one
<1>6. g \in [Rows -> Nat] /\ \A k \in Rows : g[k] = f[k] + one[k]  BY <1>1, <1>2, <1>4
<1>7. Sum(g) = Sum(f) + Sum(one)  BY <1>1, <1>3, <1>6, RowsPlus
<1> QED  BY <1>3, <1>5, <1>7 DEF f, g

(* What a settlement takes off the invoice it books on the plan.           *)
LEMMA SettleDebts ==
  ASSUME Good, DebtsOK, NEW j \in Jobs, SettleSources(j)
  PROVE  DebtsOK'
<1> SUFFICES ASSUME Sound' PROVE Books' /\ Coverage' /\ Asks'
  BY DEF DebtsOK
<1> DEFINE i == till[j].row
<1>1. /\ i \in Rows /\ UNCHANGED <<balance, edit, stale, plan, inst>>
      /\ \/ UNCHANGED <<alloc, drawn, invoice>>
         \/ \E x \in Nat, y \in Nat :
              /\ x = Least(inst[i].paid - alloc[i], plan.cover - drawn.invoice)
              /\ y = Least(inst[i].paid - alloc[i] - x, plan.arrears - drawn.arrears)
              /\ x + y <= inst[i].paid - alloc[i] /\ plan.status # "none"
              /\ drawn.invoice + x <= plan.cover /\ drawn.arrears + y <= plan.arrears
              /\ alloc' = [alloc EXCEPT ![i] = alloc[i] + x + y]
              /\ drawn' = [invoice |-> drawn.invoice + x, arrears |-> drawn.arrears + y]
              /\ invoice' = SettledInvoice(x, plan.cover - drawn.invoice - x)
  BY Settling
<1> HIDE DEF i
<1>2. CASE UNCHANGED <<alloc, drawn, invoice>>
  <2>1. DebtsOK'  BY <1>1, <1>2, DebtsKept
  <2> QED  BY <2>1 DEF DebtsOK
<1>3. CASE ~UNCHANGED <<alloc, drawn, invoice>>
  <2>1. PICK x \in Nat, y \in Nat :
              /\ x + y <= inst[i].paid - alloc[i] /\ plan.status # "none"
              /\ drawn.invoice + x <= plan.cover /\ drawn.arrears + y <= plan.arrears
              /\ alloc' = [alloc EXCEPT ![i] = alloc[i] + x + y]
              /\ drawn' = [invoice |-> drawn.invoice + x, arrears |-> drawn.arrears + y]
              /\ invoice' = SettledInvoice(x, plan.cover - drawn.invoice - x)
    BY <1>1, <1>3
  <2>2. /\ invoice \in InvoiceRow /\ invoice.total \in Nat /\ invoice.paid \in Nat
        /\ inst[i].paid \in Nat /\ alloc[i] \in Nat /\ alloc \in [Rows -> Nat]
        /\ drawn.invoice \in Nat /\ drawn.arrears \in Nat /\ plan.cover \in Nat
        /\ balance \in Int /\ Arrears \in Nat /\ Sum(Paids) \in Nat /\ Sum(alloc) \in Nat
        /\ InvoiceDue \in Int
    BY <1>1, DebtTypes
  <2>3. drawn'.invoice = drawn.invoice + x /\ drawn'.arrears = drawn.arrears + y  BY <2>1
  <2>4. invoice.status \notin OpenStatus => invoice' = invoice
    BY <2>1, <2>2, SettledInvoiceType
  <2>5. Sound
    <3>1. invoice.status # "cancelled"  BY <2>4 DEF Sound, OpenStatus
    <3> QED  BY <1>1, <3>1 DEF Sound, HasSources
  <2>6. Books /\ Coverage /\ Asks  BY <2>5 DEF DebtsOK
  <2>7. /\ -balance = Arrears - drawn.arrears + InvoiceDue - Sum(Paids) + Sum(alloc)
        /\ Sum(alloc) = drawn.invoice + drawn.arrears
        /\ \A k \in Rows : alloc[k] <= inst[k].paid
    BY <2>6 DEF Books
  <2>8. plan.status = "cancelled" => x + y = 0
    <3>1. SUFFICES ASSUME plan.status = "cancelled" PROVE x + y = 0  OBVIOUS
    <3>2. Sum(alloc) = Sum(Paids)  BY <2>6, <3>1 DEF Books
    <3>3. Paids \in [Rows -> Nat] /\ \A k \in Rows : alloc[k] <= Paids[k]
      BY <2>7, TablesType DEF Paids
    <3>4. alloc[i] = Paids[i]  BY <1>1, <2>2, <3>2, <3>3, RowsBelow
    <3> QED  BY <1>1, <2>1, <2>2, <3>4 DEF Paids
  <2>9. x > 0 => /\ plan.status \in {"active", "completed"} /\ invoice.covered
                 /\ invoice.status \in OpenStatus
                 /\ invoice.total - invoice.paid = plan.cover - drawn.invoice
    <3>1. SUFFICES ASSUME x > 0
                   PROVE  /\ plan.status \in {"active", "completed"} /\ invoice.covered
                          /\ invoice.status \in OpenStatus
                          /\ invoice.total - invoice.paid = plan.cover - drawn.invoice
      OBVIOUS
    <3>2. plan.status \in {"active", "completed"}
      BY <2>1, <2>8, <3>1 DEF Good, TypeOK, PlanRow
    <3>3. plan.cover > 0 /\ drawn.invoice # plan.cover  BY <2>1, <2>2, <3>1
    <3>4. invoice.covered  BY <2>6, <3>2, <3>3 DEF Coverage
    <3> QED  BY <2>6, <3>2, <3>4 DEF Coverage
  <2>10. /\ InvoiceDue' = InvoiceDue - x /\ Coverage'
         /\ invoice'.status \in OpenStatus => invoice'.paid <= invoice'.total
    <3> DEFINE left == plan.cover - drawn.invoice - x
    <3>1. CASE x = 0
      <4>1. invoice' = invoice  BY <2>1, <3>1 DEF SettledInvoice
      <4>2. InvoiceDue' = InvoiceDue - x  BY <2>2, <3>1, <4>1 DEF InvoiceDue
      <4>3. drawn'.invoice = drawn.invoice  BY <2>2, <2>3, <3>1
      <4>4. Coverage'  BY <1>1, <2>6, <4>1, <4>3 DEF Coverage
      <4> QED  BY <2>6, <4>1, <4>2, <4>4 DEF Books
    <3>2. CASE x > 0 /\ left = 0
      <4>1. invoice' = [invoice EXCEPT !.status = "paid", !.paid = invoice.total, !.covered = FALSE]
        BY <2>1, <2>9, <3>2 DEF SettledInvoice
      <4>2. invoice'.status = "paid" /\ ~invoice'.covered  BY <2>2, <4>1 DEF InvoiceRow
      <4>3. InvoiceDue = x  BY <2>1, <2>2, <2>9, <3>2 DEF InvoiceDue
      <4>4. InvoiceDue' = 0 /\ invoice'.status \notin OpenStatus
        BY <4>2 DEF InvoiceDue, OpenStatus
      <4>5. drawn'.invoice = plan.cover  BY <2>1, <2>2, <2>3, <3>2
      <4>6. Coverage'  BY <1>1, <4>2, <4>5 DEF Coverage
      <4> QED  BY <2>2, <4>3, <4>4, <4>6
    <3>3. CASE x > 0 /\ left # 0
      <4>1. invoice.paid + x <= invoice.total  BY <2>1, <2>2, <2>9, <3>3
      <4>2. Least(invoice.total, invoice.paid + x) = invoice.paid + x
        BY <2>2, <4>1 DEF Least
      <4>3. invoice' = [invoice EXCEPT !.status = "partial", !.paid = invoice.paid + x]
        <5>1. x # 0 /\ invoice.status \in OpenStatus /\ left # 0  BY <2>9, <3>3
        <5> HIDE DEF left
        <5>2. SettledInvoice(x, left) =
                [invoice EXCEPT !.status = "partial", !.paid = Least(invoice.total, invoice.paid + x)]
          BY <5>1 DEF SettledInvoice
        <5>3. invoice' = SettledInvoice(x, left)  BY <2>1 DEF left
        <5> QED  BY <4>2, <5>2, <5>3
      <4>4. /\ invoice'.status = "partial" /\ invoice'.covered = invoice.covered
            /\ invoice'.total = invoice.total /\ invoice'.paid = invoice.paid + x
        BY <2>2, <4>3 DEF InvoiceRow
      <4>5. InvoiceDue = invoice.total - invoice.paid /\ InvoiceDue' = invoice.total - (invoice.paid + x)
        BY <2>9, <3>3, <4>4 DEF InvoiceDue, OpenStatus
      <4>6. plan.cover > drawn'.invoice
            /\ invoice'.total - invoice'.paid = plan.cover - drawn'.invoice
        BY <2>1, <2>2, <2>3, <2>9, <3>3, <4>4
      <4>7. Coverage'  BY <1>1, <2>9, <3>3, <4>4, <4>6 DEF Coverage, OpenStatus
      <4> QED  BY <2>2, <4>1, <4>4, <4>5, <4>7
    <3> QED  BY <2>2, <3>1, <3>2, <3>3
  <2>11. Books'
    <3>1. Sum(alloc)' = Sum(alloc) + (x + y)
      <4>1. alloc[i] + x + y = alloc[i] + (x + y) /\ x + y \in Nat  BY <2>2
      <4>2. alloc' = [alloc EXCEPT ![i] = alloc[i] + (x + y)]  BY <2>1, <4>1
      <4> QED  BY <1>1, <4>1, <4>2, SumRaiseAlloc
    <3>2. Sum(Paids)' = Sum(Paids)  BY <1>1, SamePaids
    <3>3. -balance' = Arrears - drawn'.arrears + InvoiceDue' - Sum(Paids)' + Sum(alloc)'
      BY <1>1, <2>2, <2>3, <2>7, <2>10, <3>1, <3>2
    <3>4. Sum(alloc)' = drawn'.invoice + drawn'.arrears  BY <2>2, <2>3, <2>7, <3>1
    <3>5. \A k \in Rows : alloc'[k] <= inst'[k].paid
      BY <1>1, <2>1, <2>2, <2>7
    <3>6. plan'.status = "cancelled" => Sum(alloc)' = Sum(Paids)'
      BY <1>1, <2>2, <2>6, <2>8, <3>1, <3>2 DEF Books
    <3> QED  BY <2>10, <3>3, <3>4, <3>5, <3>6 DEF Books
  <2> QED  BY <1>1, <2>6, <2>10, <2>11 DEF Asks
<1> QED  BY <1>2, <1>3

LEMMA CancelDebts ==
  ASSUME Good, DebtsOK, NEW d \in Desks, CancelPlan(d)
  PROVE  DebtsOK'
<1> SUFFICES ASSUME Sound' PROVE Books' /\ Coverage' /\ Asks'
  BY DEF DebtsOK
<1> DEFINE was == change[d]
           residual == plan.cover - drawn.invoice
<1>1. /\ plan'.status = "cancelled" /\ plan'.kind = plan.kind
      /\ plan'.total = plan.total /\ plan'.cover = plan.cover /\ plan'.arrears = plan.arrears
      /\ invoice' = IF HasSources
                      THEN ReopenedInvoice(was.invoice, plan.cover - was.drawn.invoice)
                      ELSE invoice
      /\ stale' = (stale \/ plan.status # "active" \/ was.rows # inst \/ was.invoice # invoice
                         \/ was.drawn # drawn \/ (HasSources /\ ~AllocationsAreWhole))
      /\ UNCHANGED <<balance, edit, inst, alloc, drawn>>
  BY Cancelling
<1>2. ~stale /\ HasSources /\ plan.status = "active"  BY <1>1 DEF Sound, HasSources
<1>3. /\ was.invoice = invoice /\ was.drawn = drawn /\ AllocationsAreWhole
      /\ invoice' = ReopenedInvoice(invoice, residual)
  BY <1>1, <1>2 DEF Sound
<1>4. /\ invoice \in InvoiceRow /\ invoice.total \in Nat /\ invoice.paid \in Nat
      /\ drawn.invoice \in Nat /\ plan.cover \in Nat
  BY DebtTypes
<1>5. Sound
  <2>1. invoice.status = "cancelled" => invoice'.status = "cancelled"
    BY <1>3, <1>4 DEF ReopenedInvoice, OpenStatus, InvoiceRow
  <2> QED  BY <1>1, <1>2, <2>1 DEF Sound
<1>6. Books /\ Coverage /\ Asks  BY <1>5 DEF DebtsOK
<1>7. /\ InvoiceDue' = InvoiceDue /\ ~invoice'.covered
      /\ invoice'.status \in OpenStatus => invoice'.paid <= invoice'.total
  <2>1. CASE ~invoice.covered
    <3>1. invoice' = invoice  BY <1>3, <2>1 DEF ReopenedInvoice
    <3> QED  BY <1>6, <2>1, <3>1 DEF InvoiceDue, Books
  <2>2. CASE invoice.covered
    <3> DEFINE paid == invoice.total - Least(invoice.total, residual)
               status == IF paid = invoice.total THEN "paid"
                         ELSE IF paid > 0 THEN "partial" ELSE "pending"
    <3>1. /\ invoice.status \in OpenStatus /\ residual > 0
          /\ invoice.total - invoice.paid = residual
      BY <1>4, <1>6, <2>2 DEF Coverage
    <3>2. paid = invoice.paid /\ paid # invoice.total
      BY <1>4, <3>1 DEF Least
    <3>3. invoice' = [invoice EXCEPT !.covered = FALSE, !.paid = paid, !.status = status]
      BY <1>3, <2>2, <3>1 DEF ReopenedInvoice
    <3>4. status \in OpenStatus  BY <3>2 DEF OpenStatus
    <3> HIDE DEF paid, status
    <3>5. /\ ~invoice'.covered /\ invoice'.status = status
          /\ invoice'.paid = invoice.paid /\ invoice'.total = invoice.total
      BY <1>4, <3>2, <3>3 DEF InvoiceRow
    <3>6. InvoiceDue' = InvoiceDue  BY <3>1, <3>4, <3>5 DEF InvoiceDue
    <3> HIDE DEF residual
    <3> QED  BY <1>6, <3>1, <3>5, <3>6 DEF Books
  <2> QED  BY <2>1, <2>2
<1>8. Sum(Paids)' = Sum(Paids) /\ Sum(alloc)' = Sum(alloc)
  BY <1>1, SamePaids DEF Sum, Entries
<1>9. Sum(alloc) = Sum(Paids)  BY <1>3 DEF AllocationsAreWhole, Paids
<1>10. Books'
  <2>1. -balance' = Arrears - drawn'.arrears + InvoiceDue' - Sum(Paids)' + Sum(alloc)'
    BY <1>1, <1>6, <1>7, <1>8 DEF Books
  <2> QED  BY <1>1, <1>6, <1>7, <1>8, <1>9, <2>1 DEF Books
<1>11. Coverage'  BY <1>1, <1>7 DEF Coverage
<1>12. Asks'  BY <1>1, <1>2, <1>6 DEF Asks
<1> QED  BY <1>10, <1>11, <1>12

LEMMA UpdateDebts ==
  ASSUME Good, Claims, RowsOK, DebtsOK, NEW d \in Desks, UpdatePlan(d)
  PROVE  DebtsOK'
<1> SUFFICES ASSUME Sound' PROVE Books' /\ Coverage' /\ Asks'
  BY DEF DebtsOK
<1>1. UNCHANGED <<invoice, balance, edit, plan, alloc, drawn>>  BY DEF UpdatePlan
<1>2. ~stale /\ Paids' = Paids  BY Reschedules DEF Sound
<1>3. Sound  BY <1>1, <1>2 DEF Sound, HasSources
<1>4. Books /\ Coverage /\ Asks  BY <1>3 DEF DebtsOK
<1>5. /\ Sum(Paids)' = Sum(Paids) /\ Sum(alloc)' = Sum(alloc) /\ InvoiceDue' = InvoiceDue
  BY <1>1, <1>2 DEF Sum, Entries, InvoiceDue
<1>6. ASSUME NEW i \in Rows  PROVE inst'[i].paid = inst[i].paid
  <2>1. Paids'[i] = Paids[i]  BY <1>2
  <2> QED  BY <2>1 DEF Paids
<1>7. Books'
  <2>1. \A i \in Rows : alloc'[i] <= inst'[i].paid  BY <1>1, <1>4, <1>6 DEF Books
  <2> QED  BY <1>1, <1>4, <1>5, <2>1 DEF Books
<1> QED  BY <1>1, <1>4, <1>7 DEF Coverage, Asks

LEMMA DebtsStep ==
  ASSUME Good, Claims, RowsOK, CopiesOK, DebtsOK, Next
  PROVE  DebtsOK'
<1>1. stale => stale'  BY StaleKept
<1>2. CASE InvoiceNext /\ UNCHANGED planVars  BY <1>2, InvoiceDebts
<1>3. CASE Creation  BY <1>3, CreationDebts
<1>4. CASE Minting
  <2>1. UNCHANGED <<invoice, balance, edit, plan, inst, alloc, drawn>>
    BY <1>4, PlanCheckouts DEF Minting, Good
  <2> QED  BY <1>1, <2>1, DebtsKept
<1>5. ASSUME NEW j \in Jobs, ReadingStep(j) \/ Claim(j) \/ Ripple(j) \/ Crash(j)
      PROVE  DebtsOK'
  <2>1. UNCHANGED <<invoice, balance, edit, plan, inst, alloc, drawn>>
    BY <1>5, Reading, Claiming, Rippling, Crashing DEF Good, records
  <2> QED  BY <1>1, <2>1, DebtsKept
<1>6. ASSUME NEW j \in Jobs, Commit(j)  PROVE DebtsOK'  BY <1>6, CommitDebts
<1>7. ASSUME NEW j \in Jobs, SettleSources(j)  PROVE DebtsOK'  BY <1>7, SettleDebts
<1>8. ASSUME NEW d \in Desks, Looking(d)  PROVE DebtsOK'
  <2>1. UNCHANGED <<invoice, balance, edit, plan, inst, alloc, drawn>>
    BY <1>8, LookingGood DEF invoiceVars
  <2> QED  BY <1>1, <2>1, DebtsKept
<1>9. ASSUME NEW d \in Desks, CancelPlan(d)  PROVE DebtsOK'  BY <1>9, CancelDebts
<1>10. ASSUME NEW d \in Desks, UpdatePlan(d)  PROVE DebtsOK'  BY <1>10, UpdateDebts
<1> QED  BY <1>2, <1>3, <1>4, <1>5, <1>6, <1>7, <1>8, <1>9, <1>10, NextIs

-----------------------------------------------------------------------------
(* The inductive invariant.                                                *)
IInv ==
  /\ TypeOK /\ Shape /\ Claims
  /\ RowsOK /\ LastsOK /\ RipplesOK /\ FeesOK /\ TillsOK /\ CreditsOK
  /\ CopiesOK /\ DebtsOK

LEMMA InitTyped ==
  ASSUME Init
  PROVE  TypeOK /\ Shape
<1>1. NoInvoice \in InvoiceRow /\ NoChange \in Change  BY NoInvoiceType, NoChangeType
<1>2. -Arrears \in Int  BY DebtAssumption
<1>3. NoTill \in Till  BY DEF Till, NoTill, TillSteps
<1>4. NoSchedule \in [Rows -> Row]  BY DEF NoSchedule, NoRow, Row
<1>5. NothingDrawn \in Drawn /\ NoPlan \in PlanRow  BY DEF NothingDrawn, Drawn, NoPlan, PlanRow
<1>6. InvoiceTypeOK
  <2>1. [pc |-> "idle", copy |-> NoInvoice] \in [pc : {"idle", "accepted"} \cup Ended, copy : InvoiceRow]
    BY <1>1
  <2>2. [pc |-> "idle", copy |-> NoInvoice]
          \in [pc : {"idle", "editing", "cancelling"} \cup Written, copy : InvoiceRow]
    BY <1>1
  <2>3. NoCheckout \in [target : {"link", "row", "payoff", None}, amount : Nat]  BY DEF NoCheckout
  <2> QED  BY <1>1, <1>2, <2>1, <2>2, <2>3 DEF Init, InvoiceTypeOK
<1>7. TypeOK
  <2>1. renewal \in RenewalRow  BY DebtAssumption DEF Init, RenewalRow
  <2> QED  BY <1>1, <1>3, <1>4, <1>5, <1>6, <2>1, DebtAssumption DEF Init, TypeOK
<1>8. Shape
  <2>1. \A r \in Refs : checkout[r].target = None  BY DEF Init, NoCheckout
  <2>2. \A j \in Jobs : till[j].pc = "idle" /\ job[j].pc = "idle"  BY DEF Init, NoTill
  <2>3. \A d \in Desks : change[d].pc = "idle"  BY DEF Init, NoChange
  <2>4. \A j \in Jobs : TillOK(j)  BY <2>2 DEF TillOK, OnRow
  <2>5. drawn.invoice <= plan.cover /\ drawn.arrears <= plan.arrears
    BY DEF Init, NothingDrawn, NoPlan
  <2> QED  BY <2>1, <2>2, <2>3, <2>4, <2>5, RefAssumption DEF Init, Shape
<1> QED  BY <1>7, <1>8

LEMMA InitInv == Init => IInv
<1> SUFFICES ASSUME Init PROVE IInv  OBVIOUS
<1>1. TypeOK /\ Shape  BY InitTyped
<1>2. \A j \in Jobs : till[j].pc = "idle"  BY DEF Init, NoTill
<1>3. plan.status = "none" /\ plan.kind = "adhoc" /\ plan.total = 0 /\ renewal.fee = Fee
  BY DEF Init, NoPlan
<1>4. Claims  BY <1>2 DEF Claims
<1>5. RowsOK
  <2>1. \A i \in Rows : inst[i] = NoRow  BY DEF Init, NoSchedule
  <2>2. \A i \in Rows : Amounts[i] = 0  BY <2>1 DEF Amounts, NoRow
  <2>3. Amounts \in [Rows -> Nat]  BY <1>1, TablesType DEF Good
  <2>4. Sum(Amounts) = 0  BY <2>2, <2>3, SumNone
  <2>5. RowOK(NoRow)  BY DEF RowOK, NoRow
  <2> QED  BY <1>3, <2>1, <2>4, <2>5 DEF RowsOK
<1>6. LastsOK  BY <1>2, <1>3 DEF LastsOK
<1>7. RipplesOK  BY <1>3 DEF RipplesOK
<1>8. FeesOK  BY <1>3 DEF FeesOK
<1>9. TillsOK  BY <1>2 DEF TillsOK, TillFits
<1>10. CreditsOK
  <2>1. \A r \in Refs : checkout[r].target = None /\ credited[r] = 0  BY DEF Init, NoCheckout
  <2> QED  BY <2>1, RefAssumption DEF CreditsOK, CreditOK
<1>11. CopiesOK  BY DEF Init, CopiesOK
<1>12. DebtsOK
  <2>1. /\ Sum(alloc) = 0 /\ Sum(Paids) = 0 /\ drawn.invoice = 0 /\ drawn.arrears = 0
        /\ \A i \in Rows : alloc[i] = 0
    BY <1>1, <1>3, NoPlanDebts DEF Good
  <2>2. \A i \in Rows : inst[i].paid = 0  BY DEF Init, NoSchedule, NoRow
  <2>3. invoice.status \notin OpenStatus /\ ~invoice.covered
    BY DEF Init, NoInvoice, OpenStatus
  <2>4. InvoiceDue = 0 /\ balance = -Arrears /\ Arrears \in Nat
    BY <2>3, DebtAssumption DEF InvoiceDue, Init
  <2>5. -balance = Arrears - drawn.arrears + InvoiceDue - Sum(Paids) + Sum(alloc)
    BY <2>1, <2>4
  <2>6. Books  BY <1>3, <2>1, <2>2, <2>3, <2>5 DEF Books
  <2>7. Coverage /\ Asks  BY <1>3, <2>3 DEF Coverage, Asks
  <2> QED  BY <2>6, <2>7 DEF DebtsOK
<1> QED  BY <1>1, <1>4, <1>5, <1>6, <1>7, <1>8, <1>9, <1>10, <1>11, <1>12 DEF IInv

LEMMA StepInv == IInv /\ [Next]_vars => IInv'
<1> SUFFICES ASSUME IInv, [Next]_vars PROVE IInv'  OBVIOUS
<1>1. CASE Next
  <2>1. Good /\ Claims /\ RowsOK /\ LastsOK /\ RipplesOK /\ FeesOK /\ TillsOK /\ CreditsOK
       /\ CopiesOK /\ DebtsOK
    BY DEF IInv, Good
  <2>2. Good'  BY <1>1, <2>1, GoodStep
  <2>3. Claims'  BY <1>1, <2>1, ClaimsStep
  <2>4. RowsOK' /\ LastsOK'  BY <1>1, <2>1, RowsStep, LastsStep
  <2>5. RipplesOK' /\ FeesOK'  BY <1>1, <2>1, RipplesStep, FeesStep
  <2>6. TillsOK' /\ CreditsOK'  BY <1>1, <2>1, TillsStep, CreditsStep
  <2>7. CopiesOK' /\ DebtsOK'  BY <1>1, <2>1, CopiesStep, DebtsStep
  <2> QED  BY <2>2, <2>3, <2>4, <2>5, <2>6, <2>7 DEF IInv, Good
<1>2. CASE UNCHANGED vars
  <2> USE <1>2 DEF vars, planVars, invoiceVars
  <2>1. TypeOK' /\ Shape'
    BY DEF IInv, TypeOK, InvoiceTypeOK, Shape, TillOK, PaysOff
  <2>2. Claims'  BY DEF IInv, Claims, Takes, WalletBacked, Open
  <2>3. RowsOK'  BY DEF IInv, RowsOK, Amounts, RowOK
  <2>4. LastsOK'  BY DEF IInv, LastsOK, Settles, OpenRows, Open, WalletBacked
  <2>5. RipplesOK'  BY DEF IInv, RipplesOK, Ripples, Settled
  <2>6. FeesOK'  BY DEF IInv, FeesOK, SettledSum
  <2>7. TillsOK'  BY DEF IInv, TillsOK, TillFits
  <2>8. CreditsOK'  BY DEF IInv, CreditsOK, CreditOK, Paids
  <2>9. CopiesOK'  BY DEF IInv, CopiesOK
  <2>10. DebtsOK'  BY DebtsKept DEF IInv
  <2> QED  BY <2>1, <2>2, <2>3, <2>4, <2>5, <2>6, <2>7, <2>8, <2>9, <2>10 DEF IInv
<1> QED  BY <1>1, <1>2

-----------------------------------------------------------------------------
(* The inductive invariant of the plan, its rows, its reports of payments  *)
(* and the landlord's requests (payment-plans.service.ts).                 *)
THEOREM Invariance == Spec => []IInv
<1>1. Init => IInv  BY InitInv
<1>2. IInv /\ [Next]_vars => IInv'  BY StepInv
<1> QED  BY <1>1, <1>2, PTL DEF Spec

(* Rows, sources, checkouts and handlers keep their types.                 *)
THEOREM TypeCorrect == Spec => []TypeOK
<1>1. IInv => TypeOK  BY DEF IInv
<1> QED  BY <1>1, Invariance, PTL

(* A paid row keeps its status and its payment through claims, payoffs and *)
(* cancellations: only updatePlan, when the plan it read has changed since,*)
(* takes them away.                                                        *)
THEOREM PaidRowsStay == Spec => PaidRowsAreKept
<1>1. IInv /\ [Next]_vars =>
        [\A i \in Rows : inst[i].status = "paid" /\ inst'[i] # inst[i] => stale']_vars
  <2> SUFFICES ASSUME IInv, Next, NEW i \in Rows, inst[i].status = "paid", inst'[i] # inst[i]
               PROVE  stale'
    OBVIOUS
  <2> QED  BY KeptStep DEF IInv, Good
<1> QED  BY <1>1, Invariance, PTL DEF Spec, PaidRowsAreKept

(* A wallet-backed plan whose last rows are paid by two transactions at    *)
(* once is completed by one of them: markInstallmentPaid counts the open   *)
(* rows with the wallet locked.                                            *)
THEOREM CompletedWhenPaid == Spec => []PaidPlanIsCompleted
<1>1. IInv => PaidPlanIsCompleted  BY DEF IInv, LastsOK, PaidPlanIsCompleted
<1> QED  BY <1>1, Invariance, PTL

(* A completed tenancy plan has paid its renewal invoice once every report *)
(* is handled, if no slower ripple of an installment came after the last   *)
(* one's and no process died before its ripple.                            *)
THEOREM RenewsWhenCompleted == Spec => []CompletedPlanRenews
<1>1. IInv => CompletedPlanRenews
  <2>1. \A j \in Jobs : till[j].pc \in {"idle"} \cup Ended => ~Ripples(j)
    BY DEF Ripples, Ended
  <2> QED  BY <2>1 DEF IInv, RipplesOK, CompletedPlanRenews, AtRest, Settled
<1> QED  BY <1>1, Invariance, PTL

(* A fee carved out of the renewal invoice into a plan is asked for once:  *)
(* by the rows of the plan, or by the invoice for what the paid rows of a  *)
(* cancelled plan did not collect.                                         *)
THEOREM FeeInOnePlace == Spec => []FeeAskedOnce
<1>1. IInv => FeeAskedOnce
  <2> SUFFICES ASSUME IInv, ~stale, plan.kind = "fee", plan.status # "none",
                      plan.status = "cancelled" => \A i \in Rows : inst[i].status # "partial"
               PROVE  renewal.fee + PaidSum(inst)
                        + (IF plan.status = "cancelled" THEN 0 ELSE StillAsked) = Fee
    BY DEF FeeAskedOnce
  <2>1. Good /\ RowsOK /\ FeesOK  BY DEF IInv, Good
  <2>2. PaidSum(inst) \in Nat /\ SettledSum(inst) \in Nat /\ renewal.fee \in Nat /\ Fee \in Nat
    BY <2>1, TablesType, DebtAssumption DEF Good, TypeOK, RenewalRow
  <2>3. CASE plan.status = "cancelled"
    <3> DEFINE f == [i \in Rows |-> PaidToDate(inst[i])]
               g == [i \in Rows |-> IF inst[i].status = "paid" THEN inst[i].paid ELSE 0]
    <3>1. f = g
      <4>1. \A i \in Rows : inst[i].status # "partial"  BY <2>3
      <4> QED  BY <4>1 DEF PaidToDate
    <3>2. PaidSum(inst) = SettledSum(inst)  BY <3>1 DEF PaidSum, SettledSum
    <3>3. renewal.fee = Fee - SettledSum(inst)  BY <2>1, <2>3 DEF FeesOK
    <3> QED  BY <2>2, <2>3, <3>2, <3>3
  <2>4. CASE plan.status # "cancelled"
    <3>1. plan.status \in {"active", "completed"}
      BY <2>1, <2>4 DEF Good, TypeOK, PlanRow
    <3>2. renewal.fee = 0 /\ plan.total = Fee  BY <2>1, <3>1 DEF FeesOK
    <3>3. PaidSum(inst) + StillAsked = plan.total  BY <2>1, RowSums
    <3> QED  BY <2>2, <2>4, <3>2, <3>3
  <2> QED  BY <2>3, <2>4
<1> QED  BY <1>1, Invariance, PTL

(* Webhook, verify and sweep, a payoff among installments, a reschedule in *)
(* between: a reference never adds more to the records of payment than its *)
(* checkout asked for.                                                     *)
THEOREM CreditedWithinPrice == Spec => []CreditedWithinCharge
<1>1. IInv => CreditedWithinCharge
  <2> SUFFICES ASSUME IInv, ~stale, NEW r \in Refs
               PROVE  credited[r] <= checkout[r].amount
    BY DEF CreditedWithinCharge
  <2>1. Good /\ RowsOK /\ CreditOK(r)  BY DEF IInv, Good, CreditsOK
  <2>2. credited[r] \in Nat /\ checkout[r].amount \in Nat
        /\ checkout[r].target \in {"link", "row", "payoff", None}
    BY <2>1 DEF Good, TypeOK, InvoiceTypeOK
  <2>3. CASE checkout[r].target = "payoff"
    <3>1. credited[r] + plan.total <= Sum(Paids) + checkout[r].amount  BY <2>1, <2>3 DEF CreditOK
    <3>2. Sum(Paids) <= plan.total  BY <2>1, RowSums
    <3>3. Sum(Paids) \in Nat /\ plan.total \in Nat  BY <2>1, TablesType
    <3> QED  BY <2>2, <3>1, <3>2, <3>3
  <2>4. CASE checkout[r].target = None
    BY <2>1, <2>2, <2>4 DEF CreditOK
  <2>5. CASE checkout[r].target \in {"link", "row"} /\ credited[r] > 0
    BY <2>1, <2>5 DEF CreditOK
  <2> QED  BY <2>2, <2>3, <2>4, <2>5
<1> QED  BY <1>1, Invariance, PTL

LEMMA CompletedIsWhole ==
  ASSUME Good, RowsOK, LastsOK, ~stale, HasSources, plan.status = "completed"
  PROVE  Sum(Paids) = plan.total
<1>1. OpenRows = {}  BY DEF LastsOK, HasSources, WalletBacked
<1>2. inst \in [Rows -> Row] /\ Sum(Amounts) = plan.total /\ \A i \in Rows : RowOK(inst[i])
  BY DEF Good, TypeOK, RowsOK
<1>3. ASSUME NEW i \in Rows  PROVE inst[i].paid = inst[i].amount
  <2>1. inst[i].status \in {"none", "paid"}
    <3>1. inst[i].status \notin OpenStatus  BY <1>1 DEF OpenRows, Open
    <3> QED  BY <1>2, <3>1 DEF Row
  <2>2. CASE inst[i].status = "none"  BY <1>2, <2>2 DEF RowOK, NoRow
  <2>3. CASE inst[i].status = "paid"  BY <1>2, <2>3 DEF RowOK
  <2> QED  BY <2>1, <2>2, <2>3
<1>4. Paids = Amounts  BY <1>3 DEF Paids, Amounts
<1> QED  BY <1>2, <1>4

(* The links and the plan ask the tenant for what the wallet owes, for any *)
(* schedule, edit, cancellation and race of payments: createPlan's         *)
(* coverage, settleWalletBackedSources and cancelPlan's release neither    *)
(* lose a debt nor ask for it twice.                                       *)
THEOREM AsksWhatIsOwed == Spec => []AskedIsOwed
<1>1. IInv => AskedIsOwed
  <2> SUFFICES ASSUME IInv, ~stale, HasSources, invoice.status # "cancelled",
                      \A d \in Desks : edit[d].pc # "undercut",
                      plan.status # "active" => AllocationsAreWhole
               PROVE  AskedOfDebtor = (IF balance < 0 THEN -balance ELSE 0)
    BY DEF AskedIsOwed
  <2>1. Good /\ RowsOK /\ LastsOK  BY DEF IInv, Good
  <2>2. Books /\ Coverage /\ Asks  BY DEF IInv, DebtsOK, Sound
  <2>3. /\ balance \in Int /\ Arrears \in Nat /\ invoice.total \in Nat /\ invoice.paid \in Nat
        /\ drawn.invoice \in Nat /\ drawn.arrears \in Nat
        /\ drawn.invoice <= plan.cover /\ drawn.arrears <= plan.arrears
        /\ plan.cover \in Nat /\ plan.arrears \in Nat /\ plan.total \in Nat
        /\ Sum(Paids) \in Nat /\ Sum(alloc) \in Nat
    BY <2>1, DebtTypes
  <2>4. /\ -balance = Arrears - drawn.arrears + InvoiceDue - Sum(Paids) + Sum(alloc)
        /\ Sum(alloc) = drawn.invoice + drawn.arrears
    BY <2>2 DEF Books
  <2>5. InvoiceDue \in Nat /\ (~invoice.covered => LinkAsks = InvoiceDue)
        /\ (invoice.covered => LinkAsks = 0)
    BY <2>2, <2>3 DEF Books, InvoiceDue, LinkAsks, Due
  <2>6. plan.kind \in {"adhoc", "balance"}  BY DEF HasSources
  <2>7. CASE plan.status = "active"
    <3>1. StillAsked = plan.total - Sum(Paids) /\ Sum(Paids) <= plan.total
      <4>1. PaidSum(inst) = Sum(Paids) /\ PaidSum(inst) + StillAsked = plan.total
            /\ Sum(Paids) <= plan.total
        BY <2>1, RowSums
      <4>2. StillAsked \in Nat
        <5> DEFINE g == [i \in Rows |-> Remaining(inst[i])]
        <5>1. g \in [Rows -> Nat]  BY <2>1, RowParts DEF Good, TypeOK
        <5>2. StillAsked = Sum(g)  BY DEF StillAsked
        <5> HIDE DEF g
        <5> QED  BY <5>1, <5>2, RowsFinite, SumType
      <4> QED  BY <2>3, <4>1, <4>2
    <3>2. plan.total = plan.cover + plan.arrears  BY <2>2, <2>7 DEF Asks
    <3>3. plan.cover > 0 => InvoiceDue = plan.cover - drawn.invoice /\ LinkAsks = 0
      <4>1. CASE invoice.covered  BY <2>2, <2>5, <4>1 DEF Coverage, InvoiceDue
      <4>2. CASE ~invoice.covered /\ plan.cover > 0
        <5>1. drawn.invoice = plan.cover /\ invoice.status = "paid"
          BY <2>2, <2>7, <4>2 DEF Coverage
        <5>2. InvoiceDue = 0  BY <5>1 DEF InvoiceDue, OpenStatus
        <5> QED  BY <2>3, <2>5, <4>2, <5>1, <5>2
      <4> QED  BY <4>1, <4>2
    <3>4. CASE plan.kind = "adhoc"
      <4>1. AskedOfDebtor = StillAsked + Arrears  BY <2>7, <3>4 DEF AskedOfDebtor
      <4>2. plan.arrears = 0 /\ plan.cover > 0  BY <2>2, <2>7, <3>4 DEF Asks
      <4>3. -balance = StillAsked + Arrears  BY <2>3, <2>4, <3>1, <3>2, <3>3, <4>2
      <4> QED  BY <2>3, <3>1, <4>1, <4>3
    <3>5. CASE plan.kind = "balance"
      <4>1. AskedOfDebtor = StillAsked + LinkAsks  BY <2>7, <3>5 DEF AskedOfDebtor
      <4>2. plan.arrears = Arrears  BY <2>2, <2>7, <3>5 DEF Asks
      <4>3. ~(plan.cover > 0) => drawn.invoice = 0 /\ plan.cover = 0 /\ LinkAsks = InvoiceDue
        <5>1. SUFFICES ASSUME ~(plan.cover > 0)
                       PROVE  drawn.invoice = 0 /\ plan.cover = 0 /\ LinkAsks = InvoiceDue
          OBVIOUS
        <5>2. drawn.invoice = 0 /\ plan.cover = 0  BY <2>3, <5>1
        <5>3. ~invoice.covered  BY <2>2, <2>3, <5>2 DEF Coverage
        <5> QED  BY <2>5, <5>2, <5>3
      <4>4. -balance = StillAsked + LinkAsks /\ LinkAsks \in Nat
        BY <2>3, <2>4, <2>5, <3>1, <3>2, <3>3, <4>2, <4>3
      <4> QED  BY <2>3, <3>1, <4>1, <4>4
    <3> QED  BY <2>6, <3>4, <3>5
  <2>8. CASE plan.status # "active"
    <3>1. Sum(alloc) = Sum(Paids)  BY <2>8 DEF AllocationsAreWhole, Paids
    <3>2. ~invoice.covered
      <4>1. SUFFICES ASSUME invoice.covered PROVE FALSE  OBVIOUS
      <4>2. plan.status = "completed" /\ plan.cover > drawn.invoice
        BY <2>2, <2>8, <4>1 DEF Coverage
      <4>3. Sum(Paids) = plan.total  BY <2>1, <4>2, CompletedIsWhole
      <4>4. plan.total = plan.cover + plan.arrears  BY <2>2, <4>2 DEF Asks
      <4> QED  BY <2>3, <2>4, <3>1, <4>2, <4>3, <4>4
    <3>3. AskedOfDebtor = LinkAsks + Arrears - drawn.arrears
      BY <2>8 DEF AskedOfDebtor
    <3>4. drawn.arrears <= Arrears
      <4>1. CASE plan.status = "none"  BY <2>1, <2>3, <4>1, NoPlanDebts
      <4>2. CASE plan.status # "none"
        <5>1. plan.arrears \in {0, Arrears}  BY <2>2, <2>6, <4>2 DEF Asks
        <5> QED  BY <2>3, <5>1
      <4> QED  BY <4>1, <4>2
    <3> QED  BY <2>3, <2>4, <2>5, <3>1, <3>2, <3>3, <3>4
  <2> QED  BY <2>7, <2>8
<1> QED  BY <1>1, Invariance, PTL
-----------------------------------------------------------------------------
(* The trail of money that arrived: what was credited for a reference, who *)
(* handles it and what has been filed.                                     *)
Paying == {"priced", "claimed"}
PaidFor == {"settling", "reading", "rippling"}

(* A report that has paid a row has credited its reference; one that is    *)
(* done, and not from the browser, has credited something or filed it.     *)
Traced(j) ==
  /\ till[j].pc \in Paying => till[j].amount > 0
  /\ RefOf[j] # None =>
       LET r == RefOf[j] IN
       /\ till[j].pc # "idle" => checkout[r].target # None
       /\ till[j].pc \in PaidFor \/ till[j].applied > 0 => credited[r] > 0
       /\ till[j].pc = "done" /\ j \notin Verifiers => r \in filed \/ credited[r] > 0

Priced(r) == checkout[r].target # None => checkout[r].amount > 0
Referred(i) == inst[i].ref # None => credited[inst[i].ref] > 0

TracesOK ==
  /\ \A r \in Refs : Priced(r)
  /\ \A i \in Rows : Referred(i)
  /\ \A j \in Jobs : Traced(j)

(* What a report goes on with.                                             *)
Carries(j) ==
  /\ till'[j].row = till[j].row /\ till'[j].amount = till[j].amount
  /\ till'[j].todo = till[j].todo /\ till'[j].applied = till[j].applied

Fresh(j, pc) == till'[j].pc = pc /\ till'[j].todo = {} /\ till'[j].applied = 0

LEMMA MovingOn ==
  ASSUME till \in [Jobs -> Till], NEW j \in Jobs, NEW pc \in TillSteps
  PROVE  /\ Move(j, pc) => Carries(j) /\ till'[j].pc = pc
         /\ Leave(j, pc) => Fresh(j, pc)
<1>1. till[j] \in Till  OBVIOUS
<1>2. ASSUME Move(j, pc)  PROVE Carries(j) /\ till'[j].pc = pc
  <2> DEFINE t == [till[j] EXCEPT !.pc = pc]
  <2>1. /\ t.pc = pc /\ t.row = till[j].row /\ t.amount = till[j].amount
        /\ t.todo = till[j].todo /\ t.applied = till[j].applied
    BY <1>1 DEF Till
  <2>2. till' = [till EXCEPT ![j] = t]  BY <1>2 DEF Move
  <2> HIDE DEF t
  <2>3. till'[j] = t  BY <2>2
  <2> QED  BY <2>1, <2>3 DEF Carries
<1>3. ASSUME Leave(j, pc)  PROVE Fresh(j, pc)
  <2> DEFINE t == [NoTill EXCEPT !.pc = pc]
  <2>1. t.pc = pc /\ t.todo = {} /\ t.applied = 0  BY DEF NoTill
  <2>2. till' = [till EXCEPT ![j] = t]  BY <1>3 DEF Leave
  <2> HIDE DEF t
  <2>3. till'[j] = t  BY <2>2
  <2> QED  BY <2>1, <2>3 DEF Fresh
<1> QED  BY <1>2, <1>3

(* A transaction of a report carries what it holds, or ends the report.    *)
LEMMA Carrying ==
  ASSUME Good, NEW j \in Jobs,
         \/ Claim(j) \/ Commit(j) \/ SettleSources(j) \/ Ripple(j) \/ Lose(j) \/ ReadRenewal(j)
  PROVE  \/ Carries(j)
         \/ ~PaysOff(j) /\ (Fresh(j, "done") \/ Fresh(j, "lost"))
<1>1. till \in [Jobs -> Till] /\ till[j] \in Till  BY DEF Good, TypeOK
<1>2. ASSUME Return(j)
      PROVE  Carries(j) \/ (~PaysOff(j) /\ Fresh(j, "done"))
  BY <1>1, <1>2, MovingOn, PcSteps DEF Return
<1>3. CASE Claim(j)
  <2> DEFINE last == Settles(j) /\ OpenRows \subseteq {till[j].row}
             t == [till[j] EXCEPT !.pc = "claimed", !.last = last]
  <2>1. till' = [till EXCEPT ![j] = t]  BY <1>1, <1>3 DEF Claim
  <2> HIDE DEF last
  <2>2. /\ t.row = till[j].row /\ t.amount = till[j].amount
        /\ t.todo = till[j].todo /\ t.applied = till[j].applied
    BY <1>1 DEF Till
  <2> HIDE DEF t
  <2>3. till'[j] = t  BY <1>1, <2>1
  <2> QED  BY <2>2, <2>3 DEF Carries
<1>4. CASE Commit(j)
  <2>1. Move(j, "settling") \/ Move(j, "reading") \/ Return(j)  BY <1>4 DEF Commit
  <2> QED  BY <1>1, <1>2, <2>1, MovingOn, PcSteps
<1>5. CASE SettleSources(j) \/ Ripple(j)
  BY <1>2, <1>5 DEF SettleSources, Ripple, RippleUp, RippleFails, RippleKept, InvoiceKept
<1>6. CASE Lose(j)
  BY <1>1, <1>6, MovingOn, PcSteps DEF Lose
<1>7. CASE ReadRenewal(j)
  <2> DEFINE last == plan.status = "completed"
             t == [till[j] EXCEPT !.pc = "rippling", !.last = last]
  <2>1. Return(j) \/ till' = [till EXCEPT ![j] = t]  BY <1>1, <1>7 DEF ReadRenewal
  <2> HIDE DEF last
  <2>2. /\ t.row = till[j].row /\ t.amount = till[j].amount
        /\ t.todo = till[j].todo /\ t.applied = till[j].applied
    BY <1>1 DEF Till
  <2> HIDE DEF t
  <2>3. till' = [till EXCEPT ![j] = t] => till'[j] = t  BY <1>1
  <2> QED  BY <1>2, <2>1, <2>2, <2>3 DEF Carries
<1> QED  BY <1>3, <1>4, <1>5, <1>6, <1>7

(* What is credited or filed stays so.                                     *)
LEMMA RecordsGrow ==
  ASSUME Good, Claims, Next
  PROVE  /\ filed \subseteq filed'
         /\ \A r \in Refs : credited[r] > 0 => credited'[r] > 0
<1> DEFINE Goal == /\ filed \subseteq filed'
                   /\ \A r \in Refs : credited[r] > 0 => credited'[r] > 0
<1>1. credited \in [Refs \cup {None} -> Nat] /\ TypeOK  BY DEF Good, TypeOK, InvoiceTypeOK
<1>2. ASSUME NEW r \in Refs \cup {None}, NEW n \in Nat,
             credited' = [credited EXCEPT ![r] = credited[r] + n]
      PROVE  \A q \in Refs : credited[q] > 0 => credited'[q] > 0
  <2>1. credited[r] + n \in Nat  BY <1>1
  <2> QED  BY <1>1, <1>2, <2>1
<1>3. CASE InvoiceNext
  <2>1. ASSUME NEW j \in Jobs, ClaimInvoice(j)  PROVE Goal
    <3> DEFINE n == Least(checkout[RefOf[j]].amount, Due(job[j].copy))
    <3>1. job[j].pc = "accepted" /\ UNCHANGED filed
          /\ credited' = [credited EXCEPT ![RefOf[j]] = credited[RefOf[j]] + n]
      BY <2>1 DEF ClaimInvoice
    <3>2. RefOf[j] \in Refs  BY <3>1, JobAssumption DEF Good, Shape
    <3>3. n \in Nat
      <4>1. checkout[RefOf[j]].amount \in Nat /\ job[j].copy \in InvoiceRow
        BY <1>1, <3>2 DEF TypeOK, InvoiceTypeOK
      <4> QED  BY <4>1, DueType, LeastType
    <3> HIDE DEF n
    <3> QED  BY <1>2, <3>1, <3>2, <3>3
  <2>2. ASSUME NEW j \in Jobs, SetAside(j)  PROVE Goal
    BY <2>2 DEF SetAside
  <2> QED
    BY <1>3, <2>1, <2>2 DEF InvoiceNext, CreateInvoice, InitializePublicPayment, GatewayTakes,
       VerifyTurnsAway, Accept, ClaimLost, OpenInvoice, UpdateInvoice, CancelInvoice
<1>4. CASE Creation
  BY <1>4 DEF Creation, CreateAdHocInvoicePlan, CreateNewChargePlan, CreateFeePlan,
     CreateTenancyPlan, CreateOutstandingBalancePlan, invoiceVars
<1>5. CASE Minting
  BY <1>5 DEF Minting, InitializePlanPayoffPayment, InitializeInstallmentPayment
<1>6. ASSUME NEW j \in Jobs, ReadingStep(j)  PROVE Goal
  <2>1. UNCHANGED credited  BY <1>1, <1>6, Reading DEF Good, records
  <2>2. filed \subseteq filed'
    <3>1. UNCHANGED filed \/ \E r, needed : Files(r, needed)
      BY <1>6 DEF ReadingStep, Notice, RowGone, VerifySkips, MarkPaidManual, MarkPlanPaidOff,
         NextRow, ConfirmRow, FinishPayoff, Lose, ReadRenewal
    <3> QED  BY <3>1 DEF Files
  <2> QED  BY <2>1, <2>2
<1>7. ASSUME NEW j \in Jobs, Claim(j) \/ SettleSources(j) \/ Ripple(j) \/ Crash(j)
      PROVE  Goal
  BY <1>7, Claiming, Settling, Rippling, Crashing DEF records
<1>8. ASSUME NEW j \in Jobs, Commit(j)  PROVE Goal
  <2>1. /\ RefOf[j] \in Refs \cup {None} /\ till[j].amount \in Nat /\ UNCHANGED filed
        /\ credited' = [credited EXCEPT ![RefOf[j]] = credited[RefOf[j]] + till[j].amount]
    BY <1>8, Committing
  <2> QED  BY <1>2, <2>1
<1>9. ASSUME NEW d \in Desks, Looking(d) \/ CancelPlan(d) \/ UpdatePlan(d)  PROVE Goal
  BY <1>9, LookingGood, Cancelling, Rescheduling DEF invoiceVars
<1> QED  BY <1>3, <1>4, <1>5, <1>6, <1>7, <1>8, <1>9, NextIs

LEMMA CheckoutsStay ==
  ASSUME Good, Next
  PROVE  CheckoutsKept
BY PlanLeavesCopies, InvoiceTyped DEF Good, TypeOK, Shape, InvoiceShape

(* A reschedule makes no row paid and gives none to another reference.     *)
LEMMA RefsStay ==
  ASSUME Good, NEW d \in Desks, UpdatePlan(d), NEW i \in Rows
  PROVE  /\ inst'[i].ref \in {inst[i].ref, None}
         /\ inst'[i] = inst[i] \/ inst'[i].status # "paid"
<1> DEFINE was == change[d].rows
           free == {k \in Rows : was[k].status # "paid"}
<1>1. PICK s \in [free -> Nat] :
        \A k \in Rows : inst'[k] = IF k \in free THEN Rescheduled(s, k, was[k]) ELSE inst[k]
  BY Rescheduling
<1> HIDE DEF free
<1>2. inst[i] \in Row  BY DEF Good, TypeOK
<1>3. CASE i \notin free  BY <1>1, <1>3
<1>4. CASE i \in free
  <2> DEFINE status == IF was[i].paid > 0 THEN "partial" ELSE "pending"
  <2>1. inst'[i] = NoRow \/ inst'[i] = [inst[i] EXCEPT !.amount = s[i], !.status = status]
    BY <1>1, <1>4 DEF Rescheduled
  <2>2. status \in {"partial", "pending"}  OBVIOUS
  <2> HIDE DEF status
  <2>3. CASE inst'[i] = NoRow  BY <2>3 DEF NoRow
  <2>4. CASE inst'[i] = [inst[i] EXCEPT !.amount = s[i], !.status = status]
    BY <1>2, <2>2, <2>4 DEF Row
  <2> QED  BY <2>1, <2>3, <2>4
<1> QED  BY <1>3, <1>4

(* A report that does not move, and one that carries on.                   *)
LEMMA TracedKept ==
  ASSUME Good, Claims, Next, NEW j \in Jobs, Traced(j), till'[j] = till[j]
  PROVE  Traced(j)'
<1> SUFFICES ASSUME RefOf[j] # None
             PROVE  LET r == RefOf[j] IN
                    /\ till[j].pc # "idle" => checkout'[r].target # None
                    /\ till[j].pc \in PaidFor \/ till[j].applied > 0 => credited'[r] > 0
                    /\ till[j].pc = "done" /\ j \notin Verifiers => r \in filed' \/ credited'[r] > 0
  BY DEF Traced
<1>1. RefOf[j] \in Refs  BY JobAssumption
<1>2. CheckoutsKept  BY CheckoutsStay
<1>3. till[j].pc # "idle" => checkout'[RefOf[j]].target # None
  <2>1. SUFFICES ASSUME till[j].pc # "idle" PROVE checkout'[RefOf[j]].target # None
    OBVIOUS
  <2>2. checkout[RefOf[j]].target # None  BY <2>1 DEF Traced
  <2>3. checkout[RefOf[j]] # NoCheckout  BY <2>2, Minted
  <2> QED  BY <1>1, <1>2, <2>2, <2>3 DEF CheckoutsKept
<1> QED  BY <1>1, <1>3, RecordsGrow DEF Traced

(* The rows a reference has paid.                                          *)
LEMMA ReferredStep ==
  ASSUME Good, Claims, TracesOK, Next, NEW i \in Rows
  PROVE  Referred(i)'
<1>1. Referred(i)  BY DEF TracesOK
<1>2. inst \in [Rows -> Row]  BY DEF Good, TypeOK
<1>3. ASSUME inst'[i].ref \in {inst[i].ref, None}  PROVE Referred(i)'
  <2>1. inst[i].ref \in Refs \cup {None}  BY <1>2 DEF Row
  <2> QED  BY <1>1, <1>3, <2>1, RecordsGrow DEF Referred
<1>4. CASE UNCHANGED inst  BY <1>3, <1>4
<1>5. CASE Creation
  <2>1. PICK kind \in {"adhoc", "balance", "fee", "tenancy"}, s \in [Rows -> Nat],
           cover \in Nat, arrears \in Nat : NewPlan(kind, s, cover, arrears)
    BY <1>5, Creating DEF Makes
  <2>2. inst'[i] = IF s[i] = 0 THEN NoRow
                   ELSE [NoRow EXCEPT !.amount = s[i], !.status = "pending"]
    BY <2>1 DEF NewPlan
  <2>3. inst'[i].ref = None  BY <2>2 DEF NoRow
  <2> QED  BY <1>3, <2>3
<1>6. ASSUME NEW j \in Jobs, Claim(j)  PROVE Referred(i)'
  BY <1>4, <1>6, Claiming DEF records
<1>7. ASSUME NEW j \in Jobs, Commit(j)  PROVE Referred(i)'
  <2> DEFINE n == till[j].amount
             r == RefOf[j]
  <2>1. /\ \A k \in Rows \ {till[j].row} : inst'[k] = inst[k]
        /\ inst'[till[j].row].ref = r /\ n \in Nat /\ r \in Refs \cup {None}
        /\ credited' = [credited EXCEPT ![r] = credited[r] + n]
        /\ till[j].pc = "claimed"
    BY <1>7, Committing
  <2>2. CASE i # till[j].row  BY <1>3, <2>1, <2>2
  <2>3. CASE i = till[j].row
    <3>1. n > 0  BY <2>1 DEF TracesOK, Traced, Paying
    <3>2. credited[r] \in Nat /\ credited \in [Refs \cup {None} -> Nat]
      BY <2>1 DEF Good, TypeOK, InvoiceTypeOK
    <3> HIDE DEF n, r
    <3>3. credited'[r] > 0  BY <2>1, <3>1, <3>2
    <3> QED  BY <2>1, <2>3, <3>3 DEF Referred
  <2> QED  BY <2>2, <2>3
<1>8. ASSUME NEW d \in Desks, CancelPlan(d)  PROVE Referred(i)'
  BY <1>4, <1>8, Cancelling
<1>9. ASSUME NEW d \in Desks, UpdatePlan(d)  PROVE Referred(i)'
  BY <1>3, <1>9, RefsStay
<1> QED  BY <1>4, <1>5, <1>6, <1>7, <1>8, <1>9, PlanSteps

(* Every checkout asks for something.                                      *)
LEMMA PricedStep ==
  ASSUME Good, Next, NEW r \in Refs, Priced(r)
  PROVE  Priced(r)'
<1>1. checkout \in [Refs -> [target : {"link", "row", "payoff", None}, amount : Nat]]
  BY DEF Good, TypeOK, InvoiceTypeOK
<1>2. CASE checkout' = checkout  BY <1>2 DEF Priced
<1>3. ASSUME NEW q \in Refs, NEW target, NEW n, n > 0,
             checkout' = [checkout EXCEPT ![q] = [target |-> target, amount |-> n]]
      PROVE  Priced(r)'
  BY <1>1, <1>3 DEF Priced
<1>4. CASE InvoiceNext
  <2>1. ASSUME NEW q \in Refs, InitializePublicPayment(q)  PROVE Priced(r)'
    BY <1>3, <2>1 DEF InitializePublicPayment
  <2> QED
    BY <1>2, <1>4, <2>1 DEF InvoiceNext, CreateInvoice, GatewayTakes, VerifyTurnsAway, SetAside,
       Accept, ClaimInvoice, ClaimLost, OpenInvoice, UpdateInvoice, CancelInvoice
<1>5. CASE Minting
  <2>1. ASSUME NEW q \in Refs, InitializePlanPayoffPayment(q)  PROVE Priced(r)'
    BY <1>3, <2>1 DEF InitializePlanPayoffPayment
  <2>2. ASSUME NEW q \in Refs, NEW i \in Rows, InitializeInstallmentPayment(q, i)
        PROVE  Priced(r)'
    BY <1>3, <2>2 DEF InitializeInstallmentPayment
  <2> QED  BY <1>5, <2>1, <2>2 DEF Minting
<1>6. CASE Creation
  BY <1>2, <1>6 DEF Creation, CreateAdHocInvoicePlan, CreateNewChargePlan, CreateFeePlan,
     CreateTenancyPlan, CreateOutstandingBalancePlan, invoiceVars
<1>7. ASSUME NEW j \in Jobs, \/ ReadingStep(j) \/ Claim(j) \/ Commit(j) \/ SettleSources(j)
                             \/ Ripple(j) \/ Crash(j)
      PROVE  Priced(r)'
  <2>1. CASE ReadingStep(j)  BY <1>2, <2>1, Reading DEF Good, records
  <2>2. CASE Claim(j)  BY <1>2, <2>2, Claiming DEF records
  <2>3. CASE Commit(j) \/ SettleSources(j)  BY <1>2, <2>3 DEF Commit, SettleSources
  <2>4. CASE Ripple(j) \/ Crash(j)  BY <1>2, <2>4, Rippling, Crashing
  <2> QED  BY <1>7, <2>1, <2>2, <2>3, <2>4
<1>8. ASSUME NEW d \in Desks, Looking(d) \/ CancelPlan(d) \/ UpdatePlan(d)  PROVE Priced(r)'
  BY <1>2, <1>8, LookingGood DEF CancelPlan, UpdatePlan, invoiceVars
<1> QED  BY <1>4, <1>5, <1>6, <1>7, <1>8, NextIs

(* A report that goes on with what it holds, or starts afresh.             *)
LEMMA TracedOn ==
  ASSUME Good, Claims, TracesOK, Next, NEW j \in Jobs, UNCHANGED checkout,
         till[j].pc # "idle", till'[j].pc \in TillSteps,
         Carries(j) \/ Fresh(j, till'[j].pc),
         till'[j].pc \in Paying => Carries(j) /\ till[j].pc \in Paying,
         RefOf[j] # None /\ till'[j].pc \in PaidFor \cup {"done"} => credited'[RefOf[j]] > 0
  PROVE  Traced(j)'
<1>1. Traced(j) /\ till[j] \in Till  BY DEF TracesOK, Good, TypeOK
<1>2. till'[j].pc \in Paying => till'[j].amount > 0  BY <1>1 DEF Traced, Carries
<1>3. ASSUME RefOf[j] # None, till'[j].applied > 0  PROVE credited'[RefOf[j]] > 0
  <2>1. RefOf[j] \in Refs  BY <1>3, JobAssumption
  <2>2. till[j].applied > 0  BY <1>3 DEF Carries, Fresh
  <2> QED  BY <1>1, <1>3, <2>1, <2>2, RecordsGrow DEF Traced
<1>4. RefOf[j] # None => checkout'[RefOf[j]].target # None  BY <1>1 DEF Traced
<1> QED  BY <1>2, <1>3, <1>4 DEF Traced

LEMMA TracedReading ==
  ASSUME Good, Claims, TracesOK, Next, NEW j \in Jobs, ReadingStep(j)
  PROVE  Traced(j)'
<1>1. /\ till \in [Jobs -> Till] /\ inst \in [Rows -> Row] /\ TillOK(j) /\ till[j] \in Till
      /\ checkout \in [Refs -> [target : {"link", "row", "payoff", None}, amount : Nat]]
      /\ credited \in [Refs \cup {None} -> Nat] /\ Traced(j)
  BY DEF Good, TypeOK, InvoiceTypeOK, Shape, TracesOK
<1>2. UNCHANGED <<checkout, credited, inst>> /\ till'[j].pc \in TillSteps
  BY <1>1, Reading, PcSteps DEF Good, records
<1>3. ASSUME RefOf[j] # None, NEW i \in Rows, inst[i].ref = RefOf[j]
      PROVE  credited[RefOf[j]] > 0
  BY <1>3 DEF TracesOK, Referred
<1>4. CASE Notice(j)
  <2> DEFINE r == RefOf[j]
             row == inst[rowOf[r]]
             n == Remaining(row)
             t == [NoTill EXCEPT !.pc = "priced", !.row = rowOf[r], !.amount = n]
  <2>1. r \in Refs /\ r # None /\ checkout[r].target = "row" /\ checkout[r].target # None
    BY <1>4, Reporting, RefAssumption DEF Notice, Good
  <2>2. rowOf[r] \in Rows /\ row \in Row  BY <1>1, <2>1 DEF Good, Shape
  <2>3. t.pc = "priced" /\ t.amount = n /\ t.applied = 0  BY DEF NoTill
  <2>4. /\ row.status # "none"
        /\ IF Open(row) /\ checkout[r].amount = n THEN till' = [till EXCEPT ![j] = t]
                                                  ELSE Leave(j, "done")
        /\ Files(r, IF row.status = "paid" THEN row.ref # r ELSE checkout[r].amount # n)
    BY <1>4 DEF Notice
  <2> HIDE DEF t, n
  <2>5. CASE Open(row) /\ checkout[r].amount = n
    <3>1. till'[j] = t  BY <1>1, <2>4, <2>5
    <3>2. n > 0  BY <2>1, <2>5 DEF TracesOK, Priced
    <3> QED  BY <1>2, <2>1, <2>3, <3>1, <3>2 DEF Traced, PaidFor
  <2>6. CASE ~(Open(row) /\ checkout[r].amount = n)
    <3>1. Fresh(j, "done")  BY <1>1, <2>4, <2>6, MovingOn, PcSteps
    <3>2. r \in filed' \/ credited[r] > 0
      <4>1. CASE row.status = "paid" /\ row.ref = r  BY <1>3, <2>1, <2>2, <4>1
      <4>2. CASE row.status = "paid" /\ row.ref # r  BY <2>4, <4>2 DEF Files
      <4>3. CASE row.status # "paid"
        <5>1. Open(row)  BY <2>2, <2>4, <4>3 DEF Row, Open
        <5> QED  BY <2>4, <2>6, <4>3, <5>1 DEF Files
      <4> QED  BY <4>1, <4>2, <4>3
    <3> QED  BY <1>2, <2>1, <3>1, <3>2 DEF Traced, Fresh, Paying, PaidFor
  <2> QED  BY <2>5, <2>6
<1>5. CASE RowGone(j)
  <2>1. Fresh(j, "lost") /\ checkout[RefOf[j]].target # None
    BY <1>1, <1>5, MovingOn, PcSteps, Reporting, RefAssumption DEF RowGone, Good
  <2> QED  BY <1>2, <2>1 DEF Traced, Fresh, Paying, PaidFor
<1>6. CASE VerifySkips(j)
  <2>1. Fresh(j, "done") /\ checkout[RefOf[j]].target # None /\ j \in Verifiers
    BY <1>1, <1>6, MovingOn, PcSteps, Reporting, RefAssumption DEF VerifySkips, Good
  <2> QED  BY <1>2, <2>1 DEF Traced, Fresh, Paying, PaidFor
<1>7. ASSUME NEW i \in Rows, NEW amount \in 1..(Bill + Fee + Arrears), MarkPaidManual(j, i, amount)
      PROVE  Traced(j)'
  <2> DEFINE t == [NoTill EXCEPT !.pc = "priced", !.row = i, !.amount = amount]
  <2>1. amount > 0  BY BillAssumption, DebtAssumption
  <2>2. t.amount = amount  BY DEF NoTill
  <2>3. till' = [till EXCEPT ![j] = t] /\ RefOf[j] = None  BY <1>7 DEF MarkPaidManual
  <2> HIDE DEF t
  <2>4. till'[j] = t  BY <1>1, <2>3
  <2> QED  BY <2>1, <2>2, <2>3, <2>4 DEF Traced
<1>8. CASE MarkPlanPaidOff(j)
  <2> DEFINE r == RefOf[j]
             known == \E i \in Rows : inst[i].ref = r
             t == [NoTill EXCEPT !.pc = "walking", !.todo = OpenRows]
  <2>1. r \in Refs /\ r # None /\ checkout[r].target # None
    BY <1>8, Reporting, RefAssumption DEF MarkPlanPaidOff, Good
  <2>2. t.pc = "walking" /\ t.applied = 0  BY DEF NoTill
  <2>3. /\ IF plan.status = "active" THEN till' = [till EXCEPT ![j] = t] ELSE Leave(j, "done")
        /\ Files(r, plan.status # "active" /\ ~known)
    BY <1>8 DEF MarkPlanPaidOff
  <2> HIDE DEF t
  <2>4. CASE plan.status = "active"
    <3>1. till'[j] = t  BY <1>1, <2>3, <2>4
    <3> QED  BY <1>2, <2>1, <2>2, <3>1 DEF Traced, Paying, PaidFor
  <2>5. CASE plan.status # "active"
    <3>1. Fresh(j, "done")  BY <1>1, <2>3, <2>5, MovingOn, PcSteps
    <3>2. r \in filed' \/ credited[r] > 0
      <4>1. CASE known  BY <1>3, <2>1, <4>1
      <4>2. CASE ~known  BY <2>3, <2>5, <4>2 DEF Files
      <4> QED  BY <4>1, <4>2
    <3> QED  BY <1>2, <2>1, <3>1, <3>2 DEF Traced, Fresh, Paying, PaidFor
  <2> QED  BY <2>4, <2>5
<1>9. CASE NextRow(j)
  <2> DEFINE i == Min(till[j].todo)
             n == Remaining(inst[i])
             gone == [NoTill EXCEPT !.pc = "lost"]
             on == [till[j] EXCEPT !.todo = till[j].todo \ {i}]
             t == [till[j] EXCEPT !.pc = "priced", !.row = i, !.amount = n]
  <2>1. till[j].pc = "walking" /\ till[j].todo # {} /\ till[j].todo \subseteq Rows
    BY <1>1, <1>9 DEF NextRow, Till
  <2>2. i \in Rows  BY <2>1, HasMin
  <2>3. n \in Nat  BY <1>1, <2>2, RowParts
  <2>4. /\ gone.pc = "lost" /\ gone.applied = 0
        /\ on.pc = "walking" /\ on.applied = till[j].applied
        /\ t.pc = "priced" /\ t.applied = till[j].applied /\ t.amount = n
    <3> HIDE DEF i, n
    <3> QED  BY <1>1, <2>1 DEF Till, NoTill
  <2>5. till' = [till EXCEPT ![j] =
             IF inst[i].status = "none" THEN gone
             ELSE IF inst[i].status = "paid" \/ n = 0 THEN on ELSE t]
    BY <1>9 DEF NextRow
  <2> HIDE DEF gone, on, t, n
  <2>6. till'[j] = gone \/ till'[j] = on \/ (till'[j] = t /\ n # 0)  BY <1>1, <2>5
  <2>7. n # 0 => n > 0  BY <2>3
  <2> QED  BY <1>1, <1>2, <2>1, <2>4, <2>6, <2>7 DEF Traced, Paying, PaidFor
<1>10. CASE ConfirmRow(j)
  <2> DEFINE row == inst[till[j].row]
             landed == row.status = "paid" /\ row.ref = RefOf[j]
             n == IF landed THEN till[j].amount ELSE 0
             t == [till[j] EXCEPT !.pc = "walking", !.todo = till[j].todo \ {till[j].row},
                                  !.applied = till[j].applied + n]
  <2>1. till[j].pc = "confirming" /\ till[j].row \in Rows  BY <1>1, <1>10 DEF ConfirmRow, TillOK, OnRow
  <2>2. t.pc = "walking" /\ t.applied = till[j].applied + n
    <3> HIDE DEF n
    <3> QED  BY <1>1 DEF Till
  <2>3. till' = [till EXCEPT ![j] = t]  BY <1>10 DEF ConfirmRow
  <2>4. till[j].amount \in Nat /\ till[j].applied \in Nat  BY <1>1 DEF Till
  <2>5. t.applied > 0 => till[j].applied > 0 \/ landed  BY <2>2, <2>4
  <2>6. landed /\ RefOf[j] # None => credited[RefOf[j]] > 0  BY <1>3, <2>1
  <2> HIDE DEF t, landed
  <2>7. till'[j] = t  BY <1>1, <2>3
  <2> QED  BY <1>1, <1>2, <2>1, <2>2, <2>5, <2>6, <2>7 DEF Traced, Paying, PaidFor
<1>11. CASE FinishPayoff(j)
  <2> DEFINE r == RefOf[j]
  <2>1. till[j].pc = "walking" /\ PaysOff(j)  BY <1>1, <1>11 DEF FinishPayoff, TillOK
  <2>2. r \in Refs /\ checkout[r].target # None  BY <2>1, PayingOff, RefAssumption DEF PaysOff
  <2>3. Fresh(j, "done") /\ Files(r, checkout[r].amount # till[j].applied)
    BY <1>1, <1>11, MovingOn, PcSteps DEF FinishPayoff
  <2>4. r \in filed' \/ credited[r] > 0
    <3>1. CASE checkout[r].amount # till[j].applied  BY <2>3, <3>1 DEF Files
    <3>2. CASE checkout[r].amount = till[j].applied
      <4>1. till[j].applied > 0  BY <2>2, <3>2 DEF TracesOK, Priced
      <4> QED  BY <1>1, <2>1, <4>1 DEF Traced, PaysOff
    <3> QED  BY <3>1, <3>2
  <2> QED  BY <1>2, <2>2, <2>3, <2>4 DEF Traced, Fresh, Paying, PaidFor
<1>12. CASE Lose(j)
  <2>1. till[j].pc = "priced" /\ till'[j].pc \in {"confirming", "lost"}
    BY <1>1, <1>12, MovingOn, PcSteps DEF Lose, Fresh
  <2> QED  BY <1>2, <1>12, <2>1, Carrying, TracedOn DEF Paying, PaidFor, Fresh
<1>13. CASE ReadRenewal(j)
  <2>1. till[j].pc = "reading"  BY <1>13 DEF ReadRenewal
  <2>2. till'[j].pc \in {"rippling", "confirming", "done"}
    <3> DEFINE t == [till[j] EXCEPT !.pc = "rippling", !.last = plan.status = "completed"]
    <3>1. Return(j) \/ till' = [till EXCEPT ![j] = t]  BY <1>1, <1>13 DEF ReadRenewal
    <3>2. t.pc = "rippling"  BY <1>1 DEF Till
    <3> HIDE DEF t
    <3>3. Return(j) => till'[j].pc \in {"confirming", "done"}  BY <1>1, Returning
    <3> QED  BY <1>1, <3>1, <3>2, <3>3
  <2>3. RefOf[j] # None => credited'[RefOf[j]] > 0  BY <1>1, <1>2, <2>1 DEF Traced, PaidFor
  <2> QED  BY <1>2, <1>13, <2>1, <2>2, <2>3, Carrying, TracedOn DEF Paying, PaidFor, Fresh
<1> QED
  BY <1>4, <1>5, <1>6, <1>7, <1>8, <1>9, <1>10, <1>11, <1>12, <1>13 DEF ReadingStep

LEMMA TracedActing ==
  ASSUME Good, Claims, TracesOK, Next, NEW j \in Jobs,
         ReadingStep(j) \/ Claim(j) \/ Commit(j) \/ SettleSources(j) \/ Ripple(j) \/ Crash(j)
  PROVE  Traced(j)'
<1>1. till \in [Jobs -> Till] /\ till[j] \in Till /\ Traced(j)  BY DEF TracesOK, Good, TypeOK
<1>2. CASE ReadingStep(j)  BY <1>2, TracedReading
<1>3. CASE Claim(j)
  <2>1. till[j].pc = "priced" /\ till'[j].pc = "claimed" /\ UNCHANGED checkout
    BY <1>3, Claiming DEF records
  <2>2. Carries(j) \/ Fresh(j, till'[j].pc)  BY <1>3, Carrying DEF Fresh
  <2>3. Carries(j)  BY <1>3, <2>1, Carrying DEF Fresh
  <2> QED  BY <2>1, <2>2, <2>3, PcSteps, TracedOn DEF Paying, PaidFor
<1>4. CASE Commit(j)
  <2> DEFINE r == RefOf[j]
             n == till[j].amount
  <2>1. /\ till[j].pc = "claimed" /\ n \in Nat /\ r \in Refs \cup {None}
        /\ credited' = [credited EXCEPT ![r] = credited[r] + n] /\ UNCHANGED checkout
        /\ till'[j].pc \in {"settling", "reading", "confirming", "done"}
    BY <1>4, Committing
  <2>2. n > 0  BY <1>1, <2>1 DEF Traced, Paying
  <2>3. credited \in [Refs \cup {None} -> Nat]  BY DEF Good, TypeOK, InvoiceTypeOK
  <2> HIDE DEF n
  <2>4. credited'[r] > 0  BY <2>1, <2>2, <2>3
  <2>5. Carries(j) \/ Fresh(j, till'[j].pc)  BY <1>4, Carrying DEF Fresh
  <2> QED  BY <2>1, <2>4, <2>5, PcSteps, TracedOn DEF Paying, PaidFor
<1>5. CASE SettleSources(j) \/ Ripple(j)
  <2>1. /\ till[j].pc \in {"settling", "rippling"} /\ UNCHANGED <<checkout, credited>>
        /\ till'[j].pc \in {"confirming", "done"}
    BY <1>5, Settling, Rippling
  <2>2. RefOf[j] # None => credited'[RefOf[j]] > 0  BY <1>1, <2>1 DEF Traced, PaidFor
  <2>3. Carries(j) \/ Fresh(j, till'[j].pc)  BY <1>5, Carrying DEF Fresh
  <2> QED  BY <2>1, <2>2, <2>3, PcSteps, TracedOn DEF Paying
<1>6. CASE Crash(j)
  <2> DEFINE done == [NoTill EXCEPT !.pc = "done"]
             t == IF RefOf[j] = None THEN done ELSE NoTill
  <2>1. till' = [till EXCEPT ![j] = t]  BY <1>6 DEF Crash
  <2>2. /\ t.pc = (IF RefOf[j] = None THEN "done" ELSE "idle") /\ t.applied = 0
    BY DEF NoTill
  <2> HIDE DEF t
  <2>3. till'[j] = t  BY <1>1, <2>1
  <2> QED  BY <2>2, <2>3 DEF Traced, Paying, PaidFor
<1> QED  BY <1>2, <1>3, <1>4, <1>5, <1>6

(* The other reports do not move.                                          *)
LEMMA OthersWait ==
  ASSUME Good, Claims, NEW j \in Jobs,
         ReadingStep(j) \/ Claim(j) \/ Commit(j) \/ SettleSources(j) \/ Ripple(j) \/ Crash(j)
  PROVE  \A k \in Jobs \ {j} : till'[k] = till[k]
BY Reading, Claiming, Committing, Settling, Rippling, Crashing DEF Good

LEMMA TillsWait ==
  ASSUME Good, Next
  PROVE  \/ UNCHANGED till
         \/ \E j \in Jobs : \/ ReadingStep(j) \/ Claim(j) \/ Commit(j) \/ SettleSources(j)
                            \/ Ripple(j) \/ Crash(j)
<1>1. CASE InvoiceNext /\ UNCHANGED planVars  BY <1>1 DEF planVars
<1>2. CASE Creation  BY <1>2, CreatingRows
<1>3. CASE Minting
  BY <1>3 DEF Minting, InitializePlanPayoffPayment, InitializeInstallmentPayment, planVars
<1>4. ASSUME NEW d \in Desks, Looking(d) \/ CancelPlan(d) \/ UpdatePlan(d)
      PROVE  UNCHANGED till
  BY <1>4, LookingGood DEF CancelPlan, UpdatePlan
<1> QED  BY <1>1, <1>2, <1>3, <1>4, NextIs

LEMMA TracesStep ==
  ASSUME Good, Claims, TracesOK, Next
  PROVE  TracesOK'
<1>1. ASSUME NEW j \in Jobs  PROVE Traced(j)'
  <2>1. CASE till'[j] = till[j]  BY <2>1, TracedKept DEF TracesOK
  <2>2. CASE till'[j] # till[j]
    <3>1. \/ ReadingStep(j) \/ Claim(j) \/ Commit(j) \/ SettleSources(j)
          \/ Ripple(j) \/ Crash(j)
      BY <2>2, TillsWait, OthersWait
    <3> QED  BY <3>1, TracedActing
  <2> QED  BY <2>1, <2>2
<1>2. \A r \in Refs : Priced(r)'  BY PricedStep DEF TracesOK
<1>3. \A i \in Rows : Referred(i)'  BY ReferredStep
<1> QED  BY <1>1, <1>2, <1>3 DEF TracesOK

-----------------------------------------------------------------------------
(* The trail of money paid over the link.  Once a bill has a payment it    *)
(* keeps the payment's reference until another payment is claimed, which   *)
(* takes an open bill.                                                     *)
Kept(r) == r \in filed \/ credited[r] > 0 \/ invoice.ref = r

LinkOK(j) ==
  job[j].pc # "idle" =>
    /\ RefOf[j] # None /\ checkout[RefOf[j]].target = "link"
    /\ job[j].pc = "done" /\ j \notin Verifiers /\ (~stale \/ Unedited) => Kept(RefOf[j])

LinksOK ==
  /\ invoice.status = "none" => invoice = NoInvoice
  /\ ~stale => (invoice.status \in OpenStatus => invoice.ref = None)
  /\ \A d \in Desks :
       /\ edit[d].pc \in {"editing", "cancelling"} => invoice.status # "none"
       /\ change[d].pc = "weighed" /\ change[d].invoice.covered => invoice.status # "none"
  /\ \A j \in Jobs : LinkOK(j)

(* The steps that write the bill.                                          *)
LEMMA BillWrites ==
  ASSUME Good, Claims, Next
  PROVE  \/ UNCHANGED invoice
         \/ CreateInvoice \/ CreateNewChargePlan \/ CreateAdHocInvoicePlan
         \/ \E d \in Desks : CreateOutstandingBalancePlan(d) \/ CancelPlan(d)
         \/ \E j \in Jobs : ClaimInvoice(j) \/ SettleSources(j)
         \/ \E d \in Desks : CancelInvoice(d) \/ \E total \in Rebills : UpdateInvoice(d, total)
<1>1. CASE InvoiceNext
  BY <1>1 DEF InvoiceNext, InitializePublicPayment, GatewayTakes, VerifyTurnsAway, SetAside,
     Accept, ClaimLost, OpenInvoice
<1>2. CASE Creation
  BY <1>2 DEF Creation, CreateFeePlan, CreateTenancyPlan, invoiceVars
<1>3. CASE Minting
  BY <1>3 DEF Minting, InitializePlanPayoffPayment, InitializeInstallmentPayment
<1>4. ASSUME NEW j \in Jobs, ReadingStep(j) \/ Claim(j) \/ Commit(j) \/ Ripple(j) \/ Crash(j)
      PROVE  UNCHANGED invoice
  BY <1>4, Reading, Claiming, Committing, Rippling, Crashing DEF Good, records
<1>5. ASSUME NEW d \in Desks, Looking(d) \/ UpdatePlan(d)  PROVE UNCHANGED invoice
  BY <1>5, LookingGood DEF UpdatePlan, invoiceVars
<1> QED  BY <1>1, <1>2, <1>3, <1>4, <1>5, NextIs

(* A bill is never unmade, and its reference changes with a claim only.    *)
LEMMA RefKept ==
  ASSUME Good, Claims, LinksOK, Next
  PROVE  /\ invoice'.ref = invoice.ref \/ \E j \in Jobs : ClaimInvoice(j)
         /\ invoice.status # "none" => invoice'.status # "none"
         /\ invoice'.status = "none" => invoice' = invoice
<1> DEFINE Goal ==
      /\ invoice'.ref = invoice.ref \/ \E j \in Jobs : ClaimInvoice(j)
      /\ invoice.status # "none" => invoice'.status # "none"
      /\ invoice'.status = "none" => invoice' = invoice
<1>1. invoice \in InvoiceRow /\ change \in [Desks -> Change]  BY DEF Good, TypeOK, InvoiceTypeOK
<1>2. CASE UNCHANGED invoice  BY <1>2
<1>3. CASE CreateInvoice \/ CreateNewChargePlan
  <2>1. PICK c \in BOOLEAN : Billed(c)  BY <1>3 DEF CreateInvoice, CreateNewChargePlan
  <2>2. invoice.ref = None  BY <2>1 DEF Billed, LinksOK, NoInvoice
  <2>3. invoice'.ref = None /\ invoice'.status = "pending"  BY <2>1 DEF Billed, NoInvoice
  <2> QED  BY <2>2, <2>3
<1>4. ASSUME NEW b \in BOOLEAN, invoice' = [invoice EXCEPT !.covered = b],
             invoice.status = "none" => b = invoice.covered
      PROVE  Goal
  <2>1. invoice'.ref = invoice.ref /\ invoice'.status = invoice.status
    BY <1>1, <1>4 DEF InvoiceRow
  <2>2. b = invoice.covered => invoice' = invoice  BY <1>1, <1>4 DEF InvoiceRow
  <2> QED  BY <1>4, <2>1, <2>2
<1>5. CASE CreateAdHocInvoicePlan
  BY <1>4, <1>5 DEF CreateAdHocInvoicePlan, OpenStatus
<1>6. ASSUME NEW d \in Desks, CreateOutstandingBalancePlan(d)  PROVE Goal
  <2> DEFINE owed == -change[d].wallet
             free == invoice.status \in OpenStatus /\ ~invoice.covered
             cover == IF free THEN Least(Due(invoice), owed) ELSE 0
             b == invoice.covered \/ cover > 0
  <2>1. invoice' = [invoice EXCEPT !.covered = b]  BY <1>6 DEF CreateOutstandingBalancePlan
  <2>2. invoice.covered \in BOOLEAN /\ b \in BOOLEAN  BY <1>1 DEF InvoiceRow
  <2>3. invoice.status = "none" => cover = 0  BY DEF OpenStatus
  <2>4. invoice.status = "none" => b = invoice.covered
    <3> HIDE DEF cover
    <3> QED  BY <2>2, <2>3
  <2> HIDE DEF b
  <2> QED  BY <1>4, <2>1, <2>2, <2>4
<1>7. ASSUME NEW j \in Jobs, ClaimInvoice(j)  PROVE Goal
  <2>1. invoice'.status = "paid"  BY <1>1, <1>7 DEF ClaimInvoice, InvoiceRow
  <2> QED  BY <1>7, <2>1
<1>8. ASSUME NEW j \in Jobs, SettleSources(j)  PROVE Goal
  <2>1. PICK x, left : UNCHANGED invoice \/ invoice' = SettledInvoice(x, left)
    BY <1>8 DEF SettleSources
  <2>2. \/ invoice' = invoice
        \/ invoice' = [invoice EXCEPT !.status = "paid", !.paid = invoice.total, !.covered = FALSE]
        \/ invoice' = [invoice EXCEPT !.status = "partial",
                                      !.paid = Least(invoice.total, invoice.paid + x)]
    BY <2>1 DEF SettledInvoice
  <2> QED  BY <1>1, <2>2 DEF InvoiceRow
<1>9. ASSUME NEW d \in Desks, CancelPlan(d)  PROVE Goal
  <2> DEFINE copy == change[d].invoice
             paid == copy.total - Least(copy.total, plan.cover - change[d].drawn.invoice)
             status == IF paid = copy.total THEN "paid" ELSE IF paid > 0 THEN "partial" ELSE "pending"
  <2>1. \/ invoice' = invoice
        \/ copy.covered /\ invoice' = [invoice EXCEPT !.covered = FALSE]
        \/ copy.covered
             /\ invoice' = [invoice EXCEPT !.covered = FALSE, !.paid = paid, !.status = status]
    BY <1>9, Cancelling DEF ReopenedInvoice
  <2>2. copy.covered => invoice.status # "none"  BY <1>9, Cancelling DEF LinksOK
  <2>3. status # "none"  OBVIOUS
  <2> HIDE DEF paid, status, copy
  <2>4. invoice'.ref = invoice.ref  BY <1>1, <2>1 DEF InvoiceRow
  <2>5. copy.covered => invoice'.status # "none"  BY <1>1, <2>1, <2>2, <2>3 DEF InvoiceRow
  <2> QED  BY <2>1, <2>4, <2>5
<1>10. ASSUME NEW d \in Desks, CancelInvoice(d)  PROVE Goal
  <2>1. invoice'.ref = invoice.ref /\ invoice'.status = "cancelled"
    BY <1>1, <1>10 DEF CancelInvoice, InvoiceRow
  <2> QED  BY <2>1
<1>11. ASSUME NEW d \in Desks, NEW total \in Rebills, UpdateInvoice(d, total)  PROVE Goal
  <2>1. invoice'.ref = invoice.ref /\ invoice'.status = invoice.status
    BY <1>1, <1>11 DEF UpdateInvoice, InvoiceRow
  <2>2. invoice.status # "none"  BY <1>11 DEF UpdateInvoice, LinksOK
  <2> QED  BY <2>1, <2>2
<1> QED
  BY <1>2, <1>3, <1>5, <1>6, <1>7, <1>8, <1>9, <1>10, <1>11, BillWrites

(* The landlord's edits, once written, stay so.                            *)
LEMMA UneditedBefore ==
  ASSUME Good, Next, Unedited'
  PROVE  Unedited
<1>1. edit \in [Desks -> [pc : {"idle", "editing", "cancelling"} \cup Written, copy : InvoiceRow]]
  BY DEF Good, TypeOK, InvoiceTypeOK
<1>2. CASE UNCHANGED edit  BY <1>2 DEF Unedited
<1>3. ASSUME NEW d \in Desks, edit[d].pc \notin Written, \A e \in Desks \ {d} : edit'[e] = edit[e]
      PROVE  Unedited
  BY <1>3 DEF Unedited
<1>4. CASE InvoiceNext
  <2>1. ASSUME NEW d \in Desks, NEW pc \in {"editing", "cancelling"}, OpenInvoice(d, pc)
        PROVE  Unedited
    <3>1. edit[d].pc \notin Written  BY <2>1 DEF OpenInvoice, Written
    <3>2. \A e \in Desks \ {d} : edit'[e] = edit[e]  BY <1>1, <2>1 DEF OpenInvoice
    <3> QED  BY <1>3, <3>1, <3>2
  <2>2. ASSUME NEW d \in Desks, NEW total \in Rebills, UpdateInvoice(d, total)
        PROVE  Unedited
    <3>1. edit[d].pc \notin Written  BY <2>2 DEF UpdateInvoice, Written
    <3>2. \A e \in Desks \ {d} : edit'[e] = edit[e]  BY <1>1, <2>2 DEF UpdateInvoice
    <3> QED  BY <1>3, <3>1, <3>2
  <2>3. ASSUME NEW d \in Desks, CancelInvoice(d)  PROVE Unedited
    <3>1. edit[d].pc \notin Written  BY <2>3 DEF CancelInvoice, Written
    <3>2. \A e \in Desks \ {d} : edit'[e] = edit[e]  BY <1>1, <2>3 DEF CancelInvoice
    <3> QED  BY <1>3, <3>1, <3>2
  <2>4. CASE CreateInvoice \/ \E r \in Refs : InitializePublicPayment(r) \/ GatewayTakes(r)
    BY <1>2, <2>4 DEF CreateInvoice, InitializePublicPayment, GatewayTakes
  <2>5. ASSUME NEW j \in Jobs, \/ VerifyTurnsAway(j) \/ SetAside(j) \/ Accept(j)
                               \/ ClaimInvoice(j) \/ ClaimLost(j)
        PROVE  Unedited
    BY <1>2, <2>5 DEF VerifyTurnsAway, SetAside, Accept, ClaimInvoice, ClaimLost
  <2> QED  BY <1>4, <2>1, <2>2, <2>3, <2>4, <2>5 DEF InvoiceNext
<1> QED  BY <1>2, <1>4, PlanLeavesCopies

(* No edit is written while there is none.                                 *)
LEMMA UneditedSteps ==
  ASSUME Good, Next, Unedited'
  PROVE  \A d \in Desks : ~CancelInvoice(d) /\ \A total \in Rebills : ~UpdateInvoice(d, total)
<1>1. edit \in [Desks -> [pc : {"idle", "editing", "cancelling"} \cup Written, copy : InvoiceRow]]
  BY DEF Good, TypeOK, InvoiceTypeOK
<1>2. ASSUME NEW d \in Desks, CancelInvoice(d)  PROVE FALSE
  <2>1. edit'[d].pc = "done"  BY <1>1, <1>2 DEF CancelInvoice
  <2> QED  BY <2>1 DEF Unedited, Written
<1>3. ASSUME NEW d \in Desks, NEW total \in Rebills, UpdateInvoice(d, total)  PROVE FALSE
  <2>1. edit'[d].pc \in Written  BY <1>1, <1>3 DEF UpdateInvoice, Written
  <2> QED  BY <2>1 DEF Unedited
<1> QED  BY <1>2, <1>3

(* While no edit is written, an open bill has something left to pay, also  *)
(* beside what its plan has yet to collect, and money that arrives for it  *)
(* is credited.                                                            *)
OpenBillOK ==
  /\ plan.cover <= invoice.total
  /\ invoice.status \in OpenStatus =>
       invoice.paid < invoice.total /\ invoice.paid + plan.cover - drawn.invoice <= invoice.total

WeighedOK(d) ==
  change[d].pc = "weighed" =>
    /\ change[d].drawn.invoice <= drawn.invoice
    /\ change[d].invoice.covered => change[d].invoice.total = invoice.total

BillOK == Unedited =>
  /\ invoice.ref # None => credited[invoice.ref] > 0
  /\ OpenBillOK
  /\ \A j \in Jobs : job[j].pc = "accepted" => job[j].copy.paid < job[j].copy.total
  /\ \A d \in Desks : WeighedOK(d)

(* The reference of the bill.                                              *)
LEMMA RefCredited ==
  ASSUME Good, Claims, TracesOK, LinksOK, BillOK, Next, Unedited', invoice'.ref # None
  PROVE  credited'[invoice'.ref] > 0
<1>1. /\ Unedited /\ invoice.ref \in Refs \cup {None}
      /\ credited \in [Refs \cup {None} -> Nat]
      /\ checkout \in [Refs -> [target : {"link", "row", "payoff", None}, amount : Nat]]
      /\ job \in [Jobs -> [pc : {"idle", "accepted"} \cup Ended, copy : InvoiceRow]]
      /\ invoice \in InvoiceRow
  BY UneditedBefore DEF Good, TypeOK, InvoiceTypeOK, InvoiceRow
<1>2. CASE invoice'.ref = invoice.ref
  <2>1. credited[invoice.ref] > 0  BY <1>1, <1>2 DEF BillOK
  <2> QED  BY <1>1, <1>2, <2>1, RecordsGrow
<1>3. ASSUME NEW j \in Jobs, ClaimInvoice(j)  PROVE credited'[invoice'.ref] > 0
  <2> DEFINE r == RefOf[j]
             n == Least(checkout[r].amount, Due(job[j].copy))
  <2>1. job[j].pc = "accepted" /\ credited' = [credited EXCEPT ![r] = credited[r] + n]
    BY <1>3 DEF ClaimInvoice
  <2>2. r \in Refs /\ checkout[r].target # None
    BY <2>1, JobAssumption, RefAssumption DEF Good, Shape
  <2>3. checkout[r].amount > 0  BY <2>2 DEF TracesOK, Priced
  <2>4. Due(job[j].copy) > 0
    <3>1. job[j].copy \in InvoiceRow  BY <1>1
    <3>2. job[j].copy.total \in Nat /\ job[j].copy.paid \in Nat  BY <3>1 DEF InvoiceRow
    <3>3. job[j].copy.paid < job[j].copy.total  BY <1>1, <2>1 DEF BillOK
    <3> QED  BY <3>2, <3>3 DEF Due
  <2>5. n > 0 /\ n \in Nat
    <3>1. checkout[r].amount \in Nat /\ Due(job[j].copy) \in Nat  BY <1>1, <2>2, DueType
    <3> QED  BY <2>3, <2>4, <3>1 DEF Least
  <2>6. invoice'.ref = r  BY <1>1, <1>3 DEF ClaimInvoice, InvoiceRow
  <2> HIDE DEF n
  <2> QED  BY <1>1, <2>1, <2>2, <2>5, <2>6
<1> QED  BY <1>2, <1>3, RefKept

(* The copies of the link's reports.                                       *)
LEMMA AcceptedDue ==
  ASSUME Good, BillOK, Next, Unedited', NEW j \in Jobs, job'[j].pc = "accepted"
  PROVE  job'[j].copy.paid < job'[j].copy.total
<1>1. /\ Unedited
      /\ job \in [Jobs -> [pc : {"idle", "accepted"} \cup Ended, copy : InvoiceRow]]
  BY UneditedBefore DEF Good, TypeOK, InvoiceTypeOK
<1>2. CASE job'[j] = job[j]  BY <1>1, <1>2 DEF BillOK
<1>3. CASE Accept(j)
  <2>1. job'[j].copy = invoice  BY <1>1, <1>3 DEF Accept
  <2>2. invoice.status \in OpenStatus  BY <1>3 DEF Accept, Payable
  <2> QED  BY <1>1, <2>1, <2>2 DEF BillOK, OpenBillOK
<1>4. CASE InvoiceNext
  <2>1. ASSUME NEW k \in Jobs, NEW pc \in Ended, To(k, pc)  PROVE job'[j] = job[j]
    BY <1>1, <2>1 DEF To, Ended
  <2>2. ASSUME NEW k \in Jobs, VerifyTurnsAway(k) \/ SetAside(k) \/ ClaimInvoice(k) \/ ClaimLost(k)
        PROVE  job'[j] = job[j]
    BY <2>1, <2>2 DEF VerifyTurnsAway, SetAside, ClaimInvoice, ClaimLost, Ended
  <2>3. ASSUME NEW k \in Jobs, Accept(k)  PROVE job'[j] = job[j] \/ Accept(j)
    BY <1>1, <2>3 DEF Accept
  <2>4. ASSUME CreateInvoice \/ \E r \in Refs : InitializePublicPayment(r) \/ GatewayTakes(r)
        PROVE  job'[j] = job[j]
    BY <2>4 DEF CreateInvoice, InitializePublicPayment, GatewayTakes
  <2>5. ASSUME NEW d \in Desks, \/ OpenInvoice(d, "editing") \/ OpenInvoice(d, "cancelling")
                                \/ CancelInvoice(d)
                                \/ \E total \in Rebills : UpdateInvoice(d, total)
        PROVE  job'[j] = job[j]
    BY <2>5 DEF OpenInvoice, CancelInvoice, UpdateInvoice
  <2>6. job'[j] = job[j] \/ Accept(j)
    BY <1>4, <2>2, <2>3, <2>4, <2>5 DEF InvoiceNext
  <2> QED  BY <1>2, <1>3, <2>6
<1> QED  BY <1>2, <1>4, PlanLeavesCopies

(* The steps that write a plan's cover or what was drawn of it.            *)
LEMMA CoverKept ==
  ASSUME Good, Claims, Next
  PROVE  \/ plan'.cover = plan.cover /\ UNCHANGED drawn
         \/ Creation
         \/ \E j \in Jobs : SettleSources(j)
<1>1. CASE InvoiceNext /\ UNCHANGED planVars  BY <1>1 DEF planVars
<1>2. CASE Minting
  BY <1>2 DEF Minting, InitializePlanPayoffPayment, InitializeInstallmentPayment, planVars
<1>3. ASSUME NEW j \in Jobs, ReadingStep(j) \/ Claim(j) \/ Ripple(j) \/ Crash(j)
      PROVE  UNCHANGED <<plan, drawn>>
  BY <1>3, Reading, Claiming, Rippling, Crashing DEF Good, records
<1>4. ASSUME NEW j \in Jobs, Commit(j)  PROVE plan'.cover = plan.cover /\ UNCHANGED drawn
  BY <1>4, Committing, CommitPlan
<1>5. ASSUME NEW d \in Desks, Looking(d) \/ CancelPlan(d) \/ UpdatePlan(d)
      PROVE  plan'.cover = plan.cover /\ UNCHANGED drawn
  BY <1>5, LookingGood, Cancelling DEF UpdatePlan
<1> QED  BY <1>1, <1>2, <1>3, <1>4, <1>5, NextIs

(* What a bill has left beside its plan.                                   *)
LEMMA BillTypes ==
  ASSUME Good
  PROVE  /\ invoice \in InvoiceRow /\ invoice.total \in Nat /\ invoice.paid \in Nat
         /\ drawn.invoice \in Nat /\ plan.cover \in Nat /\ drawn.invoice <= plan.cover
         /\ change \in [Desks -> Change]
         /\ \A d \in Desks : /\ change[d].invoice \in InvoiceRow /\ change[d].drawn.invoice \in Nat
                             /\ change[d].invoice.total \in Nat
<1>1. invoice \in InvoiceRow /\ drawn \in Drawn /\ plan \in PlanRow /\ change \in [Desks -> Change]
  BY DEF Good, TypeOK, InvoiceTypeOK
<1>2. ASSUME NEW d \in Desks
      PROVE  /\ change[d].invoice \in InvoiceRow /\ change[d].drawn.invoice \in Nat
             /\ change[d].invoice.total \in Nat
  <2>1. change[d] \in Change  BY <1>1
  <2>2. change[d].invoice \in InvoiceRow /\ change[d].drawn \in Drawn  BY <2>1 DEF Change
  <2> QED  BY <2>2 DEF InvoiceRow, Drawn
<1> QED  BY <1>1, <1>2 DEF Good, Shape, InvoiceRow, Drawn, PlanRow

LEMMA OpenBillCreation ==
  ASSUME Good, LinksOK, OpenBillOK, Creation
  PROVE  OpenBillOK'
<1>1. /\ invoice \in InvoiceRow /\ invoice.total \in Nat /\ invoice.paid \in Nat
      /\ drawn.invoice \in Nat /\ UNCHANGED drawn
  BY BillTypes DEF Creation, CreateAdHocInvoicePlan, CreateNewChargePlan, CreateFeePlan,
     CreateTenancyPlan, CreateOutstandingBalancePlan, NewPlan
<1>2. ASSUME NEW cover \in Nat, plan'.cover = cover, cover <= invoice'.total,
             invoice'.paid = invoice.paid, invoice'.total = invoice.total,
             invoice'.status = invoice.status,
             invoice.status \in OpenStatus => cover <= invoice.total - invoice.paid
      PROVE  OpenBillOK'
  BY <1>1, <1>2 DEF OpenBillOK
<1>3. ASSUME NEW b \in BOOLEAN, NEW i, i = [invoice EXCEPT !.covered = b]
      PROVE  i.paid = invoice.paid /\ i.total = invoice.total /\ i.status = invoice.status
  BY <1>1, <1>3 DEF InvoiceRow
<1>4. ASSUME NEW kind, NEW s, NEW cover, NEW arrears, NewPlan(kind, s, cover, arrears)
      PROVE  plan'.cover = cover
  BY <1>4 DEF NewPlan
<1>5. CASE CreateAdHocInvoicePlan
  <2>1. /\ plan'.cover = Due(invoice) /\ invoice' = [invoice EXCEPT !.covered = TRUE]
        /\ invoice.status \in OpenStatus
    BY <1>4, <1>5 DEF CreateAdHocInvoicePlan
  <2>2. invoice.paid < invoice.total  BY <2>1 DEF OpenBillOK
  <2>3. Due(invoice) = invoice.total - invoice.paid /\ Due(invoice) \in Nat
        /\ Due(invoice) <= invoice.total
    BY <1>1, <2>2 DEF Due
  <2> QED  BY <1>2, <1>3, <2>1, <2>3
<1>6. CASE CreateNewChargePlan
  <2>1. plan'.cover = Bill /\ Bill > 0
        /\ invoice' = [NoInvoice EXCEPT !.status = "pending", !.total = Bill, !.covered = TRUE]
    BY <1>4, <1>6 DEF CreateNewChargePlan, Billed
  <2>2. invoice'.paid = 0 /\ invoice'.total = Bill  BY <2>1 DEF NoInvoice
  <2> QED  BY <1>1, <2>1, <2>2, BillAssumption DEF OpenBillOK
<1>7. CASE CreateFeePlan \/ CreateTenancyPlan
  <2>1. plan'.cover = 0 /\ UNCHANGED invoice
    BY <1>4, <1>7 DEF CreateFeePlan, CreateTenancyPlan, invoiceVars
  <2>2. invoice.status \in OpenStatus => 0 <= invoice.total - invoice.paid
    BY <1>1 DEF OpenBillOK
  <2> QED  BY <1>1, <1>2, <2>1, <2>2
<1>8. ASSUME NEW d \in Desks, CreateOutstandingBalancePlan(d)  PROVE OpenBillOK'
  <2> DEFINE owed == -change[d].wallet
             free == invoice.status \in OpenStatus /\ ~invoice.covered
             cover == IF free THEN Least(Due(invoice), owed) ELSE 0
             b == invoice.covered \/ cover > 0
  <2>1. plan'.cover = cover /\ invoice' = [invoice EXCEPT !.covered = b]
    BY <1>4, <1>8 DEF CreateOutstandingBalancePlan
  <2>2. owed \in Nat
    BY <1>8 DEF CreateOutstandingBalancePlan, Good, TypeOK, Change, Shape
  <2>3. invoice.status \in OpenStatus =>
          Due(invoice) = invoice.total - invoice.paid /\ Due(invoice) \in Nat
    BY <1>1 DEF OpenBillOK, Due
  <2>4. b \in BOOLEAN  BY <1>1 DEF InvoiceRow
  <2> HIDE DEF owed
  <2>5. /\ cover \in Nat /\ cover <= invoice.total
        /\ invoice.status \in OpenStatus => cover <= invoice.total - invoice.paid
    BY <1>1, <2>2, <2>3 DEF Least, OpenBillOK
  <2> HIDE DEF cover, b
  <2> QED  BY <1>2, <1>3, <2>1, <2>4, <2>5
<1> QED  BY <1>5, <1>6, <1>7, <1>8 DEF Creation

LEMMA OpenBillSettled ==
  ASSUME Good, OpenBillOK, NEW j \in Jobs, SettleSources(j)
  PROVE  OpenBillOK' /\ drawn'.invoice >= drawn.invoice /\ invoice'.total = invoice.total
<1>1. /\ invoice \in InvoiceRow /\ invoice.total \in Nat /\ invoice.paid \in Nat
      /\ drawn.invoice \in Nat /\ plan.cover \in Nat
  BY BillTypes
<1>2. UNCHANGED plan  BY Settling
<1>3. CASE UNCHANGED <<drawn, invoice>>  BY <1>1, <1>2, <1>3 DEF OpenBillOK
<1>4. ASSUME NEW x \in Nat, drawn'.invoice = drawn.invoice + x, drawn.invoice + x <= plan.cover,
             invoice' = SettledInvoice(x, plan.cover - drawn.invoice - x)
      PROVE  OpenBillOK' /\ drawn'.invoice >= drawn.invoice /\ invoice'.total = invoice.total
  <2>1. CASE x = 0 \/ invoice.status \notin OpenStatus
    <3>1. UNCHANGED invoice  BY <1>4, <2>1 DEF SettledInvoice
    <3> QED  BY <1>1, <1>2, <1>4, <2>1, <3>1 DEF OpenBillOK
  <2>2. CASE x # 0 /\ invoice.status \in OpenStatus /\ plan.cover - drawn.invoice - x = 0
    <3>1. invoice' = [invoice EXCEPT !.status = "paid", !.paid = invoice.total, !.covered = FALSE]
      BY <1>4, <2>2 DEF SettledInvoice
    <3>2. invoice'.status = "paid" /\ invoice'.total = invoice.total
      BY <1>1, <3>1 DEF InvoiceRow
    <3> QED  BY <1>1, <1>2, <1>4, <3>2 DEF OpenBillOK, OpenStatus
  <2>3. CASE x # 0 /\ invoice.status \in OpenStatus /\ plan.cover - drawn.invoice - x # 0
    <3> DEFINE n == Least(invoice.total, invoice.paid + x)
    <3>1. invoice' = [invoice EXCEPT !.status = "partial", !.paid = n]
      BY <1>4, <2>3 DEF SettledInvoice
    <3>2. invoice.paid + plan.cover - drawn.invoice <= invoice.total  BY <2>3 DEF OpenBillOK
    <3>3. invoice.paid + x < invoice.total  BY <1>1, <1>4, <2>3, <3>2
    <3>4. n = invoice.paid + x  BY <1>1, <1>4, <3>3 DEF Least
    <3> HIDE DEF n
    <3>5. invoice'.paid = invoice.paid + x /\ invoice'.total = invoice.total
      BY <1>1, <3>1, <3>4 DEF InvoiceRow
    <3> QED  BY <1>1, <1>2, <1>4, <3>2, <3>3, <3>5 DEF OpenBillOK
  <2> QED  BY <2>1, <2>2, <2>3
<1>5. \/ UNCHANGED <<drawn, invoice>>
      \/ \E x \in Nat, y \in Nat :
           /\ drawn.invoice + x <= plan.cover
           /\ drawn' = [invoice |-> drawn.invoice + x, arrears |-> drawn.arrears + y]
           /\ invoice' = SettledInvoice(x, plan.cover - drawn.invoice - x)
  BY Settling
<1> QED  BY <1>3, <1>4, <1>5

LEMMA OpenBillCancelled ==
  ASSUME Good, OpenBillOK, NEW d \in Desks, WeighedOK(d), CancelPlan(d)
  PROVE  OpenBillOK' /\ invoice'.total = invoice.total
<1> DEFINE copy == change[d].invoice
           took == change[d].drawn.invoice
           residual == plan.cover - took
           paid == copy.total - Least(copy.total, residual)
           status == IF paid = copy.total THEN "paid" ELSE IF paid > 0 THEN "partial" ELSE "pending"
<1>1. /\ invoice \in InvoiceRow /\ invoice.total \in Nat /\ invoice.paid \in Nat
      /\ drawn.invoice \in Nat /\ plan.cover \in Nat /\ took \in Nat /\ copy.total \in Nat
      /\ drawn.invoice <= plan.cover
  BY BillTypes
<1>2. /\ change[d].pc = "weighed" /\ plan'.cover = plan.cover /\ UNCHANGED drawn
      /\ invoice' = IF HasSources THEN ReopenedInvoice(copy, residual) ELSE invoice
  BY Cancelling
<1>3. took <= drawn.invoice /\ (copy.covered => copy.total = invoice.total)
  BY <1>2 DEF WeighedOK
<1>4. \/ UNCHANGED invoice \/ invoice' = [invoice EXCEPT !.covered = FALSE]
      \/ copy.covered
           /\ invoice' = [invoice EXCEPT !.covered = FALSE, !.paid = paid, !.status = status]
  BY <1>2 DEF ReopenedInvoice
<1>5. CASE UNCHANGED invoice \/ invoice' = [invoice EXCEPT !.covered = FALSE]
  <2>1. /\ invoice'.total = invoice.total /\ invoice'.paid = invoice.paid
        /\ invoice'.status = invoice.status
    BY <1>1, <1>5 DEF InvoiceRow
  <2> QED  BY <1>1, <1>2, <2>1 DEF OpenBillOK
<1>6. CASE copy.covered
             /\ invoice' = [invoice EXCEPT !.covered = FALSE, !.paid = paid, !.status = status]
  <2>1. residual \in Nat /\ residual <= copy.total /\ copy.total = invoice.total
    BY <1>1, <1>3, <1>6 DEF OpenBillOK
  <2>2. paid = invoice.total - residual  BY <1>1, <2>1 DEF Least
  <2>3. status \in OpenStatus => paid # invoice.total  BY <2>1 DEF OpenStatus
  <2> HIDE DEF paid, status
  <2>4. invoice'.total = invoice.total /\ invoice'.paid = paid /\ invoice'.status = status
    BY <1>1, <1>6 DEF InvoiceRow
  <2>5. paid < invoice.total \/ paid = invoice.total  BY <1>1, <2>1, <2>2
  <2>6. paid + plan.cover - drawn.invoice <= invoice.total  BY <1>1, <1>3, <2>2
  <2> QED  BY <1>1, <1>2, <2>3, <2>4, <2>5, <2>6 DEF OpenBillOK
<1> QED  BY <1>4, <1>5, <1>6

(* What a request has weighed: it keeps it, drops it, or has just read it. *)
LEMMA WeighedReads ==
  ASSUME Good, Claims, Next, NEW d \in Desks, change'[d].pc = "weighed"
  PROVE  \/ change'[d] = change[d]
         \/ change'[d].invoice = invoice /\ change'[d].drawn = drawn /\ UNCHANGED <<invoice, drawn>>
<1> DEFINE Goal == \/ change'[d] = change[d]
                   \/ /\ change'[d].invoice = invoice /\ change'[d].drawn = drawn
                      /\ UNCHANGED <<invoice, drawn>>
<1>1. change \in [Desks -> Change]  BY BillTypes
<1>2. CASE UNCHANGED change  BY <1>2
<1>3. ASSUME NEW e \in Desks, NEW c, c.pc # "weighed", change' = [change EXCEPT ![e] = c]
      PROVE  Goal
  BY <1>1, <1>3
<1>4. CASE InvoiceNext /\ UNCHANGED planVars  BY <1>4 DEF planVars
<1>5. CASE Creation
  <2>1. ASSUME NEW e \in Desks, CreateOutstandingBalancePlan(e)  PROVE Goal
    <3>1. change' = [change EXCEPT ![e] = NoChange]  BY <2>1 DEF CreateOutstandingBalancePlan
    <3>2. NoChange.pc # "weighed"  BY DEF NoChange
    <3> QED  BY <1>3, <3>1, <3>2
  <2>2. CASE CreateAdHocInvoicePlan \/ CreateNewChargePlan \/ CreateFeePlan \/ CreateTenancyPlan
    BY <2>2 DEF CreateAdHocInvoicePlan, CreateNewChargePlan, CreateFeePlan, CreateTenancyPlan
  <2> QED  BY <1>5, <2>1, <2>2 DEF Creation
<1>6. CASE Minting
  BY <1>6 DEF Minting, InitializePlanPayoffPayment, InitializeInstallmentPayment, planVars
<1>7. ASSUME NEW j \in Jobs, \/ ReadingStep(j) \/ Claim(j) \/ Commit(j) \/ SettleSources(j)
                             \/ Ripple(j) \/ Crash(j)
      PROVE  UNCHANGED change
  <2>1. CASE ReadingStep(j) \/ Claim(j)  BY <2>1, Reading, Claiming DEF Good, records
  <2>2. CASE Commit(j) \/ SettleSources(j) \/ Ripple(j) \/ Crash(j)
    BY <2>2 DEF Commit, SettleSources, Ripple, RippleUp, RippleFails, RippleKept, InvoiceKept, Crash
  <2> QED  BY <1>7, <2>1, <2>2
<1>8. ASSUME NEW e \in Desks, Looking(e)  PROVE Goal
  <2> DEFINE planning == [change[e] EXCEPT !.pc = "planning", !.wallet = balance]
             weighed == [change[e] EXCEPT !.pc = "weighed", !.invoice = invoice, !.drawn = drawn]
             opened(pc) == [change[e] EXCEPT !.pc = pc, !.rows = inst]
             revised == [change[e] EXCEPT !.pc = "done"]
  <2>1. /\ planning.pc = "planning" /\ revised.pc = "done"
        /\ opened("cancelling").pc = "cancelling" /\ opened("rescheduling").pc = "rescheduling"
        /\ weighed.invoice = invoice /\ weighed.drawn = drawn
    BY <1>1 DEF Change
  <2>2. \/ change' = [change EXCEPT ![e] = planning]
        \/ change' = [change EXCEPT ![e] = opened("cancelling")]
        \/ change' = [change EXCEPT ![e] = opened("rescheduling")]
        \/ change' = [change EXCEPT ![e] = weighed]
        \/ change' = [change EXCEPT ![e] = revised]
    BY <1>1, <1>8 DEF Looking, ReadPlannable, OpenPlan, WeighSources, ReviseLetter
  <2>3. UNCHANGED <<invoice, drawn>>  BY <1>8, LookingGood DEF invoiceVars
  <2> HIDE DEF planning, weighed, opened, revised
  <2>4. CASE change' = [change EXCEPT ![e] = weighed]
    <3>1. change'[d] = change[d] \/ change'[d] = weighed  BY <1>1, <2>4
    <3> QED  BY <2>1, <2>3, <3>1
  <2> QED  BY <1>3, <2>1, <2>2, <2>4
<1>9. ASSUME NEW e \in Desks, CancelPlan(e) \/ UpdatePlan(e)  PROVE Goal
  <2> DEFINE c == [NoChange EXCEPT !.pc = "done"]
  <2>1. change' = [change EXCEPT ![e] = c]  BY <1>9 DEF CancelPlan, UpdatePlan
  <2>2. c.pc = "done"  BY DEF NoChange
  <2> HIDE DEF c
  <2> QED  BY <1>3, <2>1, <2>2
<1> QED  BY <1>2, <1>4, <1>5, <1>6, <1>7, <1>8, <1>9, NextIs

LEMMA TotalKept ==
  ASSUME Good, Claims, Next, Unedited', invoice.status # "none"
  PROVE  invoice'.total = invoice.total
<1>1. invoice \in InvoiceRow  BY BillTypes
<1>2. CASE UNCHANGED invoice  BY <1>2
<1>3. CASE CreateInvoice \/ CreateNewChargePlan
  BY <1>3 DEF CreateInvoice, CreateNewChargePlan, Billed
<1>4. CASE CreateAdHocInvoicePlan  BY <1>1, <1>4 DEF CreateAdHocInvoicePlan, InvoiceRow
<1>5. ASSUME NEW d \in Desks, CreateOutstandingBalancePlan(d)  PROVE invoice'.total = invoice.total
  <2>1. PICK b : invoice' = [invoice EXCEPT !.covered = b]
    BY <1>5 DEF CreateOutstandingBalancePlan
  <2> QED  BY <1>1, <2>1 DEF InvoiceRow
<1>6. ASSUME NEW d \in Desks, CancelPlan(d)  PROVE invoice'.total = invoice.total
  <2> DEFINE copy == change[d].invoice
             paid == copy.total - Least(copy.total, plan.cover - change[d].drawn.invoice)
             status == IF paid = copy.total THEN "paid" ELSE IF paid > 0 THEN "partial" ELSE "pending"
  <2>1. \/ UNCHANGED invoice \/ invoice' = [invoice EXCEPT !.covered = FALSE]
        \/ invoice' = [invoice EXCEPT !.covered = FALSE, !.paid = paid, !.status = status]
    BY <1>6, Cancelling DEF ReopenedInvoice
  <2> HIDE DEF paid, status
  <2> QED  BY <1>1, <2>1 DEF InvoiceRow
<1>7. ASSUME NEW j \in Jobs, ClaimInvoice(j)  PROVE invoice'.total = invoice.total
  BY <1>1, <1>7 DEF ClaimInvoice, InvoiceRow
<1>8. ASSUME NEW j \in Jobs, SettleSources(j)  PROVE invoice'.total = invoice.total
  <2>1. PICK paid :
           \/ UNCHANGED invoice
           \/ invoice' = [invoice EXCEPT !.status = "paid", !.paid = invoice.total, !.covered = FALSE]
           \/ invoice' = [invoice EXCEPT !.status = "partial", !.paid = paid]
    BY <1>8 DEF SettleSources, SettledInvoice
  <2> QED  BY <1>1, <2>1 DEF InvoiceRow
<1> QED
  BY <1>2, <1>3, <1>4, <1>5, <1>6, <1>7, <1>8, BillWrites, UneditedSteps

LEMMA DrawnGrows ==
  ASSUME Good, Claims, Next
  PROVE  drawn'.invoice >= drawn.invoice
<1>1. drawn.invoice \in Nat  BY BillTypes
<1>2. CASE Creation
  <2>1. PICK kind \in {"adhoc", "balance", "fee", "tenancy"}, s \in [Rows -> Nat],
           cover \in Nat, arrears \in Nat : NewPlan(kind, s, cover, arrears)
    BY <1>2, Creating DEF Makes
  <2>2. UNCHANGED drawn  BY <2>1, NewPlanRows
  <2> QED  BY <1>1, <2>2
<1>3. ASSUME NEW j \in Jobs, SettleSources(j)  PROVE drawn'.invoice >= drawn.invoice
  <2>1. \/ UNCHANGED drawn
        \/ \E x \in Nat, y \in Nat :
             drawn' = [invoice |-> drawn.invoice + x, arrears |-> drawn.arrears + y]
    BY <1>3, Settling
  <2> QED  BY <1>1, <2>1
<1>4. UNCHANGED drawn => drawn'.invoice >= drawn.invoice  BY <1>1
<1> QED  BY <1>2, <1>3, <1>4, CoverKept

LEMMA WeighedStep ==
  ASSUME Good, Claims, LinksOK, BillOK, Next, Unedited', NEW d \in Desks
  PROVE  WeighedOK(d)'
<1> SUFFICES ASSUME change'[d].pc = "weighed"
             PROVE  /\ change'[d].drawn.invoice <= drawn'.invoice
                    /\ change'[d].invoice.covered => change'[d].invoice.total = invoice'.total
  BY DEF WeighedOK
<1>1. Good' /\ Unedited  BY GoodStep, UneditedBefore
<1>2. drawn.invoice \in Nat /\ drawn'.invoice \in Nat /\ change[d].drawn.invoice \in Nat
  <2>1. drawn' \in Drawn  BY <1>1 DEF Good, TypeOK
  <2> QED  BY <2>1, BillTypes DEF Drawn
<1>3. CASE change'[d] = change[d]
  <2>1. WeighedOK(d)  BY <1>1 DEF BillOK
  <2>2. change[d].drawn.invoice <= drawn.invoice  BY <1>3, <2>1 DEF WeighedOK
  <2>3. change[d].invoice.covered =>
          invoice.status # "none" /\ change[d].invoice.total = invoice.total
    BY <1>3, <2>1 DEF WeighedOK, LinksOK
  <2>4. drawn'.invoice >= drawn.invoice  BY DrawnGrows
  <2>5. change[d].drawn.invoice <= drawn'.invoice  BY <1>2, <2>2, <2>4
  <2> QED  BY <1>3, <2>3, <2>5, TotalKept
<1>4. CASE change'[d].invoice = invoice /\ change'[d].drawn = drawn /\ UNCHANGED <<invoice, drawn>>
  BY <1>2, <1>4
<1> QED  BY <1>3, <1>4, WeighedReads

LEMMA OpenBillStep ==
  ASSUME Good, Claims, LinksOK, BillOK, Next, Unedited'
  PROVE  OpenBillOK'
<1>1. Unedited /\ OpenBillOK /\ \A d \in Desks : WeighedOK(d)
  BY UneditedBefore DEF BillOK
<1>2. /\ invoice \in InvoiceRow /\ drawn.invoice \in Nat /\ plan.cover \in Nat
      /\ invoice.total \in Nat
  BY BillTypes
<1>3. CASE Creation  BY <1>1, <1>3, OpenBillCreation
<1>4. ASSUME NEW j \in Jobs, SettleSources(j)  PROVE OpenBillOK'
  BY <1>1, <1>4, OpenBillSettled
<1>5. ASSUME NEW d \in Desks, CancelPlan(d)  PROVE OpenBillOK'
  BY <1>1, <1>5, OpenBillCancelled
<1>6. CASE /\ plan'.cover = plan.cover /\ UNCHANGED drawn
           /\ UNCHANGED invoice \/ CreateInvoice \/ \E j \in Jobs : ClaimInvoice(j)
  <2>1. CASE UNCHANGED invoice  BY <1>1, <1>6, <2>1 DEF OpenBillOK
  <2>2. CASE CreateInvoice
    <3>1. invoice = NoInvoice /\ Bill > 0  BY <2>2 DEF CreateInvoice, Billed, LinksOK
    <3>2. plan.cover = 0  BY <1>1, <1>2, <3>1 DEF OpenBillOK, NoInvoice
    <3>3. invoice' = [NoInvoice EXCEPT !.status = "pending", !.total = Bill, !.covered = FALSE]
      BY <2>2 DEF CreateInvoice, Billed
    <3>4. invoice'.total = Bill /\ invoice'.paid = 0  BY <3>3 DEF NoInvoice
    <3> QED  BY <1>2, <1>6, <3>1, <3>2, <3>4, BillAssumption DEF OpenBillOK
  <2>3. ASSUME NEW j \in Jobs, ClaimInvoice(j)  PROVE OpenBillOK'
    <3>1. invoice'.total = invoice.total /\ invoice'.status = "paid"
      BY <1>2, <2>3 DEF ClaimInvoice, InvoiceRow
    <3> QED  BY <1>1, <1>6, <3>1 DEF OpenBillOK, OpenStatus
  <2> QED  BY <1>6, <2>1, <2>2, <2>3
<1>7. CreateNewChargePlan \/ CreateAdHocInvoicePlan \/ (\E d \in Desks : CreateOutstandingBalancePlan(d))
        => Creation
  BY DEF Creation
<1> QED  BY <1>3, <1>4, <1>5, <1>6, <1>7, BillWrites, CoverKept, UneditedSteps

LEMMA BillStep ==
  ASSUME Good, Claims, TracesOK, LinksOK, BillOK, Next
  PROVE  BillOK'
<1> SUFFICES ASSUME Unedited'
             PROVE  /\ invoice'.ref # None => credited'[invoice'.ref] > 0
                    /\ OpenBillOK'
                    /\ \A j \in Jobs : job'[j].pc = "accepted" => job'[j].copy.paid < job'[j].copy.total
                    /\ \A d \in Desks : WeighedOK(d)'
  BY DEF BillOK
<1>1. invoice'.ref # None => credited'[invoice'.ref] > 0  BY RefCredited
<1>2. OpenBillOK'  BY OpenBillStep
<1>3. \A j \in Jobs : job'[j].pc = "accepted" => job'[j].copy.paid < job'[j].copy.total
  BY AcceptedDue
<1>4. \A d \in Desks : WeighedOK(d)'  BY WeighedStep
<1> QED  BY <1>1, <1>2, <1>3, <1>4

(* A bill that is open again was open before, unless a write rests on an   *)
(* old read.                                                               *)
LEMMA OpenUnpaid ==
  ASSUME Good, Claims, LinksOK, Next, ~stale', invoice'.status \in OpenStatus
  PROVE  invoice'.ref = None
<1>1. ~stale /\ invoice \in InvoiceRow /\ change \in [Desks -> Change]
  BY StaleKept, BillTypes
<1>2. ASSUME invoice.status \in OpenStatus, \A j \in Jobs : ~ClaimInvoice(j)
      PROVE  invoice'.ref = None
  BY <1>1, <1>2, RefKept DEF LinksOK
<1>3. ASSUME NEW j \in Jobs, ClaimInvoice(j)  PROVE FALSE
  <2>1. invoice'.status = "paid"  BY <1>1, <1>3 DEF ClaimInvoice, InvoiceRow
  <2> QED  BY <2>1 DEF OpenStatus
<1>4. CASE UNCHANGED invoice  BY <1>2, <1>3, <1>4
<1>5. CASE CreateInvoice \/ CreateNewChargePlan
  <2>1. PICK c \in BOOLEAN : Billed(c)  BY <1>5 DEF CreateInvoice, CreateNewChargePlan
  <2> QED  BY <2>1 DEF Billed, NoInvoice
<1>6. CASE CreateAdHocInvoicePlan  BY <1>2, <1>3, <1>6 DEF CreateAdHocInvoicePlan
<1>7. ASSUME NEW d \in Desks, CreateOutstandingBalancePlan(d)  PROVE invoice'.ref = None
  <2>1. PICK b : invoice' = [invoice EXCEPT !.covered = b]
    BY <1>7 DEF CreateOutstandingBalancePlan
  <2>2. invoice'.status = invoice.status  BY <1>1, <2>1 DEF InvoiceRow
  <2> QED  BY <1>2, <1>3, <2>2
<1>8. ASSUME NEW d \in Desks, CancelPlan(d)  PROVE invoice'.ref = None
  <2> DEFINE copy == change[d].invoice
  <2>1. copy = invoice  BY <1>8, Cancelling
  <2>2. \/ UNCHANGED invoice \/ invoice' = [invoice EXCEPT !.covered = FALSE]
        \/ copy.status \in OpenStatus
    BY <1>8, Cancelling DEF ReopenedInvoice
  <2>3. invoice' = [invoice EXCEPT !.covered = FALSE] => invoice'.status = invoice.status
    BY <1>1 DEF InvoiceRow
  <2>4. invoice.status \in OpenStatus  BY <2>1, <2>2, <2>3
  <2> QED  BY <1>2, <1>3, <2>4
<1>9. ASSUME NEW j \in Jobs, SettleSources(j)  PROVE invoice'.ref = None
  <2>1. UNCHANGED invoice \/ invoice.status \in OpenStatus
    BY <1>9 DEF SettleSources, SettledInvoice
  <2> QED  BY <1>2, <1>3, <2>1
<1>10. ASSUME NEW d \in Desks, CancelInvoice(d)  PROVE invoice'.ref = None
  <2>1. invoice'.status = "cancelled"  BY <1>1, <1>10 DEF CancelInvoice, InvoiceRow
  <2> QED  BY <2>1 DEF OpenStatus
<1>11. ASSUME NEW d \in Desks, NEW total \in Rebills, UpdateInvoice(d, total)
       PROVE  invoice'.ref = None
  <2>1. invoice'.status = invoice.status  BY <1>1, <1>11 DEF UpdateInvoice, InvoiceRow
  <2> QED  BY <1>2, <1>3, <2>1
<1> QED
  BY <1>3, <1>4, <1>5, <1>6, <1>7, <1>8, <1>9, <1>10, <1>11, BillWrites

(* The steps of a report on the link.                                      *)
LinkStep(j) ==
  VerifyTurnsAway(j) \/ SetAside(j) \/ Accept(j) \/ ClaimInvoice(j) \/ ClaimLost(j)

LEMMA JobsWait ==
  ASSUME Good, Next, NEW j \in Jobs
  PROVE  job'[j] = job[j] \/ LinkStep(j)
<1>1. job \in [Jobs -> [pc : {"idle", "accepted"} \cup Ended, copy : InvoiceRow]]
  BY DEF Good, TypeOK, InvoiceTypeOK
<1>2. ASSUME NEW k \in Jobs, LinkStep(k)  PROVE job'[j] = job[j] \/ LinkStep(j)
  <2>1. PICK new : job' = [job EXCEPT ![k] = new]
    BY <1>2 DEF LinkStep, VerifyTurnsAway, SetAside, Accept, ClaimInvoice, ClaimLost, To
  <2> QED  BY <1>1, <1>2, <2>1
<1>3. CASE InvoiceNext
  <2>1. CASE CreateInvoice \/ \E r \in Refs : InitializePublicPayment(r) \/ GatewayTakes(r)
    BY <2>1 DEF CreateInvoice, InitializePublicPayment, GatewayTakes
  <2>2. ASSUME NEW d \in Desks, \/ OpenInvoice(d, "editing") \/ OpenInvoice(d, "cancelling")
                                \/ CancelInvoice(d)
                                \/ \E total \in Rebills : UpdateInvoice(d, total)
        PROVE  job'[j] = job[j]
    BY <2>2 DEF OpenInvoice, CancelInvoice, UpdateInvoice
  <2>3. (\E k \in Jobs : \/ VerifyTurnsAway(k) \/ SetAside(k) \/ Accept(k)
                         \/ ClaimInvoice(k) \/ ClaimLost(k)) => \E k \in Jobs : LinkStep(k)
    BY DEF LinkStep
  <2> QED  BY <1>2, <1>3, <2>1, <2>2, <2>3 DEF InvoiceNext
<1> QED  BY <1>3, PlanLeavesCopies

(* What a reference is on record with stays.                               *)
LEMMA KeptStays ==
  ASSUME Good, Claims, TracesOK, LinksOK, BillOK, Next, NEW r \in Refs, Kept(r), ~stale' \/ Unedited'
  PROVE  Kept(r)'
<1>1. CASE r \in filed \/ credited[r] > 0  BY <1>1, RecordsGrow DEF Kept
<1>2. CASE invoice.ref = r
  <2>1. CASE invoice'.ref = invoice.ref  BY <1>2, <2>1 DEF Kept
  <2>2. ASSUME NEW j \in Jobs, ClaimInvoice(j)  PROVE credited'[r] > 0
    <3>1. CASE ~stale'
      <4>1. ~stale /\ invoice.status \in OpenStatus  BY <2>2, <3>1, StaleKept DEF ClaimInvoice
      <4> QED  BY <1>2, <4>1, RefAssumption DEF LinksOK
    <3>2. CASE Unedited'
      <4>1. Unedited  BY <3>2, UneditedBefore
      <4>2. credited[r] > 0  BY <1>2, <4>1, RefAssumption DEF BillOK
      <4> QED  BY <4>2, RecordsGrow
    <3> QED  BY <3>1, <3>2
  <2> QED  BY <2>1, <2>2, RefKept DEF Kept
<1> QED  BY <1>1, <1>2 DEF Kept

LEMMA LinkStays ==
  ASSUME Good, Claims, TracesOK, LinksOK, BillOK, Next, NEW j \in Jobs
  PROVE  LinkOK(j)'
<1>1. /\ job \in [Jobs -> [pc : {"idle", "accepted"} \cup Ended, copy : InvoiceRow]]
      /\ invoice \in InvoiceRow
  BY DEF Good, TypeOK, InvoiceTypeOK
<1>2. LinkOK(j)  BY DEF LinksOK
<1>3. CheckoutsKept  BY CheckoutsStay
<1>4. ~stale' \/ Unedited' => ~stale \/ Unedited  BY StaleKept, UneditedBefore
<1>5. CASE job'[j] = job[j]
  <2>1. SUFFICES ASSUME job[j].pc # "idle"
                 PROVE  /\ RefOf[j] # None /\ checkout'[RefOf[j]].target = "link"
                        /\ job[j].pc = "done" /\ j \notin Verifiers /\ (~stale' \/ Unedited')
                             => Kept(RefOf[j])'
    BY <1>5 DEF LinkOK
  <2>2. RefOf[j] # None /\ checkout[RefOf[j]].target = "link"  BY <1>2, <2>1 DEF LinkOK
  <2>3. checkout'[RefOf[j]].target = "link"  BY <1>3, <2>2, AcceptedKept
  <2>4. RefOf[j] \in Refs  BY <2>2, JobAssumption
  <2> QED  BY <1>2, <1>4, <2>1, <2>2, <2>3, <2>4, KeptStays DEF LinkOK
<1>6. CASE LinkStep(j)
  <2>1. RefOf[j] # None /\ RefOf[j] \in Refs /\ checkout[RefOf[j]].target = "link"
    <3>1. CASE Reports(j, "link")  BY <3>1, Reporting DEF Good
    <3>2. CASE job[j].pc = "accepted"  BY <3>2, JobAssumption DEF Good, Shape
    <3> QED  BY <1>6, <3>1, <3>2 DEF LinkStep, VerifyTurnsAway, SetAside, Accept, ClaimInvoice, ClaimLost
  <2>2. checkout'[RefOf[j]].target = "link"  BY <1>3, <2>1, AcceptedKept
  <2>3. ASSUME job'[j].pc = "done", j \notin Verifiers  PROVE Kept(RefOf[j])'
    <3>1. CASE SetAside(j)
      <4>1. RefOf[j] \in filed' \/ invoice.ref = RefOf[j]  BY <3>1 DEF SetAside, Confirmed
      <4>2. UNCHANGED invoice  BY <3>1 DEF SetAside
      <4> QED  BY <4>1, <4>2 DEF Kept
    <3>2. CASE ClaimInvoice(j)
      <4>1. invoice'.ref = RefOf[j]  BY <1>1, <3>2 DEF ClaimInvoice, InvoiceRow
      <4> QED  BY <4>1 DEF Kept
    <3>3. CASE Accept(j)
      <4>1. job'[j].pc = "accepted"  BY <1>1, <3>3 DEF Accept
      <4> QED  BY <2>3, <4>1
    <3>4. CASE ClaimLost(j)
      <4>1. job'[j].pc = "lost"  BY <1>1, <3>4 DEF ClaimLost, To
      <4> QED  BY <2>3, <4>1
    <3>5. CASE VerifyTurnsAway(j)  BY <2>3, <3>5 DEF VerifyTurnsAway
    <3> QED  BY <1>6, <3>1, <3>2, <3>3, <3>4, <3>5 DEF LinkStep
  <2> QED  BY <2>1, <2>2, <2>3 DEF LinkOK
<1> QED  BY <1>5, <1>6, JobsWait

LEMMA LinksStep ==
  ASSUME Good, Claims, TracesOK, LinksOK, BillOK, Next
  PROVE  LinksOK'
<1>1. invoice'.status = "none" => invoice' = NoInvoice  BY RefKept DEF LinksOK
<1>2. ~stale' => (invoice'.status \in OpenStatus => invoice'.ref = None)  BY OpenUnpaid
<1>3. ASSUME NEW d \in Desks
      PROVE  /\ edit'[d].pc \in {"editing", "cancelling"} => invoice'.status # "none"
             /\ change'[d].pc = "weighed" /\ change'[d].invoice.covered => invoice'.status # "none"
  <2>1. edit'[d] = edit[d] => (edit'[d].pc \in {"editing", "cancelling"} => invoice'.status # "none")
    BY RefKept DEF LinksOK
  <2>2. edit \in [Desks -> [pc : {"idle", "editing", "cancelling"} \cup Written, copy : InvoiceRow]]
    BY DEF Good, TypeOK, InvoiceTypeOK
  <2>3. edit'[d] = edit[d] \/ edit'[d].pc \in Written \/ invoice.status \in OpenStatus
    <3>1. CASE UNCHANGED edit  BY <3>1
    <3>2. CASE InvoiceNext
      <4>1. CASE CreateInvoice \/ \E r \in Refs : InitializePublicPayment(r) \/ GatewayTakes(r)
        BY <4>1 DEF CreateInvoice, InitializePublicPayment, GatewayTakes
      <4>2. ASSUME NEW j \in Jobs, \/ VerifyTurnsAway(j) \/ SetAside(j) \/ Accept(j)
                                   \/ ClaimInvoice(j) \/ ClaimLost(j)
            PROVE  UNCHANGED edit
        BY <4>2 DEF VerifyTurnsAway, SetAside, Accept, ClaimInvoice, ClaimLost
      <4>3. ASSUME NEW e \in Desks, NEW pc, OpenInvoice(e, pc)
            PROVE  invoice.status \in OpenStatus
        BY <4>3 DEF OpenInvoice
      <4>4. ASSUME NEW e \in Desks, NEW total \in Rebills, UpdateInvoice(e, total)
            PROVE  edit'[d] = edit[d] \/ edit'[d].pc \in Written
        BY <2>2, <4>4 DEF UpdateInvoice, Written
      <4>5. ASSUME NEW e \in Desks, CancelInvoice(e)
            PROVE  edit'[d] = edit[d] \/ edit'[d].pc \in Written
        BY <2>2, <4>5 DEF CancelInvoice, Written
      <4> QED  BY <3>2, <4>1, <4>2, <4>3, <4>4, <4>5 DEF InvoiceNext
    <3> QED  BY <3>1, <3>2, PlanLeavesCopies
  <2>4. invoice.status \in OpenStatus => invoice'.status # "none"  BY RefKept DEF OpenStatus
  <2>5. edit'[d].pc \in {"editing", "cancelling"} => invoice'.status # "none"
    BY <2>1, <2>3, <2>4 DEF Written
  <2>6. ASSUME change'[d].pc = "weighed", change'[d].invoice.covered
        PROVE  invoice'.status # "none"
    <3>1. CASE change'[d] = change[d]
      BY <2>6, <3>1, RefKept DEF LinksOK
    <3>2. CASE change'[d].invoice = invoice
      <4>1. invoice.status # "none"  BY <2>6, <3>2 DEF LinksOK, NoInvoice
      <4> QED  BY <4>1, RefKept
    <3> QED  BY <2>6, <3>1, <3>2, WeighedReads
  <2> QED  BY <2>5, <2>6
<1>4. \A j \in Jobs : LinkOK(j)'  BY LinkStays
<1> QED  BY <1>1, <1>2, <1>3, <1>4 DEF LinksOK

-----------------------------------------------------------------------------
(* The only report of a payoff, while no process has died: what it has     *)
(* applied is what was credited, and the rows it has still to pay were not *)
(* paid by it.                                                             *)
Landed(i, r) == inst[i].status = "paid" /\ inst[i].ref = r
Lands(i, r) == inst'[i].status = "paid" /\ inst'[i].ref = r

SoleOK(j) ==
  LET r == RefOf[j]  t == till[j] IN
  /\ t.pc = "idle" => credited[r] = 0
  /\ t.pc \in {"walking"} \cup Paying => t.applied = credited[r]
  /\ t.pc \in PaidFor => Landed(t.row, r) /\ t.applied + t.amount = credited[r]
  /\ t.pc = "confirming" => credited[r] = t.applied + (IF Landed(t.row, r) THEN t.amount ELSE 0)
  /\ \A i \in t.todo : inst[i].ref = r => i = t.row /\ t.pc \in PaidFor \cup {"confirming"}
  /\ t.pc \in Paying => t.row \in t.todo
  /\ t.pc = "done" => r \in filed \/ credited[r] = checkout[r].amount

SolesOK ==
  \A j \in Jobs : PaysOff(j) /\ SoleReport(RefOf[j]) /\ crashes = 0 /\ ~stale => SoleOK(j)

(* A row is paid for a reference by a report of that reference only.       *)
LEMMA OtherRows ==
  ASSUME Good, Claims, Next, ~stale', NEW r \in Refs, NEW i \in Rows,
         \A k \in Jobs : RefOf[k] = r => ~Commit(k)
  PROVE  /\ inst'[i].ref = r => inst[i].ref = r
         /\ Lands(i, r) <=> Landed(i, r)
<1> DEFINE Goal == /\ inst'[i].ref = r => inst[i].ref = r
                   /\ Lands(i, r) <=> Landed(i, r)
<1>1. r # None  BY RefAssumption
<1>2. Landed(i, r) => Lands(i, r)  BY KeptStep DEF Landed, Lands
<1>3. CASE UNCHANGED inst  BY <1>3 DEF Landed, Lands
<1>4. CASE Creation
  <2>1. PICK kind \in {"adhoc", "balance", "fee", "tenancy"}, s \in [Rows -> Nat],
           cover \in Nat, arrears \in Nat : NewPlan(kind, s, cover, arrears)
    BY <1>4, Creating DEF Makes
  <2>2. inst'[i] = IF s[i] = 0 THEN NoRow
                   ELSE [NoRow EXCEPT !.amount = s[i], !.status = "pending"]
    BY <2>1 DEF NewPlan
  <2>3. inst'[i].ref = None  BY <2>2 DEF NoRow
  <2> QED  BY <1>1, <1>2, <2>3 DEF Landed, Lands
<1>5. ASSUME NEW j \in Jobs, Claim(j)  PROVE Goal
  BY <1>3, <1>5, Claiming DEF records
<1>6. ASSUME NEW j \in Jobs, Commit(j)  PROVE Goal
  <2>1. RefOf[j] # r  BY <1>6
  <2>2. CASE i = till[j].row
    <3>1. inst'[i].ref = RefOf[j]  BY <1>6, <2>2, Committing
    <3> QED  BY <1>2, <2>1, <3>1 DEF Landed, Lands
  <2>3. CASE i # till[j].row
    <3>1. inst'[i] = inst[i]  BY <1>6, <2>3, Committing
    <3> QED  BY <3>1 DEF Landed, Lands
  <2> QED  BY <2>2, <2>3
<1>7. ASSUME NEW d \in Desks, CancelPlan(d)  PROVE Goal
  BY <1>3, <1>7, Cancelling
<1>8. ASSUME NEW d \in Desks, UpdatePlan(d)  PROVE Goal
  BY <1>1, <1>2, <1>8, RefsStay DEF Landed, Lands
<1> QED  BY <1>3, <1>4, <1>5, <1>6, <1>7, <1>8, PlanSteps

LEMMA OtherCredits ==
  ASSUME Good, Claims, Next, NEW r \in Refs, checkout[r].target # "link",
         \A k \in Jobs : RefOf[k] = r => ~Commit(k)
  PROVE  credited'[r] = credited[r]
<1>1. credited \in [Refs \cup {None} -> Nat]  BY DEF Good, TypeOK, InvoiceTypeOK
<1>2. ASSUME NEW j \in Jobs, ClaimInvoice(j)  PROVE credited'[r] = credited[r]
  <2>1. PICK n : credited' = [credited EXCEPT ![RefOf[j]] = n]  BY <1>2 DEF ClaimInvoice
  <2>2. RefOf[j] # r  BY <1>2 DEF ClaimInvoice, Good, Shape
  <2> QED  BY <1>1, <2>1, <2>2
<1>3. CASE InvoiceNext
  BY <1>2, <1>3 DEF InvoiceNext, CreateInvoice, InitializePublicPayment, GatewayTakes,
     VerifyTurnsAway, SetAside, Accept, ClaimLost, OpenInvoice, UpdateInvoice, CancelInvoice
<1>4. CASE Creation
  BY <1>4 DEF Creation, CreateAdHocInvoicePlan, CreateNewChargePlan, CreateFeePlan,
     CreateTenancyPlan, CreateOutstandingBalancePlan, invoiceVars
<1>5. CASE Minting
  BY <1>5 DEF Minting, InitializePlanPayoffPayment, InitializeInstallmentPayment
<1>6. ASSUME NEW j \in Jobs, \/ ReadingStep(j) \/ Claim(j) \/ SettleSources(j)
                             \/ Ripple(j) \/ Crash(j)
      PROVE  UNCHANGED credited
  BY <1>6, Reading, Claiming, Settling, Rippling, Crashing DEF Good, records
<1>7. ASSUME NEW j \in Jobs, Commit(j)  PROVE credited'[r] = credited[r]
  <2>1. PICK n : credited' = [credited EXCEPT ![RefOf[j]] = n]  BY <1>7 DEF Commit
  <2>2. RefOf[j] # r  BY <1>7
  <2> QED  BY <1>1, <2>1, <2>2
<1>8. ASSUME NEW d \in Desks, Looking(d) \/ CancelPlan(d) \/ UpdatePlan(d)
      PROVE  UNCHANGED credited
  BY <1>8, LookingGood DEF CancelPlan, UpdatePlan, invoiceVars
<1> QED  BY <1>3, <1>4, <1>5, <1>6, <1>7, <1>8, NextIs

(* The report waits.                                                       *)
LEMMA SoleKept ==
  ASSUME Good, Claims, TracesOK, Next, ~stale', NEW j \in Jobs,
         PaysOff(j), SoleReport(RefOf[j]), SoleOK(j), till'[j] = till[j]
  PROVE  SoleOK(j)'
<1> DEFINE r == RefOf[j]
<1>1. /\ r \in Refs /\ checkout[r].target = "payoff" /\ till[j] \in Till
      /\ till[j].todo \subseteq Rows
      /\ till[j].pc \in OnRow => till[j].row \in Rows
  BY PayingOff DEF PaysOff, Good, TypeOK, Till, Shape, TillOK
<1>2. \A k \in Jobs : RefOf[k] = r => ~Commit(k)
  <2>1. ASSUME Commit(j)  PROVE FALSE
    <3>1. till[j].pc = "claimed" /\ till'[j].pc \in {"settling", "reading", "confirming", "done"}
      BY <2>1, Committing
    <3> QED  BY <3>1
  <2> QED  BY <2>1 DEF SoleReport
<1>3. credited'[r] = credited[r]  BY <1>1, <1>2, RefAssumption, OtherCredits
<1>4. \A i \in Rows : /\ inst'[i].ref = r => inst[i].ref = r
                      /\ Lands(i, r) <=> Landed(i, r)
  BY <1>1, <1>2, OtherRows
<1>5. checkout'[r] = checkout[r]
  <2>1. checkout[r] # NoCheckout  BY <1>1, RefAssumption, Minted
  <2> QED  BY <1>1, <2>1, CheckoutsStay DEF CheckoutsKept
<1>6. filed \subseteq filed'  BY RecordsGrow
<1> HIDE DEF r
<1> DEFINE Now == Landed(till[j].row, r)
           Then == Lands(till'[j].row, r)
<1>7. till[j].pc \in PaidFor \cup {"confirming"} => (Then <=> Now)
  <2>1. till[j].pc \in PaidFor \cup {"confirming"} => till[j].row \in Rows
    BY <1>1 DEF PaidFor, OnRow
  <2> QED  BY <1>4, <2>1
<1>8. /\ till[j].pc = "idle" => credited[r] = 0
      /\ till[j].pc \in {"walking"} \cup Paying => till[j].applied = credited[r]
      /\ till[j].pc \in PaidFor => Now /\ till[j].applied + till[j].amount = credited[r]
      /\ till[j].pc = "confirming" =>
           credited[r] = till[j].applied + (IF Now THEN till[j].amount ELSE 0)
      /\ \A i \in till[j].todo : inst[i].ref = r =>
           i = till[j].row /\ till[j].pc \in PaidFor \cup {"confirming"}
      /\ till[j].pc \in Paying => till[j].row \in till[j].todo
      /\ till[j].pc = "done" => r \in filed \/ credited[r] = checkout[r].amount
  BY DEF SoleOK, r
<1> HIDE DEF Now, Then
<1>9. /\ till'[j].pc = "idle" => credited'[r] = 0
      /\ till'[j].pc \in {"walking"} \cup Paying => till'[j].applied = credited'[r]
      /\ till'[j].pc \in PaidFor => Then /\ till'[j].applied + till'[j].amount = credited'[r]
      /\ till'[j].pc = "confirming" =>
           credited'[r] = till'[j].applied + (IF Then THEN till'[j].amount ELSE 0)
      /\ \A i \in till'[j].todo : inst'[i].ref = r =>
           i = till'[j].row /\ till'[j].pc \in PaidFor \cup {"confirming"}
      /\ till'[j].pc \in Paying => till'[j].row \in till'[j].todo
      /\ till'[j].pc = "done" => r \in filed' \/ credited'[r] = checkout'[r].amount
  BY <1>1, <1>3, <1>4, <1>5, <1>6, <1>7, <1>8
<1> QED  BY <1>9 DEF SoleOK, Landed, Lands, Then, r

LEMMA Returns ==
  ASSUME till \in [Jobs -> Till], NEW j \in Jobs, PaysOff(j), Return(j)
  PROVE  Carries(j) /\ till'[j].pc = "confirming"
BY MovingOn, PcSteps DEF Return

(* A row that the report has paid.                                         *)
LEMMA SolePaid ==
  ASSUME NEW j \in Jobs, Carries(j), till'[j].pc \in PaidFor \cup {"confirming"},
         Lands(till[j].row, RefOf[j]),
         till[j].applied + till[j].amount = credited'[RefOf[j]],
         \A i \in till[j].todo : inst'[i].ref = RefOf[j] => i = till[j].row
  PROVE  SoleOK(j)'
<1>1. Lands(till'[j].row, RefOf[j])  BY DEF Carries, Lands
<1> QED  BY <1>1 DEF SoleOK, Carries, Landed, Lands, PaidFor, Paying

(* The report is done with, or lost.                                       *)
LEMMA SoleEnds ==
  ASSUME NEW j \in Jobs,
         \/ Fresh(j, "lost")
         \/ Fresh(j, "done") /\ (RefOf[j] \in filed'
                                  \/ credited'[RefOf[j]] = checkout'[RefOf[j]].amount)
  PROVE  SoleOK(j)'
BY DEF SoleOK, Fresh, Paying, PaidFor

LEMMA SoleReading ==
  ASSUME Good, Claims, TracesOK, NEW j \in Jobs, PaysOff(j), SoleOK(j), ReadingStep(j)
  PROVE  SoleOK(j)'
<1> DEFINE r == RefOf[j]
<1>1. /\ r \in Refs /\ r # None /\ checkout[r].target = "payoff"
      /\ till \in [Jobs -> Till] /\ till[j] \in Till /\ till[j].todo \subseteq Rows
      /\ credited \in [Refs \cup {None} -> Nat] /\ TillOK(j) /\ inst \in [Rows -> Row]
  BY PayingOff, RefAssumption DEF PaysOff, Good, TypeOK, InvoiceTypeOK, Till, Shape
<1>2. UNCHANGED <<credited, checkout, inst>>  BY Reading DEF Good, records
<1>3. credited[r] = 0 => \A i \in Rows : inst[i].ref # r
  BY <1>1 DEF TracesOK, Referred
<1>4. ~Notice(j) /\ ~RowGone(j) /\ ~VerifySkips(j)
  BY <1>1 DEF Notice, RowGone, VerifySkips, Reports
<1>5. \A i \in Rows, amount \in 1..(Bill + Fee + Arrears) : ~MarkPaidManual(j, i, amount)
  BY <1>1 DEF MarkPaidManual
<1>6. CASE MarkPlanPaidOff(j)
  <2> DEFINE known == \E i \in Rows : inst[i].ref = r
             t == [NoTill EXCEPT !.pc = "walking", !.todo = OpenRows]
  <2>1. credited[r] = 0 /\ ~known  BY <1>3, <1>6 DEF MarkPlanPaidOff, SoleOK
  <2>2. /\ IF plan.status = "active" THEN till' = [till EXCEPT ![j] = t] ELSE Leave(j, "done")
        /\ Files(r, plan.status # "active" /\ ~known)
    BY <1>6 DEF MarkPlanPaidOff
  <2>3. t.pc = "walking" /\ t.applied = 0 /\ t.todo = OpenRows  BY DEF NoTill
  <2> HIDE DEF t
  <2>4. CASE plan.status = "active"
    <3>1. till'[j] = t  BY <1>1, <2>2, <2>4
    <3>2. \A i \in OpenRows : inst[i].ref # r  BY <1>3, <2>1 DEF OpenRows
    <3> QED  BY <1>2, <2>1, <2>3, <3>1, <3>2 DEF SoleOK, Paying, PaidFor
  <2>5. CASE plan.status # "active"
    <3>1. Fresh(j, "done")  BY <1>1, <2>2, <2>5, MovingOn, PcSteps
    <3>2. r \in filed'  BY <2>1, <2>2, <2>5 DEF Files
    <3> QED  BY <3>1, <3>2, SoleEnds
  <2> QED  BY <2>4, <2>5
<1>7. CASE NextRow(j)
  <2> DEFINE i == Min(till[j].todo)
             n == Remaining(inst[i])
             gone == [NoTill EXCEPT !.pc = "lost"]
             on == [till[j] EXCEPT !.todo = till[j].todo \ {i}]
             t == [till[j] EXCEPT !.pc = "priced", !.row = i, !.amount = n]
  <2>1. till[j].pc = "walking" /\ till[j].todo # {}  BY <1>7 DEF NextRow
  <2>2. i \in till[j].todo  BY <1>1, <2>1, HasMin
  <2>3. /\ till[j].applied = credited[r]
        /\ \A k \in till[j].todo : inst[k].ref # r
    BY <2>1 DEF SoleOK, PaidFor
  <2>4. /\ gone.pc = "lost" /\ gone.applied = 0 /\ gone.todo = {}
        /\ on.pc = "walking" /\ on.applied = till[j].applied /\ on.todo = till[j].todo \ {i}
        /\ t.pc = "priced" /\ t.applied = till[j].applied /\ t.row = i /\ t.todo = till[j].todo
    <3> HIDE DEF i, n
    <3> QED  BY <1>1, <2>1 DEF Till, NoTill
  <2>5. till' = [till EXCEPT ![j] =
             IF inst[i].status = "none" THEN gone
             ELSE IF inst[i].status = "paid" \/ n = 0 THEN on ELSE t]
    BY <1>7 DEF NextRow
  <2> HIDE DEF gone, on, t, n, i
  <2>6. till'[j] = gone \/ till'[j] = on \/ till'[j] = t  BY <1>1, <2>5
  <2>7. CASE till'[j] = gone  BY <2>4, <2>7, SoleEnds DEF Fresh
  <2>8. CASE till'[j] = on  BY <1>2, <2>3, <2>4, <2>8 DEF SoleOK, Paying, PaidFor
  <2>9. CASE till'[j] = t  BY <1>2, <2>2, <2>3, <2>4, <2>9 DEF SoleOK, Paying, PaidFor
  <2> QED  BY <2>6, <2>7, <2>8, <2>9
<1>8. CASE ConfirmRow(j)
  <2> DEFINE landed == Landed(till[j].row, r)
             n == IF landed THEN till[j].amount ELSE 0
             t == [till[j] EXCEPT !.pc = "walking", !.todo = till[j].todo \ {till[j].row},
                                  !.applied = till[j].applied + n]
  <2>1. till[j].pc = "confirming"  BY <1>8 DEF ConfirmRow
  <2>2. /\ credited[r] = till[j].applied + n
        /\ \A i \in till[j].todo : inst[i].ref = r => i = till[j].row
    BY <2>1 DEF SoleOK
  <2>3. till' = [till EXCEPT ![j] = t]  BY <1>8 DEF ConfirmRow, Landed
  <2> HIDE DEF n
  <2>4. /\ t.pc = "walking" /\ t.applied = till[j].applied + n
        /\ t.todo = till[j].todo \ {till[j].row}
    BY <1>1 DEF Till
  <2> HIDE DEF t
  <2>5. till'[j] = t  BY <1>1, <2>3
  <2> QED  BY <1>2, <2>2, <2>4, <2>5 DEF SoleOK, Paying, PaidFor
<1>9. CASE FinishPayoff(j)
  <2>1. /\ till[j].pc = "walking" /\ Leave(j, "done")
        /\ Files(r, checkout[r].amount # till[j].applied)
    BY <1>9 DEF FinishPayoff
  <2>2. till[j].applied = credited[r]  BY <2>1 DEF SoleOK
  <2>3. Fresh(j, "done")  BY <1>1, <2>1, MovingOn, PcSteps
  <2>4. r \in filed' \/ credited[r] = checkout[r].amount  BY <2>1, <2>2 DEF Files
  <2> QED  BY <1>2, <2>3, <2>4, SoleEnds
<1>10. CASE Lose(j)
  <2>1. till[j].pc = "priced" /\ Move(j, "confirming")  BY <1>10 DEF Lose
  <2>2. Carries(j) /\ till'[j].pc = "confirming"  BY <1>1, <2>1, MovingOn, PcSteps
  <2>3. /\ till[j].applied = credited[r] /\ till[j].row \in till[j].todo
        /\ \A i \in till[j].todo : inst[i].ref # r
    BY <2>1 DEF SoleOK, Paying, PaidFor
  <2>4. ~Landed(till[j].row, r)  BY <2>3 DEF Landed
  <2>5. till[j].applied \in Nat  BY <1>1 DEF Till
  <2>6. inst'[till'[j].row].ref # r  BY <1>2, <2>2, <2>3 DEF Carries
  <2> QED  BY <1>2, <2>2, <2>3, <2>5, <2>6 DEF SoleOK, Carries, Paying, PaidFor, Landed
<1>11. CASE ReadRenewal(j)
  <2> DEFINE t == [till[j] EXCEPT !.pc = "rippling", !.last = plan.status = "completed"]
  <2>1. till[j].pc = "reading" /\ (Return(j) \/ till' = [till EXCEPT ![j] = t])
    BY <1>1, <1>11 DEF ReadRenewal
  <2>2. Carries(j)  BY <1>11, Carrying
  <2>3. t.pc = "rippling"  BY <1>1 DEF Till
  <2> HIDE DEF t
  <2>4. till'[j].pc \in {"rippling", "confirming"}  BY <1>1, <2>1, <2>3, Returns
  <2>5. /\ Landed(till[j].row, r) /\ till[j].applied + till[j].amount = credited[r]
        /\ \A i \in till[j].todo : inst[i].ref = r => i = till[j].row
    BY <2>1 DEF SoleOK, PaidFor
  <2>6. Lands(till[j].row, r)  BY <1>2, <2>5 DEF Landed, Lands
  <2> QED  BY <1>2, <2>2, <2>4, <2>5, <2>6, SolePaid DEF PaidFor
<1> QED
  BY <1>4, <1>5, <1>6, <1>7, <1>8, <1>9, <1>10, <1>11 DEF ReadingStep

(* The row is paid in full: the landlord has not asked more of it since.   *)
LEMMA SoleCommits ==
  ASSUME Good, Claims, RowsOK, NEW j \in Jobs, PaysOff(j), SoleOK(j), Commit(j), ~stale'
  PROVE  SoleOK(j)'
<1> DEFINE r == RefOf[j]
           i == till[j].row
           n == till[j].amount
<1>1. /\ r \in Refs /\ r # None /\ checkout[r].target = "payoff"
      /\ till \in [Jobs -> Till] /\ till[j] \in Till /\ till[j].todo \subseteq Rows
      /\ credited \in [Refs \cup {None} -> Nat] /\ inst \in [Rows -> Row]
  BY PayingOff, RefAssumption DEF PaysOff, Good, TypeOK, InvoiceTypeOK, Till
<1>2. /\ i \in Rows /\ n \in Nat /\ till[j].pc = "claimed"
      /\ \A k \in Rows \ {i} : inst'[k] = inst[k]
      /\ inst'[i].ref = r /\ inst'[i].status = IF Settles(j) THEN "paid" ELSE "partial"
      /\ credited' = [credited EXCEPT ![r] = credited[r] + n]
      /\ HasSources => till'[j].pc = "settling"
      /\ plan.kind = "tenancy" => till'[j].pc = "reading"
  BY Committing
<1>3. Settles(j)
  <2>1. ~Repriced(j) /\ ~stale  BY CommitRows
  <2>2. RowOK(inst[i]) /\ inst[i] \in Row  BY <1>1, <1>2, <2>1 DEF RowsOK
  <2>3. Remaining(inst[i]) = inst[i].amount - inst[i].paid
        /\ inst[i].amount \in Nat /\ inst[i].paid \in Nat
    BY <2>2, SoundRow
  <2>4. ~(Remaining(inst[i]) > n)  BY <1>1, <2>1 DEF Repriced
  <2>5. inst[i].paid + n >= inst[i].amount  BY <1>2, <2>3, <2>4
  <2> QED  BY <2>5 DEF Settles
<1>4. Carries(j)  BY Carrying
<1>5. till'[j].pc \in PaidFor \cup {"confirming"}
  <2>1. Return(j) => till'[j].pc = "confirming"  BY <1>1, Returns
  <2>2. ~HasSources /\ plan.kind # "tenancy" => Return(j)  BY DEF Commit
  <2> QED  BY <1>2, <2>1, <2>2 DEF PaidFor
<1>6. till[j].applied = credited[r] /\ \A k \in till[j].todo : inst[k].ref # r
  BY <1>2 DEF SoleOK, Paying, PaidFor
<1>7. Lands(i, r)  BY <1>2, <1>3 DEF Lands
<1>8. \A k \in till[j].todo : inst'[k].ref = r => k = i  BY <1>1, <1>2, <1>6
<1>9. credited'[r] = credited[r] + n  BY <1>1, <1>2
<1>10. till[j].applied + till[j].amount = credited'[r]  BY <1>6, <1>9
<1> HIDE DEF n
<1> QED  BY <1>4, <1>5, <1>7, <1>8, <1>10, SolePaid

LEMMA SoleActing ==
  ASSUME Good, Claims, RowsOK, TracesOK, NEW j \in Jobs, PaysOff(j), SoleOK(j),
         ReadingStep(j) \/ Claim(j) \/ Commit(j) \/ SettleSources(j) \/ Ripple(j),
         ~stale'
  PROVE  SoleOK(j)'
<1>1. till \in [Jobs -> Till]  BY DEF Good, TypeOK
<1>2. CASE ReadingStep(j)  BY <1>2, SoleReading
<1>3. CASE Claim(j)
  <2>1. /\ till[j].pc = "priced" /\ till'[j].pc = "claimed"
        /\ UNCHANGED <<credited, inst, checkout, filed>>
    BY <1>3, Claiming DEF records
  <2>2. Carries(j)  BY <1>3, Carrying
  <2> QED  BY <2>1, <2>2 DEF SoleOK, Carries, Paying, PaidFor
<1>4. CASE Commit(j)  BY <1>4, SoleCommits
<1>5. CASE SettleSources(j) \/ Ripple(j)
  <2>1. till[j].pc \in {"settling", "rippling"} /\ UNCHANGED <<credited, inst>>
    BY <1>5, Settling, Rippling
  <2>2. Return(j)  BY <1>5 DEF SettleSources, Ripple, RippleUp, RippleFails, RippleKept, InvoiceKept
  <2>3. Carries(j) /\ till'[j].pc = "confirming"  BY <1>1, <2>2, Returns
  <2>4. /\ Landed(till[j].row, RefOf[j])
        /\ till[j].applied + till[j].amount = credited[RefOf[j]]
        /\ \A i \in till[j].todo : inst[i].ref = RefOf[j] => i = till[j].row
    BY <2>1 DEF SoleOK, PaidFor
  <2>5. Lands(till[j].row, RefOf[j])  BY <2>1, <2>4 DEF Landed, Lands
  <2> QED  BY <2>1, <2>3, <2>4, <2>5, SolePaid
<1> QED  BY <1>2, <1>3, <1>4, <1>5

(* A payoff is minted before any of it is reported.                        *)
LEMMA SoleStarts ==
  ASSUME Good, Claims, TracesOK, CreditsOK, Next, NEW j \in Jobs,
         PaysOff(j)', ~PaysOff(j), ~stale'
  PROVE  SoleOK(j)'
<1> DEFINE r == RefOf[j]
<1>1. r \in Refs /\ r # None /\ checkout'[r].target = "payoff" /\ checkout[r].target # "payoff"
  BY JobAssumption DEF PaysOff
<1>2. checkout[r] = NoCheckout  BY <1>1, CheckoutsStay DEF CheckoutsKept
<1>3. checkout[r].target = None  BY <1>2 DEF NoCheckout
<1>4. /\ \A q \in Refs : credited[q] >= 0
      /\ credited[r] = 0
  BY <1>1, <1>3, StaleKept DEF CreditsOK, CreditOK, Good, TypeOK, InvoiceTypeOK
<1>5. till[j].pc = "idle"  BY <1>1, <1>3 DEF TracesOK, Traced
<1>6. \A i \in Rows : inst[i].ref # r  BY <1>1, <1>4 DEF TracesOK, Referred
<1>7. UNCHANGED <<till, inst, credited>>
  <2>1. CASE Minting
    BY <2>1 DEF Minting, InitializePlanPayoffPayment, InitializeInstallmentPayment, planVars
  <2>2. CASE InvoiceNext /\ UNCHANGED planVars
    <3>1. \A q \in Refs : checkout'[q] = checkout[q] \/ checkout'[q].target = "link"
      BY <2>2, InvoiceTyped DEF Good, TypeOK, Shape, InvoiceShape
    <3> QED  BY <1>1, <3>1
  <2>3. CASE UNCHANGED checkout  BY <1>1, <2>3
  <2>4. CASE Creation
    BY <2>3, <2>4 DEF Creation, CreateAdHocInvoicePlan, CreateNewChargePlan, CreateFeePlan,
       CreateTenancyPlan, CreateOutstandingBalancePlan, invoiceVars
  <2>5. ASSUME NEW k \in Jobs, \/ ReadingStep(k) \/ Claim(k) \/ Commit(k) \/ SettleSources(k)
                               \/ Ripple(k) \/ Crash(k)
        PROVE  UNCHANGED checkout
    BY <2>5, Reading, Claiming, Committing, Settling, Rippling, Crashing DEF Good, records
  <2>6. ASSUME NEW d \in Desks, Looking(d) \/ CancelPlan(d) \/ UpdatePlan(d)
        PROVE  UNCHANGED checkout
    BY <2>6, LookingGood DEF CancelPlan, UpdatePlan, invoiceVars
  <2> QED  BY <2>1, <2>2, <2>3, <2>4, <2>5, <2>6, NextIs
<1>8. till[j].todo \subseteq Rows  BY DEF Good, TypeOK, Till
<1> QED  BY <1>4, <1>5, <1>6, <1>7, <1>8 DEF SoleOK, Paying, PaidFor

LEMMA SolesStep ==
  ASSUME Good, Claims, RowsOK, TracesOK, CreditsOK, SolesOK, Next
  PROVE  SolesOK'
<1> SUFFICES ASSUME NEW j \in Jobs, PaysOff(j)', SoleReport(RefOf[j]), crashes' = 0, ~stale'
             PROVE  SoleOK(j)'
  BY DEF SolesOK, SoleReport
<1>1. CASE ~PaysOff(j)  BY <1>1, SoleStarts
<1>2. CASE PaysOff(j)
  <2>1. \A k \in Jobs : ~Crash(k)  BY Crashing
  <2>2. crashes = 0 /\ ~stale
    <3>1. UNCHANGED crashes
      <4>1. CASE InvoiceNext /\ UNCHANGED planVars  BY <4>1 DEF planVars
      <4>2. CASE Creation  
        BY <4>2, Creating, NewPlanRows DEF Makes
      <4>3. CASE Minting
        BY <4>3 DEF Minting, InitializePlanPayoffPayment, InitializeInstallmentPayment, planVars
      <4>4. ASSUME NEW k \in Jobs, \/ ReadingStep(k) \/ Claim(k) \/ Commit(k) \/ SettleSources(k)
                                   \/ Ripple(k)
            PROVE  UNCHANGED crashes
        BY <4>4, Reading, Claiming, Committing, Settling, Rippling DEF Good, records, Ripple, RippleUp, RippleFails, RippleKept, InvoiceKept
      <4>5. ASSUME NEW d \in Desks, Looking(d) \/ CancelPlan(d) \/ UpdatePlan(d)
            PROVE  UNCHANGED crashes
        BY <4>5, LookingGood DEF CancelPlan, UpdatePlan
      <4> QED  BY <2>1, <4>1, <4>2, <4>3, <4>4, <4>5, NextIs
    <3> QED  BY <3>1, StaleKept
  <2>3. SoleOK(j)  BY <1>2, <2>2 DEF SolesOK
  <2>4. CASE till'[j] = till[j]  BY <1>2, <2>3, <2>4, SoleKept
  <2>5. CASE till'[j] # till[j]
    <3>1. \/ ReadingStep(j) \/ Claim(j) \/ Commit(j) \/ SettleSources(j)
          \/ Ripple(j) \/ Crash(j)
      BY <2>5, TillsWait, OthersWait
    <3> QED  BY <1>2, <2>1, <2>3, <3>1, SoleActing
  <2> QED  BY <2>4, <2>5
<1> QED  BY <1>1, <1>2

Trail == TracesOK /\ LinksOK /\ BillOK /\ SolesOK

LEMMA InitTrail == Init => Trail
<1> SUFFICES ASSUME Init PROVE Trail  OBVIOUS
<1>1. /\ \A j \in Jobs : till[j] = NoTill /\ job[j].pc = "idle"
      /\ \A r \in Refs : checkout[r] = NoCheckout /\ credited[r] = 0
      /\ \A i \in Rows : inst[i].ref = None
      /\ \A d \in Desks : edit[d].pc = "idle" /\ change[d].pc = "idle"
      /\ invoice = NoInvoice /\ plan.cover = 0
  BY DEF Init, NoSchedule, NoRow, NoPlan, NoChange
<1>2. \A j \in Jobs : till[j].pc = "idle" /\ till[j].todo = {} /\ till[j].applied = 0
  BY <1>1 DEF NoTill
<1>3. TracesOK
  <2>1. \A r \in Refs : Priced(r)  BY <1>1, RefAssumption DEF Priced, NoCheckout
  <2>2. \A i \in Rows : Referred(i)  BY <1>1 DEF Referred
  <2>3. \A j \in Jobs : Traced(j)  BY <1>2 DEF Traced, Paying, PaidFor
  <2> QED  BY <2>1, <2>2, <2>3 DEF TracesOK
<1>4. LinksOK  BY <1>1 DEF LinksOK, LinkOK, NoInvoice, OpenStatus
<1>5. BillOK
  <2>1. OpenBillOK  BY <1>1 DEF OpenBillOK, NoInvoice, OpenStatus
  <2> QED  BY <1>1, <2>1 DEF BillOK, WeighedOK, NoInvoice
<1>6. SolesOK
  <2>1. \A j \in Jobs : ~PaysOff(j)
    <3>1. \A j \in Jobs : RefOf[j] # None => checkout[RefOf[j]].target = None
      BY <1>1, JobAssumption DEF NoCheckout
    <3> QED  BY <3>1, RefAssumption DEF PaysOff
  <2> QED  BY <2>1 DEF SolesOK
<1> QED  BY <1>3, <1>4, <1>5, <1>6 DEF Trail

LEMMA StepTrail == IInv /\ Trail /\ [Next]_vars => Trail'
<1> SUFFICES ASSUME IInv, Trail, [Next]_vars PROVE Trail'  OBVIOUS
<1>1. Good /\ Claims /\ RowsOK /\ CreditsOK  BY DEF IInv, Good
<1>2. TracesOK /\ LinksOK /\ BillOK /\ SolesOK  BY DEF Trail
<1>3. CASE Next
  <2>1. TracesOK'  BY <1>1, <1>2, <1>3, TracesStep
  <2>2. LinksOK' /\ BillOK'  BY <1>1, <1>2, <1>3, LinksStep, BillStep
  <2>3. SolesOK'  BY <1>1, <1>2, <1>3, SolesStep
  <2> QED  BY <2>1, <2>2, <2>3 DEF Trail
<1>4. CASE UNCHANGED vars
  <2> USE <1>4 DEF vars, planVars, invoiceVars
  <2>1. TracesOK'  BY <1>2 DEF TracesOK, Priced, Referred, Traced
  <2>2. LinksOK'  BY <1>2 DEF LinksOK, LinkOK, Kept, Unedited
  <2>3. BillOK'  BY <1>2 DEF BillOK, Unedited, OpenBillOK, WeighedOK
  <2>4. SolesOK'  BY <1>2 DEF SolesOK, PaysOff, SoleOK, Landed
  <2> QED  BY <2>1, <2>2, <2>3, <2>4 DEF Trail
<1> QED  BY <1>3, <1>4

(* Once every report of a payment has been handled, its money is credited  *)
(* or filed for a refund, unless a report lost its claim: the locks of     *)
(* markPaidFromPayment and settleInstallment, the redeliveries and the     *)
(* walk of payOffPlan account for all of it.                               *)
THEOREM LosersOnly == Spec => []OnlyLosersVanish
<1>1. IInv /\ Trail => OnlyLosersVanish
  <2> SUFFICES ASSUME IInv, Trail, NEW r \in received,
                      \A j \in Jobs : RefOf[j] = r => job[j].pc \in Ended \/ till[j].pc \in Ended,
                      NEW j \in Jobs, RefOf[j] = r, j \notin Verifiers,
                      Unrecorded(r), r \notin filed,
                      "lost" \notin {job[j].pc, till[j].pc}
               PROVE  FALSE
    BY DEF OnlyLosersVanish
  <2>1. r \in Refs /\ r # None
    BY RefAssumption DEF IInv, TypeOK, InvoiceTypeOK
  <2>2. TracesOK /\ LinksOK /\ SolesOK  BY DEF Trail
  <2>3. job[j].pc # "done"
    <3> SUFFICES ASSUME job[j].pc = "done" PROVE FALSE  OBVIOUS
    <3>1. LinkOK(j)  BY <2>2 DEF LinksOK
    <3>2. checkout[r].target = "link" /\ (~stale \/ Unedited => Kept(r))
      BY <3>1 DEF LinkOK
    <3>3. credited[r] = 0 /\ invoice.ref # r /\ (stale => Unedited)
      BY <3>2 DEF Unrecorded
    <3> QED  BY <3>2, <3>3 DEF Kept
  <2>4. till[j].pc = "done"  BY <2>3 DEF Ended
  <2>5. credited[r] > 0
    <3>1. Traced(j)  BY <2>2 DEF TracesOK
    <3> QED  BY <2>1, <2>4, <3>1 DEF Traced
  <2>6. /\ checkout[r].target = "payoff" /\ credited[r] < checkout[r].amount
        /\ crashes = 0 /\ ~stale /\ SoleReport(r)
    BY <2>5 DEF Unrecorded
  <2>7. SoleOK(j)  BY <2>1, <2>2, <2>6 DEF SolesOK, PaysOff
  <2>8. credited[r] = checkout[r].amount  BY <2>4, <2>7 DEF SoleOK
  <2>9. checkout[r].amount \in Nat  BY <2>1 DEF IInv, TypeOK, InvoiceTypeOK
  <2> QED  BY <2>6, <2>8, <2>9
<1>2. Init => IInv /\ Trail  BY InitInv, InitTrail
<1>3. IInv /\ Trail /\ [Next]_vars => IInv' /\ Trail'  BY StepInv, StepTrail
<1> QED  BY <1>1, <1>2, <1>3, PTL DEF Spec
=============================================================================
