-------------------------- MODULE BillingCycleProofs --------------------------
(* Proofs about the billing cycle, for any subscriptions, months and days.     *)
(* Invoice numbers, idempotent billing, the grace period and the restore after *)
(* a payment, for any number of jobs that overlap, fail and die; and, for one  *)
(* job at a time and a world that waits for it, who is billed and isolated.    *)
EXTENDS BillingCycle, NaturalLemmas, TLAPS

-----------------------------------------------------------------------------
(* Invoice numbers. *)

(* The columns of an invoice row. *)
RowShape(i) ==
    /\ DOMAIN i = {"num", "sub", "month", "due", "status"}
    /\ i = [c \in DOMAIN i |-> i[c]]

(* The counter is never behind: every number in the table or in the hands of a
   job has been counted, and a number in hand is nowhere else. *)
NumberInv ==
    /\ counter \in Nat
    /\ DOMAIN pc = Jobs /\ pc = [j \in Jobs |-> pc[j]]
    /\ num \in [Jobs -> Nat]
    /\ \A i \in invoices : RowShape(i) /\ i.num \in Nat /\ i.num <= counter
    /\ \A j \in Jobs : pc[j] = "insert" => num[j] <= counter
    /\ NumberIsFree

LEMMA InitNumbers == Init => NumberInv
  BY DEF Init, NumberInv, NumberIsFree

(* A step that draws no number, inserts no row and enters no insert. *)
LEMMA StepElsewhere ==
  ASSUME NumberInv, NEW j \in Jobs,
         counter' = counter, invoices' = invoices,
         num' = num \/ num' = [num EXCEPT ![j] = 0],
         \/ pc' = pc /\ num' = num
         \/ \E step \in {"idle", "list", "visit", "check", "number", "isolate",
                         "settle", "restore"} : Goto(j, step)
  PROVE  NumberInv'
  <1>1. DOMAIN pc' = Jobs /\ pc' = [k \in Jobs |-> pc'[k]]
    BY DEF NumberInv, Goto
  <1>2. num' \in [Jobs -> Nat]
    BY DEF NumberInv
  <1>3. \A k \in Jobs : pc'[k] = "insert" => pc[k] = "insert" /\ num'[k] = num[k]
    BY DEF NumberInv, Goto
  <1> QED
    BY <1>1, <1>2, <1>3 DEF NumberInv, NumberIsFree, Taken, RowShape

(* A status column is written: the numbers stay. *)
LEMMA StatusWritten ==
  ASSUME NumberInv, NEW i \in invoices, NEW st
  PROVE  /\ RowShape([i EXCEPT !.status = st])
         /\ [i EXCEPT !.status = st].num = i.num
  BY DEF NumberInv, RowShape

LEMMA StepStatuses ==
  ASSUME NumberInv, NEW st, NEW j \in Jobs,
         \A x \in invoices' : \/ x \in invoices
                             \/ \E i \in invoices : x = [i EXCEPT !.status = st],
         counter' = counter, num' = num,
         pc' = pc \/ Goto(j, "settle")
  PROVE  NumberInv'
  <1>1. DOMAIN pc' = Jobs /\ pc' = [k \in Jobs |-> pc'[k]]
    BY DEF NumberInv, Goto
  <1>2. \A k \in Jobs : pc'[k] = "insert" => pc[k] = "insert"
    BY DEF NumberInv, Goto
  <1>3. ASSUME NEW x \in invoices'
        PROVE  RowShape(x) /\ \E k \in invoices : x.num = k.num
    <2>1. CASE x \in invoices
      BY <2>1 DEF NumberInv
    <2>2. CASE x \notin invoices
      <3>1. PICK i \in invoices : x = [i EXCEPT !.status = st]
        BY <2>2
      <3> QED
        BY <3>1, StatusWritten
    <2> QED
      BY <2>1, <2>2
  <1> QED
    BY <1>1, <1>2, <1>3 DEF NumberInv, NumberIsFree, Taken, RowShape

LEMMA StepNumber ==
  ASSUME NumberInv, NEW j \in Jobs, GenerateNumber(j)
  PROVE  NumberInv'
  <1>1. DOMAIN pc' = Jobs /\ pc' = [k \in Jobs |-> pc'[k]]
    BY DEF NumberInv, GenerateNumber, Goto
  <1>2. /\ counter' = counter + 1 /\ invoices' = invoices
        /\ num' = [num EXCEPT ![j] = counter + 1]
    BY DEF GenerateNumber
  <1>3. num' \in [Jobs -> Nat] /\ num'[j] = counter + 1
        /\ \A k \in Jobs \ {j} : num'[k] = num[k] /\ pc'[k] = pc[k]
    BY <1>2 DEF NumberInv, GenerateNumber, Goto
  <1> QED
    BY <1>1, <1>2, <1>3 DEF NumberInv, NumberIsFree, Taken, RowShape

LEMMA StepInsert ==
  ASSUME NumberInv, NEW j \in Jobs, GenerateInsert(j)
  PROVE  NumberInv'
  <1>1. pc[j] = "insert" /\ counter' = counter
        /\ pc' = [pc EXCEPT ![j] = "visit"] /\ num' = [num EXCEPT ![j] = 0]
    BY DEF GenerateInsert, Goto
  <1>2. DOMAIN pc' = Jobs /\ pc' = [k \in Jobs |-> pc'[k]] /\ num' \in [Jobs -> Nat]
    BY <1>1 DEF NumberInv
  <1>3. \A k \in Jobs : pc'[k] = "insert" =>
           k # j /\ pc[k] = "insert" /\ num'[k] = num[k] /\ num[k] # num[j]
    BY <1>1 DEF NumberInv, NumberIsFree
  <1>4. \A i \in invoices' : RowShape(i) /\ (i \in invoices \/ i.num = num[j])
    <2> DEFINE r == [num |-> num[j], sub |-> cur[j], month |-> at[j].m,
                     due |-> DueDate(cur[j], at[j].m), status |-> "unpaid"]
    <2>1. RowShape(r) /\ r.num = num[j]
      BY DEF RowShape
    <2>2. invoices' \subseteq invoices \cup {r}
      BY DEF GenerateInsert
    <2> QED
      BY <2>1, <2>2 DEF NumberInv
  <1>5. num[j] \in Nat /\ num[j] <= counter
    BY <1>1 DEF NumberInv
  <1> QED
    BY <1>1, <1>2, <1>3, <1>4, <1>5 DEF NumberInv, NumberIsFree, Taken, RowShape

(* A job's step preserves the invariant. *)
LEMMA JobStep ==
  ASSUME NumberInv, NEW j \in Jobs, Begin(j) \/ Step(j) \/ Die(j)
  PROVE  NumberInv'
  <1>1. CASE ProcessDailyBilling(j)
    BY <1>1, StepElsewhere DEF ProcessDailyBilling, Start
  <1>2. CASE ForceMonthlyBilling(j)
    BY <1>2, StepElsewhere DEF ForceMonthlyBilling, Start, world
  <1>3. CASE CheckAndIsolateOverdue(j)
    BY <1>3, StepElsewhere DEF CheckAndIsolateOverdue, Start, world
  <1>4. ASSUME NEW some \in SUBSET OpenInvoices, NEW st \in {"paid", "partial"},
               Confirm(j, some, st)
        PROVE  NumberInv'
    <2>1. \A x \in invoices' : \/ x \in invoices
                             \/ \E i \in invoices : x = [i EXCEPT !.status = st]
      BY <1>4 DEF Confirm, OpenInvoices
    <2>2. counter' = counter /\ num' = num /\ Goto(j, "settle")
      BY <1>4 DEF Confirm, Start
    <2> QED
      BY <2>1, <2>2, StepStatuses
  <1>5. CASE ListIsolated(j)
    BY <1>5, StepElsewhere DEF ListIsolated, world
  <1>6. CASE GenerateCheck(j)
    BY <1>6, StepElsewhere DEF GenerateCheck, world
  <1>7. CASE GenerateNumberFails(j)
    BY <1>7, StepElsewhere DEF GenerateNumberFails, world
  <1>8. CASE Isolate(j)
    BY <1>8, StepElsewhere DEF Isolate
  <1>9. CASE ConfirmSettled(j)
    BY <1>9, StepElsewhere DEF ConfirmSettled, End, world
  <1>10. CASE Finish(j) \/ Die(j)
    BY <1>10, StepElsewhere DEF Finish, Die, End
  <1>11. ASSUME NEW s \in Subs, Visit(j, s) \/ RestoreSubscription(j, s)
         PROVE  NumberInv'
    BY <1>11, StepElsewhere DEF Visit, RestoreSubscription, world
  <1>12. ASSUME NEW i \in bills[j], VisitOverdue(j, i)
         PROVE  NumberInv'
    BY <1>12, StepElsewhere DEF VisitOverdue, world
  <1> QED
    BY <1>1, <1>2, <1>3, <1>4, <1>5, <1>6, <1>7, <1>8, <1>9, <1>10, <1>11, <1>12,
       StepNumber, StepInsert DEF Begin, Step

(* So does a step of the world around them. *)
LEMMA WorldStep ==
  ASSUME NumberInv, World
  PROVE  NumberInv'
  <1>1. CASE UNCHANGED <<invoices, counter, pc, num>>
    BY <1>1 DEF NumberInv, NumberIsFree, Taken, RowShape
  <1>2. ASSUME NEW i \in invoices, Cancel(i)
        PROVE  NumberInv'
    <2>1. ASSUME NEW x \in invoices'
          PROVE  RowShape(x) /\ \E k \in invoices : x.num = k.num
      <3>1. CASE x \in invoices
        BY <3>1 DEF NumberInv
      <3>2. CASE x = [i EXCEPT !.status = "cancelled"]
        BY <3>2, StatusWritten
      <3> QED
        BY <1>2, <3>1, <3>2 DEF Cancel
    <2> QED
      BY <1>2, <2>1 DEF Cancel, job, NumberInv, NumberIsFree, Taken, RowShape
  <1> QED
    BY <1>1, <1>2 DEF World, NextDay, SuspendAllSubscriptions,
       IsolateAllSubscriptions, StaffRestore, SetStatus, SetAccount, job

LEMMA NextNumbers == NumberInv /\ [Next]_vars => NumberInv'
  <1> SUFFICES ASSUME NumberInv, [Next]_vars PROVE NumberInv'
    OBVIOUS
  <1>1. CASE UNCHANGED vars
    BY <1>1 DEF vars, world, job, NumberInv, NumberIsFree, Taken, RowShape
  <1> QED
    BY <1>1, JobStep, WorldStep DEF Next

(* Whatever jobs overlap, fail or die, no invoice insert is refused because its
   number, drawn from sequence_counters in a transaction of its own, is taken. *)
THEOREM DrawnNumbersAreFree == Spec => []NumberIsFree
  <1>1. NumberInv => NumberIsFree
    BY DEF NumberInv
  <1> QED
    BY <1>1, InitNumbers, NextNumbers, PTL DEF Spec

-----------------------------------------------------------------------------
(* Days. *)

(* The days before the first n months. *)
Counts(f, n) ==
    /\ f \in [1..n -> Nat]
    /\ \A m \in 1..n : f[m] = IF m = 1 THEN 0 ELSE f[m - 1] + Lengths[m - 1]

LEMMA MonthLengths ==
  /\ Len(Lengths) \in Nat \ {0} /\ Months = 1..Len(Lengths) /\ 1 \in Months
  /\ \A m \in Months : Lengths[m] \in Nat \ {0}
  <1>1. Lengths \in Seq(Nat \ {0}) /\ Lengths # <<>>
    BY CycleAssumption
  <1>2. Len(Lengths) \in Nat /\ Len(Lengths) # 0
    BY <1>1
  <1> QED
    BY <1>1, <1>2 DEF Months

LEMMA CountsExists ==
  ASSUME NEW n \in 0..Len(Lengths)
  PROVE  \E f : Counts(f, n)
  <1> DEFINE Bad == {k \in 0..Len(Lengths) : ~ \E f : Counts(f, k)}
  <1>1. ASSUME NEW k \in Bad, \A l \in Bad : k <= l PROVE FALSE
    <2>0. k \in Nat /\ k <= Len(Lengths) /\ Len(Lengths) \in Nat
      BY MonthLengths
    <2>1. CASE k = 0
      <3> DEFINE f == [m \in 1..0 |-> 0]
      <3>1. f \in [1..0 -> Nat] /\ \A m \in 1..0 : FALSE
        OBVIOUS
      <3>2. Counts(f, 0)
        BY <3>1 DEF Counts
      <3> QED
        BY <2>1, <3>2
    <2>2. CASE k # 0
      <3>1. k - 1 \in 0..Len(Lengths) /\ k - 1 \notin Bad
        BY <1>1, <2>0, <2>2
      <3>2. PICK f : Counts(f, k - 1)
        BY <3>1
      <3> DEFINE last == IF k = 1 THEN 0 ELSE f[k - 1] + Lengths[k - 1]
                 g == [m \in 1..k |-> IF m = k THEN last ELSE f[m]]
      <3>3. last \in Nat
        <4>1. CASE k = 1
          BY <4>1
        <4>2. CASE k # 1
          <5>1. k - 1 \in 1..(k - 1) /\ k - 1 \in Months
            BY <2>0, <2>2, <4>2, MonthLengths
          <5> QED
            BY <5>1, <3>2, <4>2, MonthLengths DEF Counts
        <4> QED
          BY <4>1, <4>2
      <3>4. \A m \in 1..k : m # k => m \in 1..(k - 1) /\ f[m] \in Nat
                                       /\ (m # 1 => m - 1 \in 1..(k - 1) /\ m - 1 # k)
        BY <2>0, <2>2, <3>2 DEF Counts
      <3>5. g \in [1..k -> Nat]
        <4> HIDE DEF last
        <4> QED
          BY <3>3, <3>4
      <3>6. ASSUME NEW m \in 1..k
            PROVE  g[m] = IF m = 1 THEN 0 ELSE g[m - 1] + Lengths[m - 1]
        <4>1. m # 1 => m - 1 \in 1..k /\ m - 1 # k /\ g[m - 1] = f[m - 1]
          BY <2>0, <3>4
        <4>2. CASE m = k
          BY <4>1, <4>2
        <4>3. CASE m # k
          <5>1. g[m] = f[m] /\ m \in 1..(k - 1)
            BY <3>4, <4>3
          <5>2. f[m] = IF m = 1 THEN 0 ELSE f[m - 1] + Lengths[m - 1]
            BY <5>1, <3>2 DEF Counts
          <5> QED
            BY <4>1, <5>1, <5>2
        <4> QED
          BY <4>2, <4>3
      <3>7. Counts(g, k)
        <4> HIDE DEF g
        <4> QED
          BY <3>5, <3>6 DEF Counts
      <3> QED
        BY <3>7
    <2> QED
      BY <2>1, <2>2
  <1>2. Bad \subseteq Nat
    OBVIOUS
  <1>3. Bad = {}
    <2> HIDE DEF Bad
    <2> QED
      BY <1>1, <1>2, LeastNatural
  <1> QED
    BY <1>3

(* The days before a month are those of the months before it. *)
LEMMA DaysCounted == Counts(DaysBefore, Len(Lengths))
  <1> DEFINE D(f) == [m \in Months |-> IF m = 1 THEN 0 ELSE f[m - 1] + Lengths[m - 1]]
  <1>1. PICK f : Counts(f, Len(Lengths))
    <2>1. Len(Lengths) \in 0..Len(Lengths)
      BY MonthLengths
    <2> QED
      BY <2>1, CountsExists
  <1>2. f = D(f)
    BY <1>1, MonthLengths DEF Counts
  <1>3. DaysBefore = D(DaysBefore)
    <2>1. DaysBefore = CHOOSE g : g = D(g)
      BY DEF DaysBefore
    <2> HIDE DEF D
    <2> QED
      BY <1>2, <2>1
  <1>4. \A m \in Months :
          /\ DaysBefore[m] = IF m = 1 THEN 0 ELSE DaysBefore[m - 1] + Lengths[m - 1]
          /\ f[m] = IF m = 1 THEN 0 ELSE f[m - 1] + Lengths[m - 1]
    BY <1>1, <1>3, MonthLengths DEF Counts
  <1> DEFINE Bad == {m \in Months : DaysBefore[m] # f[m]}
  <1>5. ASSUME NEW m \in Bad, \A k \in Bad : m <= k PROVE FALSE
    <2>1. m \in Months /\ (m # 1 => m - 1 \in Months /\ m - 1 \notin Bad)
      BY <1>5, MonthLengths
    <2> QED
      BY <1>4, <2>1
  <1>6. Bad = {}
    <2>1. Bad \subseteq Nat
      BY MonthLengths
    <2> HIDE DEF Bad
    <2> QED
      BY <1>5, <2>1, LeastNatural
  <1>7. DaysBefore = f
    <2>1. f = [m \in Months |-> f[m]] /\ DaysBefore = [m \in Months |-> DaysBefore[m]]
      BY <1>1, <1>3, MonthLengths DEF Counts
    <2> QED
      BY <1>6, <2>1
  <1> QED
    BY <1>1, <1>7

Days == [m : Months, d : Nat]

(* A day's number is a natural number, one more on the day after. *)
LEMMA DayNumbers ==
  /\ DayNo(FirstDay) = 1
  /\ \A t \in Days : DayNo(t) \in Nat /\ (t.d >= 1 => DayNo(t) >= 1)
  /\ \A t \in Days : DayNo([t EXCEPT !.d = @ + 1]) = DayNo(t) + 1
  /\ \A m \in Months : m < Len(Lengths) =>
       m + 1 \in Months
       /\ DayNo([m |-> m + 1, d |-> 1]) = DayNo([m |-> m, d |-> Lengths[m]]) + 1
  <1>1. /\ DaysBefore \in [Months -> Nat] /\ DaysBefore[1] = 0
        /\ \A m \in Months : m # 1 => DaysBefore[m] = DaysBefore[m - 1] + Lengths[m - 1]
    BY DaysCounted, MonthLengths DEF Counts
  <1> HIDE DEF DaysBefore
  <1>2. DayNo(FirstDay) = 1
    BY <1>1 DEF DayNo, FirstDay
  <1>3. ASSUME NEW t \in Days
        PROVE  /\ DayNo(t) \in Nat /\ (t.d >= 1 => DayNo(t) >= 1)
               /\ DayNo([t EXCEPT !.d = @ + 1]) = DayNo(t) + 1
    <2>1. t.m \in Months /\ t.d \in Nat /\ DaysBefore[t.m] \in Nat
      BY <1>1 DEF Days
    <2>2. [t EXCEPT !.d = @ + 1].m = t.m /\ [t EXCEPT !.d = @ + 1].d = t.d + 1
      BY DEF Days
    <2> QED
      BY <2>1, <2>2 DEF DayNo
  <1>4. ASSUME NEW m \in Months, m < Len(Lengths)
        PROVE  m + 1 \in Months
               /\ DayNo([m |-> m + 1, d |-> 1]) = DayNo([m |-> m, d |-> Lengths[m]]) + 1
    <2>1. m + 1 \in Months /\ m + 1 # 1 /\ (m + 1) - 1 = m /\ Lengths[m] \in Nat
      BY <1>4, MonthLengths
    <2>2. DaysBefore[m + 1] = DaysBefore[m] + Lengths[m] /\ DaysBefore[m] \in Nat
      BY <1>1, <2>1
    <2> QED
      BY <2>1, <2>2 DEF DayNo
  <1> QED
    BY <1>2, <1>3, <1>4

-----------------------------------------------------------------------------
(* Types. *)

WorldType ==
    /\ now \in Days /\ now.d \in 1..Lengths[now.m]
    /\ night \in {"due", "running", "over"}
    /\ sub \in [Subs -> {"active", "isolated", "suspended"}]
    /\ isActive \in Flag
    /\ invoices \subseteq Invoice
    /\ counter \in 0..MaxNumber

(* A job that works on a subscription has one, and who inserts has a number. *)
JobType ==
    /\ pc \in [Jobs -> {"idle", "list", "visit", "check", "number", "insert",
                        "isolate", "settle", "restore"}]
    /\ kind \in [Jobs -> {"none", "daily", "force", "overdue", "confirm"}]
    /\ at \in [Jobs -> Days]
    /\ todo \in [Jobs -> SUBSET Subs]
    /\ bills \in [Jobs -> SUBSET Invoice]
    /\ cur \in [Jobs -> Subs \cup {NoSub}]
    /\ num \in [Jobs -> 0..MaxNumber]
    /\ clean \in [Jobs -> Flag]
    /\ \A j \in Jobs : pc[j] \in {"check", "number", "insert", "isolate"} => cur[j] \in Subs
    /\ \A j \in Jobs : pc[j] = "insert" => num[j] # 0

PastType ==
    /\ steady \subseteq Subs /\ owed \subseteq Subs \X Months
    /\ blind \subseteq Subs \X Months /\ again \in [Jobs -> SUBSET Subs]

TypeInv == WorldType /\ JobType /\ PastType

LEMMA TypeParts == TypeInv => TypeOK
  BY DEF TypeInv, WorldType, JobType, PastType, TypeOK, Days

LEMMA InitTypes == Init => TypeInv
  <1> SUFFICES ASSUME Init PROVE TypeInv
    OBVIOUS
  <1>1. FirstDay \in Days /\ FirstDay.d \in 1..Lengths[FirstDay.m]
    BY MonthLengths DEF FirstDay, Days
  <1>2. WorldType
    BY <1>1, CycleAssumption DEF Init, WorldType, Flag
  <1>3. JobType
    BY <1>1, CycleAssumption DEF Init, JobType, Flag
  <1> QED
    BY <1>2, <1>3 DEF Init, TypeInv, PastType

(* The rows the jobs write. *)
LEMMA RowTypes ==
  /\ \A i \in Invoice, st \in {"unpaid", "partial", "paid", "cancelled"} :
       LET x == [i EXCEPT !.status = st] IN
       /\ x \in Invoice /\ x.num = i.num /\ x.sub = i.sub
       /\ x.month = i.month /\ x.due = i.due /\ x.status = st
  /\ \A s \in Subs, m \in Months : DueDate(s, m) \in Nat
  <1>1. ASSUME NEW s \in Subs, NEW m \in Months PROVE DueDate(s, m) \in Nat
    <2>1. ClampBillingDay(BillingDay[s], m) \in Nat
      BY MonthLengths, CycleAssumption DEF ClampBillingDay
    <2>2. [m |-> m, d |-> ClampBillingDay(BillingDay[s], m)] \in Days
      BY <2>1 DEF Days
    <2> QED
      BY <2>2, DayNumbers, CycleAssumption DEF DueDate
  <1> QED
    BY <1>1 DEF Invoice

(* A job starts, or ends. *)
LEMMA StartTypes ==
  ASSUME TypeInv, NEW j \in Jobs, NEW k \in {"daily", "force", "overdue", "confirm"},
         NEW step \in {"list", "visit", "settle"}, Start(j, k, step),
         todo' \in [Jobs -> SUBSET Subs], bills' \in [Jobs -> SUBSET Invoice],
         UNCHANGED <<cur, num, clean>>
  PROVE  JobType'
  BY DEF TypeInv, WorldType, JobType, Start, Goto

LEMMA EndTypes ==
  ASSUME TypeInv, NEW j \in Jobs, End(j)
  PROVE  JobType'
  <1>1. FirstDay \in Days
    BY MonthLengths DEF FirstDay, Days
  <1>2. /\ 0 \in 0..MaxNumber /\ "yes" \in Flag
    BY CycleAssumption DEF Flag
  <1> QED
    BY <1>1, <1>2 DEF TypeInv, JobType, End, Goto

LEMMA BeginTypes ==
  ASSUME TypeInv, NEW j \in Jobs, Begin(j)
  PROVE  TypeInv'
  <1>1. CASE ProcessDailyBilling(j)
    <2>1. JobType'
      BY <1>1, StartTypes DEF ProcessDailyBilling, TypeInv, JobType
    <2> QED
      BY <1>1, <2>1 DEF ProcessDailyBilling, TypeInv, WorldType, PastType, past
  <1>2. CASE ForceMonthlyBilling(j)
    <2>1. JobType'
      BY <1>2, StartTypes DEF ForceMonthlyBilling, TypeInv, JobType
    <2> QED
      BY <1>2, <2>1 DEF ForceMonthlyBilling, TypeInv, WorldType, PastType, past, world
  <1>3. CASE CheckAndIsolateOverdue(j)
    <2>1. GetOverdue \in SUBSET Invoice
      BY DEF GetOverdue, TypeInv, WorldType
    <2>2. JobType'
      BY <1>3, <2>1, StartTypes DEF CheckAndIsolateOverdue, TypeInv, JobType
    <2> QED
      BY <1>3, <2>2 DEF CheckAndIsolateOverdue, TypeInv, WorldType, PastType, past, world
  <1>4. ASSUME NEW some \in SUBSET OpenInvoices, NEW st \in {"paid", "partial"},
               Confirm(j, some, st)
        PROVE  TypeInv'
    <2>1. OpenInvoices \in SUBSET Invoice /\ some \in SUBSET Invoice
      BY DEF OpenInvoices, TypeInv, WorldType
    <2>2. invoices' \subseteq Invoice
      <3>1. invoices' = (invoices \ some) \cup {[i EXCEPT !.status = st] : i \in some}
        BY <1>4 DEF Confirm
      <3>2. \A i \in some : [i EXCEPT !.status = st] \in Invoice
        BY <2>1, RowTypes
      <3> QED
        BY <3>1, <3>2 DEF TypeInv, WorldType
    <2>3. JobType'
      BY <1>4, <2>1, StartTypes DEF Confirm, TypeInv, JobType
    <2> QED
      BY <1>4, <2>2, <2>3 DEF Confirm, TypeInv, WorldType, PastType, past
  <1> QED
    BY <1>1, <1>2, <1>3, <1>4 DEF Begin

LEMMA StepTypes ==
  ASSUME TypeInv, NEW j \in Jobs, Step(j) \/ Die(j)
  PROVE  TypeInv'
  <1> USE DEF TypeInv
  <1>1. CASE ListIsolated(j)
    BY <1>1 DEF ListIsolated, Goto, WorldType, JobType, PastType, past, world, Flag
  <1>2. CASE GenerateCheck(j)
    <2>1. WorldType'
      BY <1>2 DEF GenerateCheck, WorldType, world
    <2>2. JobType'
      <3>1. /\ \/ pc' = [pc EXCEPT ![j] = "visit"] /\ cur' = [cur EXCEPT ![j] = NoSub]
               \/ pc' = [pc EXCEPT ![j] = "number"] /\ cur' = cur
            /\ clean' = clean \/ clean' = [clean EXCEPT ![j] = "no"]
            /\ UNCHANGED <<kind, at, todo, bills, num>> /\ pc[j] = "check"
        BY <1>2 DEF GenerateCheck, Goto
      <3> QED
        BY <3>1 DEF JobType, Flag
    <2>3. PastType'
      <3>1. cur[j] \in Subs /\ at[j].m \in Months
        BY <1>2 DEF GenerateCheck, JobType, Days
      <3>2. UNCHANGED <<steady, owed, again>> /\ blind' \subseteq blind \cup {<<cur[j], at[j].m>>}
        BY <1>2 DEF GenerateCheck
      <3> QED
        BY <3>1, <3>2 DEF PastType
    <2> QED
      BY <2>1, <2>2, <2>3
  <1>3. CASE GenerateNumber(j)
    <2>1. counter + 1 \in 0..MaxNumber /\ counter + 1 # 0
      BY <1>3, CycleAssumption DEF GenerateNumber, WorldType
    <2> QED
      BY <1>3, <2>1 DEF GenerateNumber, Goto, WorldType, JobType, PastType, past
  <1>4. CASE GenerateNumberFails(j)
    BY <1>4 DEF GenerateNumberFails, Goto, WorldType, JobType, PastType, past, world, Flag
  <1>5. CASE GenerateInsert(j)
    <2> DEFINE r == [num |-> num[j], sub |-> cur[j], month |-> at[j].m,
                     due |-> DueDate(cur[j], at[j].m), status |-> "unpaid"]
    <2>1. cur[j] \in Subs /\ at[j].m \in Months /\ num[j] \in 1..MaxNumber
      BY <1>5, CycleAssumption DEF GenerateInsert, JobType, Days
    <2>2. DueDate(cur[j], at[j].m) \in Nat
      BY <2>1, RowTypes
    <2>3. r \in Invoice
      BY <2>1, <2>2 DEF Invoice
    <2>4. invoices' \subseteq invoices \cup {r}
      BY <1>5 DEF GenerateInsert
    <2> HIDE DEF r
    <2>5. WorldType'
      BY <1>5, <2>3, <2>4 DEF GenerateInsert, WorldType
    <2>6. JobType'
      <3>1. /\ pc' = [pc EXCEPT ![j] = "visit"] /\ cur' = [cur EXCEPT ![j] = NoSub]
            /\ num' = [num EXCEPT ![j] = 0] /\ UNCHANGED <<kind, at, todo, bills>>
            /\ clean' = clean \/ clean' = [clean EXCEPT ![j] = "no"]
        BY <1>5 DEF GenerateInsert, Goto
      <3>2. 0 \in 0..MaxNumber
        BY CycleAssumption
      <3> QED
        BY <3>1, <3>2 DEF JobType, Flag
    <2> QED
      BY <1>5, <2>5, <2>6 DEF GenerateInsert, PastType, past
  <1>6. CASE Isolate(j)
    <2>1. cur[j] \in Subs
      BY <1>6 DEF Isolate, JobType
    <2>2. WorldType' /\ JobType'
      BY <1>6, <2>1 DEF Isolate, Goto, WorldType, JobType, Flag
    <2>3. again' \in [Jobs -> SUBSET Subs] /\ UNCHANGED <<steady, owed, blind>>
      BY <1>6, <2>1 DEF Isolate, IsolatedAgain, PastType
    <2> QED
      BY <2>2, <2>3 DEF PastType
  <1>7. CASE ConfirmSettled(j)
    <2>1. WorldType' /\ PastType'
      BY <1>7 DEF ConfirmSettled, End, WorldType, PastType, world
    <2>2. CASE End(j)
      BY <2>1, <2>2, EndTypes
    <2>3. CASE ~End(j)
      BY <1>7, <2>1, <2>3 DEF ConfirmSettled, Goto, JobType
    <2> QED
      BY <2>2, <2>3
  <1>8. CASE Finish(j) \/ Die(j)
    <2>1. JobType'
      BY <1>8, EndTypes DEF Finish, Die
    <2>2. PastType'
      BY <1>8 DEF Finish, Die, End, NightOver, PastType
    <2> QED
      BY <1>8, <2>1, <2>2 DEF Finish, Die, NightOver, WorldType
  <1>9. ASSUME NEW s \in Subs, Visit(j, s)
        PROVE  TypeInv'
    <2>1. /\ (pc' = [pc EXCEPT ![j] = "check"] /\ cur' = [cur EXCEPT ![j] = s])
             \/ UNCHANGED <<pc, cur>>
          /\ clean' = clean \/ clean' = [clean EXCEPT ![j] = "no"]
          /\ todo' = [todo EXCEPT ![j] = @ \ {s}] /\ UNCHANGED <<world, kind, at, bills, num, past>>
      BY <1>9 DEF Visit, Goto
    <2>2. JobType'
      BY <2>1 DEF JobType, Flag
    <2> QED
      BY <2>1, <2>2 DEF WorldType, PastType, past, world
  <1>10. ASSUME NEW s \in Subs, RestoreSubscription(j, s)
         PROVE  TypeInv'
    BY <1>10 DEF RestoreSubscription, WorldType, JobType, PastType, past, Flag
  <1>11. ASSUME NEW i \in bills[j], VisitOverdue(j, i)
         PROVE  TypeInv'
    <2>1. i \in Invoice /\ i.sub \in Subs
      BY DEF JobType, Invoice
    <2>2. /\ (pc' = [pc EXCEPT ![j] = "isolate"] /\ cur' = [cur EXCEPT ![j] = i.sub])
             \/ UNCHANGED <<pc, cur>>
          /\ clean' = clean \/ clean' = [clean EXCEPT ![j] = "no"]
          /\ bills' = [bills EXCEPT ![j] = @ \ {i}] /\ UNCHANGED <<world, kind, at, todo, num, past>>
      BY <1>11 DEF VisitOverdue, Goto
    <2>3. JobType'
      BY <2>1, <2>2 DEF JobType, Flag
    <2> QED
      BY <2>2, <2>3 DEF WorldType, PastType, past, world
  <1> QED
    BY <1>1, <1>2, <1>3, <1>4, <1>5, <1>6, <1>7, <1>8, <1>9, <1>10, <1>11 DEF Step

LEMMA WorldTypes ==
  ASSUME TypeInv, World
  PROVE  TypeInv'
  <1> USE DEF TypeInv
  <1>1. JobType'
    BY DEF World, NextDay, SuspendAllSubscriptions, IsolateAllSubscriptions, StaffRestore,
           SetStatus, SetAccount, Cancel, job, JobType
  <1>2. CASE NextDay
    <2>1. now'.m \in Months /\ now' \in Days /\ now'.d \in 1..Lengths[now'.m]
      <3>1. now.m \in Months /\ now.d \in Nat /\ now = [m |-> now.m, d |-> now.d]
        BY DEF WorldType, Days
      <3>2. CASE now.d < Lengths[now.m] /\ now' = [now EXCEPT !.d = @ + 1]
        <4>1. now' = [m |-> now.m, d |-> now.d + 1]
          BY <3>1, <3>2
        <4> QED
          BY <3>1, <3>2, <4>1, MonthLengths DEF Days
      <3>3. CASE now.m < Len(Lengths) /\ now' = [m |-> now.m + 1, d |-> 1]
        BY <3>1, <3>3, MonthLengths DEF Days
      <3> QED
        BY <1>2, <3>2, <3>3 DEF NextDay
    <2>2. WorldType'
      BY <1>2, <2>1 DEF NextDay, WorldType
    <2>3. PastType'
      BY <1>2 DEF NextDay, PastType, WorldType, Days
    <2> QED
      BY <1>1, <2>2, <2>3
  <1>3. ASSUME NEW s \in Subs, NEW from, NEW to \in {"active", "isolated", "suspended"},
               SetStatus(s, from, to)
        PROVE  TypeInv'
    <2>1. WorldType' /\ UNCHANGED <<owed, blind>> /\ steady' \subseteq Subs
      BY <1>3 DEF SetStatus, WorldType, PastType
    <2>2. again' \in [Jobs -> SUBSET Subs]
      BY <1>3 DEF SetStatus, IsolatedAgain, PastType
    <2> QED
      BY <1>1, <2>1, <2>2 DEF PastType
  <1>4. ASSUME NEW flag \in Flag, SetAccount(flag)
        PROVE  TypeInv'
    BY <1>1, <1>4 DEF SetAccount, WorldType, PastType
  <1>5. ASSUME NEW i \in invoices, Cancel(i)
        PROVE  TypeInv'
    <2>1. i \in Invoice
      BY DEF WorldType
    <2>2. [i EXCEPT !.status = "cancelled"] \in Invoice
      BY <2>1, RowTypes
    <2> QED
      BY <1>1, <1>5, <2>2 DEF Cancel, WorldType, PastType, past
  <1> QED
    BY <1>2, <1>3, <1>4, <1>5
    DEF World, SuspendAllSubscriptions, IsolateAllSubscriptions, StaffRestore

LEMMA NextTypes == TypeInv /\ [Next]_vars => TypeInv'
  <1> SUFFICES ASSUME TypeInv, [Next]_vars PROVE TypeInv'
    OBVIOUS
  <1>1. CASE UNCHANGED vars
    BY <1>1 DEF vars, world, job, past, TypeInv, WorldType, JobType, PastType
  <1> QED
    BY <1>1, BeginTypes, StepTypes, WorldTypes DEF Next

LEMMA TypesHold == Spec => []TypeInv
  BY InitTypes, NextTypes, PTL DEF Spec

(* Every table, counter and local of a job keeps its type, whatever jobs
   overlap, fail or die; the calendar stays within its months. *)
THEOREM TypeCorrect == Spec => []TypeOK
  BY TypesHold, TypeParts, PTL

-----------------------------------------------------------------------------
(* The grace period, for any number of jobs that overlap, fail and die. *)

(* The table has this invoice, with whatever status. *)
Billed(b, rows) == \E i \in rows : i.sub = b.sub /\ i.month = b.month /\ i.due = b.due

(* The rows a job has read are of invoices there are, whatever became of their
   status; its clock is not ahead; and who is about to be isolated has an
   invoice past its grace period. *)
GraceInv ==
    /\ \A j \in Jobs : \A b \in bills[j] : Billed(b, invoices)
    /\ \A j \in Jobs : DayNo(at[j]) <= DayNo(now)
    /\ \A j \in Jobs : pc[j] = "isolate" =>
         \E i \in invoices : i.sub = cur[j] /\ DayNo(now) >= i.due + GraceDays

(* What a step of anyone leaves of the table and of the calendar. *)
Forward ==
    /\ \A i \in invoices : Billed(i, invoices')
    /\ DayNo(now) <= DayNo(now')

(* Statuses are written, rows are added, days go by. *)
LEMMA StepForward ==
  ASSUME TypeInv, [Next]_vars
  PROVE  Forward
  <1>1. now \in Days /\ invoices \subseteq Invoice /\ DayNo(now) \in Nat
    BY DayNumbers DEF TypeInv, WorldType
  <1>2. CASE UNCHANGED <<now, invoices>>
    BY <1>1, <1>2 DEF Forward, Billed
  <1>3. CASE NextDay
    <2>1. DayNo(now') = DayNo(now) + 1 /\ invoices' = invoices
      <3>1. CASE now' = [now EXCEPT !.d = @ + 1]
        BY <1>1, <1>3, <3>1, DayNumbers DEF NextDay
      <3>2. CASE now.d = Lengths[now.m] /\ now.m < Len(Lengths) /\ now' = [m |-> now.m + 1, d |-> 1]
        <4>1. now = [m |-> now.m, d |-> Lengths[now.m]] /\ now.m \in Months
          BY <1>1, <3>2 DEF Days
        <4> QED
          BY <1>3, <3>2, <4>1, DayNumbers DEF NextDay
      <3> QED
        BY <1>3, <3>1, <3>2 DEF NextDay
    <2> QED
      BY <1>1, <2>1 DEF Forward, Billed
  <1>4. ASSUME NEW st \in {"unpaid", "partial", "paid", "cancelled"}, now' = now,
               \A i \in invoices : i \in invoices' \/ [i EXCEPT !.status = st] \in invoices'
        PROVE  Forward
    <2>1. ASSUME NEW i \in invoices PROVE Billed(i, invoices')
      <3>1. LET x == [i EXCEPT !.status = st] IN
            x.sub = i.sub /\ x.month = i.month /\ x.due = i.due
        BY <1>1, RowTypes
      <3> QED
        BY <1>4, <3>1 DEF Billed
    <2> QED
      BY <1>1, <1>4, <2>1 DEF Forward
  <1>5. ASSUME NEW i \in invoices, Cancel(i)
        PROVE  Forward
    <2>1. \A k \in invoices : k \in invoices' \/ [k EXCEPT !.status = "cancelled"] \in invoices'
      BY <1>5 DEF Cancel
    <2> QED
      BY <1>4, <1>5, <2>1 DEF Cancel
  <1>6. ASSUME NEW j \in Jobs, GenerateInsert(j)
        PROVE  Forward
    BY <1>1, <1>6 DEF GenerateInsert, Forward, Billed
  <1>7. ASSUME NEW j \in Jobs, Begin(j)
        PROVE  Forward
    <2>1. CASE \E some \in SUBSET OpenInvoices, st \in {"paid", "partial"} : Confirm(j, some, st)
      <3>1. PICK some \in SUBSET OpenInvoices, st \in {"paid", "partial"} : Confirm(j, some, st)
        BY <2>1
      <3>2. \A i \in invoices : i \in invoices' \/ [i EXCEPT !.status = st] \in invoices'
        BY <3>1 DEF Confirm
      <3> QED
        BY <1>4, <3>1, <3>2 DEF Confirm
    <2>2. CASE ProcessDailyBilling(j) \/ ForceMonthlyBilling(j) \/ CheckAndIsolateOverdue(j)
      BY <2>2, <1>2 DEF ProcessDailyBilling, ForceMonthlyBilling, CheckAndIsolateOverdue, world
    <2> QED
      BY <1>7, <2>1, <2>2 DEF Begin
  <1>8. ASSUME NEW j \in Jobs, Step(j) \/ Die(j)
        PROVE  Forward
    BY <1>2, <1>6, <1>8
    DEF Step, Die, ListIsolated, GenerateCheck, GenerateNumber, GenerateNumberFails, Isolate,
        ConfirmSettled, Finish, Visit, RestoreSubscription, VisitOverdue, world
  <1>9. CASE World
    BY <1>2, <1>3, <1>5, <1>9
    DEF World, SuspendAllSubscriptions, IsolateAllSubscriptions, StaffRestore, SetStatus, SetAccount
  <1>10. CASE UNCHANGED vars
    BY <1>2, <1>10 DEF vars, world
  <1> QED
    BY <1>7, <1>8, <1>9, <1>10 DEF Next

(* The jobs a step does not touch, or that isolate nobody after it. *)
LEMMA GraceKept ==
  ASSUME TypeInv, TypeInv', GraceInv, Forward,
         \A j \in Jobs : at'[j] = at[j] \/ DayNo(at'[j]) <= DayNo(now'),
         \A j \in Jobs : bills'[j] \subseteq bills[j] \/ bills'[j] \subseteq invoices,
         \A j \in Jobs : pc'[j] = "isolate" =>
           \/ pc[j] = "isolate" /\ cur'[j] = cur[j]
           \/ \E b \in bills[j] : /\ b.sub = cur'[j]
                                  /\ DayNo(at[j]) >= b.due + GraceDays
  PROVE  GraceInv'
  <1>0. /\ DayNo(now) \in Nat /\ DayNo(now') \in Nat /\ GraceDays \in Nat
        /\ \A j \in Jobs : DayNo(at[j]) \in Nat
        /\ invoices \subseteq Invoice /\ \A j \in Jobs : bills[j] \subseteq Invoice
    BY DayNumbers, CycleAssumption DEF TypeInv, WorldType, JobType
  <1>1. \A i \in Invoice : i.due \in Nat
    BY DEF Invoice
  <1>2. ASSUME NEW b, Billed(b, invoices) PROVE Billed(b, invoices')
    <2>1. PICK i \in invoices : i.sub = b.sub /\ i.month = b.month /\ i.due = b.due
      BY <1>2 DEF Billed
    <2> QED
      BY <2>1 DEF Forward, Billed
  <1>3. \A j \in Jobs : \A b \in bills'[j] : Billed(b, invoices')
    <2>1. \A b \in invoices : Billed(b, invoices)
      BY DEF Billed
    <2> QED
      BY <1>2, <2>1 DEF GraceInv
  <1>4. \A j \in Jobs : DayNo(at'[j]) <= DayNo(now')
    BY <1>0 DEF GraceInv, Forward
  <1>5. ASSUME NEW j \in Jobs, pc'[j] = "isolate"
        PROVE  \E i \in invoices' : i.sub = cur'[j] /\ DayNo(now') >= i.due + GraceDays
    <2>1. CASE pc[j] = "isolate" /\ cur'[j] = cur[j]
      <3>1. PICK i \in invoices : i.sub = cur[j] /\ DayNo(now) >= i.due + GraceDays
        BY <2>1 DEF GraceInv
      <3>2. PICK k \in invoices' : k.sub = i.sub /\ k.due = i.due
        BY DEF Forward, Billed
      <3> QED
        BY <1>0, <1>1, <2>1, <3>1, <3>2 DEF Forward
    <2>2. CASE \E b \in bills[j] : b.sub = cur'[j] /\ DayNo(at[j]) >= b.due + GraceDays
      <3>1. PICK b \in bills[j] : b.sub = cur'[j] /\ DayNo(at[j]) >= b.due + GraceDays
        BY <2>2
      <3>2. Billed(b, invoices')
        BY <1>2 DEF GraceInv
      <3>3. PICK k \in invoices' : k.sub = b.sub /\ k.due = b.due
        BY <3>2 DEF Billed
      <3>4. DayNo(at[j]) <= DayNo(now) /\ DayNo(now) <= DayNo(now')
        BY DEF GraceInv, Forward
      <3>5. DayNo(now') >= b.due + GraceDays
        BY <1>0, <1>1, <3>1, <3>4
      <3> QED
        BY <3>1, <3>3, <3>5
    <2> QED
      BY <1>5, <2>1, <2>2
  <1> QED
    BY <1>3, <1>4, <1>5 DEF GraceInv

LEMMA NextGrace ==
  ASSUME TypeInv, TypeInv', GraceInv, [Next]_vars
  PROVE  GraceInv'
  <1>0. Forward
    BY StepForward
  <1>1. /\ now \in Days /\ DayNo(now) \in Nat /\ DayNo(now') \in Nat /\ DayNo(now') >= 1
        /\ DayNo(now) <= DayNo(now')
    <2>1. now \in Days /\ now' \in Days /\ now'.d >= 1
      BY DEF TypeInv, WorldType
    <2> QED
      BY <1>0, <2>1, DayNumbers DEF Forward
  <1>2. DOMAIN pc = Jobs /\ DOMAIN cur = Jobs /\ DOMAIN at = Jobs /\ DOMAIN bills = Jobs
    BY DEF TypeInv, JobType
  <1>3. ASSUME NEW j \in Jobs,
               pc' = pc \/ \E step \in {"idle", "list", "visit", "check", "number", "insert",
                                        "settle", "restore"} : Goto(j, step),
               pc' = pc => cur' = cur, \A k \in Jobs \ {j} : cur'[k] = cur[k],
               at' = at \/ at' = [at EXCEPT ![j] = now] \/ at' = [at EXCEPT ![j] = FirstDay],
               \A k \in Jobs : bills'[k] \subseteq bills[k] \/ bills'[k] \subseteq invoices
        PROVE  GraceInv'
    <2>1. \A k \in Jobs : at'[k] = at[k] \/ DayNo(at'[k]) <= DayNo(now')
      <3>1. DayNo(FirstDay) = 1
        BY DayNumbers
      <3>2. \A k \in Jobs : at'[k] = at[k] \/ at'[k] = now \/ at'[k] = FirstDay
        BY <1>2, <1>3
      <3> QED
        BY <1>1, <3>1, <3>2
    <2>2. \A k \in Jobs : pc'[k] = "isolate" => pc[k] = "isolate" /\ cur'[k] = cur[k]
      BY <1>2, <1>3 DEF Goto
    <2> QED
      BY <1>0, <1>3, <2>1, <2>2, GraceKept
  <1>4. ASSUME NEW j \in Jobs, Begin(j) PROVE GraceInv'
    <2>1. GetOverdue \subseteq invoices /\ OpenInvoices \subseteq invoices
      BY DEF GetOverdue, OpenInvoices
    <2>2. CASE ProcessDailyBilling(j) \/ ForceMonthlyBilling(j)
      BY <1>3, <2>2 DEF ProcessDailyBilling, ForceMonthlyBilling, Start
    <2>3. CASE CheckAndIsolateOverdue(j)
      BY <1>2, <1>3, <2>1, <2>3 DEF CheckAndIsolateOverdue, Start
    <2>4. ASSUME NEW some \in SUBSET OpenInvoices, NEW st \in {"paid", "partial"},
                 Confirm(j, some, st)
          PROVE  GraceInv'
      BY <1>2, <1>3, <2>1, <2>4 DEF Confirm, Start
    <2> QED
      BY <1>4, <2>2, <2>3, <2>4 DEF Begin
  <1>5. ASSUME NEW j \in Jobs, End(j) PROVE GraceInv'
    <2>1. \A k \in Jobs : bills'[k] \subseteq bills[k]
      BY <1>2, <1>5 DEF End
    <2>2. at' = [at EXCEPT ![j] = FirstDay] /\ Goto(j, "idle")
          /\ \A k \in Jobs \ {j} : cur'[k] = cur[k]
      BY <1>2, <1>5 DEF End
    <2>3. pc' = pc => pc[j] = "idle" /\ \A k \in Jobs : pc'[k] = "isolate" => k # j
      BY <1>2, <2>2 DEF Goto
    <2>4. \A k \in Jobs : at'[k] = at[k] \/ DayNo(at'[k]) <= DayNo(now')
      <3>1. \A k \in Jobs : at'[k] = at[k] \/ at'[k] = FirstDay
        BY <1>2, <2>2
      <3> QED
        BY <1>1, <3>1, DayNumbers
    <2>5. \A k \in Jobs : pc'[k] = "isolate" => pc[k] = "isolate" /\ cur'[k] = cur[k]
      BY <1>2, <2>2 DEF Goto
    <2> QED
      BY <1>0, <2>1, <2>4, <2>5, GraceKept
  <1>6. ASSUME NEW j \in Jobs, NEW i \in bills[j], VisitOverdue(j, i) PROVE GraceInv'
    <2>1. at' = at /\ \A k \in Jobs : bills'[k] \subseteq bills[k]
      BY <1>2, <1>6 DEF VisitOverdue
    <2>2. ASSUME NEW k \in Jobs, pc'[k] = "isolate"
          PROVE  \/ pc[k] = "isolate" /\ cur'[k] = cur[k]
                 \/ \E b \in bills[k] : b.sub = cur'[k] /\ DayNo(at[k]) >= b.due + GraceDays
      <3>1. CASE k = j
        <4>1. pc[j] # "isolate"
          BY <1>6 DEF VisitOverdue
        <4>2. cur'[j] = i.sub /\ ShouldSuspendForNonPayment(i, at[j])
          BY <1>2, <1>6, <2>2, <3>1, <4>1 DEF VisitOverdue
        <4> QED
          BY <3>1, <4>2 DEF ShouldSuspendForNonPayment
      <3>2. CASE k # j
        BY <1>2, <1>6, <2>2, <3>2 DEF VisitOverdue, Goto
      <3> QED
        BY <3>1, <3>2
    <2> QED
      BY <1>0, <2>1, <2>2, GraceKept
  <1>7. ASSUME NEW j \in Jobs, Step(j) \/ Die(j) PROVE GraceInv'
    <2>1. CASE ListIsolated(j)
      BY <1>3, <2>1 DEF ListIsolated
    <2>2. CASE GenerateCheck(j)
      BY <1>2, <1>3, <2>2 DEF GenerateCheck, Goto
    <2>3. CASE GenerateNumber(j)
      BY <1>3, <2>3 DEF GenerateNumber
    <2>4. CASE GenerateNumberFails(j)
      BY <1>2, <1>3, <2>4 DEF GenerateNumberFails, Goto
    <2>5. CASE GenerateInsert(j)
      BY <1>2, <1>3, <2>5 DEF GenerateInsert, Goto
    <2>6. CASE Isolate(j)
      BY <1>2, <1>3, <2>6 DEF Isolate, Goto
    <2>7. CASE ConfirmSettled(j) /\ ~End(j)
      BY <1>2, <1>3, <2>7 DEF ConfirmSettled
    <2>8. CASE Finish(j) \/ Die(j) \/ End(j)
      BY <1>5, <2>8 DEF Finish, Die
    <2>9. ASSUME NEW s \in Subs, Visit(j, s) PROVE GraceInv'
      BY <1>2, <1>3, <2>9 DEF Visit, Goto
    <2>10. ASSUME NEW s \in Subs, RestoreSubscription(j, s) PROVE GraceInv'
      BY <1>3, <2>10 DEF RestoreSubscription
    <2> QED
      BY <1>6, <1>7, <2>1, <2>2, <2>3, <2>4, <2>5, <2>6, <2>7, <2>8, <2>9, <2>10 DEF Step
  <1>8. CASE UNCHANGED job
    BY <1>0, <1>8, GraceKept DEF job
  <1> QED
    BY <1>4, <1>7, <1>8
    DEF Next, vars, World, NextDay, SuspendAllSubscriptions, IsolateAllSubscriptions, StaffRestore,
        SetStatus, SetAccount, Cancel

(* Nobody is isolated within the grace period of all the subscription's
   invoices, even when payments, cancellations and midnights fall between the
   reading of the overdue invoices and the isolation. *)
THEOREM GraceIsRespected == Spec => GraceRespected
  <1>1. Init => GraceInv
    <2>1. DayNo(FirstDay) = 1
      BY DayNumbers
    <2> QED
      BY <2>1 DEF Init, GraceInv
  <1>2. TypeInv /\ TypeInv' /\ GraceInv /\ [Next]_vars => GraceInv'
    BY NextGrace
  <1>3. GraceInv /\ [Next]_vars =>
          [\A j \in Jobs :
             pc[j] = "isolate" /\ pc'[j] = "visit" /\ sub' # sub =>
               \E i \in invoices : i.sub = cur[j] /\ DayNo(now) >= i.due + GraceDays]_vars
    BY DEF GraceInv
  <1> QED
    BY <1>1, <1>2, <1>3, TypesHold, PTL DEF Spec, GraceRespected

-----------------------------------------------------------------------------
(* Idempotent billing, for any number of jobs that overlap, fail and die. *)

(* Who is about to bill a month without being blind found no invoice of it, and
   is the only one. *)
IdempotentInv ==
    /\ OneInvoicePerMonth
    /\ \A j \in Jobs :
         pc[j] \in {"number", "insert"} /\ <<cur[j], at[j].m>> \notin blind =>
            ~AlreadyBilled(cur[j], at[j].m) /\ ~InOtherHands(j, cur[j], at[j].m)

(* Every row was there before, but for its status. *)
SameRows ==
    \A x \in invoices' :
        \E i \in invoices : i.num = x.num /\ i.sub = x.sub /\ i.month = x.month

LEMMA RowsElsewhere ==
  ASSUME TypeInv, [Next]_vars, \A j \in Jobs : ~GenerateInsert(j)
  PROVE  SameRows
  <1>1. invoices \subseteq Invoice
    BY DEF TypeInv, WorldType
  <1>2. CASE UNCHANGED invoices
    BY <1>2 DEF SameRows
  <1>3. ASSUME NEW st \in {"unpaid", "partial", "paid", "cancelled"},
               \A x \in invoices' : x \in invoices
                                      \/ \E i \in invoices : x = [i EXCEPT !.status = st]
        PROVE  SameRows
    <2>1. \A i \in invoices : LET x == [i EXCEPT !.status = st] IN
             x.num = i.num /\ x.sub = i.sub /\ x.month = i.month
      BY <1>1, RowTypes
    <2> QED
      BY <1>3, <2>1 DEF SameRows
  <1>4. ASSUME NEW i \in invoices, Cancel(i) PROVE SameRows
    <2>1. \A x \in invoices' : x \in invoices
                                 \/ \E k \in invoices : x = [k EXCEPT !.status = "cancelled"]
      BY <1>4 DEF Cancel
    <2> QED
      BY <1>3, <2>1
  <1>5. ASSUME NEW j \in Jobs, NEW some \in SUBSET OpenInvoices, NEW st \in {"paid", "partial"},
               Confirm(j, some, st)
        PROVE  SameRows
    <2>1. \A x \in invoices' : x \in invoices
                                 \/ \E k \in invoices : x = [k EXCEPT !.status = st]
      BY <1>5 DEF Confirm, OpenInvoices
    <2> QED
      BY <1>3, <2>1
  <1>6. ASSUME NEW j \in Jobs, Begin(j) PROVE SameRows
    BY <1>2, <1>5, <1>6
    DEF Begin, ProcessDailyBilling, ForceMonthlyBilling, CheckAndIsolateOverdue, world
  <1>7. ASSUME NEW j \in Jobs, Step(j) \/ Die(j) PROVE SameRows
    BY <1>2, <1>7
    DEF Step, Die, ListIsolated, GenerateCheck, GenerateNumber, GenerateNumberFails, Isolate,
        ConfirmSettled, Finish, Visit, RestoreSubscription, VisitOverdue, world
  <1>8. CASE World
    BY <1>2, <1>4, <1>8
    DEF World, NextDay, SuspendAllSubscriptions, IsolateAllSubscriptions, StaffRestore, SetStatus,
        SetAccount
  <1> QED
    BY <1>2, <1>6, <1>7, <1>8 DEF Next, vars, world

(* A job's step leaves the other jobs where they are. *)
LEMMA OthersKept ==
  ASSUME TypeInv, NEW k \in Jobs, Begin(k) \/ Step(k) \/ Die(k), NEW j \in Jobs \ {k}
  PROVE  /\ pc'[j] = pc[j] /\ cur'[j] = cur[j] /\ at'[j] = at[j]
         /\ todo'[j] = todo[j] /\ clean'[j] = clean[j]
  <1>0. /\ DOMAIN pc = Jobs /\ DOMAIN cur = Jobs /\ DOMAIN at = Jobs /\ DOMAIN todo = Jobs
        /\ DOMAIN clean = Jobs
    BY DEF TypeInv, JobType
  <1>1. CASE Begin(k)
    BY <1>0, <1>1 DEF Begin, ProcessDailyBilling, ForceMonthlyBilling, CheckAndIsolateOverdue,
       Confirm, Start, Goto
  <1>2. CASE End(k) \/ Finish(k) \/ Die(k)
    BY <1>0, <1>2 DEF Finish, Die, End, Goto
  <1>3. CASE ListIsolated(k) \/ GenerateCheck(k) \/ GenerateNumber(k) \/ GenerateNumberFails(k)
    BY <1>0, <1>3 DEF ListIsolated, GenerateCheck, GenerateNumber, GenerateNumberFails, Goto
  <1>4. CASE GenerateInsert(k) \/ Isolate(k) \/ (ConfirmSettled(k) /\ ~End(k))
    BY <1>0, <1>4 DEF GenerateInsert, Isolate, ConfirmSettled, Goto
  <1>5. ASSUME NEW s \in Subs, Visit(k, s) \/ RestoreSubscription(k, s)
        PROVE  /\ pc'[j] = pc[j] /\ cur'[j] = cur[j] /\ at'[j] = at[j]
               /\ todo'[j] = todo[j] /\ clean'[j] = clean[j]
    BY <1>0, <1>5 DEF Visit, RestoreSubscription, Goto
  <1>6. ASSUME NEW i \in bills[k], VisitOverdue(k, i)
        PROVE  /\ pc'[j] = pc[j] /\ cur'[j] = cur[j] /\ at'[j] = at[j]
               /\ todo'[j] = todo[j] /\ clean'[j] = clean[j]
    BY <1>0, <1>6 DEF VisitOverdue, Goto
  <1> QED
    BY <1>1, <1>2, <1>3, <1>4, <1>5, <1>6 DEF Step

(* A pair once blind stays so, and only GenerateCheck makes one so. *)
LEMMA BlindGrows ==
  ASSUME TypeInv, [Next]_vars
  PROVE  /\ blind \subseteq blind'
         /\ (\A j \in Jobs : ~GenerateCheck(j)) => blind' = blind
  <1>1. ASSUME NEW j \in Jobs, Begin(j) \/ Die(j) PROVE blind' = blind
    BY <1>1 DEF Begin, Die, NightOver, ProcessDailyBilling, ForceMonthlyBilling,
       CheckAndIsolateOverdue, Confirm, past
  <1>2. ASSUME NEW j \in Jobs, Step(j), ~GenerateCheck(j) PROVE blind' = blind
    BY <1>2 DEF Step, ListIsolated, GenerateNumber, GenerateNumberFails, GenerateInsert, Isolate,
       ConfirmSettled, Finish, NightOver, Visit, RestoreSubscription, VisitOverdue, past
  <1>3. ASSUME NEW j \in Jobs, GenerateCheck(j) PROVE blind \subseteq blind'
    BY <1>3 DEF GenerateCheck
  <1>4. CASE World \/ UNCHANGED vars
    BY <1>4 DEF World, NextDay, SuspendAllSubscriptions, IsolateAllSubscriptions, StaffRestore,
       SetStatus, SetAccount, Cancel, past, vars
  <1> QED
    BY <1>1, <1>2, <1>3, <1>4 DEF Next

(* Only GenerateCheck leads to a number, and only a number to an insert. *)
LEMMA CheckLeads ==
  ASSUME TypeInv, [Next]_vars, NEW j \in Jobs, pc'[j] \in {"number", "insert"}
  PROVE  /\ cur'[j] = cur[j] /\ at'[j] = at[j]
         /\ pc[j] \in {"number", "insert"} \/ GenerateCheck(j)
         /\ ~GenerateInsert(j)
  <1>1. DOMAIN pc = Jobs /\ DOMAIN cur = Jobs /\ DOMAIN at = Jobs
    BY DEF TypeInv, JobType
  <1>2. ~GenerateInsert(j)
    BY <1>1 DEF GenerateInsert, Goto
  <1>3. CASE UNCHANGED <<pc, cur, at>>
    BY <1>2, <1>3
  <1>4. CASE World
    BY <1>3, <1>4
    DEF World, NextDay, SuspendAllSubscriptions, IsolateAllSubscriptions, StaffRestore, SetStatus,
        SetAccount, Cancel, job
  <1>5. ASSUME NEW k \in Jobs \ {j}, Begin(k) \/ Step(k) \/ Die(k)
        PROVE  cur'[j] = cur[j] /\ at'[j] = at[j] /\ pc'[j] = pc[j]
    BY <1>5, OthersKept
  <1>6. ~Begin(j)
    BY <1>1 DEF Begin, ProcessDailyBilling, ForceMonthlyBilling, CheckAndIsolateOverdue, Confirm,
       Start, Goto
  <1>7. ~Die(j) /\ ~Finish(j) /\ ~ConfirmSettled(j)
    BY <1>1 DEF Die, Finish, ConfirmSettled, End, Goto
  <1>8. ~ListIsolated(j) /\ ~GenerateNumberFails(j) /\ ~Isolate(j)
    BY <1>1 DEF ListIsolated, GenerateNumberFails, Isolate, Goto
  <1>9. ASSUME NEW s \in Subs PROVE ~Visit(j, s) /\ ~RestoreSubscription(j, s)
    BY <1>1 DEF Visit, RestoreSubscription, Goto
  <1>10. ASSUME NEW i \in bills[j] PROVE ~VisitOverdue(j, i)
    BY <1>1 DEF VisitOverdue, Goto
  <1>11. CASE GenerateCheck(j)
    BY <1>1, <1>2, <1>11 DEF GenerateCheck, Goto
  <1>12. CASE GenerateNumber(j)
    BY <1>2, <1>12 DEF GenerateNumber
  <1>13. CASE Step(j)
    BY <1>2, <1>7, <1>8, <1>9, <1>10, <1>11, <1>12, <1>13 DEF Step
  <1> QED
    BY <1>2, <1>3, <1>4, <1>5, <1>6, <1>7, <1>13 DEF Next, vars, job

(* A job goes on to bill: its pair is blind, or free of rows and of others. *)
LEMMA CheckPasses ==
  ASSUME TypeInv, NEW j \in Jobs, GenerateCheck(j), pc'[j] \in {"number", "insert"},
         <<cur[j], at[j].m>> \notin blind'
  PROVE  /\ ~AlreadyBilled(cur[j], at[j].m) /\ ~InOtherHands(j, cur[j], at[j].m)
         /\ invoices' = invoices
  <1>1. DOMAIN pc = Jobs
    BY DEF TypeInv, JobType
  <1>2. pc'[j] # "visit"
    OBVIOUS
  <1>3. blind' = IF AlreadyBilled(cur[j], at[j].m) \/ InOtherHands(j, cur[j], at[j].m)
                 THEN blind \cup {<<cur[j], at[j].m>>} ELSE blind
    BY <1>1, <1>2 DEF GenerateCheck, Goto
  <1> QED
    BY <1>3 DEF GenerateCheck, world

(* No insert: who is about to bill still is alone. *)
LEMMA NoInsertIdempotent ==
  ASSUME TypeInv, IdempotentInv, [Next]_vars, \A j \in Jobs : ~GenerateInsert(j)
  PROVE  IdempotentInv'
  <1>1. SameRows /\ blind \subseteq blind'
    BY RowsElsewhere, BlindGrows
  <1>2. OneInvoicePerMonth'
    <2> SUFFICES ASSUME NEW x \in invoices', NEW y \in invoices', x.sub = y.sub,
                        x.month = y.month, <<x.sub, x.month>> \notin blind
                 PROVE  x.num = y.num
      BY <1>1 DEF OneInvoicePerMonth
    <2>1. PICK i \in invoices : i.num = x.num /\ i.sub = x.sub /\ i.month = x.month
      BY <1>1 DEF SameRows
    <2>2. PICK k \in invoices : k.num = y.num /\ k.sub = y.sub /\ k.month = y.month
      BY <1>1 DEF SameRows
    <2> QED
      BY <2>1, <2>2 DEF IdempotentInv, OneInvoicePerMonth
  <1>3. ASSUME NEW s, NEW m, ~AlreadyBilled(s, m) PROVE ~AlreadyBilled(s, m)'
    BY <1>1, <1>3 DEF SameRows, AlreadyBilled
  <1>4. ASSUME NEW j \in Jobs, pc'[j] \in {"number", "insert"}, <<cur[j], at[j].m>> \notin blind'
        PROVE  ~AlreadyBilled(cur[j], at[j].m)
    BY <1>1, <1>4, CheckLeads, CheckPasses DEF IdempotentInv
  <1>5. ASSUME NEW j \in Jobs, pc'[j] \in {"number", "insert"}, <<cur[j], at[j].m>> \notin blind',
               NEW k \in Jobs \ {j}, AboutToBill(k, cur[j], at[j].m)'
        PROVE  FALSE
    <2>1. pc'[k] \in {"number", "insert"} /\ cur'[k] = cur[j]' /\ at'[k].m = at[j].m'
      BY <1>5 DEF AboutToBill
    <2>2. /\ cur'[k] = cur[k] /\ at'[k] = at[k] /\ cur'[j] = cur[j] /\ at'[j] = at[j]
      BY <1>5, <2>1, CheckLeads
    <2>3. cur[k] = cur[j] /\ at[k].m = at[j].m
      BY <2>1, <2>2
    <2>4. CASE GenerateCheck(j)
      <3>1. pc'[k] = pc[k]
        BY <2>4, OthersKept DEF Step
      <3>2. AboutToBill(k, cur[j], at[j].m)
        BY <2>1, <2>3, <3>1 DEF AboutToBill
      <3> QED
        BY <1>5, <2>4, <3>2, CheckPasses DEF InOtherHands
    <2>5. CASE GenerateCheck(k)
      <3>1. pc'[j] = pc[j]
        BY <2>5, OthersKept DEF Step
      <3>2. AboutToBill(j, cur[k], at[k].m)
        BY <1>5, <2>3, <3>1 DEF AboutToBill
      <3> QED
        BY <1>5, <2>1, <2>3, <2>5, <3>2, CheckPasses DEF InOtherHands
    <2>6. CASE ~GenerateCheck(j) /\ ~GenerateCheck(k)
      <3>1. pc[j] \in {"number", "insert"} /\ pc[k] \in {"number", "insert"}
        BY <1>5, <2>1, <2>6, CheckLeads
      <3>2. AboutToBill(k, cur[j], at[j].m)
        BY <2>3, <3>1 DEF AboutToBill
      <3>3. ~InOtherHands(j, cur[j], at[j].m)
        BY <1>1, <1>5, <3>1 DEF IdempotentInv
      <3> QED
        BY <3>2, <3>3 DEF InOtherHands
    <2> QED
      BY <2>4, <2>5, <2>6
  <1>6. ASSUME NEW j \in Jobs, pc'[j] \in {"number", "insert"}, <<cur'[j], at'[j].m>> \notin blind'
        PROVE  ~AlreadyBilled(cur[j], at[j].m)' /\ ~InOtherHands(j, cur[j], at[j].m)'
    <2>1. cur'[j] = cur[j] /\ at'[j] = at[j]
      BY <1>6, CheckLeads
    <2>2. ~AlreadyBilled(cur[j], at[j].m)
      BY <1>4, <1>6, <2>1
    <2>3. ~AlreadyBilled(cur[j], at[j].m)'
      BY <1>3, <2>1, <2>2 DEF AlreadyBilled
    <2>4. \A k \in Jobs \ {j} : ~AboutToBill(k, cur[j], at[j].m)'
      BY <1>5, <1>6, <2>1
    <2> QED
      BY <2>3, <2>4 DEF InOtherHands
  <1> QED
    BY <1>2, <1>6 DEF IdempotentInv

(* An insert: nobody else was about to make that invoice. *)
LEMMA InsertIdempotent ==
  ASSUME TypeInv, IdempotentInv, NEW j \in Jobs, GenerateInsert(j)
  PROVE  IdempotentInv'
  <1> DEFINE row == [num |-> num[j], sub |-> cur[j], month |-> at[j].m,
                     due |-> DueDate(cur[j], at[j].m), status |-> "unpaid"]
  <1>1. /\ invoices' \subseteq invoices \cup {row} /\ row.sub = cur[j] /\ row.month = at[j].m
        /\ pc[j] = "insert"
    BY DEF GenerateInsert
  <1> HIDE DEF row
  <1>2. [Next]_vars
    BY DEF Next, Step
  <1>3. blind' = blind
    BY DEF GenerateInsert, past
  <1>4. OneInvoicePerMonth'
    <2>1. ASSUME NEW i \in invoices, i.sub = row.sub, i.month = row.month
          PROVE  <<row.sub, row.month>> \in blind
      <3>1. AlreadyBilled(cur[j], at[j].m)
        BY <1>1, <2>1 DEF AlreadyBilled
      <3> QED
        BY <1>1, <3>1 DEF IdempotentInv
    <2> QED
      BY <1>1, <1>3, <2>1 DEF OneInvoicePerMonth, IdempotentInv
  <1>5. ASSUME NEW k \in Jobs, pc'[k] \in {"number", "insert"}, <<cur'[k], at'[k].m>> \notin blind
        PROVE  ~AlreadyBilled(cur[k], at[k].m)' /\ ~InOtherHands(k, cur[k], at[k].m)'
    <2>1. k # j /\ pc'[j] = "visit"
      BY <1>5 DEF GenerateInsert, Goto, TypeInv, JobType
    <2>2. \A l \in Jobs \ {j} : pc'[l] = pc[l] /\ cur'[l] = cur[l] /\ at'[l] = at[l]
      BY OthersKept DEF Step
    <2>3. ~AlreadyBilled(cur[k], at[k].m) /\ ~InOtherHands(k, cur[k], at[k].m)
      BY <1>5, <2>1, <2>2 DEF IdempotentInv
    <2>4. ~AboutToBill(j, cur[k], at[k].m)
      BY <2>1, <2>3 DEF InOtherHands
    <2>5. ~(row.sub = cur[k] /\ row.month = at[k].m)
      BY <1>1, <2>4 DEF AboutToBill
    <2>6. ~AlreadyBilled(cur[k], at[k].m)'
      BY <1>1, <2>1, <2>2, <2>3, <2>5 DEF AlreadyBilled
    <2>7. ASSUME NEW l \in Jobs \ {k} PROVE ~AboutToBill(l, cur[k], at[k].m)'
      <3>1. CASE l = j
        BY <2>1, <3>1 DEF AboutToBill
      <3>2. CASE l # j
        BY <2>1, <2>2, <2>3, <3>2 DEF AboutToBill, InOtherHands
      <3> QED
        BY <3>1, <3>2
    <2> QED
      BY <2>6, <2>7 DEF InOtherHands
  <1> QED
    BY <1>3, <1>4, <1>5 DEF IdempotentInv

(* However many jobs bill at once, fail, die and are repeated, a subscription
   has a second invoice for a month only if a job went on to make it although
   its look for the invoice failed on one that was there, or while another job
   was about to make one. *)
THEOREM BillingIsIdempotent == Spec => []OneInvoicePerMonth
  <1>1. Init => IdempotentInv
    BY DEF Init, IdempotentInv, OneInvoicePerMonth
  <1>2. TypeInv /\ IdempotentInv /\ [Next]_vars => IdempotentInv'
    BY NoInsertIdempotent, InsertIdempotent
  <1>3. IdempotentInv => OneInvoicePerMonth
    BY DEF IdempotentInv
  <1> QED
    BY <1>1, <1>2, <1>3, TypesHold, PTL DEF Spec

-----------------------------------------------------------------------------
(* The restore after a payment, for any number of jobs that overlap. *)

(* Who has still to be restored is on the list, or has been isolated since. *)
RestoreInv ==
    \A j \in Jobs : pc[j] = "restore" /\ clean[j] = "yes" =>
        {s \in Subs : sub[s] = "isolated"} \subseteq todo[j] \cup again[j]

(* Whoever isolates, the jobs that are restoring can be told of it. *)
LEMMA IsolationsSeen ==
  ASSUME TypeInv, [Next]_vars, NEW j \in Jobs, pc[j] = "restore", pc'[j] = "restore"
  PROVE  /\ again[j] \subseteq again'[j]
         /\ \A s \in Subs : sub'[s] = "isolated" => sub[s] = "isolated" \/ s \in again'[j]
  <1>0. DOMAIN sub = Subs /\ DOMAIN pc = Jobs /\ DOMAIN again = Jobs
    BY DEF TypeInv, WorldType, JobType, PastType
  <1>1. CASE UNCHANGED <<sub, again>>
    BY <1>1
  <1>2. ASSUME NEW s \in Subs, IsolatedAgain(s), sub' = [sub EXCEPT ![s] = "isolated"]
        PROVE  /\ again[j] \subseteq again'[j]
               /\ \A r \in Subs : sub'[r] = "isolated" => sub[r] = "isolated" \/ r \in again'[j]
    BY <1>0, <1>2 DEF IsolatedAgain
  <1>3. ASSUME NEW s \in Subs, sub' = [sub EXCEPT ![s] = "active"]
                               \/ sub' = [sub EXCEPT ![s] = "suspended"],
               again' = again
        PROVE  /\ again[j] \subseteq again'[j]
               /\ \A r \in Subs : sub'[r] = "isolated" => sub[r] = "isolated" \/ r \in again'[j]
    BY <1>0, <1>3
  <1>4. CASE World
    BY <1>1, <1>2, <1>3, <1>4
    DEF World, NextDay, SuspendAllSubscriptions, IsolateAllSubscriptions, StaffRestore, SetStatus,
        SetAccount, Cancel, past
  <1>5. ASSUME NEW k \in Jobs, Begin(k)
        PROVE  UNCHANGED <<sub, again>>
    BY <1>5 DEF Begin, ProcessDailyBilling, ForceMonthlyBilling, CheckAndIsolateOverdue, Confirm,
       past, world
  <1>6. ASSUME NEW k \in Jobs, Finish(k) \/ Die(k) \/ (End(k) /\ sub' = sub)
        PROVE  again[j] \subseteq again'[j] /\ sub' = sub
    <2>1. k # j /\ again' = [again EXCEPT ![k] = {}] /\ sub' = sub
      BY <1>0, <1>6 DEF Finish, Die, End, Goto
    <2> QED
      BY <1>0, <2>1
  <1>7. ASSUME NEW k \in Jobs, Isolate(k)
        PROVE  \/ UNCHANGED <<sub, again>>
               \/ \E s \in Subs : IsolatedAgain(s) /\ sub' = [sub EXCEPT ![s] = "isolated"]
    BY <1>7 DEF Isolate, TypeInv, JobType
  <1>8. ASSUME NEW k \in Jobs, NEW s \in Subs, RestoreSubscription(k, s)
        PROVE  again' = again /\ (sub' = sub \/ sub' = [sub EXCEPT ![s] = "active"])
    BY <1>8 DEF RestoreSubscription, past
  <1>9. ASSUME NEW k \in Jobs, ConfirmSettled(k)
        PROVE  UNCHANGED <<sub, again>> \/ (End(k) /\ sub' = sub)
    BY <1>9 DEF ConfirmSettled, world
  <1>10. ASSUME NEW k \in Jobs, Step(k), ~Isolate(k), ~ConfirmSettled(k), ~Finish(k),
                \A s \in Subs : ~RestoreSubscription(k, s)
         PROVE  UNCHANGED <<sub, again>>
    BY <1>10 DEF Step, ListIsolated, GenerateCheck, GenerateNumber, GenerateNumberFails,
       GenerateInsert, Visit, VisitOverdue, past, world
  <1>11. ASSUME NEW k \in Jobs, Step(k) \/ Die(k)
         PROVE  /\ again[j] \subseteq again'[j]
                /\ \A s \in Subs : sub'[s] = "isolated" => sub[s] = "isolated" \/ s \in again'[j]
    <2>1. CASE Isolate(k)
      BY <1>1, <1>2, <1>7, <2>1
    <2>2. CASE ConfirmSettled(k) \/ Finish(k) \/ Die(k)
      BY <1>1, <1>6, <1>9, <2>2
    <2>3. CASE \E s \in Subs : RestoreSubscription(k, s)
      BY <1>1, <1>3, <1>8, <2>3
    <2> QED
      BY <1>1, <1>10, <1>11, <2>1, <2>2, <2>3
  <1> QED
    BY <1>1, <1>4, <1>5, <1>11 DEF Next, vars, world, past

LEMMA NextRestore ==
  ASSUME TypeInv, RestoreInv, [Next]_vars
  PROVE  RestoreInv'
  <1>0. DOMAIN pc = Jobs /\ DOMAIN clean = Jobs /\ DOMAIN todo = Jobs /\ DOMAIN sub = Subs
    BY DEF TypeInv, JobType, WorldType
  <1> SUFFICES ASSUME NEW j \in Jobs, pc'[j] = "restore", clean'[j] = "yes",
                      NEW s \in Subs, sub'[s] = "isolated", s \notin again'[j]
               PROVE  s \in todo'[j]
    BY DEF RestoreInv
  <1>1. ASSUME pc[j] = "restore", clean[j] = "yes", s \notin todo[j] PROVE FALSE
    BY <1>1, IsolationsSeen DEF RestoreInv
  <1>2. CASE UNCHANGED job
    BY <1>1, <1>2 DEF job
  <1>3. CASE World
    BY <1>2, <1>3
    DEF World, NextDay, SuspendAllSubscriptions, IsolateAllSubscriptions, StaffRestore, SetStatus,
        SetAccount, Cancel
  <1>4. ASSUME NEW k \in Jobs \ {j}, Begin(k) \/ Step(k) \/ Die(k) PROVE s \in todo'[j]
    BY <1>1, <1>4, OthersKept
  <1>5. ~Begin(j)
    BY <1>0 DEF Begin, ProcessDailyBilling, ForceMonthlyBilling, CheckAndIsolateOverdue, Confirm,
       Start, Goto
  <1>6. CASE ConfirmSettled(j)
    BY <1>0, <1>6 DEF ConfirmSettled, End, Goto, world
  <1>7. ASSUME NEW r \in Subs, RestoreSubscription(j, r) PROVE s \in todo'[j]
    <2>1. /\ pc[j] = "restore" /\ clean[j] = "yes" /\ todo'[j] = todo[j] \ {r}
          /\ sub' = [sub EXCEPT ![r] = "active"]
      BY <1>0, <1>7 DEF RestoreSubscription
    <2> QED
      BY <1>0, <1>1, <2>1
  <1>8. ~Finish(j) /\ ~Die(j) /\ ~ListIsolated(j) /\ ~GenerateCheck(j)
    BY <1>0 DEF Finish, Die, End, ListIsolated, GenerateCheck, Goto
  <1>9. /\ ~GenerateNumber(j) /\ ~GenerateNumberFails(j) /\ ~GenerateInsert(j) /\ ~Isolate(j)
    BY <1>0 DEF GenerateNumber, GenerateNumberFails, GenerateInsert, Isolate, Goto
  <1>10. (\A r \in Subs : ~Visit(j, r)) /\ \A i \in bills[j] : ~VisitOverdue(j, i)
    BY <1>0 DEF Visit, VisitOverdue, Goto
  <1> QED
    BY <1>2, <1>3, <1>4, <1>5, <1>6, <1>7, <1>8, <1>9, <1>10 DEF Next, Step, vars

(* When a request that settled every open invoice has been through the isolated
   subscriptions without an error, only those are isolated that somebody has
   isolated since it listed them: for any jobs, payments and staff beside it. *)
THEOREM PaidUpAreRestored == Spec => []PaidUpIsRestored
  <1>1. Init => RestoreInv
    BY DEF Init, RestoreInv
  <1>2. TypeInv /\ RestoreInv /\ [Next]_vars => RestoreInv'
    BY NextRestore
  <1>3. RestoreInv => PaidUpIsRestored
    BY DEF RestoreInv, PaidUpIsRestored
  <1> QED
    BY <1>1, <1>2, <1>3, TypesHold, PTL DEF Spec

-----------------------------------------------------------------------------
(* One job at a time, and a world that waits for it. *)

OneJob == \A j, k \in Jobs : j = k

(* Each job is at a step of its own, and its clock is right. *)
Kinds ==
    \A j \in Jobs :
        /\ pc[j] \in {"list", "check", "number", "insert"} => kind[j] \in {"daily", "force"}
        /\ pc[j] = "isolate" => kind[j] = "overdue"
        /\ pc[j] \in {"settle", "restore"} => kind[j] = "confirm"
        /\ pc[j] = "visit" => kind[j] \in {"daily", "force", "overdue"}
        /\ pc[j] # "idle" => at[j] = now

(* Nothing moves under a job that runs. *)
LEMMA WorldWaits ==
  ASSUME ~Overlap, World
  PROVE  Quiet /\ UNCHANGED job
  BY DEF World, NextDay, SuspendAllSubscriptions, IsolateAllSubscriptions, StaffRestore, SetStatus,
         SetAccount, Cancel, May

LEMMA NextKinds ==
  ASSUME TypeInv, ~Overlap, Kinds, [Next]_vars
  PROVE  Kinds'
  <1>0. DOMAIN pc = Jobs /\ DOMAIN kind = Jobs /\ DOMAIN at = Jobs
    BY DEF TypeInv, JobType
  <1>1. CASE World
    BY <1>1, WorldWaits DEF Quiet, Kinds, job
  <1>2. ASSUME NEW j \in Jobs, Begin(j) PROVE Kinds'
    <2>1. now' = now
      BY <1>2 DEF Begin, ProcessDailyBilling, ForceMonthlyBilling, CheckAndIsolateOverdue, Confirm,
         world
    <2>2. CASE ProcessDailyBilling(j) \/ ForceMonthlyBilling(j)
      BY <1>0, <2>1, <2>2 DEF ProcessDailyBilling, ForceMonthlyBilling, Start, Goto, Kinds
    <2>3. CASE CheckAndIsolateOverdue(j)
      BY <1>0, <2>1, <2>3 DEF CheckAndIsolateOverdue, Start, Goto, Kinds
    <2>4. ASSUME NEW some, NEW st, Confirm(j, some, st) PROVE Kinds'
      BY <1>0, <2>1, <2>4 DEF Confirm, Start, Goto, Kinds
    <2> QED
      BY <1>2, <2>2, <2>3, <2>4 DEF Begin
  <1>3. ASSUME NEW j \in Jobs, End(j), now' = now PROVE Kinds'
    BY <1>0, <1>3 DEF End, Goto, Kinds
  <1>4. ASSUME NEW j \in Jobs, Step(j) \/ Die(j) PROVE Kinds'
    <2>1. now' = now
      BY <1>4 DEF Step, Die, ListIsolated, GenerateCheck, GenerateNumber, GenerateNumberFails,
         GenerateInsert, Isolate, ConfirmSettled, Finish, Visit, RestoreSubscription, VisitOverdue,
         world
    <2>2. CASE End(j) \/ Finish(j) \/ Die(j)
      BY <1>3, <2>1, <2>2 DEF Finish, Die
    <2>3. CASE ListIsolated(j) \/ GenerateCheck(j) \/ GenerateNumber(j) \/ GenerateNumberFails(j)
      BY <1>0, <2>1, <2>3
      DEF ListIsolated, GenerateCheck, GenerateNumber, GenerateNumberFails, Goto, Kinds
    <2>4. CASE GenerateInsert(j) \/ Isolate(j) \/ (ConfirmSettled(j) /\ ~End(j))
      BY <1>0, <2>1, <2>4 DEF GenerateInsert, Isolate, ConfirmSettled, Goto, Kinds
    <2>5. ASSUME NEW s \in Subs, Visit(j, s) \/ RestoreSubscription(j, s) PROVE Kinds'
      BY <1>0, <2>1, <2>5 DEF Visit, RestoreSubscription, Goto, Kinds
    <2>6. ASSUME NEW i \in bills[j], VisitOverdue(j, i) PROVE Kinds'
      BY <1>0, <2>1, <2>6 DEF VisitOverdue, Goto, Kinds
    <2> QED
      BY <1>4, <2>2, <2>3, <2>4, <2>5, <2>6 DEF Step
  <1>5. CASE UNCHANGED vars
    BY <1>5 DEF vars, world, job, Kinds
  <1> QED
    BY <1>1, <1>2, <1>4, <1>5 DEF Next

(* An invoice for which the subscription is to be isolated today. *)
Delinquent(i) ==
    i.status = "unpaid" /\ DayNo(now) >= i.due + GraceDays /\ i.sub \in AutoIsolate

(* Whoever has one is out of service, or the isolation job still has it. *)
IsolateInv ==
    \A j \in Jobs : pc[j] \in {"visit", "isolate"} /\ kind[j] = "overdue" /\ clean[j] = "yes" =>
        \A i \in invoices : Delinquent(i) =>
            \/ sub[i.sub] # "active"
            \/ i \in bills[j]
            \/ pc[j] = "isolate" /\ cur[j] = i.sub

LEMMA NextIsolate ==
  ASSUME TypeInv, Kinds, OneJob, ~Overlap, IsolateInv, [Next]_vars
  PROVE  IsolateInv'
  <1>0. /\ DOMAIN pc = Jobs /\ DOMAIN clean = Jobs /\ DOMAIN bills = Jobs /\ DOMAIN kind = Jobs
        /\ DOMAIN cur = Jobs /\ DOMAIN sub = Subs
    BY DEF TypeInv, JobType, WorldType
  <1>1. CASE UNCHANGED <<job, now, invoices, sub>>
    BY <1>1 DEF job, IsolateInv, Delinquent
  <1>2. ASSUME NEW j \in Jobs, pc'[j] \notin {"visit", "isolate"} \/ kind'[j] # "overdue"
        PROVE  IsolateInv'
    BY <1>2 DEF OneJob, IsolateInv
  <1>3. CASE World
    BY <1>3, WorldWaits DEF Quiet, job, IsolateInv
  <1>4. ASSUME NEW j \in Jobs, CheckAndIsolateOverdue(j) PROVE IsolateInv'
    <2>1. bills'[j] = GetOverdue /\ UNCHANGED <<now, invoices, sub>>
      BY <1>0, <1>4 DEF CheckAndIsolateOverdue, world
    <2>2. ASSUME NEW i \in invoices, Delinquent(i) PROVE i \in GetOverdue
      <3>1. i.due \in Nat /\ DayNo(now) \in Nat /\ GraceDays \in Nat
        BY DayNumbers, CycleAssumption DEF TypeInv, WorldType, Invoice
      <3> QED
        BY <2>2, <3>1 DEF GetOverdue, Delinquent
    <2> QED
      BY <2>1, <2>2 DEF IsolateInv, OneJob, Delinquent
  <1>5. ASSUME NEW j \in Jobs, Begin(j) PROVE IsolateInv'
    <2>1. CASE ProcessDailyBilling(j) \/ ForceMonthlyBilling(j)
      BY <1>0, <1>2, <2>1 DEF ProcessDailyBilling, ForceMonthlyBilling, Start, Goto
    <2>2. ASSUME NEW some, NEW st, Confirm(j, some, st) PROVE IsolateInv'
      BY <1>0, <1>2, <2>2 DEF Confirm, Start, Goto
    <2> QED
      BY <1>4, <1>5, <2>1, <2>2 DEF Begin
  <1>6. ASSUME NEW j \in Jobs, NEW b \in bills[j], VisitOverdue(j, b) PROVE IsolateInv'
    <2>1. /\ UNCHANGED <<now, invoices, sub, kind>> /\ bills'[j] = bills[j] \ {b}
          /\ pc[j] = "visit" /\ kind[j] = "overdue" /\ at[j] = now
          /\ clean'[j] = "yes" => clean[j] = "yes" /\ clean' = clean
      BY <1>0, <1>6 DEF VisitOverdue, world, Kinds
    <2>2. ASSUME Delinquent(b), sub[b.sub] = "active", clean'[j] = "yes"
          PROVE  pc'[j] = "isolate" /\ cur'[j] = b.sub
      <3>1. ShouldSuspendForNonPayment(b, at[j])
        BY <2>1, <2>2 DEF Delinquent, ShouldSuspendForNonPayment
      <3> QED
        BY <1>0, <1>6, <2>2, <3>1 DEF VisitOverdue, Goto, Delinquent
    <2>3. CASE clean'[j] = "yes"
      <3>1. ASSUME NEW i \in invoices, Delinquent(i), sub[i.sub] = "active", i \notin bills'[j]
            PROVE  pc'[j] = "isolate" /\ cur'[j] = i.sub
        <4>1. i = b
          BY <2>1, <2>3, <3>1 DEF IsolateInv
        <4> QED
          BY <2>2, <2>3, <3>1, <4>1
      <3> QED
        BY <2>1, <3>1 DEF IsolateInv, OneJob, Delinquent
    <2>4. CASE clean'[j] # "yes"
      BY <2>1, <2>4 DEF IsolateInv, OneJob
    <2> QED
      BY <2>3, <2>4
  <1>7. ASSUME NEW j \in Jobs, Isolate(j) PROVE IsolateInv'
    <2>1. /\ UNCHANGED <<now, invoices, kind, bills>> /\ pc[j] = "isolate" /\ pc'[j] = "visit"
          /\ cur[j] \in Subs
      BY <1>0, <1>7 DEF Isolate, Goto, TypeInv, JobType
    <2>2. CASE clean'[j] = "yes" /\ kind[j] = "overdue"
      <3>1. clean[j] = "yes" /\ sub' = [sub EXCEPT ![cur[j]] = "isolated"]
        BY <1>0, <1>7, <2>2 DEF Isolate
      <3>2. ASSUME NEW i \in invoices, Delinquent(i) PROVE sub'[i.sub] # "active" \/ i \in bills[j]
        <4>1. i.sub \in Subs
          BY DEF TypeInv, WorldType, Invoice
        <4> QED
          BY <1>0, <2>1, <2>2, <3>1, <3>2, <4>1 DEF IsolateInv
      <3> QED
        BY <2>1, <3>2 DEF IsolateInv, OneJob, Delinquent
    <2>3. CASE ~(clean'[j] = "yes" /\ kind[j] = "overdue")
      BY <2>1, <2>3 DEF IsolateInv, OneJob
    <2> QED
      BY <2>2, <2>3
  <1>8. ASSUME NEW j \in Jobs, Step(j) \/ Die(j) PROVE IsolateInv'
    <2>1. CASE Finish(j) \/ Die(j)
      BY <1>0, <1>2, <2>1 DEF Finish, Die, End, Goto
    <2>2. CASE ListIsolated(j) \/ GenerateCheck(j) \/ GenerateNumber(j) \/ GenerateNumberFails(j)
      BY <1>0, <1>2, <2>2
      DEF ListIsolated, GenerateCheck, GenerateNumber, GenerateNumberFails, Kinds
    <2>3. CASE GenerateInsert(j)
      BY <1>0, <1>2, <2>3 DEF GenerateInsert, Kinds
    <2>4. CASE ConfirmSettled(j)
      BY <1>0, <1>2, <2>4 DEF ConfirmSettled, End, Goto
    <2>5. ASSUME NEW s \in Subs, Visit(j, s) \/ RestoreSubscription(j, s) PROVE IsolateInv'
      BY <1>0, <1>2, <2>5 DEF Visit, RestoreSubscription
    <2> QED
      BY <1>6, <1>7, <1>8, <2>1, <2>2, <2>3, <2>4, <2>5 DEF Step
  <1> QED
    BY <1>1, <1>3, <1>5, <1>8 DEF Next, vars, world

(* The day of this month on which a subscription is billed. *)
Today(s) == ClampBillingDay(BillingDay[s], now.m)

(* Where tonight's billing job has s, if it is one of tonight's. *)
InHand(j, s) ==
    \/ AlreadyBilled(s, now.m)
    \/ s \in todo[j]
    \/ cur[j] = s /\ pc[j] \in {"check", "number", "insert"}
    \/ pc[j] = "list" /\ sub[s] = "isolated"

(* Who is in service for the whole month has been billed once the billing day
   is over, and has not been forgotten by the job that runs on that day. *)
SteadyInv ==
    /\ \A s \in steady : InService(s)
    /\ \A s \in steady : Today(s) < now.d => AlreadyBilled(s, now.m)
    /\ night = "over" => \A s \in steady : Today(s) = now.d => AlreadyBilled(s, now.m)
    /\ \A j \in Jobs : pc[j] # "idle" /\ kind[j] = "daily" /\ clean[j] = "yes" =>
         \A s \in steady : Today(s) = now.d => InHand(j, s)
    /\ \A o \in owed : AlreadyBilled(o[1], o[2])

(* The billing day falls on a day of the month. *)
LEMMA BillingDayExists ==
  ASSUME TypeInv, NEW s \in Subs
  PROVE  Today(s) \in 1..Lengths[now.m]
  <1>1. now.m \in Months /\ BillingDay[s] \in Nat \ {0}
    BY CycleAssumption DEF TypeInv, WorldType, Days
  <1>2. Lengths[now.m] \in Nat \ {0}
    BY <1>1, MonthLengths
  <1> QED
    BY <1>1, <1>2 DEF Today, ClampBillingDay

(* An invoice once made stays, under whatever status. *)
LEMMA BilledStays ==
  ASSUME TypeInv, [Next]_vars, NEW s, NEW m, AlreadyBilled(s, m)
  PROVE  AlreadyBilled(s, m)'
  <1>1. Forward
    BY StepForward
  <1>2. PICK i \in invoices : i.sub = s /\ i.month = m
    BY DEF AlreadyBilled
  <1> QED
    BY <1>1, <1>2 DEF Forward, Billed, AlreadyBilled

(* A step within the day, for the subscriptions that stay in steady. *)
LEMMA SteadyKept ==
  ASSUME TypeInv, [Next]_vars, SteadyInv, now' = now, owed' = owed, steady' \subseteq steady,
         \A s \in steady' : InService(s)',
         night' = "over" => night = "over" \/
            \A s \in steady' : Today(s) = now.d => AlreadyBilled(s, now.m)',
         \A j \in Jobs : pc'[j] # "idle" /\ kind'[j] = "daily" /\ clean'[j] = "yes" =>
            \A s \in steady' : Today(s) = now.d => InHand(j, s)'
  PROVE  SteadyInv'
  <1>1. \A s : Today(s)' = Today(s)
    BY DEF Today, ClampBillingDay
  <1>2. \A s, m : AlreadyBilled(s, m) => AlreadyBilled(s, m)'
    BY BilledStays
  <1> QED
    BY <1>1, <1>2 DEF SteadyInv, AlreadyBilled

(* Midnight: the day's subscriptions have been billed, or nobody is steady. *)
LEMMA NextDaySteady ==
  ASSUME TypeInv, ~Overlap, SteadyInv, NextDay
  PROVE  SteadyInv'
  <1> DEFINE billed == IF night = "over" THEN steady ELSE {}
  <1>1. /\ \A j \in Jobs : pc'[j] = "idle"
        /\ night' = "due" /\ UNCHANGED <<sub, isActive, invoices>>
    BY DEF NextDay, May, Quiet, job
  <1>2. \A s, m : AlreadyBilled(s, m)' <=> AlreadyBilled(s, m)
    BY <1>1 DEF AlreadyBilled
  <1>3. /\ now.m \in Months /\ now.d \in Nat /\ now = [m |-> now.m, d |-> now.d]
        /\ steady \subseteq Subs
    BY DEF TypeInv, WorldType, PastType, Days
  <1>4. \A s \in billed : Today(s) <= now.d => AlreadyBilled(s, now.m)
    <2>1. \A s \in billed : s \in steady /\ s \in Subs /\ night = "over"
      BY <1>3
    <2>2. \A s \in Subs : Today(s) \in Int
      BY <1>3, MonthLengths, BillingDayExists
    <2> HIDE DEF billed
    <2> QED
      BY <1>3, <2>1, <2>2 DEF SteadyInv
  <1>5. CASE /\ now.d < Lengths[now.m] /\ now' = [now EXCEPT !.d = @ + 1]
             /\ steady' = billed /\ UNCHANGED owed
    <2>1. now'.m = now.m /\ now'.d = now.d + 1
      BY <1>3, <1>5
    <2>2. \A s \in Subs : Today(s)' = Today(s) /\ Today(s) \in Int
      BY <1>3, <2>1, MonthLengths, BillingDayExists DEF Today, ClampBillingDay
    <2>3. ASSUME NEW s \in steady', Today(s)' < now'.d PROVE AlreadyBilled(s, now.m)'
      <3>1. s \in Subs /\ s \in billed /\ Today(s) < now.d + 1
        BY <1>3, <1>5, <2>1, <2>2, <2>3
      <3>2. Today(s) <= now.d
        BY <1>3, <2>2, <3>1
      <3>3. AlreadyBilled(s, now.m)
        BY <1>4, <3>1, <3>2
      <3> QED
        BY <1>1, <2>1, <3>3 DEF AlreadyBilled
    <2>4. \A s \in steady' : InService(s)'
      BY <1>1, <1>5 DEF SteadyInv, InService
    <2>5. \A o \in owed' : AlreadyBilled(o[1], o[2])'
      BY <1>2, <1>5 DEF SteadyInv
    <2> QED
      BY <1>1, <2>3, <2>4, <2>5 DEF SteadyInv
  <1>6. CASE /\ now.d = Lengths[now.m] /\ now' = [m |-> now.m + 1, d |-> 1]
             /\ owed' = owed \cup (billed \X {now.m}) /\ steady' = {s \in Subs : InService(s)}
    <2>1. \A s \in billed : AlreadyBilled(s, now.m)
      <3>1. \A s \in billed : Today(s) <= now.d
        BY <1>3, <1>6, MonthLengths, BillingDayExists
      <3> QED
        BY <1>4, <3>1
    <2>2. ASSUME NEW o \in owed' PROVE AlreadyBilled(o[1], o[2])'
      <3>1. CASE o \in owed
        BY <1>2, <3>1 DEF SteadyInv
      <3>2. CASE o \in billed \X {now.m}
        <4>1. o[1] \in billed /\ o[2] = now.m
          BY <3>2
        <4> QED
          BY <1>2, <2>1, <4>1
      <3> QED
        BY <1>6, <3>1, <3>2
    <2>3. ASSUME NEW s \in steady' PROVE InService(s)' /\ ~(Today(s)' < now'.d)
      <3>1. s \in Subs /\ InService(s)
        BY <1>6, <2>3
      <3>2. TypeInv'
        BY WorldTypes DEF World
      <3>3. Today(s)' \in 1..Lengths[now'.m] /\ now'.d = 1
        <4>1. now'.m \in Months
          BY <3>2 DEF TypeInv, WorldType, Days
        <4>2. BillingDay[s] \in Nat \ {0} /\ Lengths[now'.m] \in Nat \ {0}
          BY <3>1, <4>1, MonthLengths, CycleAssumption
        <4> QED
          BY <1>6, <4>2 DEF Today, ClampBillingDay
      <3> QED
        BY <1>1, <3>1, <3>3 DEF InService
    <2> QED
      BY <1>1, <2>2, <2>3 DEF SteadyInv
  <1> QED
    BY <1>5, <1>6 DEF NextDay

(* The staff, while no job runs. *)
LEMMA WorldSteady ==
  ASSUME TypeInv, ~Overlap, SteadyInv, World
  PROVE  SteadyInv'
  <1>1. Quiet /\ UNCHANGED job /\ [Next]_vars
    BY WorldWaits DEF Next
  <1>2. ASSUME now' = now, owed' = owed, night' = night, steady' \subseteq steady,
               \A s \in steady' : InService(s)'
        PROVE  SteadyInv'
    BY <1>1, <1>2, SteadyKept DEF Quiet, job
  <1>3. ASSUME NEW s \in Subs, NEW from, NEW to \in {"active", "isolated", "suspended"},
               SetStatus(s, from, to)
        PROVE  SteadyInv'
    <2>1. /\ now' = now /\ owed' = owed /\ night' = night /\ isActive' = isActive
          /\ sub' = [sub EXCEPT ![s] = to] /\ steady' \subseteq steady
          /\ to = "suspended" => s \notin steady'
      BY <1>3 DEF SetStatus
    <2>2. ASSUME NEW r \in steady' PROVE InService(r)'
      <3>1. InService(r) /\ r \in Subs /\ sub \in [Subs -> {"active", "isolated", "suspended"}]
        BY <2>1, <2>2 DEF SteadyInv, TypeInv, PastType, WorldType
      <3>2. sub'[r] = IF r = s THEN to ELSE sub[r]
        BY <2>1, <3>1
      <3> QED
        BY <2>1, <2>2, <3>1, <3>2 DEF InService
    <2> QED
      BY <1>2, <2>1, <2>2
  <1>4. ASSUME NEW flag \in Flag, SetAccount(flag) PROVE SteadyInv'
    BY <1>2, <1>4 DEF SetAccount
  <1>5. ASSUME NEW i \in invoices, Cancel(i) PROVE SteadyInv'
    BY <1>2, <1>5 DEF Cancel, past, SteadyInv, InService
  <1> QED
    BY <1>3, <1>4, <1>5, NextDaySteady
    DEF World, SuspendAllSubscriptions, IsolateAllSubscriptions, StaffRestore

(* A job starts. *)
LEMMA BeginSteady ==
  ASSUME TypeInv, OneJob, SteadyInv, NEW j \in Jobs, Begin(j)
  PROVE  SteadyInv'
  <1>0. /\ DOMAIN pc = Jobs /\ DOMAIN kind = Jobs /\ DOMAIN todo = Jobs
        /\ sub \in [Subs -> {"active", "isolated", "suspended"}] /\ steady \subseteq Subs
        /\ [Next]_vars
    BY DEF TypeInv, JobType, WorldType, PastType, Next
  <1>1. /\ now' = now /\ owed' = owed /\ steady' = steady /\ UNCHANGED <<sub, isActive>>
        /\ night' = night \/ night' = "running"
    BY DEF Begin, ProcessDailyBilling, ForceMonthlyBilling, CheckAndIsolateOverdue, Confirm,
       world, past
  <1>2. \A s \in steady' : InService(s)'
    BY <1>1 DEF SteadyInv, InService
  <1>3. ASSUME kind'[j] = "daily", NEW s \in steady' PROVE InHand(j, s)'
    <2>1. ProcessDailyBilling(j)
      BY <1>0, <1>3 DEF Begin, ForceMonthlyBilling, CheckAndIsolateOverdue, Confirm, Start
    <2>2. pc'[j] = "list" /\ todo'[j] = {r \in Subs : sub[r] = "active"}
      BY <1>0, <2>1 DEF ProcessDailyBilling, Start, Goto
    <2>3. s \in Subs /\ sub[s] \in {"active", "isolated"}
      BY <1>0, <1>1, <1>3 DEF SteadyInv, InService
    <2> QED
      BY <1>1, <2>2, <2>3 DEF InHand
  <1>4. \A k \in Jobs : k = j
    BY DEF OneJob
  <1> QED
    BY <1>0, <1>1, <1>2, <1>3, <1>4, SteadyKept

(* The job goes on. *)
LEMMA StepSteady ==
  ASSUME TypeInv, Kinds, OneJob, SteadyInv, NEW j \in Jobs, Step(j) \/ Die(j)
  PROVE  SteadyInv'
  <1>0. /\ DOMAIN pc = Jobs /\ DOMAIN kind = Jobs /\ DOMAIN todo = Jobs /\ DOMAIN cur = Jobs
        /\ DOMAIN clean = Jobs
        /\ sub \in [Subs -> {"active", "isolated", "suspended"}] /\ steady \subseteq Subs
        /\ [Next]_vars /\ \A k \in Jobs : k = j
    BY DEF TypeInv, JobType, WorldType, PastType, Next, OneJob
  <1>1. \A s, m : AlreadyBilled(s, m) => AlreadyBilled(s, m)'
    BY <1>0, BilledStays
  <1>2. now' = now /\ owed' = owed /\ isActive' = isActive
    BY DEF Step, Die, NightOver, ListIsolated, GenerateCheck, GenerateNumber, GenerateNumberFails,
       GenerateInsert, Isolate, ConfirmSettled, Finish, Visit, RestoreSubscription, VisitOverdue,
       world, past
  <1>3. ASSUME NEW s \in Subs, AlreadyBilled(s, now.m) PROVE AlreadyBilled(s, now.m)'
    BY <1>1, <1>2, <1>3
  <1>4. ASSUME UNCHANGED <<night, steady, sub>>,
               \A s \in steady : kind'[j] = "daily" /\ clean'[j] = "yes" /\ Today(s) = now.d =>
                                   InHand(j, s)'
        PROVE  SteadyInv'
    <2>1. \A s \in steady' : InService(s)'
      BY <1>2, <1>4 DEF SteadyInv, InService
    <2> QED
      BY <1>0, <1>2, <1>4, <2>1, SteadyKept
  <1>5. ASSUME pc[j] # "idle", kind[j] = "daily", clean[j] = "yes", NEW s \in steady,
               Today(s) = now.d
        PROVE  s \in Subs /\ InHand(j, s) /\ InService(s)
    BY <1>0, <1>5 DEF SteadyInv
  <1>6. CASE ListIsolated(j)
    <2>1. /\ UNCHANGED <<night, steady, sub, cur>> /\ kind' = kind /\ pc[j] = "list"
          /\ pc'[j] = "visit" /\ todo[j] \subseteq todo'[j]
          /\ clean'[j] = "yes" => clean[j] = "yes"
                                  /\ \A s \in Subs : sub[s] = "isolated" => s \in todo'[j]
      BY <1>0, <1>6 DEF ListIsolated, Goto, world, past
    <2>2. ASSUME NEW s \in steady, kind'[j] = "daily", clean'[j] = "yes", Today(s) = now.d
          PROVE  InHand(j, s)'
      BY <1>3, <1>5, <2>1, <2>2 DEF InHand
    <2> QED
      BY <1>4, <2>1, <2>2
  <1>7. CASE GenerateCheck(j)
    <2>1. /\ UNCHANGED <<night, steady, sub>> /\ kind' = kind /\ todo' = todo
          /\ pc[j] = "check" /\ at[j] = now /\ cur[j] \in Subs
          /\ clean'[j] = "yes" => clean[j] = "yes" /\ clean' = clean
      BY <1>0, <1>7 DEF GenerateCheck, world, Kinds, TypeInv, JobType
    <2>2. ASSUME NEW s \in steady, kind'[j] = "daily", clean'[j] = "yes", Today(s) = now.d
          PROVE  InHand(j, s)'
      <3>1. s \in Subs /\ InHand(j, s) /\ InService(s)
        BY <1>5, <2>1, <2>2
      <3>2. CASE cur[j] = s
        <4>1. sub[cur[j]] # "suspended"
          BY <3>1, <3>2 DEF InService
        <4>2. AlreadyBilled(cur[j], at[j].m) \/ (pc'[j] = "number" /\ cur' = cur)
          BY <1>0, <1>7, <2>2, <4>1 DEF GenerateCheck, Goto
        <4> QED
          BY <1>3, <2>1, <3>1, <3>2, <4>2 DEF InHand
      <3>3. CASE cur[j] # s
        BY <1>3, <2>1, <3>1, <3>3 DEF InHand
      <3> QED
        BY <3>2, <3>3
    <2> QED
      BY <1>4, <2>1, <2>2
  <1>8. CASE GenerateNumber(j)
    <2>1. /\ UNCHANGED <<night, steady, sub, kind, clean, todo, cur>>
          /\ pc[j] = "number" /\ pc'[j] = "insert"
      BY <1>0, <1>8 DEF GenerateNumber, Goto, past
    <2>2. ASSUME NEW s \in steady, kind'[j] = "daily", clean'[j] = "yes", Today(s) = now.d
          PROVE  InHand(j, s)'
      BY <1>3, <1>5, <2>1, <2>2 DEF InHand
    <2> QED
      BY <1>4, <2>1, <2>2
  <1>9. CASE GenerateNumberFails(j)
    <2>1. UNCHANGED <<night, steady, sub>> /\ clean'[j] = "no"
      BY <1>0, <1>9 DEF GenerateNumberFails, world, past
    <2> QED
      BY <1>4, <2>1
  <1>10. CASE GenerateInsert(j)
    <2>1. /\ UNCHANGED <<night, steady, sub, kind, todo>> /\ pc[j] = "insert" /\ at[j] = now
      BY <1>10 DEF GenerateInsert, past, Kinds
    <2>2. ASSUME NEW s \in steady, kind'[j] = "daily", clean'[j] = "yes", Today(s) = now.d
          PROVE  InHand(j, s)'
      <3>1. clean[j] = "yes" /\ \E i \in invoices' : i.sub = cur[j] /\ i.month = now.m
        <4> DEFINE r == [num |-> num[j], sub |-> cur[j], month |-> at[j].m,
                         due |-> DueDate(cur[j], at[j].m), status |-> "unpaid"]
        <4>1. clean' = clean /\ r \in invoices'
          BY <1>0, <1>10, <2>2 DEF GenerateInsert
        <4>2. r.sub = cur[j] /\ r.month = at[j].m
          OBVIOUS
        <4> HIDE DEF r
        <4> QED
          BY <2>1, <2>2, <4>1, <4>2
      <3>2. s \in Subs /\ InHand(j, s)
        BY <1>5, <2>1, <2>2, <3>1
      <3>3. AlreadyBilled(s, now.m)' \/ s \in todo[j]
        <4>1. cur[j] = s => AlreadyBilled(s, now.m)'
          BY <1>2, <3>1 DEF AlreadyBilled
        <4> QED
          BY <1>3, <2>1, <3>2, <4>1 DEF InHand
      <3> QED
        BY <2>1, <3>3 DEF InHand
    <2> QED
      BY <1>4, <2>1, <2>2
  <1>11. ASSUME UNCHANGED <<night, steady>>, kind[j] # "daily", kind' = kind,
                \E s \in Subs : sub' = [sub EXCEPT ![s] = "active"]
                                 \/ sub' = [sub EXCEPT ![s] = "isolated"] \/ sub' = sub
         PROVE  SteadyInv'
    <2>1. \A s \in steady' : InService(s)'
      BY <1>0, <1>2, <1>11 DEF SteadyInv, InService
    <2> QED
      BY <1>0, <1>2, <1>11, <2>1, SteadyKept
  <1>12. CASE Isolate(j)
    <2>1. /\ UNCHANGED <<night, steady, kind>> /\ kind[j] # "daily" /\ cur[j] \in Subs
          /\ sub' = [sub EXCEPT ![cur[j]] = "isolated"] \/ sub' = sub
      BY <1>12 DEF Isolate, past, Kinds, TypeInv, JobType
    <2> QED
      BY <1>11, <2>1
  <1>13. ASSUME NEW s \in Subs, RestoreSubscription(j, s) PROVE SteadyInv'
    <2>1. /\ UNCHANGED <<night, steady, kind>> /\ kind[j] # "daily"
          /\ sub' = [sub EXCEPT ![s] = "active"] \/ sub' = sub
      BY <1>13 DEF RestoreSubscription, past, Kinds
    <2> QED
      BY <1>11, <2>1
  <1>14. CASE ConfirmSettled(j)
    <2>1. UNCHANGED <<night, steady, sub>> /\ kind'[j] # "daily"
      BY <1>0, <1>14 DEF ConfirmSettled, End, world, past, Kinds
    <2> QED
      BY <1>4, <2>1
  <1>15. ASSUME NEW i \in bills[j], VisitOverdue(j, i) PROVE SteadyInv'
    <2>1. UNCHANGED <<night, steady, sub>> /\ kind'[j] # "daily"
      BY <1>15 DEF VisitOverdue, world, past
    <2> QED
      BY <1>4, <2>1
  <1>16. ASSUME NEW r \in Subs, Visit(j, r) PROVE SteadyInv'
    <2>1. /\ UNCHANGED <<night, steady, sub>> /\ kind' = kind
          /\ todo'[j] = todo[j] \ {r} /\ pc[j] = "visit" /\ at[j] = now
          /\ clean'[j] = "yes" => clean[j] = "yes" /\ clean' = clean
      BY <1>0, <1>16 DEF Visit, world, past, Kinds
    <2>2. ASSUME NEW s \in steady, kind'[j] = "daily", clean'[j] = "yes", Today(s) = now.d
          PROVE  InHand(j, s)'
      <3>1. s \in Subs /\ InHand(j, s) /\ InService(s)
        BY <1>5, <2>1, <2>2
      <3>2. CASE s = r
        <4>1. isActive = "yes" /\ at[j].d = ClampBillingDay(BillingDay[s], at[j].m)
          BY <2>1, <2>2, <3>1 DEF InService, Today
        <4>2. pc'[j] = "check" /\ cur'[j] = s
          BY <1>0, <1>16, <2>2, <3>2, <4>1 DEF Visit, Goto
        <4> QED
          BY <4>2 DEF InHand
      <3>3. CASE s # r
        BY <1>3, <2>1, <3>1, <3>3 DEF InHand
      <3> QED
        BY <3>2, <3>3
    <2> QED
      BY <1>4, <2>1, <2>2
  <1>17. CASE Finish(j) \/ Die(j)
    <2>1. /\ pc'[j] = "idle" /\ sub' = sub /\ steady' \subseteq steady
          /\ night' = "over" => kind[j] = "daily" \/ night = "over"
      BY <1>0, <1>17 DEF Finish, Die, End, Goto, NightOver
    <2>2. \A s \in steady' : InService(s)'
      BY <1>2, <2>1 DEF SteadyInv, InService
    <2>3. ASSUME kind[j] = "daily", NEW s \in steady', Today(s) = now.d
          PROVE  AlreadyBilled(s, now.m)'
      <3>1. Finish(j) /\ clean[j] = "yes" /\ s \in steady
        BY <1>17, <2>1, <2>3 DEF Finish, Die, NightOver
      <3>2. todo[j] = {} /\ pc[j] \in {"visit", "restore"}
        BY <3>1 DEF Finish
      <3>3. s \in Subs /\ InHand(j, s)
        BY <1>5, <2>3, <3>1, <3>2
      <3> QED
        BY <1>3, <3>2, <3>3 DEF InHand
    <2> QED
      BY <1>0, <1>2, <2>1, <2>2, <2>3, SteadyKept
  <1> QED
    BY <1>6, <1>7, <1>8, <1>9, <1>10, <1>12, <1>13, <1>14, <1>15, <1>16, <1>17 DEF Step

(* What one job at a time, and a world that waits for it, keep. *)
CycleInv == Kinds /\ IsolateInv /\ SteadyInv

LEMMA CycleInvariant ==
  ASSUME OneJob, ~Overlap
  PROVE  Spec => []CycleInv
  <1>1. Init => CycleInv
    <2> SUFFICES ASSUME Init PROVE CycleInv
      OBVIOUS
    <2>1. Kinds /\ IsolateInv
      BY DEF Init, Kinds, IsolateInv
    <2>2. \A s \in Subs : Today(s) \in 1..Lengths[now.m] /\ now.d = 1
      BY InitTypes, BillingDayExists DEF Init, FirstDay
    <2>3. \A s \in Subs : ~(Today(s) < now.d)
      BY <2>2
    <2> QED
      BY <2>1, <2>3 DEF Init, CycleInv, SteadyInv, InService
  <1>2. TypeInv /\ CycleInv /\ [Next]_vars => CycleInv'
    <2> SUFFICES ASSUME TypeInv, CycleInv, [Next]_vars PROVE CycleInv'
      OBVIOUS
    <2>1. Kinds' /\ IsolateInv'
      BY NextKinds, NextIsolate DEF CycleInv
    <2>2. SteadyInv'
      <3>1. CASE UNCHANGED vars
        BY <3>1 DEF vars, world, job, past, CycleInv, SteadyInv, InService, Today, AlreadyBilled,
                    InHand, ClampBillingDay
      <3> QED
        BY <3>1, WorldSteady, BeginSteady, StepSteady DEF Next, CycleInv
    <2> QED
      BY <2>1, <2>2 DEF CycleInv
  <1> QED
    BY <1>1, <1>2, TypesHold, PTL DEF Spec

(* Whoever was in service for a whole month has been billed for it, if the
   billing job completed every night: for any billing day and any length of
   the months, one job at a time. *)
THEOREM MonthsAreBilled ==
  ASSUME OneJob, ~Overlap
  PROVE  Spec => []MonthBilled
  <1>1. TypeInv /\ CycleInv => MonthBilled
    <2> SUFFICES ASSUME TypeInv, CycleInv, NEW o \in owed
                 PROVE  o \in {<<i.sub, i.month>> : i \in invoices}
      BY DEF MonthBilled
    <2>1. PICK i \in invoices : i.sub = o[1] /\ i.month = o[2]
      BY DEF CycleInv, SteadyInv, AlreadyBilled
    <2>2. o = <<o[1], o[2]>>
      BY DEF TypeInv, PastType
    <2> QED
      BY <2>1, <2>2
  <1> QED
    BY <1>1, CycleInvariant, TypesHold, PTL

(* An isolation job that met no error leaves no subscription in service that
   has an unpaid invoice past its grace period. *)
THEOREM DelinquentsAreIsolated ==
  ASSUME OneJob, ~Overlap
  PROVE  Spec => []DelinquentIsolated
  <1>1. CycleInv => DelinquentIsolated
    BY DEF CycleInv, IsolateInv, DelinquentIsolated, Delinquent
  <1> QED
    BY <1>1, CycleInvariant, PTL
=============================================================================
