----------------------------- MODULE BillingCycle -----------------------------
(***************************************************************************)
(* One customer's subscriptions through the months: the nightly billing    *)
(* job, its manual trigger, the nightly isolation job and the restore that *)
(* follows a payment (internal/service/billing_service.go, the schedulers  *)
(* that start it, and CustomerService.RestoreAllSubscriptions).            *)
(*                                                                         *)
(* Payments are here one atomic step (PaymentLedger has the statements) and *)
(* so is the change of one subscription's status (SubscriptionSync has the *)
(* router and the cache).  Every other read and write is a step.           *)
(***************************************************************************)
EXTENDS Integers, Sequences, FiniteSets

CONSTANTS
    Subs,         \* the customer's subscriptions
    Jobs,         \* goroutines that run jobs: the cron entries, HTTP requests
    NoSub,        \* "no subscription"
    Lengths,      \* bound: the months that are played, with their days
    BillingDay,   \* billing day of each subscription, as resolved
    DueDays,      \* setting billing.due_days
    GraceDays,    \* grace period, as resolved
    AutoIsolate,  \* subscriptions with auto_isolate
    MaxNumber,    \* bound: invoice numbers drawn
    Overlap,      \* TRUE: the world moves on while a job runs
    Faults        \* TRUE: a read, a write or a router call may fail, a job may die

ASSUME CycleAssumption ==
    /\ NoSub \notin Subs
    /\ Lengths \in Seq(Nat \ {0}) /\ Lengths # <<>>
    /\ BillingDay \in [Subs -> Nat \ {0}]
    /\ DueDays \in Nat /\ GraceDays \in Nat /\ MaxNumber \in Nat
    /\ AutoIsolate \subseteq Subs
    /\ Overlap \in BOOLEAN /\ Faults \in BOOLEAN

VARIABLES
    now,      \* month and day of the month
    night,    \* tonight's billing job: "due", "running" or "over"
    sub,      \* status of each subscription
    isActive, \* customers.is_active
    invoices, \* invoices table
    counter,  \* sequence_counters, "invoice_number"
    pc, kind, \* where each job stands, and which job it is
    at,       \* the job's own "now", read when it started
    todo,     \* subscriptions its loop has still to visit
    bills,    \* invoice rows it has read
    cur,      \* the subscription it works on
    num,      \* the invoice number it has drawn
    clean,    \* "yes" while this job has given nothing up for an error
    steady,   \* history: subscriptions in service since the month began, as
              \* long as the billing job has completed every night of it
    owed,     \* history: <<subscription, month>> pairs that had to be billed
    blind,    \* history: the pairs a job went on to bill although they had been
              \* billed, its look for the invoice having failed, or were being
              \* billed by another job
    again     \* history: subscriptions isolated since a job listed those it is
              \* to restore

world == <<now, night, sub, isActive, invoices, counter>>
job   == <<pc, kind, at, todo, bills, cur, num, clean>>
past  == <<steady, owed, blind, again>>
vars  == <<world, job, past>>

Flag   == {"yes", "no"}
Months == 1..Len(Lengths)

Invoice == [num : 1..MaxNumber, sub : Subs, month : Months, due : Nat,
            status : {"unpaid", "partial", "paid", "cancelled"}]

TypeOK ==
    /\ now \in [m : Months, d : Nat] /\ now.d \in 1..Lengths[now.m]
    /\ night \in {"due", "running", "over"}
    /\ sub \in [Subs -> {"active", "isolated", "suspended"}]
    /\ isActive \in Flag
    /\ invoices \subseteq Invoice
    /\ counter \in 0..MaxNumber
    /\ pc \in [Jobs -> {"idle", "list", "visit", "check", "number", "insert",
                        "isolate", "settle", "restore"}]
    /\ kind \in [Jobs -> {"none", "daily", "force", "overdue", "confirm"}]
    /\ at \in [Jobs -> [m : Months, d : Nat]]
    /\ todo \in [Jobs -> SUBSET Subs]
    /\ bills \in [Jobs -> SUBSET Invoice]
    /\ cur \in [Jobs -> Subs \cup {NoSub}]
    /\ num \in [Jobs -> 0..MaxNumber]
    /\ clean \in [Jobs -> Flag]
    /\ steady \subseteq Subs /\ owed \subseteq Subs \X Months
    /\ blind \subseteq Subs \X Months /\ again \in [Jobs -> SUBSET Subs]

FirstDay == [m |-> 1, d |-> 1]

Init ==
    /\ now = FirstDay /\ night = "due"
    /\ sub = [s \in Subs |-> "active"] /\ isActive = "yes"
    /\ invoices = {} /\ counter = 0
    /\ pc = [j \in Jobs |-> "idle"] /\ kind = [j \in Jobs |-> "none"]
    /\ at = [j \in Jobs |-> FirstDay]
    /\ todo = [j \in Jobs |-> {}] /\ bills = [j \in Jobs |-> {}]
    /\ cur = [j \in Jobs |-> NoSub] /\ num = [j \in Jobs |-> 0]
    /\ clean = [j \in Jobs |-> "yes"]
    /\ steady = Subs /\ owed = {}
    /\ blind = {} /\ again = [j \in Jobs |-> {}]

-----------------------------------------------------------------------------
(* domain/billing and the queries *)

(* Days are compared through their distance from the first day played. *)
DaysBefore[m \in Months] == IF m = 1 THEN 0 ELSE DaysBefore[m - 1] + Lengths[m - 1]
DayNo(t) == t.d + DaysBefore[t.m]

MutClampBillingDay(day, m) == day   \* fault: no clamp
ClampBillingDay(day, m) == IF day > Lengths[m] THEN Lengths[m] ELSE day

(* fault: invoices paid since are overlooked *)
MutAlreadyBilled(s, m) == \E i \in invoices : i.sub = s /\ i.month = m /\ i.status = "unpaid"
AlreadyBilled(s, m) == \E i \in invoices : i.sub = s /\ i.month = m

(* The invoice of the month is issued, on paper, on the billing day, whenever
   it is made. *)
DueDate(s, m) == DayNo([m |-> m, d |-> ClampBillingDay(BillingDay[s], m)]) + DueDays

(* due_date and time.Now() are compared as instants: on the due day itself,
   after midnight, the invoice is overdue. *)
GetOverdue == {i \in invoices : i.status = "unpaid" /\ i.due <= DayNo(now)}

MutNoGrace(i, t) == DayNo(t) >= i.due              \* fault: no grace period
MutDayLate(i, t) == DayNo(t) > i.due + GraceDays   \* fault: a day late
ShouldSuspendForNonPayment(i, t) == DayNo(t) >= i.due + GraceDays

InService(s) == isActive = "yes" /\ sub[s] \in {"active", "isolated"}

-----------------------------------------------------------------------------
(* Jobs *)

Goto(j, step) == pc' = [pc EXCEPT ![j] = step]

Quiet == \A j \in Jobs : pc[j] = "idle"

Start(j, k, step) ==
    /\ pc[j] = "idle"
    /\ Goto(j, step)
    /\ kind' = [kind EXCEPT ![j] = k]
    /\ at'   = [at EXCEPT ![j] = now]

(* The job is over: its locals are gone. *)
End(j) ==
    /\ Goto(j, "idle")
    /\ kind'  = [kind  EXCEPT ![j] = "none"]
    /\ at'    = [at    EXCEPT ![j] = FirstDay]
    /\ todo'  = [todo  EXCEPT ![j] = {}]
    /\ bills' = [bills EXCEPT ![j] = {}]
    /\ cur'   = [cur   EXCEPT ![j] = NoSub]
    /\ num'   = [num   EXCEPT ![j] = 0]
    /\ clean' = [clean EXCEPT ![j] = "yes"]
    /\ again' = [again EXCEPT ![j] = {}]

(* Tonight's billing, if this is its job, is over, completed or not. *)
NightOver(j, completed) ==
    /\ night'  = IF kind[j] = "daily" THEN "over" ELSE night
    /\ steady' = IF kind[j] = "daily" /\ ~completed THEN {} ELSE steady
    /\ UNCHANGED <<owed, blind>>

(* s is isolated, behind the back of the jobs that are restoring. *)
IsolatedAgain(s) ==
    again' = [j \in Jobs |-> IF pc[j] = "restore" THEN again[j] \cup {s} ELSE again[j]]

(* ProcessDailyBilling, started by cron at 00:00 of each day: list the active
   subscriptions ... *)
ProcessDailyBilling(j) ==
    /\ night = "due"
    /\ Start(j, "daily", "list")
    /\ todo' = [todo EXCEPT ![j] = {s \in Subs : sub[s] = "active"}]
    /\ night' = "running"
    /\ UNCHANGED <<now, sub, isActive, invoices, counter, bills, cur, num, clean, past>>

(* ForceMonthlyBilling: the same, on demand, without the day. *)
ForceMonthlyBilling(j) ==
    /\ Start(j, "force", "list")
    /\ todo' = [todo EXCEPT ![j] = {s \in Subs : sub[s] = "active"}]
    /\ UNCHANGED <<world, bills, cur, num, clean, past>>

(* ... then, in a second query whose error is ignored, the isolated ones. *)
ListIsolated(j) ==
    /\ pc[j] = "list"
    /\ Goto(j, "visit")
    /\ \/ /\ todo' = [todo EXCEPT ![j] = @ \cup {s \in Subs : sub[s] = "isolated"}]
          /\ UNCHANGED clean
       \/ /\ Faults
          /\ clean' = [clean EXCEPT ![j] = "no"]
          /\ UNCHANGED todo
    /\ UNCHANGED <<world, kind, at, bills, cur, num, past>>

(* One turn of the loop: an inactive customer, or another billing day, is
   skipped, and so is a customer that cannot be read. *)
Visit(j, s) ==
    /\ pc[j] = "visit" /\ kind[j] \in {"daily", "force"}
    /\ s \in todo[j]
    /\ todo' = [todo EXCEPT ![j] = @ \ {s}]
    /\ \/ /\ IF /\ isActive = "yes"
                /\ kind[j] = "force" \/ at[j].d = ClampBillingDay(BillingDay[s], at[j].m)
             THEN Goto(j, "check") /\ cur' = [cur EXCEPT ![j] = s]
             ELSE UNCHANGED <<pc, cur>>
          /\ UNCHANGED clean
       \/ /\ Faults
          /\ clean' = [clean EXCEPT ![j] = "no"]
          /\ UNCHANGED <<pc, cur>>
    /\ UNCHANGED <<world, kind, at, bills, num, past>>

(* Another job is about to make the same invoice. *)
AboutToBill(k, s, m) == pc[k] \in {"number", "insert"} /\ cur[k] = s /\ at[k].m = m
InOtherHands(j, s, m) == \E k \in Jobs \ {j} : AboutToBill(k, s, m)

(* GenerateInvoice: a suspended subscription and a month already billed are
   left alone; whatever error the look for the invoice meets is taken for "no
   invoice yet".  A subscription or plan that cannot be read is given up. *)
GenerateCheck(j) ==
    /\ pc[j] = "check"
    /\ \/ /\ sub[cur[j]] = "suspended" \/ AlreadyBilled(cur[j], at[j].m)
          /\ Goto(j, "visit")
          /\ cur' = [cur EXCEPT ![j] = NoSub]
          /\ UNCHANGED <<clean, blind>>
       \/ /\ Faults
          /\ Goto(j, "visit")
          /\ cur' = [cur EXCEPT ![j] = NoSub]
          /\ clean' = [clean EXCEPT ![j] = "no"]
          /\ UNCHANGED blind
       \/ /\ sub[cur[j]] # "suspended"
          /\ Faults \/ ~AlreadyBilled(cur[j], at[j].m)
          /\ Goto(j, "number")
          /\ blind' = IF AlreadyBilled(cur[j], at[j].m) \/ InOtherHands(j, cur[j], at[j].m)
                      THEN blind \cup {<<cur[j], at[j].m>>} ELSE blind
          /\ UNCHANGED <<cur, clean>>
    /\ UNCHANGED <<world, kind, at, todo, bills, num, steady, owed, again>>

(* fault: the number before the increment is returned *)
MutNumberBefore(j) ==
    /\ pc[j] = "number"
    /\ counter < MaxNumber
    /\ counter' = counter + 1
    /\ num' = [num EXCEPT ![j] = counter]
    /\ Goto(j, "insert")
    /\ UNCHANGED <<now, night, sub, isActive, invoices, kind, at, todo, bills, cur, clean, past>>

(* fault: the increment is not saved *)
MutNumberUnsaved(j) ==
    /\ pc[j] = "number"
    /\ counter < MaxNumber
    /\ counter' = 1
    /\ num' = [num EXCEPT ![j] = 1]
    /\ Goto(j, "insert")
    /\ UNCHANGED <<now, night, sub, isActive, invoices, kind, at, todo, bills, cur, clean, past>>

(* NextNumber, a transaction of its own with the counter row locked. *)
GenerateNumber(j) ==
    /\ pc[j] = "number"
    /\ counter < MaxNumber
    /\ counter' = counter + 1
    /\ num' = [num EXCEPT ![j] = counter + 1]
    /\ Goto(j, "insert")
    /\ UNCHANGED <<now, night, sub, isActive, invoices, kind, at, todo, bills, cur, clean, past>>

(* It fails: the error is ignored, and the loop goes on. *)
GenerateNumberFails(j) ==
    /\ pc[j] = "number"
    /\ Faults
    /\ Goto(j, "visit")
    /\ cur' = [cur EXCEPT ![j] = NoSub]
    /\ clean' = [clean EXCEPT ![j] = "no"]
    /\ UNCHANGED <<world, kind, at, todo, bills, num, past>>

Taken(n) == \E i \in invoices : i.num = n

(* The insert, with invoice_number UNIQUE; a failed one costs the number, and
   the loop goes on. *)
GenerateInsert(j) ==
    /\ pc[j] = "insert"
    /\ \/ /\ ~Taken(num[j])
          /\ invoices' = invoices \cup
                {[num |-> num[j], sub |-> cur[j], month |-> at[j].m,
                  due |-> DueDate(cur[j], at[j].m), status |-> "unpaid"]}
          /\ UNCHANGED clean
       \/ /\ Faults \/ Taken(num[j])
          /\ clean' = [clean EXCEPT ![j] = "no"]
          /\ UNCHANGED invoices
    /\ Goto(j, "visit")
    /\ cur' = [cur EXCEPT ![j] = NoSub]
    /\ num' = [num EXCEPT ![j] = 0]
    /\ UNCHANGED <<now, night, sub, isActive, counter, kind, at, todo, bills, past>>

(* CheckAndIsolateOverdue, at 02:00: read the overdue invoices ... *)
CheckAndIsolateOverdue(j) ==
    /\ Start(j, "overdue", "visit")
    /\ bills' = [bills EXCEPT ![j] = GetOverdue]
    /\ UNCHANGED <<world, todo, cur, num, clean, past>>

(* ... and for each, as it was read, look at its subscription, if it can be
   read. *)
VisitOverdue(j, i) ==
    /\ pc[j] = "visit" /\ kind[j] = "overdue"
    /\ i \in bills[j]
    /\ bills' = [bills EXCEPT ![j] = @ \ {i}]
    /\ \/ /\ IF /\ sub[i.sub] \notin {"isolated", "suspended"}
                /\ i.sub \in AutoIsolate
                /\ ShouldSuspendForNonPayment(i, at[j])
             THEN Goto(j, "isolate") /\ cur' = [cur EXCEPT ![j] = i.sub]
             ELSE UNCHANGED <<pc, cur>>
          /\ UNCHANGED clean
       \/ /\ Faults
          /\ clean' = [clean EXCEPT ![j] = "no"]
          /\ UNCHANGED <<pc, cur>>
    /\ UNCHANGED <<world, kind, at, todo, num, past>>

(* SubscriptionService.Isolate, whatever the status has become. *)
Isolate(j) ==
    /\ pc[j] = "isolate"
    /\ \/ /\ sub' = [sub EXCEPT ![cur[j]] = "isolated"]
          /\ IsolatedAgain(cur[j])
          /\ UNCHANGED clean
       \/ /\ Faults
          /\ clean' = [clean EXCEPT ![j] = "no"]
          /\ UNCHANGED <<sub, again>>
    /\ Goto(j, "visit")
    /\ cur' = [cur EXCEPT ![j] = NoSub]
    /\ UNCHANGED <<now, night, isActive, invoices, counter, kind, at, todo, bills, num,
                   steady, owed, blind>>

(* PaymentService.Confirm commits: some of the open invoices are paid, or one
   of them in part (a payment that does both is two such steps). *)
Open(i) == i.status \in {"unpaid", "partial"}
OpenInvoices == {i \in invoices : Open(i)}

Confirm(j, some, status) ==
    /\ some # {}
    /\ status = "partial" => Cardinality(some) = 1
    /\ Start(j, "confirm", "settle")
    /\ invoices' = (invoices \ some) \cup {[i EXCEPT !.status = status] : i \in some}
    /\ bills' = [bills EXCEPT ![j] = OpenInvoices]
    /\ UNCHANGED <<now, night, sub, isActive, counter, todo, cur, num, clean, past>>

(* Every invoice it found open is paid now: list the isolated subscriptions. *)
ConfirmSettled(j) ==
    /\ pc[j] = "settle"
    /\ LET nums == {i.num : i \in bills[j]} IN
       \/ /\ \A i \in invoices : i.num \in nums => i.status = "paid"
          /\ Goto(j, "restore")
          /\ todo'  = [todo  EXCEPT ![j] = {s \in Subs : sub[s] = "isolated"}]
          /\ bills' = [bills EXCEPT ![j] = {}]
          /\ UNCHANGED <<kind, at, cur, num, clean, again>>
       \/ /\ \E i \in invoices : i.num \in nums /\ i.status # "paid"
          /\ End(j)
    /\ UNCHANGED <<world, steady, owed, blind>>

(* fault: a deactivated account's subscriptions are passed over *)
MutRestoreSubscription(j, s) ==
    /\ pc[j] = "restore"
    /\ s \in todo[j]
    /\ todo' = [todo EXCEPT ![j] = @ \ {s}]
    /\ sub' = [sub EXCEPT ![s] = IF isActive = "yes" THEN "active" ELSE @]
    /\ UNCHANGED <<now, night, isActive, invoices, counter, pc, kind, at, bills, cur, num, clean, past>>

(* RestoreAllSubscriptions; the error of one is ignored. *)
RestoreSubscription(j, s) ==
    /\ pc[j] = "restore"
    /\ s \in todo[j]
    /\ todo' = [todo EXCEPT ![j] = @ \ {s}]
    /\ \/ /\ sub' = [sub EXCEPT ![s] = "active"]
          /\ UNCHANGED clean
       \/ /\ Faults
          /\ clean' = [clean EXCEPT ![j] = "no"]
          /\ UNCHANGED sub
    /\ UNCHANGED <<now, night, isActive, invoices, counter, pc, kind, at, bills, cur, num, past>>

(* The loop is through. *)
Finish(j) ==
    /\ pc[j] \in {"visit", "restore"}
    /\ todo[j] = {} /\ bills[j] = {}
    /\ End(j)
    /\ NightOver(j, clean[j] = "yes")
    /\ UNCHANGED <<now, sub, isActive, invoices, counter>>

(* The job's context runs out, its client goes away or the process dies. *)
Die(j) ==
    /\ Faults
    /\ pc[j] # "idle"
    /\ End(j)
    /\ NightOver(j, FALSE)
    /\ UNCHANGED <<now, sub, isActive, invoices, counter>>

-----------------------------------------------------------------------------
(* The world around the jobs *)

May == Overlap \/ Quiet

(* Staff suspend, isolate and restore subscriptions. *)
SetStatus(s, from, to) ==
    /\ May
    /\ sub[s] \in from
    /\ sub' = [sub EXCEPT ![s] = to]
    /\ steady' = IF to = "suspended" THEN steady \ {s} ELSE steady
    /\ IF to = "isolated" THEN IsolatedAgain(s) ELSE UNCHANGED again
    /\ UNCHANGED <<now, night, isActive, invoices, counter, job, owed, blind>>

SuspendAllSubscriptions(s) == SetStatus(s, {"active", "isolated"}, "suspended")
IsolateAllSubscriptions(s) == SetStatus(s, {"active"}, "isolated")
StaffRestore(s)            == SetStatus(s, {"isolated", "suspended"}, "active")

(* ActivateAccount, DeactivateAccount *)
SetAccount(flag) ==
    /\ May
    /\ isActive # flag
    /\ isActive' = flag
    /\ steady' = {}
    /\ UNCHANGED <<now, night, sub, invoices, counter, job, owed, blind, again>>

Cancel(i) ==
    /\ May
    /\ invoices' = (invoices \ {i}) \cup {[i EXCEPT !.status = "cancelled"]}
    /\ UNCHANGED <<now, night, sub, isActive, counter, job, past>>

(* Midnight.  A night without its billing job is not made up for. *)
NextDay ==
    /\ May
    /\ LET billed == IF night = "over" THEN steady ELSE {} IN
       \/ /\ now.d < Lengths[now.m]
          /\ now' = [now EXCEPT !.d = @ + 1]
          /\ steady' = billed
          /\ UNCHANGED owed
       \/ /\ now.d = Lengths[now.m] /\ now.m < Len(Lengths)
          /\ now' = [m |-> now.m + 1, d |-> 1]
          /\ owed' = owed \cup (billed \X {now.m})
          /\ steady' = {s \in Subs : InService(s)}
    /\ night' = "due"
    /\ UNCHANGED <<sub, isActive, invoices, counter, job, blind, again>>

-----------------------------------------------------------------------------
Step(j) ==
    \/ ListIsolated(j) \/ GenerateCheck(j) \/ GenerateNumber(j) \/ GenerateNumberFails(j)
    \/ GenerateInsert(j)
    \/ Isolate(j) \/ ConfirmSettled(j) \/ Finish(j)
    \/ \E s \in Subs : Visit(j, s) \/ RestoreSubscription(j, s)
    \/ \E i \in bills[j] : VisitOverdue(j, i)

Begin(j) ==
    \/ ProcessDailyBilling(j) \/ ForceMonthlyBilling(j) \/ CheckAndIsolateOverdue(j)
    \/ \E some \in SUBSET OpenInvoices, st \in {"paid", "partial"} : Confirm(j, some, st)

World ==
    \/ NextDay
    \/ \E s \in Subs :
          SuspendAllSubscriptions(s) \/ IsolateAllSubscriptions(s) \/ StaffRestore(s)
    \/ \E flag \in Flag : SetAccount(flag)
    \/ \E i \in invoices : Cancel(i)

Next == World \/ \E j \in Jobs : Begin(j) \/ Step(j) \/ Die(j)

Spec == Init /\ [][Next]_vars

-----------------------------------------------------------------------------
(* Properties *)

(* A subscription has one invoice for a month, however often the jobs ran,
   overlapped and broke off, unless a job went on to bill it after a look for
   the invoice that failed on one that was there, or while another job was
   about to make it: the check and the insert are apart and nothing but the
   invoice number is UNIQUE ("Idempotency: return existing invoice if already
   generated for this subscription+period", billing_service.go:98). *)
OneInvoicePerMonth ==
    \A i, k \in invoices :
        i.sub = k.sub /\ i.month = k.month /\ <<i.sub, i.month>> \notin blind => i.num = k.num

(* No insert is refused for its number: a number drawn by one job is neither
   in the table nor in the hands of another, whatever failed or died before. *)
NumberIsFree ==
    \A j \in Jobs : pc[j] = "insert" =>
        /\ ~Taken(num[j])
        /\ \A k \in Jobs \ {j} : pc[k] = "insert" => num[k] # num[j]

(* Whoever was in service for a whole month has been billed for it, if the
   billing job completed each of its nights: the billing day, 31 say, falls on
   a day of every month. *)
MonthBilled == owed \subseteq {<<i.sub, i.month>> : i \in invoices}

(* When the isolation job is through, no subscription with an unpaid invoice
   past its grace period is left in service. *)
DelinquentIsolated ==
    \A j \in Jobs :
        pc[j] = "visit" /\ kind[j] = "overdue" /\ bills[j] = {} /\ clean[j] = "yes" =>
            \A i \in invoices :
                /\ i.status = "unpaid" /\ DayNo(now) >= i.due + GraceDays
                /\ i.sub \in AutoIsolate
                => sub[i.sub] # "active"

(* The job isolates nobody within the grace period of every invoice. *)
GraceRespected ==
    [][ \A j \in Jobs :
          pc[j] = "isolate" /\ pc'[j] = "visit" /\ sub' # sub =>
              \E i \in invoices : i.sub = cur[j] /\ DayNo(now) >= i.due + GraceDays ]_vars

(* When a request whose payment settled every open invoice has been through
   the isolated subscriptions without an error, only those are isolated that
   somebody, an isolation job that read its invoices before the payment say,
   has isolated since the request listed them. *)
PaidUpIsRestored ==
    \A j \in Jobs :
        pc[j] = "restore" /\ todo[j] = {} /\ clean[j] = "yes" =>
            {s \in Subs : sub[s] = "isolated"} \subseteq again[j]
=============================================================================
