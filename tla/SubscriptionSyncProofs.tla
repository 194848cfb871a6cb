----------------------- MODULE SubscriptionSyncProofs -----------------------
(* A subscription that has ended is cut off from the router, for any number  *)
(* of concurrent requests, any set of plans, and any failures.               *)
EXTENDS SubscriptionSync, TLAPS

USE SyncAssumption DEF past

(* The constants of the empty rows have their types. *)
LEMMA EmptyTyped == NoRow \in Row /\ NoSecret \in Secret
  <1>1. AnyPlan \in Plans
    BY DEF AnyPlan
  <1> QED
    BY <1>1 DEF NoRow, NoSecret, Row, Secret, Statuses

(* Every request starts from nothing. *)
LEMMA InitHolds == Init => SyncInv
  <1> SUFFICES ASSUME Init PROVE SyncInv
    OBVIOUS
  <1>1. TypeOK
    BY EmptyTyped DEF Init, TypeOK, Ops, Changes
  <1>2. StepsOfOps /\ OnlyCreateBefore
    BY DEF Init, StepsOfOps, OnlyCreateBefore, NoRow
  <1>3. EndIsSeenForGood /\ TerminatedIsCutOff
    BY DEF Init, EndIsSeenForGood, TerminatedIsCutOff, Present, NoSecret, NoRow, Ended
  <1> QED
    BY <1>1, <1>2, <1>3 DEF SyncInv

(* A request that ends, having at most removed the secret or emptied the
   cache, keeps the invariant. *)
LEMMA StepDone ==
  ASSUME SyncInv, NEW w \in Workers, Done(w), row' = row, cache' \in {cache, {}},
         secret' \in Secret, Present' => Present, kept' \subseteq cache',
         orphan' \in BOOLEAN
  PROVE  SyncInv'
  <1> USE DEF SyncInv, Done, Goto
  <1>1. TypeOK'
    BY EmptyTyped DEF TypeOK, Ops, Changes
  <1>2. OnlyCreateBefore'
    BY DEF TypeOK, OnlyCreateBefore, NoRow
  <1>3. EndIsSeenForGood'
    BY DEF TypeOK, EndIsSeenForGood, NoRow, Ended
  <1>4. TerminatedIsCutOff'
    BY DEF TerminatedIsCutOff
  <1>9. StepsOfOps'
    BY DEF TypeOK, StepsOfOps, Changes
  <1> QED
    BY <1>9, <1>1, <1>2, <1>3, <1>4

(* What a router call returns is a secret; only Create makes one where there
   was none, and Terminate and Delete leave none. *)
LEMMA RouterCall ==
  ASSUME TypeOK, NEW w \in Workers, Reachable(w), op[w] # "get"
  PROVE  LET s == RouterEffect(op[w], copy[w]) IN
         /\ s \in Secret
         /\ op[w] # "create" /\ s.state # "gone" => Present
         /\ op[w] \in {"terminate", "delete"} => s.state = "gone"
  <1>1. copy[w].plan \in Plans /\ secret \in Secret /\ op[w] \in Ops
    BY DEF TypeOK, Row
  <1>2. CASE op[w] \in {"create", "restore", "update"}
    BY <1>1, <1>2 DEF RouterEffect, UpdateSecret, Secret, Reachable
  <1>3. CASE op[w] = "isolate"
    BY <1>1, <1>3 DEF RouterEffect, UpdateSecret, Secret, Reachable
  <1>4. CASE op[w] = "activate" \/ op[w] = "suspend"
    BY <1>1, <1>4 DEF RouterEffect, Secret, Reachable
  <1>5. CASE op[w] \in {"terminate", "delete"}
    BY <1>1, <1>5, EmptyTyped DEF RouterEffect, NoSecret
  <1> QED
    BY <1>1, <1>2, <1>3, <1>4, <1>5 DEF Ops, Changes

-----------------------------------------------------------------------------
(* One lemma per group of actions *)

LEMMA StepCreate ==
  ASSUME SyncInv, NEW w \in Workers, NEW p \in Plans, Create(w, p)
  PROVE  SyncInv'
  <1> USE DEF SyncInv, Create, Goto
  <1>1. [NoRow EXCEPT !.plan = p] \in Row /\ [NoRow EXCEPT !.plan = p].status = "absent"
    BY EmptyTyped DEF Row, NoRow
  <1>2. TypeOK'
    BY <1>1 DEF TypeOK, Ops
  <1>3. OnlyCreateBefore'
    BY <1>1 DEF TypeOK, OnlyCreateBefore, NoRow
  <1>4. EndIsSeenForGood'
    BY <1>1 DEF TypeOK, OnlyCreateBefore, EndIsSeenForGood, Present, Ended
  <1>5. TerminatedIsCutOff'
    BY DEF TerminatedIsCutOff, Present
  <1>9. StepsOfOps'
    BY DEF TypeOK, StepsOfOps, Changes
  <1> QED
    BY <1>9, <1>2, <1>3, <1>4, <1>5

LEMMA StepBegin ==
  ASSUME SyncInv, NEW w \in Workers, NEW o \in Changes, Begin(w, o)
  PROVE  SyncInv'
  <1> USE DEF SyncInv, Begin, Goto, Found
  <1>1. TypeOK'
    BY DEF TypeOK, Ops
  <1>2. OnlyCreateBefore'
    BY DEF TypeOK, OnlyCreateBefore, Changes
  <1>3. EndIsSeenForGood'
    BY DEF TypeOK, EndIsSeenForGood, TerminatedIsCutOff, Present, Ended
  <1>4. TerminatedIsCutOff'
    BY DEF TerminatedIsCutOff, Present
  <1>9. StepsOfOps'
    BY DEF TypeOK, StepsOfOps, Changes
  <1> QED
    BY <1>9, <1>1, <1>2, <1>3, <1>4

LEMMA StepBeginGet ==
  ASSUME SyncInv, NEW w \in Workers, NEW o \in {"get", "update"}, BeginGet(w, o)
  PROVE  SyncInv'
  <1> USE DEF SyncInv, BeginGet, Goto
  <1>1. TypeOK'
    BY DEF TypeOK, Ops
  <1>2. OnlyCreateBefore'
    BY DEF TypeOK, OnlyCreateBefore, NoRow
  <1>3. EndIsSeenForGood'
    BY DEF TypeOK, EndIsSeenForGood, Present
  <1>4. TerminatedIsCutOff'
    BY DEF TerminatedIsCutOff, Present
  <1>9. StepsOfOps'
    BY DEF TypeOK, StepsOfOps, Changes
  <1> QED
    BY <1>9, <1>1, <1>2, <1>3, <1>4

(* Reading: the worker moves on, holding a row it found in the table or in
   the cache; the cache may take over what the worker holds. *)
LEMMA StepRead ==
  ASSUME SyncInv, NEW w \in Workers, pc[w] # "idle", op[w] \in {"get", "update"},
         NEW step \in {"fill", "existing", "router"}, Goto(w, step),
         op[w] = "update" \/ step = "fill",
         NEW r \in Row, copy' = [copy EXCEPT ![w] = r],
         r.status # "absent", r.status \in Ended => ~Present,
         cache' = cache \/ \E s \in Row : /\ cache' = {s}
                                          /\ s.status = r.status,
         op' = op, old' \in [Workers -> Row], UNCHANGED <<row, secret>>,
         overtaken' \subseteq overtaken, kept' \subseteq cache', orphan' = orphan
  PROVE  SyncInv'
  <1> USE DEF SyncInv, Goto
  <1>1. TypeOK'
    BY DEF TypeOK
  <1>2. OnlyCreateBefore'
    BY DEF TypeOK, OnlyCreateBefore, NoRow
  <1>3. EndIsSeenForGood'
    BY DEF TypeOK, EndIsSeenForGood, Present
  <1>4. TerminatedIsCutOff'
    BY DEF TerminatedIsCutOff, Present
  <1>9. StepsOfOps'
    BY DEF TypeOK, StepsOfOps, Changes
  <1> QED
    BY <1>9, <1>1, <1>2, <1>3, <1>4

LEMMA StepGetByID ==
  ASSUME SyncInv, NEW w \in Workers,
         \/ GetByIDHit(w) \/ GetByIDMiss(w) \/ GetByIDFill(w)
         \/ \E p \in Plans : UpdateExisting(w, p)
  PROVE  SyncInv'
  <1>1. CASE GetByIDHit(w)
    <2>1. CASE Done(w)
      BY <1>1, <2>1, StepDone DEF GetByIDHit, SyncInv, TypeOK, Present
    <2>2. CASE /\ op[w] = "update" /\ Goto(w, "existing") /\ UNCHANGED <<op, old, orphan>>
               /\ \E r \in cache : copy' = [copy EXCEPT ![w] = r]
      <3>1. PICK r \in cache : copy' = [copy EXCEPT ![w] = r]
        BY <2>2
      <3>2. r \in Row /\ r.status # "absent" /\ (r.status \in Ended => ~Present)
        BY <3>1 DEF SyncInv, TypeOK, EndIsSeenForGood
      <3> QED
        BY <1>1, <2>2, <3>1, <3>2, StepRead DEF GetByIDHit, SyncInv, TypeOK
    <2> QED
      BY <1>1, <2>1, <2>2 DEF GetByIDHit
  <1>2. CASE GetByIDMiss(w)
    <2>1. CASE Done(w)
      BY <1>2, <2>1, StepDone DEF GetByIDMiss, SyncInv, TypeOK, Present
    <2>2. CASE /\ Found(row) /\ Goto(w, "fill") /\ UNCHANGED <<op, old>>
               /\ copy' = [copy EXCEPT ![w] = row]
      <3>1. row \in Row /\ row.status # "absent" /\ (row.status \in Ended => ~Present)
        BY <2>2 DEF SyncInv, TypeOK, Found, TerminatedIsCutOff, Ended
      <3>2. pc[w] # "idle" /\ op[w] \in {"get", "update"}
        BY <1>2 DEF GetByIDMiss, SyncInv, TypeOK, StepsOfOps
      <3> QED
        BY <1>2, <2>2, <3>1, <3>2, StepRead DEF GetByIDMiss, SyncInv, TypeOK
    <2> QED
      BY <1>2, <2>1, <2>2 DEF GetByIDMiss
  <1>3. CASE GetByIDFill(w)
    <2>1. /\ copy[w] \in Row /\ copy[w].status # "absent"
          /\ copy[w].status \in Ended => ~Present
          /\ Marshal(copy[w]) \in Row /\ Marshal(copy[w]).status = copy[w].status
      BY <1>3 DEF GetByIDFill, SyncInv, TypeOK, StepsOfOps, EndIsSeenForGood, Row, Marshal
    <2>2. CASE /\ op[w] = "update" /\ Goto(w, "existing") /\ UNCHANGED <<op, copy, old>>
               /\ overtaken' = overtaken \ {w}
      <3>1. copy' = [copy EXCEPT ![w] = copy[w]]
        BY <2>2 DEF SyncInv, TypeOK
      <3>2. cache' = cache \/ \E s \in Row : cache' = {s} /\ s.status = copy[w].status
        BY <1>3, <2>1 DEF GetByIDFill
      <3>3. /\ pc[w] # "idle" /\ UNCHANGED <<row, secret>> /\ old' \in [Workers -> Row]
            /\ kept' \subseteq cache' /\ overtaken' \subseteq overtaken
        BY <1>3, <2>2 DEF GetByIDFill, SyncInv, TypeOK, Done
      <3>4. orphan' = orphan
        BY <1>3 DEF GetByIDFill
      <3> QED
        BY <2>1, <2>2, <3>1, <3>2, <3>3, <3>4, StepRead
    <2>3. CASE op[w] = "get" /\ Done(w)
      <3> USE <2>3 DEF Done, Goto
      <3>1. /\ cache' = {Marshal(copy[w])} \/ cache' = cache
            /\ row' = row /\ secret' = secret /\ row.status # "absent" /\ kept' \subseteq cache'
            /\ orphan' = orphan
        BY <1>3 DEF GetByIDFill, SyncInv, TypeOK, OnlyCreateBefore, StepsOfOps
      <3>2. TypeOK'
        BY <2>1, <3>1, EmptyTyped DEF SyncInv, TypeOK, Ops, Changes
      <3>3. StepsOfOps' /\ OnlyCreateBefore'
        BY <3>1 DEF SyncInv, TypeOK, StepsOfOps, OnlyCreateBefore, NoRow
      <3>4. EndIsSeenForGood'
        BY <2>1, <3>1 DEF SyncInv, TypeOK, EndIsSeenForGood, NoRow, Ended, Present
      <3>5. TerminatedIsCutOff'
        BY <3>1 DEF SyncInv, TerminatedIsCutOff, Present
      <3> QED
        BY <3>2, <3>3, <3>4, <3>5 DEF SyncInv
    <2> QED
      BY <1>3, <2>2, <2>3 DEF GetByIDFill
  <1>4. ASSUME NEW p \in Plans, UpdateExisting(w, p) PROVE SyncInv'
    <2>1. CASE Done(w)
      BY <1>4, <2>1, StepDone DEF UpdateExisting, SyncInv, TypeOK, Present
    <2>2. CASE /\ Found(row) /\ Goto(w, "router") /\ copy' = [copy EXCEPT ![w].plan = p]
               /\ old' = [old EXCEPT ![w] = row] /\ UNCHANGED <<op, overtaken>>
      <3> DEFINE r == [copy[w] EXCEPT !.plan = p]
      <3>1. op[w] = "update" /\ pc[w] = "existing"
        BY <1>4 DEF UpdateExisting, SyncInv, StepsOfOps
      <3>2. /\ r \in Row /\ r.status = copy[w].status
            /\ copy[w].status # "absent" /\ (copy[w].status \in Ended => ~Present)
        BY <3>1 DEF SyncInv, TypeOK, EndIsSeenForGood, Row
      <3>3. /\ copy' = [copy EXCEPT ![w] = r] /\ old' \in [Workers -> Row]
            /\ kept' \subseteq cache' /\ overtaken' \subseteq overtaken
        BY <1>4, <2>2 DEF UpdateExisting, SyncInv, TypeOK, Done
      <3> HIDE DEF r
      <3> QED
        BY <1>4, <2>2, <3>1, <3>2, <3>3, StepRead DEF UpdateExisting
    <2> QED
      BY <1>4, <2>1, <2>2 DEF UpdateExisting
  <1> QED
    BY <1>1, <1>2, <1>3, <1>4

(* The call that makes the secret: only Create, before the row exists. *)
LEMMA StepRouter ==
  ASSUME SyncInv, NEW w \in Workers,
         CallRouter(w) \/ CallRouterGone(w) \/ CallRouterFails(w)
  PROVE  SyncInv'
  <1> DEFINE s == RouterEffect(op[w], copy[w])
  <1>0. CASE CallRouterGone(w)
    BY <1>0, StepDone DEF CallRouterGone, SyncInv, TypeOK, Present
  <1>1. ASSUME CallRouter(w) \/ CallRouterFails(w) PROVE SyncInv'
    <2>1. /\ s \in Secret
          /\ op[w] # "create" /\ s.state # "gone" => Present
          /\ op[w] \in {"terminate", "delete"} => s.state = "gone"
      BY <1>1, RouterCall DEF CallRouter, CallRouterFails, SyncInv, StepsOfOps
    <2> HIDE DEF s
    <2>2. /\ secret' \in {secret, s} /\ UNCHANGED <<row, cache>> /\ pc[w] = "router"
          /\ \/ Done(w)
             \/ secret' = s /\ Goto(w, "save") /\ UNCHANGED <<op, copy, old>>
          /\ kept' = kept /\ overtaken' \subseteq overtaken /\ orphan' \in BOOLEAN
      BY <1>1 DEF CallRouter, CallRouterFails, s, Done, LeftBehind, SyncInv, TypeOK
    <2>3. TypeOK'
      BY <2>1, <2>2, EmptyTyped DEF SyncInv, TypeOK, Done, Goto, Ops, Changes
    <2>4. StepsOfOps' /\ OnlyCreateBefore'
      BY <2>2 DEF SyncInv, TypeOK, StepsOfOps, OnlyCreateBefore, Done, Goto, NoRow
    <2>5. CASE op[w] = "create"
      <3>1. /\ row.status = "absent" /\ cache = {}
            /\ \A v \in Workers : copy[v].status = "absent"
            /\ \A v \in Workers : v # w => pc[v] = "idle"
        BY <2>2, <2>5 DEF SyncInv, OnlyCreateBefore
      <3>2. EndIsSeenForGood'
        BY <2>2, <2>5, <3>1 DEF SyncInv, TypeOK, EndIsSeenForGood, Done, Goto, NoRow, Ended
      <3>3. TerminatedIsCutOff'
        BY <2>2, <3>1 DEF TerminatedIsCutOff
      <3> QED
        BY <2>3, <2>4, <3>2, <3>3 DEF SyncInv
    <2>6. CASE op[w] # "create"
      <3>1. Present' => Present
        BY <2>1, <2>2, <2>6 DEF Present
      <3>2. EndIsSeenForGood'
        BY <2>1, <2>2, <3>1 DEF SyncInv, TypeOK, EndIsSeenForGood, Done, Goto, NoRow, Ended, Present
      <3>3. TerminatedIsCutOff'
        BY <2>2, <3>1 DEF SyncInv, TerminatedIsCutOff
      <3> QED
        BY <2>3, <2>4, <3>2, <3>3 DEF SyncInv
    <2> QED
      BY <2>5, <2>6
  <1> QED
    BY <1>0, <1>1

(* The write: what Terminate and Delete have removed is gone, and a stale row
   that says "ended" was true when it was read and still is. *)
LEMMA StepSave ==
  ASSUME SyncInv, NEW w \in Workers, Save(w)
  PROVE  SyncInv'
  <1> DEFINE r == [(IF op[w] = "delete" THEN row ELSE copy[w])
                     EXCEPT !.status = NewStatus(op[w], copy[w])]
  <1>1. /\ row' = r /\ Goto(w, "drop") /\ pc[w] = "save" /\ op[w] \in Ops /\ op[w] # "get"
        /\ copy[w] \in Row /\ row \in Row /\ UNCHANGED <<secret, cache, op, copy, old, kept, orphan>>
        /\ overtaken' \subseteq Workers
    BY DEF Save, SyncInv, TypeOK, StepsOfOps
  <1>2. NewStatus(op[w], copy[w]) \in Statuses
    BY <1>1 DEF NewStatus, Ops, Changes, Statuses, Row
  <1>3. NewStatus(op[w], copy[w]) # "absent"
    <2>1. op[w] = "update" => copy[w].status # "absent"
      BY <1>1 DEF SyncInv, EndIsSeenForGood
    <2> QED
      BY <1>1, <2>1 DEF NewStatus, Ops, Changes
  <1>4. NewStatus(op[w], copy[w]) \in Ended => ~Present
    <2>1. op[w] = "update" => (copy[w].status \in Ended => ~Present)
      BY DEF SyncInv, EndIsSeenForGood
    <2>2. op[w] \in {"terminate", "delete"} => ~Present
      BY <1>1 DEF SyncInv, EndIsSeenForGood
    <2> QED
      BY <1>1, <2>1, <2>2 DEF NewStatus, Ops, Changes, Ended
  <1>5. r \in Row /\ r.status = NewStatus(op[w], copy[w])
    BY <1>1, <1>2 DEF Row
  <1> HIDE DEF r
  <1>6. TypeOK'
    BY <1>1, <1>5 DEF SyncInv, TypeOK, Goto
  <1>7. StepsOfOps' /\ OnlyCreateBefore'
    BY <1>1, <1>3, <1>5 DEF SyncInv, TypeOK, StepsOfOps, OnlyCreateBefore, Goto
  <1>8. EndIsSeenForGood'
    BY <1>1 DEF SyncInv, TypeOK, EndIsSeenForGood, Goto, Present
  <1>9. TerminatedIsCutOff'
    BY <1>1, <1>4, <1>5 DEF TerminatedIsCutOff, Present, Ended
  <1> QED
    BY <1>6, <1>7, <1>8, <1>9 DEF SyncInv

(* Failure after the write was tried, the undo, the end of a request. *)
LEMMA StepEnd ==
  ASSUME SyncInv, NEW w \in Workers,
         SaveFails(w) \/ Undo(w) \/ UndoFails(w) \/ Invalidate(w) \/ Crash(w)
  PROVE  SyncInv'
  <1>1. CASE /\ Done(w) /\ row' = row /\ secret' = secret /\ cache' \in {cache, {}}
             /\ kept' \subseteq cache' /\ orphan' \in BOOLEAN
    BY <1>1, StepDone DEF SyncInv, TypeOK, Present
  <1>2. CASE SaveFails(w) /\ Goto(w, "undo") /\ UNCHANGED <<op, copy, old, overtaken>>
    <2>1. /\ pc[w] = "save" /\ op[w] \in {"create", "update"}
          /\ UNCHANGED <<row, secret, cache, past>>
      BY <1>2, SMT DEF SaveFails, Done, Goto, SyncInv, TypeOK
    <2>2. TypeOK' /\ StepsOfOps' /\ OnlyCreateBefore'
      BY <1>2, <2>1 DEF SyncInv, TypeOK, StepsOfOps, OnlyCreateBefore, Goto
    <2>3. EndIsSeenForGood' /\ TerminatedIsCutOff'
      BY <1>2, <2>1 DEF SyncInv, TypeOK, EndIsSeenForGood, TerminatedIsCutOff, Goto, Present
    <2> QED
      BY <2>2, <2>3 DEF SyncInv
  <1>3. CASE Undo(w)
    <2>1. secret' \in Secret /\ (Present' => Present)
      <3>1. CASE Present /\ op[w] = "update"
        BY <1>3, <3>1 DEF Undo, SyncInv, TypeOK, Row, Secret, UpdateSecret
      <3>2. CASE ~(Present /\ op[w] = "update")
        BY <1>3, <3>2, EmptyTyped DEF Undo, NoSecret, Present
      <3> QED
        BY <3>1, <3>2
    <2> QED
      BY <1>3, <2>1, StepDone DEF Undo, SyncInv, TypeOK
  <1> QED
    BY <1>1, <1>2, <1>3 DEF SaveFails, UndoFails, Invalidate, Crash, LeftBehind, SyncInv, TypeOK

(* The time to live runs out. *)
LEMMA StepExpire ==
  ASSUME SyncInv, Expire
  PROVE  SyncInv'
  BY DEF SyncInv, TypeOK, StepsOfOps, OnlyCreateBefore, EndIsSeenForGood,
         TerminatedIsCutOff, Expire, Present

-----------------------------------------------------------------------------
(* Every step of every request keeps the invariant. *)
LEMMA NextHolds == SyncInv /\ [Next]_vars => SyncInv'
  <1> SUFFICES ASSUME SyncInv, [Next]_vars PROVE SyncInv'
    OBVIOUS
  <1>1. CASE UNCHANGED vars
    BY <1>1 DEF vars, SyncInv, TypeOK, StepsOfOps, OnlyCreateBefore,
                EndIsSeenForGood, TerminatedIsCutOff, Present
  <1>2. CASE Expire
    BY <1>2, StepExpire
  <1>3. ASSUME NEW w \in Workers, Request(w) PROVE SyncInv'
    BY <1>3, StepCreate, StepBegin, StepBeginGet DEF Request
  <1>4. ASSUME NEW w \in Workers, Step(w) \/ Crash(w) PROVE SyncInv'
    BY <1>4, StepGetByID, StepRouter, StepSave, StepEnd DEF Step
  <1> QED
    BY <1>1, <1>2, <1>3, <1>4 DEF Next

(* The inductive invariant holds in every reachable state, for any number of
   concurrent requests, with and without failures. *)
THEOREM SyncInvariant == Spec => []SyncInv
  BY InitHolds, NextHolds, PTL DEF Spec

(* Rows, secret, cache and the workers' copies keep their types. *)
THEOREM SyncTypeCorrect == Spec => []TypeOK
  <1>1. SyncInv => TypeOK
    BY DEF SyncInv
  <1> QED
    BY <1>1, SyncInvariant, PTL

(* No customer whose subscription the database shows as terminated or deleted
   can still log in: Terminate and Delete, whatever runs or fails beside
   them, leave no secret on the router. *)
THEOREM EndedIsCutOff == Spec => []TerminatedIsCutOff
  <1>1. SyncInv => TerminatedIsCutOff
    BY DEF SyncInv
  <1> QED
    BY <1>1, SyncInvariant, PTL

-----------------------------------------------------------------------------
(* A Create that fails.  While the row does not exist its one Create is the
   only request at work, and from the moment the router has the secret that
   Create is on its way to the row or to the undo, or has left it behind. *)
SecretHasCreate ==
    row.status = "absent" /\ Present /\ ~orphan =>
        \E w \in Workers : op[w] = "create" /\ pc[w] \in {"save", "undo"}

(* A row that exists is never absent again. *)
LEMMA RowStays ==
  ASSUME SyncInv, [Next]_vars, row'.status = "absent"
  PROVE  row' = row
  <1>1. ASSUME NEW w \in Workers, Save(w) PROVE FALSE
    <2>1. pc[w] = "save" /\ op[w] \in Ops /\ op[w] # "get" /\ row \in Row /\ copy[w] \in Row
      BY <1>1 DEF Save, SyncInv, TypeOK, StepsOfOps
    <2>2. NewStatus(op[w], copy[w]) # "absent"
      BY <2>1 DEF SyncInv, EndIsSeenForGood, NewStatus, Ops, Changes
    <2> QED
      BY <1>1, <2>1, <2>2 DEF Save, Row
  <1> QED
    BY <1>1 DEF Next, Request, Step, vars, Create, Begin, BeginGet, GetByIDHit, GetByIDMiss,
         GetByIDFill, UpdateExisting, CallRouter, CallRouterGone, CallRouterFails, SaveFails,
         Undo, UndoFails, Invalidate, Expire, Crash

(* While the row is absent, only the Create can do anything to the secret:
   it makes it and goes on to the write, and an undo removes it again. *)
LEMMA SecretHasCreateStep ==
  ASSUME SyncInv, SecretHasCreate, [Next]_vars
  PROVE  SecretHasCreate'
  <1> SUFFICES ASSUME row'.status = "absent", Present', ~orphan'
               PROVE  \E w \in Workers : op'[w] = "create" /\ pc'[w] \in {"save", "undo"}
    BY DEF SecretHasCreate
  <1>1. row' = row /\ row.status = "absent"
    BY RowStays
  <1>2. /\ \A w \in Workers : pc[w] # "idle" => op[w] = "create"
        /\ \A v, w \in Workers : op[v] = "create" /\ op[w] = "create" => v = w
    BY <1>1 DEF SyncInv, OnlyCreateBefore
  <1>6. \A w \in Workers : ~CallRouterFails(w) /\ ~UndoFails(w) /\ ~Crash(w)
    BY DEF CallRouterFails, UndoFails, Crash, LeftBehind
  <1>7. orphan' = orphan
    BY <1>6 DEF Next, Request, Step, vars, Create, Begin, BeginGet, GetByIDHit, GetByIDMiss,
         GetByIDFill, UpdateExisting, CallRouter, CallRouterGone, Save, SaveFails, Undo,
         Invalidate, Expire
  <1>3. ASSUME NEW v \in Workers, op[v] = "create", pc[v] \in {"save", "undo"},
               UNCHANGED <<pc, op>> \/ \E w \in Workers : Request(w) \/ Step(w)
        PROVE  op'[v] = "create" /\ pc'[v] \in {"save", "undo"}
    <2>1. CASE UNCHANGED <<pc, op>>
      BY <1>3, <2>1
    <2>2. ASSUME NEW w \in Workers, Request(w) PROVE FALSE
      BY <1>1, <1>3, <2>2 DEF Request, Create, Begin, BeginGet, Found
    <2>3. ASSUME NEW w \in Workers, Step(w) PROVE op'[v] = "create" /\ pc'[v] \in {"save", "undo"}
      <3>1. pc[w] # "idle"
        BY <2>3 DEF Step, GetByIDHit, GetByIDMiss, GetByIDFill, UpdateExisting, CallRouter,
             CallRouterGone, CallRouterFails, Save, SaveFails, Undo, UndoFails, Invalidate
      <3>2. w = v
        BY <1>2, <1>3, <3>1
      <3>3. CASE Save(w)
        <4>1. copy[w] \in Row /\ row \in Row
          BY DEF SyncInv, TypeOK
        <4> QED
          BY <1>1, <1>3, <3>2, <3>3, <4>1 DEF Save, NewStatus, Row
      <3>4. CASE SaveFails(w)
        BY <1>3, <3>2, <3>4 DEF SaveFails, Goto, SyncInv, TypeOK
      <3>5. CASE Undo(w)
        BY <1>3, <3>2, <3>5 DEF Undo, NoSecret, Present
      <3> QED
        BY <1>3, <1>6, <2>3, <3>2, <3>3, <3>4, <3>5 DEF Step, GetByIDHit, GetByIDMiss,
             GetByIDFill, UpdateExisting, CallRouter, CallRouterGone, Invalidate
    <2> QED
      BY <1>3, <2>1, <2>2, <2>3
  <1>4. CASE Present
    <2>1. PICK v \in Workers : op[v] = "create" /\ pc[v] \in {"save", "undo"}
      BY <1>1, <1>4, <1>7 DEF SecretHasCreate
    <2> QED
      BY <2>1, <1>3, <1>6 DEF Next, Expire, vars
  <1>5. CASE ~Present
    <2>1. PICK w \in Workers : CallRouter(w)
      BY <1>5, <1>6 DEF Next, Request, Step, vars, Create, Begin, BeginGet, GetByIDHit,
           GetByIDMiss, GetByIDFill, UpdateExisting, CallRouterGone, Save, SaveFails, Undo,
           Invalidate, Expire, Present, NoSecret
    <2> QED
      BY <1>2, <2>1 DEF CallRouter, Goto, SyncInv, TypeOK
  <1> QED
    BY <1>4, <1>5

(* A Create that fails leaves no secret behind (its rollback), for any number
   of concurrent requests and whatever fails, but for a Create that was cut
   off or lost the answer to its last router call. *)
THEOREM FailedCreateLeavesNothing == Spec => []NoOrphanSecret
  <1>1. Init => SecretHasCreate
    BY DEF Init, SecretHasCreate, Present, NoSecret
  <1>2. SyncInv /\ SecretHasCreate /\ [Next]_vars => SecretHasCreate'
    BY SecretHasCreateStep
  <1>3. SecretHasCreate => NoOrphanSecret
    BY DEF SecretHasCreate, NoOrphanSecret, Quiet
  <1> QED
    BY <1>1, <1>2, <1>3, SyncInvariant, PTL DEF Spec

-----------------------------------------------------------------------------
(* What concurrent requests do to the cache and to a terminated row. *)

(* What a miss has read is the row it caches, unless another request wrote the
   row meanwhile; a cached copy that is not the row any more is about to be
   dropped, or is known to have been kept. *)
FreshOrDropped ==
    /\ \A w \in Workers : pc[w] = "fill" /\ w \notin overtaken => copy[w] = row
    /\ cache \subseteq {Marshal(row)} \cup kept \/ \E w \in Workers : pc[w] = "drop"

(* A request ends, or goes on, without writing the row. *)
LEMMA FreshElsewhere ==
  ASSUME SyncInv, FreshOrDropped, row' = row, NEW w \in Workers,
         \A v \in Workers \ {w} : /\ pc'[v] = pc[v] /\ copy'[v] = copy[v]
                                  /\ v \in overtaken => v \in overtaken',
         pc'[w] = "fill" => copy'[w] = row,
         \/ cache' \subseteq {Marshal(row)} \cup kept'
         \/ cache' = cache /\ kept' = kept /\ pc[w] # "drop"
  PROVE  FreshOrDropped'
  <1>1. \A v \in Workers : pc'[v] = "fill" /\ v \notin overtaken' => copy'[v] = row'
    <2>1. ASSUME NEW v \in Workers, pc'[v] = "fill", v \notin overtaken' PROVE copy'[v] = row'
      <3>1. CASE v = w
        BY <2>1, <3>1
      <3>2. CASE v # w
        BY <2>1, <3>2 DEF FreshOrDropped
      <3> QED
        BY <3>1, <3>2
    <2> QED
      BY <2>1
  <1>2. cache' \subseteq {Marshal(row)} \cup kept' \/ \E v \in Workers : pc'[v] = "drop"
    <2>1. CASE cache' = cache /\ kept' = kept /\ pc[w] # "drop"
      <3>1. CASE cache \subseteq {Marshal(row)} \cup kept
        BY <2>1, <3>1
      <3>2. ASSUME NEW v \in Workers, pc[v] = "drop" PROVE pc'[v] = "drop"
        BY <2>1, <3>2
      <3> QED
        BY <3>1, <3>2 DEF FreshOrDropped
    <2> QED
      BY <2>1
  <1> QED
    BY <1>1, <1>2 DEF FreshOrDropped, Marshal

LEMMA FreshStep ==
  ASSUME SyncInv, FreshOrDropped, [Next]_vars
  PROVE  FreshOrDropped'
  <1>0. /\ DOMAIN pc = Workers /\ DOMAIN copy = Workers /\ overtaken \subseteq Workers
        /\ kept \subseteq cache
    BY DEF SyncInv, TypeOK
  <1>1. CASE UNCHANGED vars
    BY <1>1 DEF vars, past, FreshOrDropped, Marshal
  <1>2. CASE Expire
    BY <1>2 DEF Expire, FreshOrDropped, Marshal
  <1>3. ASSUME NEW w \in Workers, Request(w) PROVE FreshOrDropped'
    <2>1. /\ pc[w] = "idle" /\ pc'[w] \in {"router", "get"} /\ row' = row
          /\ UNCHANGED <<cache, past>>
          /\ \A v \in Workers \ {w} : pc'[v] = pc[v] /\ copy'[v] = copy[v]
      BY <1>0, <1>3 DEF Request, Create, Begin, BeginGet, Goto
    <2> QED
      BY <2>1, FreshElsewhere DEF past
  <1>4. ASSUME NEW w \in Workers, Done(w), row' = row,
               \/ cache' \subseteq {Marshal(row)} \cup kept'
               \/ cache' = cache /\ kept' = kept /\ pc[w] # "drop"
        PROVE  FreshOrDropped'
    <2>1. pc'[w] = "idle" /\ \A v \in Workers \ {w} : /\ pc'[v] = pc[v] /\ copy'[v] = copy[v]
                                                      /\ v \in overtaken => v \in overtaken'
      BY <1>0, <1>4 DEF Done, Goto
    <2> QED
      BY <1>4, <2>1, FreshElsewhere
  <1>5. ASSUME NEW w \in Workers, pc[w] # "drop", UNCHANGED <<row, cache, kept>>,
               NEW step \in {"existing", "router", "save", "undo"}, Goto(w, step),
               \A v \in Workers \ {w} : copy'[v] = copy[v], overtaken' = overtaken
        PROVE  FreshOrDropped'
    <2>1. pc'[w] # "fill" /\ \A v \in Workers \ {w} : pc'[v] = pc[v]
      BY <1>0, <1>5 DEF Goto
    <2> QED
      BY <1>5, <2>1, FreshElsewhere
  <1>6. ASSUME NEW w \in Workers, GetByIDHit(w) PROVE FreshOrDropped'
    <2>1. CASE Done(w)
      BY <1>4, <1>6, <2>1 DEF GetByIDHit
    <2>2. CASE ~Done(w)
      BY <1>0, <1>5, <1>6, <2>2 DEF GetByIDHit
    <2> QED
      BY <2>1, <2>2
  <1>7. ASSUME NEW w \in Workers, GetByIDMiss(w) PROVE FreshOrDropped'
    <2>1. CASE Done(w)
      BY <1>4, <1>7, <2>1 DEF GetByIDMiss
    <2>2. CASE ~Done(w)
      <3>1. /\ pc[w] = "get" /\ copy'[w] = row /\ UNCHANGED <<row, cache, kept, overtaken>>
            /\ \A v \in Workers \ {w} : pc'[v] = pc[v] /\ copy'[v] = copy[v]
        BY <1>0, <1>7, <2>2 DEF GetByIDMiss, Goto
      <3> QED
        BY <3>1, FreshElsewhere
    <2> QED
      BY <2>1, <2>2
  <1>8. ASSUME NEW w \in Workers, GetByIDFill(w) PROVE FreshOrDropped'
    <2>1. /\ pc[w] = "fill" /\ row' = row /\ pc'[w] \in {"idle", "existing"}
          /\ overtaken' = overtaken \ {w}
          /\ \A v \in Workers \ {w} : pc'[v] = pc[v] /\ copy'[v] = copy[v]
      BY <1>0, <1>8 DEF GetByIDFill, Done, Goto
    <2>2. \/ cache' \subseteq {Marshal(row)} \cup kept'
          \/ cache' = cache /\ kept' = kept
      <3>1. w \notin overtaken => copy[w] = row
        BY <2>1 DEF FreshOrDropped
      <3> QED
        BY <1>8, <3>1 DEF GetByIDFill
    <2> QED
      BY <2>1, <2>2, FreshElsewhere
  <1>9. ASSUME NEW w \in Workers, NEW p \in Plans, UpdateExisting(w, p) PROVE FreshOrDropped'
    <2>1. CASE Done(w)
      BY <1>4, <1>9, <2>1 DEF UpdateExisting
    <2>2. CASE ~Done(w)
      BY <1>0, <1>5, <1>9, <2>2 DEF UpdateExisting
    <2> QED
      BY <2>1, <2>2
  <1>10. ASSUME NEW w \in Workers, CallRouter(w) \/ CallRouterGone(w) \/ CallRouterFails(w)
         PROVE  FreshOrDropped'
    <2>1. CASE CallRouter(w)
      BY <1>5, <2>1 DEF CallRouter, past
    <2>2. CASE CallRouterGone(w) \/ CallRouterFails(w)
      BY <1>4, <2>2 DEF CallRouterGone, CallRouterFails
    <2> QED
      BY <1>10, <2>1, <2>2
  <1>11. ASSUME NEW w \in Workers, Save(w) PROVE FreshOrDropped'
    <2>1. /\ pc[w] = "save" /\ pc'[w] = "drop" /\ copy' = copy
          /\ \A v \in Workers \ {w} : pc'[v] = pc[v]
      BY <1>0, <1>11 DEF Save, Goto
    <2>2. ASSUME NEW v \in Workers, pc'[v] = "fill", v \notin overtaken' PROVE copy[v] = row'
      <3>1. v # w /\ pc[v] = "fill"
        BY <2>1, <2>2
      <3>2. row' = row /\ v \notin overtaken
        BY <1>11, <2>2, <3>1 DEF Save
      <3> QED
        BY <3>1, <3>2 DEF FreshOrDropped
    <2> QED
      BY <2>1, <2>2 DEF FreshOrDropped
  <1>12. ASSUME NEW w \in Workers, SaveFails(w) \/ Undo(w) \/ UndoFails(w) PROVE FreshOrDropped'
    <2>1. CASE Done(w)
      BY <1>4, <1>12, <2>1 DEF SaveFails, Undo, UndoFails
    <2>2. CASE ~Done(w)
      BY <1>5, <1>12, <2>2 DEF SaveFails, Undo, UndoFails
    <2> QED
      BY <2>1, <2>2
  <1>13. ASSUME NEW w \in Workers, Invalidate(w) \/ Crash(w) PROVE FreshOrDropped'
    BY <1>4, <1>13 DEF Invalidate, Crash
  <1> QED
    BY <1>1, <1>2, <1>3, <1>6, <1>7, <1>8, <1>9, <1>10, <1>11, <1>12, <1>13 DEF Next, Step

(* For any number of requests, whatever fails or dies: with nobody on the way
   to drop it, the cached copy is the row, unless a miss stored it after
   another request had written the row, or the request that was to drop it
   died or met an error (GetByID, invalidateSub). *)
THEOREM CacheStaysFresh == Spec => []CacheIsFresh
  <1>1. Init => FreshOrDropped
    BY DEF Init, FreshOrDropped
  <1>2. SyncInv /\ FreshOrDropped /\ [Next]_vars => FreshOrDropped'
    BY FreshStep
  <1>3. FreshOrDropped => CacheIsFresh
    BY DEF FreshOrDropped, CacheIsFresh
  <1> QED
    BY <1>1, <1>2, <1>3, SyncInvariant, PTL DEF Spec

(* Whoever is about to write a terminated row was past the router when another
   request terminated it. *)
NoWriteAfterEnd ==
    row.status = "terminated" => \A w \in Workers : pc[w] = "save" => w \in overtaken

(* The row is written by Save alone. *)
LEMMA SaveWrites ==
  ASSUME SyncInv, [Next]_vars, \A w \in Workers : ~Save(w)
  PROVE  row' = row
  BY DEF Next, Request, Step, vars, Create, Begin, BeginGet, GetByIDHit, GetByIDMiss, GetByIDFill,
         UpdateExisting, CallRouter, CallRouterGone, CallRouterFails, SaveFails, Undo, UndoFails,
         Invalidate, Expire, Crash

LEMMA NoWriteAfterEndStep ==
  ASSUME SyncInv, NoWriteAfterEnd, [Next]_vars
  PROVE  NoWriteAfterEnd'
  <1>0. DOMAIN pc = Workers /\ overtaken \subseteq Workers
    BY DEF SyncInv, TypeOK
  <1>1. ASSUME NEW w \in Workers, Save(w) PROVE NoWriteAfterEnd'
    <2>1. /\ pc' = [pc EXCEPT ![w] = "drop"]
          /\ overtaken' = IF row' = row THEN overtaken
                          ELSE overtaken \cup {v \in Workers \ {w} : pc[v] \in {"fill", "save"}}
      BY <1>1 DEF Save, Goto
    <2>2. CASE row' = row
      BY <1>0, <2>1, <2>2 DEF NoWriteAfterEnd
    <2>3. CASE row' # row
      BY <1>0, <2>1, <2>3 DEF NoWriteAfterEnd
    <2> QED
      BY <2>2, <2>3
  <1>2. ASSUME row' = row,
               \A v \in Workers : pc'[v] = "save" /\ row.status = "terminated" =>
                  pc[v] = "save" /\ (v \in overtaken => v \in overtaken')
        PROVE  NoWriteAfterEnd'
    BY <1>2 DEF NoWriteAfterEnd
  <1>3. ASSUME NEW w \in Workers, row' = row, Done(w) PROVE NoWriteAfterEnd'
    BY <1>0, <1>2, <1>3 DEF Done, Goto
  <1>4. ASSUME NEW w \in Workers, row' = row,
               NEW step \in {"get", "fill", "existing", "router", "undo"}, Goto(w, step),
               overtaken' = overtaken \/ overtaken' = overtaken \ {w}
        PROVE  NoWriteAfterEnd'
    BY <1>0, <1>2, <1>4 DEF Goto
  <1>5. ASSUME NEW w \in Workers, CallRouter(w) PROVE NoWriteAfterEnd'
    <2>1. op[w] = "create" => row.status = "absent"
      BY <1>5 DEF CallRouter, SyncInv, OnlyCreateBefore
    <2>2. row.status # "terminated"
      BY <1>5, <2>1 DEF CallRouter, Reachable, SyncInv, TerminatedIsCutOff
    <2> QED
      BY <1>2, <1>5, <2>2 DEF CallRouter
  <1>6. ASSUME NEW w \in Workers, Request(w) PROVE NoWriteAfterEnd'
    BY <1>4, <1>6 DEF Request, Create, Begin, BeginGet, past
  <1>7. ASSUME NEW w \in Workers, NEW p \in Plans,
               \/ GetByIDHit(w) \/ GetByIDMiss(w) \/ GetByIDFill(w) \/ UpdateExisting(w, p)
        PROVE  NoWriteAfterEnd'
    BY <1>3, <1>4, <1>7 DEF GetByIDHit, GetByIDMiss, GetByIDFill, UpdateExisting
  <1>8. ASSUME NEW w \in Workers, \/ CallRouterGone(w) \/ CallRouterFails(w) \/ SaveFails(w)
                                  \/ Undo(w) \/ UndoFails(w) \/ Invalidate(w) \/ Crash(w)
        PROVE  NoWriteAfterEnd'
    BY <1>3, <1>4, <1>8 DEF CallRouterGone, CallRouterFails, SaveFails, Undo, UndoFails, Invalidate,
       Crash
  <1>9. CASE Expire \/ UNCHANGED vars
    BY <1>2, <1>9 DEF Expire, vars, past
  <1>10. PICK p \in Plans : TRUE
    BY SyncAssumption
  <1> QED
    BY <1>1, <1>5, <1>6, <1>7, <1>8, <1>9, <1>10 DEF Next, Step

(* For any number of requests, whatever fails and wherever one is cut off, a
   terminated subscription comes back only through a request that was past the
   router when another terminated it: without a secret on the router no other
   gets as far as the write (validTransitions). *)
THEOREM TerminatedForGood == Spec => TerminatedIsFinal
  <1>1. Init => NoWriteAfterEnd
    BY DEF Init, NoWriteAfterEnd, NoRow
  <1>2. SyncInv /\ NoWriteAfterEnd /\ [Next]_vars => NoWriteAfterEnd'
    BY NoWriteAfterEndStep
  <1>3. ASSUME SyncInv, NoWriteAfterEnd, [Next]_vars,
               row.status = "terminated", row'.status # "terminated"
        PROVE  \E w \in overtaken : pc[w] = "save" /\ pc'[w] = "drop"
    <2>1. PICK w \in Workers : Save(w)
      BY <1>3, SaveWrites
    <2> QED
      BY <1>3, <2>1 DEF Save, Goto, NoWriteAfterEnd, SyncInv, TypeOK
  <1>4. SyncInv /\ NoWriteAfterEnd /\ [Next]_vars =>
           [row.status = "terminated" /\ row'.status # "terminated" =>
              \E w \in overtaken : pc[w] = "save" /\ pc'[w] = "drop"]_vars
    BY <1>3
  <1> QED
    BY <1>1, <1>2, <1>4, SyncInvariant, PTL DEF Spec, TerminatedIsFinal
=============================================================================
