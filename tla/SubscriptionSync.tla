--------------------------- MODULE SubscriptionSync ---------------------------
(***************************************************************************)
(* One subscription in its three places: the database row, the PPP secret  *)
(* on the MikroTik router and the cached copy in Redis, with the requests  *)
(* that move it (internal/service/subscription_service.go, driven by       *)
(* subscription_handler.go, customer_service.go and the schedulers).       *)
(*                                                                         *)
(* Every operation reads the row, calls the router, then saves the WHOLE   *)
(* row it read and drops the cached copy.  Nothing spans these steps: no   *)
(* transaction, no lock, no version column.                                *)
(***************************************************************************)
EXTENDS Naturals

CONSTANTS
    Workers,       \* concurrent requests and scheduler jobs
    Plans,         \* bandwidth profiles of the router
    RouterFaults,  \* TRUE: a router call may fail, with or without effect
    DbFaults,      \* TRUE: a database write, or a call of Redis, may fail
    Crashes        \* TRUE: a request may end between two of its steps

ASSUME SyncAssumption ==
    /\ Plans # {}
    /\ "isolate" \notin Plans
    /\ RouterFaults \in BOOLEAN /\ DbFaults \in BOOLEAN /\ Crashes \in BOOLEAN

VARIABLES
    row,      \* subscriptions table
    secret,   \* /ppp/secret on the router
    cache,    \* the Redis copy: a set with at most one row
    pc, op,   \* where each worker stands, and in which operation
    copy,     \* the row the worker holds
    old,      \* Update's existingSub
    overtaken, \* history: workers between reading the row and storing it in the
               \* cache, or between the router and the database, in whose time
               \* another worker wrote the row
    kept,     \* history: the cached copy, once a worker that was overtaken has
              \* stored it or one that was to drop it has died or failed to
    orphan    \* history: a Create that was cut off, or whose last router call
              \* failed, has left a secret without a row

past == <<overtaken, kept, orphan>>
vars == <<row, secret, cache, pc, op, copy, old, past>>

Statuses == {"absent", "pending", "active", "suspended", "isolated",
             "terminated", "deleted"}

(* pw: "kept" or "empty", the password column *)
Row    == [status : Statuses, plan : Plans, pw : {"kept", "empty"}]
Secret == [state : {"gone", "disabled", "enabled"}, profile : Plans \cup {"isolate"}]

AnyPlan == CHOOSE p \in Plans : TRUE
NoRow   == [status |-> "absent", plan |-> AnyPlan, pw |-> "kept"]
NoSecret == [state |-> "gone", profile |-> AnyPlan]
Present == secret.state # "gone"

Changes == {"activate", "isolate", "restore", "suspend", "terminate", "delete"}
Ops     == Changes \cup {"create", "update", "get"}

TypeOK ==
    /\ row \in Row
    /\ secret \in Secret
    /\ cache \in SUBSET Row /\ \A r, s \in cache : r = s
    /\ pc \in [Workers -> {"idle", "get", "fill", "existing", "router", "save",
                           "undo", "drop"}]
    /\ op \in [Workers -> Ops]
    /\ copy \in [Workers -> Row]
    /\ old \in [Workers -> Row]
    /\ overtaken \subseteq Workers
    /\ kept \subseteq cache
    /\ orphan \in BOOLEAN

Init ==
    /\ row = NoRow
    /\ secret = NoSecret
    /\ cache = {}
    /\ pc = [w \in Workers |-> "idle"]
    /\ op = [w \in Workers |-> "get"]
    /\ copy = [w \in Workers |-> NoRow]
    /\ old = [w \in Workers |-> NoRow]
    /\ overtaken = {} /\ kept = {} /\ orphan = FALSE

-----------------------------------------------------------------------------
Goto(w, step) == pc' = [pc EXCEPT ![w] = step]

Done(w) ==
    /\ Goto(w, "idle")
    /\ op'   = [op   EXCEPT ![w] = "get"]
    /\ copy' = [copy EXCEPT ![w] = NoRow]
    /\ old'  = [old  EXCEPT ![w] = NoRow]
    /\ overtaken' = overtaken \ {w}

(* A request that ends badly: is there a secret now that has no row? *)
LeftBehind == orphan' = (row'.status = "absent" /\ Present')

Found(r) == r.status \notin {"absent", "deleted"}

(* domain/subscription: validTransitions.  Only Activate consults it.  No
   operation of the service produces the status "expired". *)
validTransitions ==
    [pending    |-> {"active", "terminated"},
     active     |-> {"suspended", "isolated", "terminated"},
     suspended  |-> {"active", "isolated", "terminated"},
     isolated   |-> {"active", "suspended", "terminated"},
     terminated |-> {}]

ValidateStatusTransition(from, to) == to \in validTransitions[from]

(* What each operation checks in the row it has read *)
Guard(o, r) ==
    /\ o = "activate" => ValidateStatusTransition(r.status, "active")
    /\ o = "isolate"  => r.status # "isolated"

-----------------------------------------------------------------------------
(* The router.  UpdateSecret sends disabled=no whenever the caller leaves
   PPPSecret.Disabled unset, which every caller does: it enables. *)

UpdateSecret(profile) == [state |-> "enabled", profile |-> profile]

(* The secret after the router call of an operation.  AddSecret, like
   UpdateSecret, sends disabled=no. *)
RouterEffect(o, r) ==
    CASE o = "activate" -> [secret EXCEPT !.state = "enabled"]
      [] o = "suspend"  -> [secret EXCEPT !.state = "disabled"]
      [] o = "isolate"  -> UpdateSecret("isolate")
      [] o \in {"create", "restore", "update"} -> UpdateSecret(r.plan)
      [] o \in {"terminate", "delete"} -> NoSecret

(* The status the operation writes. *)
NewStatus(o, r) ==
    CASE o = "create"    -> "pending"
      [] o \in {"activate", "restore"} -> "active"
      [] o = "suspend"   -> "suspended"
      [] o = "isolate"   -> "isolated"
      [] o = "terminate" -> "terminated"
      [] o = "delete"    -> "deleted"
      [] o = "update"    -> r.status

-----------------------------------------------------------------------------
(* Starting *)

(* Create: the row does not exist yet; the router comes first.  Another Create
   makes another row, so at most one is under way for this one. *)
Create(w, p) ==
    /\ pc[w] = "idle"
    /\ row.status = "absent"
    /\ \A v \in Workers : op[v] # "create"
    /\ ~Present              \* createInMikroTik: the username is free
    /\ Goto(w, "router")
    /\ op'   = [op EXCEPT ![w] = "create"]
    /\ copy' = [copy EXCEPT ![w] = [NoRow EXCEPT !.plan = p]]
    /\ UNCHANGED <<row, secret, cache, old, past>>

(* Activate, Isolate, Restore, Suspend, Terminate, Delete: read the row. *)
Begin(w, o) ==
    /\ pc[w] = "idle"
    /\ Found(row)
    /\ Guard(o, row)
    /\ Goto(w, "router")
    /\ op'   = [op EXCEPT ![w] = o]
    /\ copy' = [copy EXCEPT ![w] = row]
    /\ UNCHANGED <<row, secret, cache, old, past>>

(* The Get and Update handlers both start with the cache-aside GetByID. *)
BeginGet(w, o) ==
    /\ pc[w] = "idle"
    /\ row.status # "absent"
    /\ Goto(w, "get")
    /\ op' = [op EXCEPT ![w] = o]
    /\ UNCHANGED <<row, secret, cache, copy, old, past>>

(* What json.Marshal keeps of a row: Password is tagged json:"-". *)
Marshal(r) == [r EXCEPT !.pw = "empty"]

(* A hit: the cached copy is the answer. *)
GetByIDHit(w) ==
    /\ pc[w] = "get"
    /\ cache # {}
    /\ \/ op[w] = "get" /\ Done(w)
       \/ /\ op[w] = "update"
          /\ Goto(w, "existing")
          /\ \E r \in cache : copy' = [copy EXCEPT ![w] = r]
          /\ UNCHANGED <<op, old, overtaken>>
    /\ UNCHANGED <<row, secret, cache, kept, orphan>>

(* A miss, for which an error of Redis is taken too: read the row ... *)
GetByIDMiss(w) ==
    /\ pc[w] = "get"
    /\ cache = {} \/ DbFaults
    /\ \/ /\ Found(row)
          /\ Goto(w, "fill")
          /\ copy' = [copy EXCEPT ![w] = row]
          /\ UNCHANGED <<op, old, overtaken>>
       \/ ~Found(row) /\ Done(w)
    /\ UNCHANGED <<row, secret, cache, kept, orphan>>

(* fault: each fill stores one more copy *)
MutFill(w) ==
    /\ pc[w] = "fill"
    /\ cache' = cache \cup {Marshal(copy[w])}
    /\ kept' = IF w \in overtaken THEN cache' ELSE {}
    /\ \/ op[w] = "get" /\ Done(w)
       \/ /\ op[w] = "update"
          /\ Goto(w, "existing")
          /\ overtaken' = overtaken \ {w}
          /\ UNCHANGED <<op, copy, old>>
    /\ UNCHANGED <<row, secret, orphan>>

(* ... and store it, whatever has become of the row meanwhile; an error is
   ignored. *)
GetByIDFill(w) ==
    /\ pc[w] = "fill"
    /\ \/ /\ cache' = {Marshal(copy[w])}
          /\ kept' = IF w \in overtaken THEN cache' ELSE {}
       \/ /\ DbFaults
          /\ UNCHANGED <<cache, kept>>
    /\ \/ op[w] = "get" /\ Done(w)
       \/ /\ op[w] = "update"
          /\ Goto(w, "existing")
          /\ overtaken' = overtaken \ {w}
          /\ UNCHANGED <<op, copy, old>>
    /\ UNCHANGED <<row, secret, orphan>>

(* Update: ApplyTo changes the fields the request names (the plan here), then
   the service reads the row once more, for the router lookup and the undo. *)
UpdateExisting(w, p) ==
    /\ pc[w] = "existing"
    /\ \/ /\ Found(row)
          /\ Goto(w, "router")
          /\ copy' = [copy EXCEPT ![w].plan = p]
          /\ old' = [old EXCEPT ![w] = row]
          /\ UNCHANGED <<op, overtaken>>
       \/ ~Found(row) /\ Done(w)
    /\ UNCHANGED <<row, secret, cache, kept, orphan>>

-----------------------------------------------------------------------------
(* The router call *)

(* The stored RouterOS id answers as long as the secret is there. *)
Reachable(w) == op[w] = "create" \/ Present

CallRouter(w) ==
    /\ pc[w] = "router"
    /\ Reachable(w)
    /\ secret' = RouterEffect(op[w], copy[w])
    /\ Goto(w, "save")
    /\ UNCHANGED <<row, cache, op, copy, old, past>>

(* fault: a secret that is gone is no error *)
MutGone(w) ==
    /\ pc[w] = "router"
    /\ ~Reachable(w)
    /\ Goto(w, "save")
    /\ UNCHANGED <<row, secret, cache, op, copy, old, past>>

(* The secret is gone ("no such item"): every operation returns the error. *)
CallRouterGone(w) ==
    /\ pc[w] = "router"
    /\ ~Reachable(w)
    /\ Done(w)
    /\ UNCHANGED <<row, secret, cache, kept, orphan>>

(* fault: the error of the router is ignored *)
MutFails(w) ==
    /\ RouterFaults
    /\ pc[w] = "router"
    /\ Reachable(w)
    /\ Goto(w, "save")
    /\ UNCHANGED <<row, secret, cache, op, copy, old, past>>

(* The call fails, or takes effect and its reply is lost. *)
CallRouterFails(w) ==
    /\ RouterFaults
    /\ pc[w] = "router"
    /\ Reachable(w)
    /\ secret' \in {secret, RouterEffect(op[w], copy[w])}
    /\ Done(w)
    /\ UNCHANGED <<row, cache, kept>>
    /\ LeftBehind

-----------------------------------------------------------------------------
(* The database write.  Save writes every column of the struct; when no live
   row matches it inserts with ON CONFLICT DO UPDATE, so it also revives a
   row that has been deleted since.  Delete marks the row it finds. *)

Save(w) ==
    /\ pc[w] = "save"
    /\ row' = [(IF op[w] = "delete" THEN row ELSE copy[w])
                  EXCEPT !.status = NewStatus(op[w], copy[w])]
    /\ Goto(w, "drop")
    /\ overtaken' = IF row' = row THEN overtaken
                    ELSE overtaken \cup {v \in Workers \ {w} : pc[v] \in {"fill", "save"}}
    /\ UNCHANGED <<secret, cache, op, copy, old, kept, orphan>>

(* It fails: Create and Update take back what they did on the router. *)
SaveFails(w) ==
    /\ DbFaults
    /\ pc[w] = "save"
    /\ \/ /\ op[w] \in {"create", "update"}
          /\ Goto(w, "undo")
          /\ UNCHANGED <<op, copy, old, overtaken>>
       \/ /\ op[w] \notin {"create", "update"}
          /\ Done(w)
    /\ UNCHANGED <<row, secret, cache, kept, orphan>>

(* fault: no undo *)
MutUndo(w) ==
    /\ pc[w] = "undo"
    /\ Done(w)
    /\ UNCHANGED <<row, secret, cache, kept, orphan>>

(* Create removes the secret, Update writes the old plan again; if the secret
   is gone by then the call fails and its error is ignored. *)
Undo(w) ==
    /\ pc[w] = "undo"
    /\ secret' = IF Present /\ op[w] = "update" THEN UpdateSecret(old[w].plan)
                 ELSE NoSecret
    /\ Done(w)
    /\ UNCHANGED <<row, cache, kept, orphan>>

(* The undo's own router call fails; its error is ignored. *)
UndoFails(w) ==
    /\ RouterFaults
    /\ pc[w] = "undo"
    /\ Done(w)
    /\ UNCHANGED <<row, secret, cache, kept>>
    /\ LeftBehind

(* fault: the cached copy is kept *)
MutInvalidate(w) ==
    /\ pc[w] = "drop"
    /\ Done(w)
    /\ UNCHANGED <<row, secret, cache, kept, orphan>>

(* invalidateSub: drop the cached copy, an error being ignored; the request is
   over. *)
Invalidate(w) ==
    /\ pc[w] = "drop"
    /\ \/ cache' = {} /\ kept' = {}
       \/ DbFaults /\ kept' = cache /\ UNCHANGED cache
    /\ Done(w)
    /\ UNCHANGED <<row, secret, orphan>>

(* The time to live of the cached copy runs out. *)
Expire ==
    /\ cache # {}
    /\ cache' = {} /\ kept' = {}
    /\ UNCHANGED <<row, secret, pc, op, copy, old, overtaken, orphan>>

(* The client goes away or the process dies. *)
Crash(w) ==
    /\ Crashes
    /\ pc[w] # "idle"
    /\ Done(w)
    /\ kept' = IF pc[w] = "drop" THEN cache ELSE kept
    /\ UNCHANGED <<row, secret, cache>>
    /\ LeftBehind

-----------------------------------------------------------------------------
Request(w) ==
    \/ \E p \in Plans : Create(w, p)
    \/ \E o \in Changes : Begin(w, o)
    \/ \E o \in {"get", "update"} : BeginGet(w, o)

Step(w) ==
    \/ GetByIDHit(w)
    \/ GetByIDMiss(w)
    \/ GetByIDFill(w)
    \/ \E p \in Plans : UpdateExisting(w, p)
    \/ CallRouter(w)
    \/ CallRouterGone(w)
    \/ CallRouterFails(w)
    \/ Save(w)
    \/ SaveFails(w)
    \/ Undo(w)
    \/ UndoFails(w)
    \/ Invalidate(w)

Next == Expire \/ \E w \in Workers : Request(w) \/ Step(w) \/ Crash(w)

Spec == Init /\ [][Next]_vars

-----------------------------------------------------------------------------
(* Properties *)

(* A subscription the database shows as terminated or deleted has no secret
   left on the router, whatever failed, crashed or ran at the same time:
   Terminate and Delete write the database only after the router removed it. *)
TerminatedIsCutOff == row.status \in {"terminated", "deleted"} => ~Present

(* Why: until the row exists nobody but its one Create is at work on it;
   afterwards nothing adds a secret, so whoever has seen the subscription end,
   in a row, a cached copy or an answer of the router, has seen it for good. *)
Ended == {"terminated", "deleted"}

OnlyCreateBefore ==
    /\ row.status = "absent" =>
          /\ cache = {}
          /\ \A w \in Workers : pc[w] # "idle" => op[w] = "create"
    /\ \A w \in Workers :
          /\ op[w] = "create" => pc[w] = "drop" \/ row.status = "absent"
          /\ op[w] = "create" \/ pc[w] = "idle" => copy[w].status = "absent"
    /\ \A v, w \in Workers : op[v] = "create" /\ op[w] = "create" => v = w

StepsOfOps ==
    \A w \in Workers :
        /\ pc[w] \in {"get", "fill"} => op[w] \in {"get", "update"}
        /\ pc[w] = "existing" => op[w] = "update"
        /\ pc[w] \in {"router", "save"} => op[w] # "get"
        /\ pc[w] = "undo" => op[w] \in {"create", "update"}

EndIsSeenForGood ==
    /\ \A r \in cache : r.status # "absent" /\ (r.status \in Ended => ~Present)
    /\ \A w \in Workers :
          /\ copy[w].status \in Ended => ~Present
          /\ op[w] \in {"terminate", "delete"} /\ pc[w] = "save" => ~Present
          /\ pc[w] \in {"fill", "existing", "router", "save", "undo"} =>
                op[w] = "create" \/ copy[w].status # "absent"

SyncInv ==
    TypeOK /\ StepsOfOps /\ OnlyCreateBefore /\ EndIsSeenForGood /\ TerminatedIsCutOff

Quiet == \A w \in Workers : pc[w] = "idle"

(* A Create that fails leaves no secret behind ("Rollback: remove from
   MikroTik"), unless it was cut off, the answer to its router call was lost or
   the undo failed too. *)
NoOrphanSecret == Quiet /\ row.status = "absent" /\ Present => orphan

(* With nobody on the way to drop it, the cached copy is the row (without its
   password), but for one that a miss stored after another request had written
   the row, or that a request which died or met an error of Redis had been
   about to drop. *)
CacheIsFresh ==
    (\A w \in Workers : pc[w] # "drop") => cache \subseteq {Marshal(row)} \cup kept

(* A terminated subscription comes back only through a request that had called
   the router before it was terminated and saves the row it read earlier still
   (validTransitions: "terminated" allows nothing): whoever calls the router
   after it finds the secret gone and gives up. *)
TerminatedIsFinal ==
    [][ row.status = "terminated" /\ row'.status # "terminated" =>
          \E w \in overtaken : pc[w] = "save" /\ pc'[w] = "drop" ]_vars
=============================================================================
