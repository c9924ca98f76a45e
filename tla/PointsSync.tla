------------------------------ MODULE PointsSync ------------------------------
(***************************************************************************)
(* The points credit sync of gpuf-s (points_sync/mod.rs): workers that turn*)
(* the settled device points of each user into credit, through a table of  *)
(* cumulative targets and an HTTP credit service.                          *)
(*                                                                         *)
(* A row of device_points_credit_sync is named by the user and the         *)
(* cumulative target it reaches; the same name is the biz_no under which   *)
(* the credit service grants at most once.  Points are abstracted to the   *)
(* target they amount to (FLOOR(SUM(points * scale))).                     *)
(***************************************************************************)
EXTENDS Integers, FiniteSets, FiniteSetsExt

CONSTANTS
    Users, Workers,
    MaxTarget,    \* bound: largest cumulative target of a user
    MaxCredit,    \* largest credit of one grant (2147483647 in the code)
    BatchSize,    \* points_credit_sync_batch_size
    MaxAttempts,  \* points_credit_sync_max_attempts
    Faults,       \* which kinds of fault may happen
    MaxFaults,    \* bound: how many
    None

Targets == 1..MaxTarget
Keys == Users \X Targets
Statuses == {"pending", "failed", "synced", "superseded"}
Row == [status : Statuses, amount : Nat, attempts : Nat]
Item == [key : Keys, amount : Nat]

FaultKinds == {"refuse", "reply", "db", "crash", "lock"}

ASSUME PointsAssumption ==
    /\ MaxTarget \in Nat /\ MaxCredit \in Nat \ {0} /\ BatchSize \in Nat \ {0}
    /\ MaxAttempts \in Nat \ {0} /\ MaxFaults \in Nat
    /\ Faults \subseteq FaultKinds
    /\ None \notin Int /\ None \notin Workers /\ None \notin Row /\ None \notin Item

VARIABLES
    target,  \* Users -> target_credit_amount, None while the user has no settled points
    earned,  \* history: Users -> highest target so far
    rows,    \* device_points_credit_sync: Keys -> row or None
    synced,  \* Users -> SUM(credit_amount) over the user's synced rows
    seen,    \* credit service: the biz_nos it has granted
    total,   \* credit service: Users -> credit granted
    lock,    \* worker whose connection holds the advisory lock, or None
    pc,      \* Workers -> where run_once is
    batch,   \* Workers -> items still to be granted
    cur,     \* Workers -> item whose outcome is to be recorded, or None
    faults   \* how many faults have happened

rowVars == <<rows, synced>>
svcVars == <<seen, total>>
runVars == <<lock, pc, batch, cur>>
vars == <<target, earned, rowVars, svcVars, runVars, faults>>

Open(r) == r # None /\ r.status \in {"pending", "failed"}

Fault(kind) ==
    /\ kind \in Faults /\ faults < MaxFaults
    /\ faults' = faults + 1

Init ==
    /\ target = [u \in Users |-> None]
    /\ earned = [u \in Users |-> 0]
    /\ rows = [k \in Keys |-> None]
    /\ synced = [u \in Users |-> 0]
    /\ seen = {}
    /\ total = [u \in Users |-> 0]
    /\ lock = None
    /\ pc = [w \in Workers |-> "idle"]
    /\ batch = [w \in Workers |-> {}]
    /\ cur = [w \in Workers |-> None]
    /\ faults = 0

\* A day is settled, yesterday's points are refreshed, or a device changes owner.
Refresh(u, t) ==
    /\ target[u] # t
    /\ target' = [target EXCEPT ![u] = t]
    /\ earned' = [earned EXCEPT ![u] = IF t > @ THEN t ELSE @]
    /\ UNCHANGED <<rowVars, svcVars, runVars, faults>>

-----------------------------------------------------------------------------
(* run_once.                                                                *)

\* Variant: no lock is taken.
Begin_NoLock(w) ==
    /\ pc[w] = "idle"
    /\ lock' = w
    /\ pc' = [pc EXCEPT ![w] = "stage"]
    /\ UNCHANGED <<target, earned, rowVars, svcVars, batch, cur, faults>>

\* pg_try_advisory_lock; a worker that does not get it skips this run.
Begin(w) ==
    /\ pc[w] = "idle" /\ lock = None
    /\ lock' = w
    /\ pc' = [pc EXCEPT ![w] = "stage"]
    /\ UNCHANGED <<target, earned, rowVars, svcVars, batch, cur, faults>>

\* credit_amount of current_targets
credit_amount(u) == target[u] - synced[u]

\* Variant: rows of earlier targets stay pending beside the new one.
superseded_None(k) == FALSE

\* The open rows of a user that its current target replaces.
superseded(k) ==
    /\ target[k[1]] # None /\ Open(rows[k])
    /\ credit_amount(k[1]) <= 0 \/ k[2] # target[k[1]]

\* The rows that are inserted, or updated if they are open.
inserted(k) ==
    /\ k[2] = target[k[1]]
    /\ credit_amount(k[1]) \in 1..MaxCredit
    /\ rows[k] = None \/ Open(rows[k])

\* Variant: the whole target is granted again instead of the difference.
staged_Whole(k) ==
    IF rows[k] = None
    THEN [status |-> "pending", amount |-> target[k[1]], attempts |-> 0]
    ELSE [rows[k] EXCEPT !.amount = target[k[1]]]

\* INSERT ... ON CONFLICT DO UPDATE, which leaves status and attempts alone.
staged(k) ==
    IF rows[k] = None
    THEN [status |-> "pending", amount |-> credit_amount(k[1]), attempts |-> 0]
    ELSE [rows[k] EXCEPT !.amount = credit_amount(k[1])]

\* stage_ready_points, one SQL statement.
stage_ready_points(w) ==
    /\ pc[w] = "stage"
    /\ rows' = [k \in Keys |-> CASE superseded(k) -> [rows[k] EXCEPT !.status = "superseded"]
                                 [] inserted(k)   -> staged(k)
                                 [] OTHER         -> rows[k]]
    /\ pc' = [pc EXCEPT ![w] = "load"]
    /\ UNCHANGED <<target, earned, synced, svcVars, lock, batch, cur, faults>>

\* The rows load_pending_items may return.
Pending == {k \in Keys : Open(rows[k]) /\ rows[k].attempts < MaxAttempts}

\* load_pending_items: at most batch_size of them (the order is left open).
load_pending_items(w) ==
    /\ pc[w] = "load"
    /\ \E ks \in SUBSET Pending :
          /\ Cardinality(ks) = Min({BatchSize, Cardinality(Pending)})
          /\ batch' = [batch EXCEPT ![w] = {[key |-> k, amount |-> rows[k].amount] : k \in ks}]
    /\ pc' = [pc EXCEPT ![w] = "grant"]
    /\ UNCHANGED <<target, earned, rowVars, svcVars, lock, cur, faults>>

\* The credit service: a biz_no is granted once, a repetition is acknowledged.
Service(it) ==
    IF it.key \in seen
    THEN UNCHANGED svcVars
    ELSE /\ seen' = seen \cup {it.key}
         /\ total' = [total EXCEPT ![it.key[1]] = @ + it.amount]

\* grant_credit succeeds, ...
grant_credit(w, it) ==
    /\ pc[w] = "grant" /\ it \in batch[w]
    /\ Service(it)
    /\ batch' = [batch EXCEPT ![w] = @ \ {it}]
    /\ cur' = [cur EXCEPT ![w] = it]
    /\ pc' = [pc EXCEPT ![w] = "synced"]
    /\ UNCHANGED <<target, earned, rowVars, lock, faults>>

\* ... or fails: refused or not reached; or granted, but the answer is an error
\* status, cannot be decoded or comes after request_timeout_secs.
grant_credit_fails(w, it) ==
    /\ pc[w] = "grant" /\ it \in batch[w]
    /\ \/ Fault("refuse") /\ UNCHANGED svcVars
       \/ Fault("reply") /\ Service(it)
    /\ batch' = [batch EXCEPT ![w] = @ \ {it}]
    /\ cur' = [cur EXCEPT ![w] = it]
    /\ pc' = [pc EXCEPT ![w] = "failed"]
    /\ UNCHANGED <<target, earned, rowVars, lock>>

\* mark_synced and mark_failed name the row and nothing else; SUM follows.
SetRow(k, r) ==
    /\ rows' = [rows EXCEPT ![k] = r]
    /\ synced' = [synced EXCEPT ![k[1]] =
          @ + (IF r.status = "synced" THEN r.amount ELSE 0)
            - (IF rows[k].status = "synced" THEN rows[k].amount ELSE 0)]

\* Variant: an answer with success = false is recorded like a grant.
mark_failed_AsSynced(w) ==
    /\ pc[w] = "failed"
    /\ SetRow(cur[w].key, [rows[cur[w].key] EXCEPT !.status = "synced"])

mark_synced(w) ==
    /\ pc[w] = "synced"
    /\ SetRow(cur[w].key, [rows[cur[w].key] EXCEPT !.status = "synced"])

mark_failed(w) ==
    /\ pc[w] = "failed"
    /\ SetRow(cur[w].key, [rows[cur[w].key] EXCEPT !.status = "failed", !.attempts = @ + 1])

\* The outcome of the item is recorded.
Record(w) ==
    /\ mark_synced(w) \/ mark_failed(w)
    /\ cur' = [cur EXCEPT ![w] = None]
    /\ pc' = [pc EXCEPT ![w] = "grant"]
    /\ UNCHANGED <<target, earned, svcVars, lock, batch, faults>>

\* Variant: `?` leaves run_once itself, past the unlock.
DbFails_KeepLock(w) ==
    /\ pc[w] \in {"stage", "load", "synced", "failed"} /\ Fault("db")
    /\ batch' = [batch EXCEPT ![w] = {}]
    /\ cur' = [cur EXCEPT ![w] = None]
    /\ pc' = [pc EXCEPT ![w] = "idle"]
    /\ UNCHANGED <<target, earned, rowVars, svcVars, lock>>

\* A statement fails: `?` leaves the run, and an outcome not yet recorded is lost.
DbFails(w) ==
    /\ pc[w] \in {"stage", "load", "synced", "failed"} /\ Fault("db")
    /\ pc[w] = "synced" => "reply" \in Faults
    /\ batch' = [batch EXCEPT ![w] = {}]
    /\ cur' = [cur EXCEPT ![w] = None]
    /\ pc' = [pc EXCEPT ![w] = "unlock"]
    /\ UNCHANGED <<target, earned, rowVars, svcVars, lock>>

\* All items done.
Finish(w) ==
    /\ pc[w] = "grant" /\ batch[w] = {}
    /\ pc' = [pc EXCEPT ![w] = "unlock"]
    /\ UNCHANGED <<target, earned, rowVars, svcVars, lock, batch, cur, faults>>

\* pg_advisory_unlock, on every path out of the run; it releases only its own lock.
Unlock(w) ==
    /\ pc[w] = "unlock"
    /\ lock' = IF lock = w THEN None ELSE lock
    /\ pc' = [pc EXCEPT ![w] = "idle"]
    /\ UNCHANGED <<target, earned, rowVars, svcVars, batch, cur, faults>>

\* The process dies; PostgreSQL drops its session and with it the lock.
Crash(w) ==
    /\ pc[w] # "idle" /\ Fault("crash")
    /\ pc[w] = "synced" => "reply" \in Faults
    /\ lock' = IF lock = w THEN None ELSE lock
    /\ pc' = [pc EXCEPT ![w] = "idle"]
    /\ batch' = [batch EXCEPT ![w] = {}]
    /\ cur' = [cur EXCEPT ![w] = None]
    /\ UNCHANGED <<target, earned, rowVars, svcVars>>

\* The connection that holds the lock is lost; the run uses others and goes on.
LockLost(w) ==
    /\ lock = w /\ Fault("lock")
    /\ lock' = None
    /\ UNCHANGED <<target, earned, rowVars, svcVars, pc, batch, cur>>

-----------------------------------------------------------------------------
RunStep(w) ==
    \/ stage_ready_points(w) \/ load_pending_items(w)
    \/ \E it \in batch[w] : grant_credit(w, it)
    \/ Record(w) \/ Finish(w) \/ Unlock(w)

Next ==
    \/ \E u \in Users, t \in 0..MaxTarget : Refresh(u, t)
    \/ \E w \in Workers :
          \/ Begin(w) \/ RunStep(w)
          \/ \E it \in batch[w] : grant_credit_fails(w, it)
          \/ DbFails(w) \/ Crash(w) \/ LockLost(w)

Spec == Init /\ [][Next]_vars

\* The refresher ticks for ever and every request and statement ends (timeouts).
FairSpec ==
    /\ Spec
    /\ WF_vars(\E w \in Workers : Begin(w))
    /\ \A w \in Workers : WF_vars(RunStep(w))

-----------------------------------------------------------------------------
(* Properties.                                                              *)

\* Every variable keeps its type; the i32 column holds at most MaxCredit, and the
\* sum of synced rows never becomes negative.
TypeOK ==
    /\ target \in [Users -> 0..MaxTarget \cup {None}]
    /\ earned \in [Users -> 0..MaxTarget]
    /\ rows \in [Keys -> Row \cup {None}]
    /\ \A k \in Keys : rows[k] # None => rows[k].amount \in 1..MaxCredit
    /\ synced \in [Users -> Nat]
    /\ seen \subseteq Keys
    /\ total \in [Users -> Nat]
    /\ lock \in Workers \cup {None}
    /\ pc \in [Workers -> {"idle", "stage", "load", "grant", "synced", "failed", "unlock"}]
    /\ batch \in [Workers -> SUBSET Item]
    /\ cur \in [Workers -> Item \cup {None}]
    /\ faults \in 0..MaxFaults

\* A row is called synced only if the service granted its biz_no, whatever
\* answers, statements, processes and locks were lost.
SyncedWasGranted ==
    \A k \in Keys : rows[k] # None /\ rows[k].status = "synced" => k \in seen

\* While the lock protects the run, a user has at most one open row, so a batch
\* never holds two grants for one user.
OneOpenRow ==
    \A k, l \in Keys : k[1] = l[1] /\ Open(rows[k]) /\ Open(rows[l]) => k = l

\* "Imports settled points once": the credit granted to a user never exceeds the
\* most that the settled points have justified.
NoOverpayment == \A u \in Users : total[u] <= earned[u]

\* The sync implements the ledger it keeps with the credit service.
Ledger == INSTANCE CreditLedger WITH entitled <- earned, granted <- total
LedgerSpec == Ledger!Spec

Parked(k) ==
    rows[k] # None /\ (rows[k].status = "superseded" \/ rows[k].attempts >= MaxAttempts)

\* While no run outlives its lock, a target that stays is granted in the end,
\* unless its row is parked (superseded by a target that came and went, or out of
\* attempts) or the difference is for good more than the i32 column holds.
PaidOrParked ==
    [](\A w \in Workers : pc[w] # "idle" => lock = w) =>
       \A k \in Keys : <>[](target[k[1]] = k[2]) =>
          \/ <>(synced[k[1]] >= k[2] \/ Parked(k))
          \/ <>[](k[2] - synced[k[1]] > MaxCredit)
=============================================================================
