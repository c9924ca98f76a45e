--------------------------- MODULE PointsSyncProofs ---------------------------
(***************************************************************************)
(* Points are imported once, for any number of users and workers and any   *)
(* moves of their targets, provided that no outcome of a grant is lost and *)
(* the lock is not: the sync then implements CreditLedger.  PointsSync's   *)
(* run pts_double shows that the proviso is needed.                        *)
(***************************************************************************)
EXTENDS PointsSync, TLAPS

\* Refusals, failing statements and crashes, but no lost outcome and no lost lock.
Clean == "reply" \notin Faults /\ "lock" \notin Faults

\* Types, by group of variables.
PointsType ==
    /\ target \in [Users -> 0..MaxTarget \cup {None}]
    /\ earned \in [Users -> 0..MaxTarget]
    /\ \A u \in Users : target[u] # None => target[u] <= earned[u]

RowsType ==
    /\ rows \in [Keys -> Row \cup {None}]
    /\ \A k \in Keys : rows[k] # None => rows[k].amount \in 1..MaxCredit
    /\ synced \in [Users -> Nat]

SvcType ==
    /\ seen \subseteq Keys
    /\ total \in [Users -> Nat]

RunType ==
    /\ lock \in Workers \cup {None}
    /\ pc \in [Workers -> {"idle", "stage", "load", "grant", "synced", "failed", "unlock"}]
    /\ batch \in [Workers -> SUBSET Item]
    /\ cur \in [Workers -> Item \cup {None}]

FaultType == faults \in 0..MaxFaults

\* The lock serialises the runs; only the run that holds it has items.
Mutex ==
    \A w \in Workers :
       /\ pc[w] # "idle" => lock = w
       /\ batch[w] # {} => pc[w] \in {"grant", "synced", "failed"}
       /\ cur[w] # None <=> pc[w] \in {"synced", "failed"}
       /\ cur[w] \notin batch[w]

\* An open row brings the user exactly to its target.
OpenRows ==
    \A k \in Keys : Open(rows[k]) =>
       rows[k].amount + synced[k[1]] = k[2] /\ k[2] <= earned[k[1]]

\* The items of a run are open rows, as they were loaded.
ItemRow(it) == Open(rows[it.key]) /\ rows[it.key].amount = it.amount
Items ==
    \A w \in Workers :
       /\ \A it \in batch[w] : ItemRow(it)
       /\ cur[w] # None => ItemRow(cur[w])

\* The service has granted the synced rows and the grant being recorded.
InFlight(w, k) == pc[w] = "synced" /\ cur[w].key = k
Granted ==
    \A k \in seen : /\ rows[k] # None
                    /\ rows[k].status = "synced" \/ \E w \in Workers : InFlight(w, k)

\* What the service has granted to a user is what its rows say, plus that grant.
Balance ==
    \A u \in Users :
       /\ (\A w \in Workers : pc[w] = "synced" => cur[w].key[1] # u) => total[u] = synced[u]
       /\ \A w \in Workers : pc[w] = "synced" /\ cur[w].key[1] = u =>
             total[u] = synced[u] + cur[w].amount

Bounded == \A u \in Users : synced[u] <= earned[u]

Types == PointsType /\ RowsType /\ SvcType /\ RunType /\ FaultType

IInv == Types /\ Mutex /\ OpenRows /\ OneOpenRow /\ Items /\ Granted /\ Balance /\ Bounded

-----------------------------------------------------------------------------
LEMMA KeyParts == ASSUME NEW k \in Keys PROVE k[1] \in Users /\ k[2] \in Targets /\ k = <<k[1], k[2]>>
  BY DEF Keys

LEMMA OpenType == ASSUME RowsType, NEW k \in Keys, Open(rows[k])
                  PROVE  rows[k] \in Row /\ rows[k].amount \in 1..MaxCredit /\ rows[k] # None
  BY DEF RowsType, Open

LEMMA InitInv == Init => IInv
<1> SUFFICES ASSUME Init PROVE IInv  OBVIOUS
<1>1. Types
  BY PointsAssumption DEF Init, Types, PointsType, RowsType, SvcType, RunType, FaultType
<1>2. Mutex /\ OpenRows /\ OneOpenRow /\ Items
  BY PointsAssumption DEF Init, Mutex, OpenRows, OneOpenRow, Items, Open
<1>3. Granted /\ Balance /\ Bounded
  BY PointsAssumption DEF Init, Granted, Balance, Bounded
<1> QED  BY <1>1, <1>2, <1>3 DEF IInv

\* Targets move; `earned` only grows.
LEMMA RefreshInv ==
    ASSUME IInv, NEW u \in Users, NEW t \in 0..MaxTarget, Refresh(u, t)
    PROVE  IInv'
<1>1. UNCHANGED <<rowVars, svcVars, runVars, faults>>  BY DEF Refresh
<1>2. PointsType'
  BY PointsAssumption DEF IInv, Types, PointsType, Refresh
<1>3. \A v \in Users : earned[v] <= earned'[v]
  BY DEF IInv, Types, PointsType, Refresh
<1>4. OpenRows' /\ Bounded'
  <2>1. ASSUME NEW k \in Keys, Open(rows[k])
        PROVE  rows[k].amount + synced[k[1]] = k[2] /\ k[2] <= earned'[k[1]]
    BY <1>2, <1>3, <2>1, KeyParts DEF IInv, Types, OpenRows, PointsType, Targets
  <2>2. ASSUME NEW v \in Users PROVE synced[v] <= earned'[v]
    BY <1>2, <1>3, <2>2 DEF IInv, Types, Bounded, PointsType, RowsType
  <2> QED  BY <1>1, <2>1, <2>2 DEF OpenRows, Bounded, rowVars
<1>5. RowsType' /\ SvcType' /\ RunType' /\ FaultType'
  BY <1>1 DEF IInv, Types, RowsType, SvcType, RunType, FaultType, rowVars, svcVars, runVars
<1>6. Mutex' /\ OneOpenRow'  BY <1>1 DEF IInv, Mutex, OneOpenRow, rowVars, runVars
<1>7. Items'  BY <1>1 DEF IInv, Items, ItemRow, rowVars, runVars
<1>8. Granted'  BY <1>1 DEF IInv, Granted, InFlight, rowVars, runVars, svcVars
<1>9. Balance'  BY <1>1 DEF IInv, Balance, rowVars, runVars, svcVars
<1> QED  BY <1>2, <1>4, <1>5, <1>6, <1>7, <1>8, <1>9 DEF IInv, Types

\* Steps of a run that leave points, rows and service alone, keep or drop its
\* items, and do not abandon a grant.
LEMMA QuietInv ==
    ASSUME IInv, NEW w \in Workers, UNCHANGED <<target, earned, rowVars, svcVars>>,
           RunType', FaultType', Mutex', Items',
           \A v \in Workers : \/ UNCHANGED <<pc[v], cur[v]>>
                              \/ pc[v] # "synced" /\ pc'[v] # "synced"
    PROVE  IInv'
<1>1. PointsType' /\ RowsType' /\ SvcType'
  BY DEF IInv, Types, PointsType, RowsType, SvcType, rowVars, svcVars
<1>2. OpenRows' /\ OneOpenRow' /\ Bounded'
  BY DEF IInv, OpenRows, OneOpenRow, Bounded, rowVars
<1>3. Granted'
  <2>1. \A v \in Workers, k \in Keys : InFlight(v, k) => InFlight(v, k)'
    BY DEF InFlight
  <2>2. seen' = seen /\ rows' = rows /\ seen \subseteq Keys
    BY DEF rowVars, svcVars, IInv, Types, SvcType
  <2>3. Granted  BY DEF IInv
  <2> QED  BY <2>1, <2>2, <2>3 DEF Granted
<1>4. Balance'
  <2>1. synced' = synced /\ total' = total  BY DEF rowVars, svcVars
  <2>2. \A v \in Workers : (pc'[v] = "synced" <=> pc[v] = "synced")
                           /\ (pc[v] = "synced" => cur'[v] = cur[v])
    OBVIOUS
  <2>3. Balance  BY DEF IInv
  <2> QED  BY <2>1, <2>2, <2>3 DEF Balance
<1> QED  BY <1>1, <1>2, <1>3, <1>4 DEF IInv, Types

LEMMA BeginInv == ASSUME IInv, NEW w \in Workers, Begin(w) PROVE IInv'
<1>0. RunType /\ FaultType /\ Mutex /\ Items  BY DEF IInv, Types
<1>1. RunType' /\ FaultType'  BY <1>0 DEF Begin, RunType, FaultType
<1>2. Mutex'  BY <1>0, PointsAssumption DEF Begin, RunType, Mutex
<1>3. Items'  BY <1>0 DEF Begin, Items, ItemRow, rowVars
<1>4. UNCHANGED <<target, earned, rowVars, svcVars>>  BY DEF Begin
<1>5. \A v \in Workers : \/ UNCHANGED <<pc[v], cur[v]>>
                         \/ pc[v] # "synced" /\ pc'[v] # "synced"
  BY <1>0 DEF Begin, RunType
<1> QED  BY <1>1, <1>2, <1>3, <1>4, <1>5, QuietInv

LEMMA FinishInv == ASSUME IInv, NEW w \in Workers, Finish(w) \/ Unlock(w) PROVE IInv'
<1>0. RunType /\ FaultType /\ Mutex /\ Items  BY DEF IInv, Types
<1>1. RunType' /\ FaultType'  BY <1>0 DEF Finish, Unlock, RunType, FaultType
<1>2. Mutex'  BY <1>0, PointsAssumption DEF Finish, Unlock, RunType, Mutex
<1>3. Items'  BY <1>0 DEF Finish, Unlock, Items, ItemRow, rowVars
<1>4. UNCHANGED <<target, earned, rowVars, svcVars>>  BY DEF Finish, Unlock
<1>5. \A v \in Workers : \/ UNCHANGED <<pc[v], cur[v]>>
                         \/ pc[v] # "synced" /\ pc'[v] # "synced"
  BY <1>0 DEF Finish, Unlock, RunType
<1> QED  BY <1>1, <1>2, <1>3, <1>4, <1>5, QuietInv

\* A run that fails or dies drops its items; not after a grant, since Clean.
LEMMA AbandonInv == ASSUME Clean, IInv, NEW w \in Workers, DbFails(w) \/ Crash(w) PROVE IInv'
<1>0. RunType /\ FaultType /\ Mutex /\ Items  BY DEF IInv, Types
<1>1. pc[w] # "synced" /\ pc[w] # "idle"  BY DEF DbFails, Crash, Clean
<1>2. /\ batch' = [batch EXCEPT ![w] = {}] /\ cur' = [cur EXCEPT ![w] = None]
      /\ pc' \in {[pc EXCEPT ![w] = "unlock"], [pc EXCEPT ![w] = "idle"]}
      /\ pc' = [pc EXCEPT ![w] = "unlock"] => lock' = lock
      /\ lock' \in {lock, None}
      /\ UNCHANGED <<target, earned, rowVars, svcVars>>
  BY <1>0 DEF DbFails, Crash, RunType
<1>3. RunType'  BY <1>0, <1>2 DEF RunType
<1>4. FaultType'  BY <1>0, PointsAssumption DEF DbFails, Crash, Fault, FaultType
<1>5. Mutex'
  <2>1. lock = w  BY <1>0, <1>1 DEF Mutex
  <2>2. \A v \in Workers \ {w} : pc[v] = "idle"  BY <1>0, <2>1 DEF Mutex
  <2>3. pc' = [pc EXCEPT ![w] = "unlock"] \/ pc' = [pc EXCEPT ![w] = "idle"]  BY <1>2
  <2>4. CASE pc' = [pc EXCEPT ![w] = "unlock"]
    BY <1>0, <1>2, <2>1, <2>2, <2>4 DEF Mutex, RunType
  <2>5. CASE pc' = [pc EXCEPT ![w] = "idle"]
    BY <1>0, <1>2, <2>1, <2>2, <2>5 DEF Mutex, RunType
  <2> QED  BY <2>3, <2>4, <2>5
<1>6. Items'  BY <1>0, <1>2 DEF Items, ItemRow, rowVars, RunType
<1>7. \A v \in Workers : \/ UNCHANGED <<pc[v], cur[v]>>
                         \/ pc[v] # "synced" /\ pc'[v] # "synced"
  BY <1>0, <1>1, <1>2 DEF RunType
<1> QED  BY <1>2, <1>3, <1>4, <1>5, <1>6, <1>7, QuietInv

\* While a run stages or loads, nobody has items and no grant is in flight.
LEMMA NoItems ==
    ASSUME IInv, NEW w \in Workers, pc[w] \in {"stage", "load"}
    PROVE  \A v \in Workers : batch[v] = {} /\ cur[v] = None /\ pc[v] \notin {"synced", "failed"}
<1>1. Mutex /\ lock = w  BY DEF IInv, Mutex
<1>2. \A v \in Workers \ {w} : pc[v] = "idle"  BY <1>1 DEF Mutex
<1> QED  BY <1>1, <1>2 DEF Mutex

\* What stage_ready_points leaves: a row as it was, a superseded one, or a row that
\* brings the user to its current target.
LEMMA StagedRows ==
    ASSUME IInv, NEW w \in Workers, stage_ready_points(w), NEW k \in Keys
    PROVE  \/ rows'[k] = rows[k] /\ ~superseded(k)
           \/ /\ Open(rows[k]) /\ rows'[k] = [rows[k] EXCEPT !.status = "superseded"]
           \/ /\ inserted(k) /\ Open(rows'[k]) /\ rows'[k] \in Row
              /\ rows'[k].amount = credit_amount(k[1])
<1>0. rows'[k] = CASE superseded(k) -> [rows[k] EXCEPT !.status = "superseded"]
                   [] inserted(k)   -> staged(k)
                   [] OTHER         -> rows[k]
  BY DEF stage_ready_points
<1>1. ~(superseded(k) /\ inserted(k))
  BY PointsAssumption DEF superseded, inserted
<1>2. CASE superseded(k)  BY <1>0, <1>1, <1>2 DEF superseded
<1>3. CASE inserted(k)
  <2>1. rows'[k] = staged(k)  BY <1>0, <1>1, <1>3
  <2>2. credit_amount(k[1]) \in Nat  BY <1>3, PointsAssumption DEF inserted
  <2>3. CASE rows[k] = None
    <3>1. staged(k) \in Row /\ staged(k).status = "pending" /\ staged(k).amount = credit_amount(k[1])
      BY <2>2, <2>3 DEF staged, Row, Statuses
    <3> QED  BY <1>3, <2>1, <3>1, PointsAssumption DEF Open
  <2>4. CASE Open(rows[k])
    <3>1. rows[k] \in Row /\ rows[k] # None  BY <2>4, OpenType DEF IInv, Types
    <3>2. staged(k) = [rows[k] EXCEPT !.amount = credit_amount(k[1])]  BY <3>1 DEF staged
    <3>3. /\ staged(k) \in Row /\ staged(k).status = rows[k].status
          /\ staged(k).amount = credit_amount(k[1])
      BY <2>2, <3>1, <3>2 DEF Row, Statuses
    <3> QED  BY <1>3, <2>1, <2>4, <3>3, PointsAssumption DEF Open
  <2> QED  BY <1>3, <2>3, <2>4 DEF inserted
<1>4. CASE ~superseded(k) /\ ~inserted(k)  BY <1>0, <1>4
<1> QED  BY <1>2, <1>3, <1>4

LEMMA StageInv == ASSUME IInv, NEW w \in Workers, stage_ready_points(w) PROVE IInv'
<1>0. Types /\ Mutex /\ OpenRows /\ OneOpenRow /\ Granted /\ Balance /\ Bounded  BY DEF IInv
<1>1. \A v \in Workers : batch[v] = {} /\ cur[v] = None /\ pc[v] \notin {"synced", "failed"}
  BY NoItems DEF stage_ready_points
<1>2. /\ UNCHANGED <<target, earned, synced, seen, total, lock, batch, cur, faults>>
      /\ pc' = [pc EXCEPT ![w] = "load"] /\ pc[w] = "stage"
  BY DEF stage_ready_points, svcVars
<1>3. ASSUME NEW k \in Keys
      PROVE  /\ rows'[k] \in Row \cup {None}
             /\ rows'[k] # None => rows'[k].amount \in 1..MaxCredit
             /\ rows[k] # None => rows'[k] # None
             /\ rows[k] # None /\ rows[k].status = "synced" => rows'[k] = rows[k]
  <2>1. CASE rows'[k] = rows[k]  BY <1>0, <2>1 DEF Types, RowsType
  <2>2. CASE Open(rows[k]) /\ rows'[k] = [rows[k] EXCEPT !.status = "superseded"]
    <3>1. rows[k] \in Row /\ rows[k].amount \in 1..MaxCredit  BY <1>0, <2>2, OpenType DEF Types
    <3>2. rows'[k] \in Row /\ rows'[k].amount = rows[k].amount  BY <2>2, <3>1 DEF Row, Statuses
    <3> QED  BY <2>2, <3>1, <3>2, PointsAssumption DEF Open
  <2>3. CASE inserted(k) /\ Open(rows'[k]) /\ rows'[k] \in Row /\ rows'[k].amount = credit_amount(k[1])
    BY <2>3, PointsAssumption DEF inserted, Open
  <2> QED  BY <2>1, <2>2, <2>3, StagedRows
<1>4. Types'
  <2>1. rows' \in [Keys -> Row \cup {None}]
    <3>1. rows' = [k \in Keys |-> rows'[k]]  BY DEF stage_ready_points
    <3> QED  BY <1>3, <3>1
  <2>2. RowsType'  BY <1>0, <1>2, <1>3, <2>1 DEF Types, RowsType
  <2>3. PointsType' /\ SvcType' /\ FaultType'
    BY <1>0, <1>2 DEF Types, PointsType, SvcType, FaultType
  <2>4. RunType'  BY <1>0, <1>2 DEF Types, RunType
  <2> QED  BY <2>2, <2>3, <2>4 DEF Types
<1>5. Mutex'  BY <1>0, <1>1, <1>2 DEF Mutex, Types, RunType
\* An open row is either untouched or has just been given its amount.
<1>6. ASSUME NEW k \in Keys, Open(rows'[k])
      PROVE  /\ rows'[k].amount + synced[k[1]] = k[2] /\ k[2] <= earned[k[1]]
             /\ \/ rows'[k] = rows[k] /\ target[k[1]] = None
                \/ target[k[1]] = k[2]
  <2>0. k[1] \in Users /\ k[2] \in Targets  BY KeyParts
  <2>1. CASE rows'[k] = rows[k] /\ ~superseded(k)
    BY <1>0, <1>6, <2>1 DEF OpenRows, superseded
  <2>2. CASE Open(rows[k]) /\ rows'[k] = [rows[k] EXCEPT !.status = "superseded"]
    <3>1. rows[k] \in Row  BY <1>0, <2>2, OpenType DEF Types
    <3>2. rows'[k].status = "superseded"  BY <2>2, <3>1 DEF Row
    <3> QED  BY <1>6, <3>2 DEF Open
  <2>3. CASE inserted(k) /\ rows'[k].amount = credit_amount(k[1])
    <3>1. k[2] = target[k[1]] /\ k[2] \in Int /\ synced[k[1]] \in Int
      BY <1>0, <2>0, <2>3 DEF inserted, Types, RowsType, Targets
    <3>2. target[k[1]] <= earned[k[1]]
      BY <1>0, <2>0, <3>1, PointsAssumption DEF Types, PointsType
    <3> QED  BY <2>3, <3>1, <3>2 DEF credit_amount
  <2> QED  BY <2>1, <2>2, <2>3, StagedRows
<1>7. OpenRows'  BY <1>2, <1>6 DEF OpenRows
<1>8. OneOpenRow'
  <2> SUFFICES ASSUME NEW k \in Keys, NEW l \in Keys, k[1] = l[1], Open(rows'[k]), Open(rows'[l])
               PROVE  k = l
    BY DEF OneOpenRow
  <2>0. /\ k[1] \in Users /\ k[2] \in Targets /\ k = <<k[1], k[2]>>
        /\ l[1] \in Users /\ l[2] \in Targets /\ l = <<l[1], l[2]>>
    BY KeyParts
  <2>1. CASE target[k[1]] = None
    <3>1. k[2] # None /\ l[2] # None  BY <2>0, PointsAssumption DEF Targets
    <3>2. rows'[k] = rows[k] /\ rows'[l] = rows[l]  BY <1>6, <2>1, <3>1
    <3> QED  BY <1>0, <3>2 DEF OneOpenRow
  <2>2. CASE target[k[1]] # None
    <3>1. target[k[1]] = k[2] /\ target[l[1]] = l[2]  BY <1>6, <2>2
    <3> QED  BY <2>0, <3>1
  <2> QED  BY <2>1, <2>2
<1>9. Items'  BY <1>1, <1>2 DEF Items
<1>10. Granted'
  <2>1. \A k \in seen : k \in Keys /\ rows[k] # None /\ rows[k].status = "synced"
    BY <1>0, <1>1 DEF Granted, InFlight, Types, SvcType
  <2> QED  BY <1>2, <1>3, <2>1 DEF Granted
<1>11. Balance'
  <2>1. \A v \in Workers : pc'[v] # "synced"  BY <1>0, <1>1, <1>2 DEF Types, RunType
  <2>2. \A u \in Users : total[u] = synced[u]  BY <1>0, <1>1 DEF Balance
  <2> QED  BY <1>2, <2>1, <2>2 DEF Balance
<1>12. Bounded'  BY <1>0, <1>2 DEF Bounded
<1> QED  BY <1>4, <1>5, <1>7, <1>8, <1>9, <1>10, <1>11, <1>12 DEF IInv

LEMMA LoadInv == ASSUME IInv, NEW w \in Workers, load_pending_items(w) PROVE IInv'
<1>0. RunType /\ FaultType /\ Mutex /\ RowsType  BY DEF IInv, Types
<1>1. \A v \in Workers : batch[v] = {} /\ cur[v] = None /\ pc[v] \notin {"synced", "failed"}
  BY NoItems DEF load_pending_items
<1>2. PICK ks \in SUBSET Pending :
        batch' = [batch EXCEPT ![w] = {[key |-> k, amount |-> rows[k].amount] : k \in ks}]
  BY DEF load_pending_items
<1>3. /\ UNCHANGED <<target, earned, rowVars, svcVars, lock, cur, faults>>
      /\ pc' = [pc EXCEPT ![w] = "grant"] /\ pc[w] = "load"
  BY DEF load_pending_items
<1>4. ASSUME NEW it \in batch'[w] PROVE it \in Item /\ ItemRow(it)
  <2>1. PICK k \in ks : it = [key |-> k, amount |-> rows[k].amount]
    BY <1>0, <1>2 DEF RunType
  <2>2. k \in Keys /\ Open(rows[k])  BY <2>1 DEF Pending
  <2>3. rows[k].amount \in Nat  BY <1>0, <2>2, OpenType DEF Row
  <2> QED  BY <2>1, <2>2, <2>3 DEF Item, ItemRow
<1>5. RunType'
  <2>1. batch'[w] \in SUBSET Item  BY <1>4
  <2>2. batch' \in [Workers -> SUBSET Item]  BY <1>0, <1>2, <2>1 DEF RunType
  <2> QED  BY <1>0, <1>3, <2>2 DEF RunType
<1>6. FaultType'  BY <1>0, <1>3 DEF FaultType
<1>7. Mutex'
  <2>1. lock = w  BY <1>0, <1>3 DEF Mutex
  <2>2. ASSUME NEW v \in Workers, v # w PROVE pc'[v] = pc[v] /\ batch'[v] = {} /\ cur'[v] = None
    BY <1>0, <1>1, <1>2, <1>3, <2>2 DEF RunType
  <2>3. pc'[w] = "grant" /\ cur'[w] = None /\ None \notin batch'[w]
    BY <1>0, <1>1, <1>3, <1>4, PointsAssumption DEF RunType
  <2> QED  BY <1>0, <1>1, <1>3, <2>1, <2>2, <2>3 DEF Mutex
<1>8. Items'
  <2>1. ASSUME NEW v \in Workers, v # w PROVE batch'[v] = {}
    BY <1>0, <1>1, <1>2, <2>1 DEF RunType
  <2> QED  BY <1>1, <1>3, <1>4, <2>1 DEF Items, ItemRow, rowVars
<1>9. \A v \in Workers : \/ UNCHANGED <<pc[v], cur[v]>>
                         \/ pc[v] # "synced" /\ pc'[v] # "synced"
  BY <1>0, <1>1, <1>3 DEF RunType
<1> QED  BY <1>3, <1>5, <1>6, <1>7, <1>8, <1>9, QuietInv

\* Taking an item out of the batch, to be recorded as `to`.
LEMMA TakeItem ==
    ASSUME IInv, NEW w \in Workers, NEW it \in batch[w], pc[w] = "grant",
           NEW to \in {"synced", "failed"}, lock' = lock, rows' = rows,
           batch' = [batch EXCEPT ![w] = @ \ {it}], cur' = [cur EXCEPT ![w] = it],
           pc' = [pc EXCEPT ![w] = to]
    PROVE  /\ it \in Item /\ RunType' /\ Mutex' /\ Items'
           /\ lock = w /\ \A v \in Workers \ {w} : pc[v] = "idle" /\ cur'[v] = cur[v]
<1>0. RunType /\ Mutex /\ Items  BY DEF IInv, Types
<1>1. it \in Item /\ it # None  BY <1>0, PointsAssumption DEF RunType
<1>2. RunType'  BY <1>0, <1>1 DEF RunType
<1>3. lock = w /\ \A v \in Workers \ {w} : pc[v] = "idle" /\ cur'[v] = cur[v]
  BY <1>0 DEF Mutex, RunType
<1>4. Mutex'
  <2>1. ASSUME NEW v \in Workers \ {w}
        PROVE  pc'[v] = pc[v] /\ cur'[v] = cur[v] /\ batch'[v] = batch[v]
    BY <1>0 DEF RunType
  <2>2. pc'[w] = to /\ cur'[w] = it /\ batch'[w] = batch[w] \ {it}
    BY <1>0 DEF RunType
  <2> QED  BY <1>0, <1>1, <1>3, <2>1, <2>2 DEF Mutex
<1>5. Items'
  <2>1. ASSUME NEW v \in Workers PROVE batch'[v] \subseteq batch[v]  BY <1>0 DEF RunType
  <2>2. ItemRow(it)  BY <1>0 DEF Items
  <2>3. ASSUME NEW v \in Workers PROVE cur'[v] = cur[v] \/ cur'[v] = it  BY <1>0 DEF RunType
  <2>4. \A i : ItemRow(i)' <=> Open(rows[i.key]) /\ rows[i.key].amount = i.amount
    BY DEF ItemRow
  <2> QED  BY <1>0, <2>1, <2>2, <2>3, <2>4 DEF Items, ItemRow
<1> QED  BY <1>1, <1>2, <1>3, <1>4, <1>5

\* A grant is of a biz_no the service has not seen, and reaches the row's target.
LEMMA GrantEffect ==
    ASSUME IInv, NEW w \in Workers, NEW it \in batch[w], grant_credit(w, it)
    PROVE  /\ it.key \in Keys /\ it.key[1] \in Users /\ it.amount \in Nat \ {0}
           /\ seen' = seen \cup {it.key}
           /\ total' = [total EXCEPT ![it.key[1]] = @ + it.amount]
           /\ total[it.key[1]] = synced[it.key[1]]
           /\ it.amount <= earned[it.key[1]] - total[it.key[1]]
<1>0. RunType /\ Mutex /\ Items /\ RowsType /\ PointsType /\ OpenRows /\ Granted /\ Balance
  BY DEF IInv, Types
<1>1. pc[w] = "grant" /\ lock = w  BY <1>0 DEF grant_credit, Mutex
<1>2. \A v \in Workers : pc[v] # "synced"  BY <1>0, <1>1 DEF Mutex
<1>3. it \in Item /\ it.key \in Keys /\ it.key[1] \in Users /\ it.key[2] \in Int
  <2>1. it \in Item /\ it.key \in Keys  BY <1>0 DEF RunType, Item
  <2> QED  BY <2>1, KeyParts DEF Targets
<1>4. Open(rows[it.key]) /\ rows[it.key].amount = it.amount  BY <1>0 DEF Items, ItemRow
<1>5. it.amount \in Nat \ {0}
  BY <1>0, <1>3, <1>4, OpenType, PointsAssumption
<1>6. it.key \notin seen
  BY <1>0, <1>2, <1>4 DEF Granted, InFlight, Open
<1>7. /\ seen' = seen \cup {it.key}
      /\ total' = [total EXCEPT ![it.key[1]] = @ + it.amount]
  BY <1>6 DEF grant_credit, Service
<1>8. total[it.key[1]] = synced[it.key[1]]  BY <1>0, <1>2, <1>3 DEF Balance
<1>9. it.amount <= earned[it.key[1]] - total[it.key[1]]
  <2>1. it.amount + synced[it.key[1]] = it.key[2] /\ it.key[2] <= earned[it.key[1]]
    BY <1>0, <1>3, <1>4 DEF OpenRows
  <2>2. synced[it.key[1]] \in Int /\ earned[it.key[1]] \in Int
    BY <1>0, <1>3 DEF RowsType, PointsType
  <2> QED  BY <1>3, <1>5, <1>8, <2>1, <2>2
<1> QED  BY <1>3, <1>5, <1>7, <1>8, <1>9

LEMMA GrantInv ==
    ASSUME IInv, NEW w \in Workers, NEW it \in batch[w], grant_credit(w, it)
    PROVE  IInv'
<1>0. Types /\ OpenRows /\ OneOpenRow /\ Granted /\ Balance /\ Bounded /\ Items  BY DEF IInv
<1>1. /\ UNCHANGED <<target, earned, rows, synced, lock, faults>> /\ pc[w] = "grant"
      /\ batch' = [batch EXCEPT ![w] = @ \ {it}] /\ cur' = [cur EXCEPT ![w] = it]
      /\ pc' = [pc EXCEPT ![w] = "synced"]
  BY DEF grant_credit, rowVars
<1>2. /\ it \in Item /\ RunType' /\ Mutex' /\ Items'
      /\ lock = w /\ \A v \in Workers \ {w} : pc[v] = "idle" /\ cur'[v] = cur[v]
  BY <1>1, TakeItem
<1>3. /\ it.key \in Keys /\ it.key[1] \in Users /\ it.amount \in Nat \ {0}
      /\ seen' = seen \cup {it.key}
      /\ total' = [total EXCEPT ![it.key[1]] = @ + it.amount]
      /\ total[it.key[1]] = synced[it.key[1]]
  BY GrantEffect
<1>4. Types'
  <2>1. PointsType' /\ RowsType' /\ FaultType'
    BY <1>0, <1>1 DEF Types, PointsType, RowsType, FaultType
  <2>2. SvcType'  BY <1>0, <1>3 DEF Types, SvcType
  <2> QED  BY <1>2, <2>1, <2>2 DEF Types
<1>5. OpenRows' /\ OneOpenRow' /\ Bounded'  BY <1>0, <1>1 DEF OpenRows, OneOpenRow, Bounded
<1>6. pc'[w] = "synced" /\ cur'[w] = it /\ \A v \in Workers \ {w} : pc'[v] = "idle"
  BY <1>0, <1>1, <1>2 DEF Types, RunType
<1>7. Granted'
  <2>1. rows[it.key] # None  BY <1>0 DEF Items, ItemRow, Open
  <2>2. InFlight(w, it.key)'  BY <1>6 DEF InFlight
  <2>3. \A k \in seen : rows[k] # None /\ rows[k].status = "synced"
    BY <1>0, <1>1, <1>2 DEF Granted, InFlight
  <2> QED  BY <1>1, <1>3, <2>1, <2>2, <2>3 DEF Granted
<1>8. Balance'
  <2> SUFFICES ASSUME NEW u \in Users
               PROVE  /\ u # it.key[1] => total'[u] = synced'[u]
                      /\ u = it.key[1] => total'[u] = synced'[u] + it.amount
    BY <1>6 DEF Balance
  <2>1. CASE u # it.key[1]
    <3>1. total[u] = synced[u]  BY <1>0, <1>1, <1>2 DEF Balance
    <3> QED  BY <1>0, <1>1, <1>3, <2>1, <3>1 DEF Types, SvcType
  <2>2. CASE u = it.key[1]  BY <1>0, <1>1, <1>3, <2>2 DEF Types, SvcType
  <2> QED  BY <2>1, <2>2
<1> QED  BY <1>2, <1>4, <1>5, <1>7, <1>8 DEF IInv

LEMMA GrantFailsInv ==
    ASSUME Clean, IInv, NEW w \in Workers, NEW it \in batch[w], grant_credit_fails(w, it)
    PROVE  IInv'
<1>1. /\ UNCHANGED <<target, earned, rowVars, svcVars, lock>> /\ pc[w] = "grant" /\ rows' = rows
      /\ batch' = [batch EXCEPT ![w] = @ \ {it}] /\ cur' = [cur EXCEPT ![w] = it]
      /\ pc' = [pc EXCEPT ![w] = "failed"] /\ Fault("refuse")
  BY DEF grant_credit_fails, Clean, Fault, rowVars
<1>2. RunType' /\ Mutex' /\ Items'  BY <1>1, TakeItem
<1>3. FaultType'  BY <1>1, PointsAssumption DEF IInv, Types, FaultType, Fault
<1>4. \A v \in Workers : \/ UNCHANGED <<pc[v], cur[v]>>
                         \/ pc[v] # "synced" /\ pc'[v] # "synced"
  BY <1>1 DEF IInv, Types, RunType
<1> QED  BY <1>1, <1>2, <1>3, <1>4, QuietInv

\* The item a run is about to record, and its row.
LEMMA CurItem ==
    ASSUME IInv, NEW w \in Workers, pc[w] \in {"synced", "failed"}
    PROVE  /\ cur[w] \in Item /\ cur[w].key \in Keys /\ cur[w].key[1] \in Users
           /\ Open(rows[cur[w].key]) /\ rows[cur[w].key] \in Row /\ rows[cur[w].key] # None
           /\ rows[cur[w].key].amount = cur[w].amount /\ rows[cur[w].key].amount \in 1..MaxCredit
           /\ rows[cur[w].key].status # "synced"
           /\ lock = w /\ \A v \in Workers \ {w} : pc[v] = "idle" /\ cur[v] = None /\ batch[v] = {}
<1>0. RunType /\ Mutex /\ Items /\ RowsType  BY DEF IInv, Types
<1>1. cur[w] # None /\ lock = w /\ cur[w] \in Item  BY <1>0 DEF Mutex, RunType
<1>2. cur[w].key \in Keys /\ cur[w].key[1] \in Users  BY <1>1, KeyParts DEF Item
<1>3. Open(rows[cur[w].key]) /\ rows[cur[w].key].amount = cur[w].amount
  BY <1>0, <1>1 DEF Items, ItemRow
<1>4. \A v \in Workers \ {w} : pc[v] = "idle"  BY <1>0, <1>1 DEF Mutex
<1>5. \A v \in Workers \ {w} : cur[v] = None /\ batch[v] = {}  BY <1>0, <1>4 DEF Mutex
<1>6. rows[cur[w].key].status # "synced"  BY <1>3 DEF Open
<1> QED  BY <1>0, <1>1, <1>2, <1>3, <1>4, <1>5, <1>6, OpenType

\* What mark_failed makes of a row.
LEMMA FailedRow ==
    ASSUME NEW x \in Row
    PROVE  LET q == [x EXCEPT !.status = "failed", !.attempts = @ + 1]
           IN  q \in Row /\ q.status = "failed" /\ q.amount = x.amount
<1> DEFINE y == [x EXCEPT !.status = "failed"]
           q == [y EXCEPT !.attempts = y.attempts + 1]
<1>1. y \in Row /\ y.status = "failed" /\ y.amount = x.amount /\ y.attempts = x.attempts
  BY DEF Row, Statuses
<1>2. q \in Row /\ q.status = "failed" /\ q.amount = x.amount
  <2> HIDE DEF y
  <2> QED  BY <1>1 DEF Row, Statuses
<1>3. [x EXCEPT !.status = "failed", !.attempts = @ + 1] = q
  <2>1. DOMAIN x = {"status", "amount", "attempts"}  BY DEF Row
  <2> QED  BY <2>1, <1>1
<1> QED  BY <1>2, <1>3

\* Recording leaves the rest of the batch as it was, since no other open row is the user's.
LEMMA RecordInv == ASSUME IInv, NEW w \in Workers, Record(w) PROVE IInv'
<1> DEFINE k == cur[w].key
           u == cur[w].key[1]
           r == rows'[k]
<1>0. /\ Types /\ Mutex /\ OpenRows /\ OneOpenRow /\ Granted /\ Balance /\ Bounded /\ Items
      /\ RowsType /\ RunType /\ PointsType /\ SvcType /\ FaultType
  BY DEF IInv, Types
<1>1. pc[w] \in {"synced", "failed"}  BY DEF Record, mark_synced, mark_failed
<1>2. /\ cur[w] \in Item /\ k \in Keys /\ u \in Users
      /\ Open(rows[k]) /\ rows[k] \in Row /\ rows[k] # None
      /\ rows[k].amount = cur[w].amount /\ rows[k].amount \in 1..MaxCredit
      /\ rows[k].status # "synced"
      /\ lock = w /\ \A v \in Workers \ {w} : pc[v] = "idle" /\ cur[v] = None /\ batch[v] = {}
  BY <1>1, CurItem
<1>3. /\ UNCHANGED <<target, earned, seen, total, lock, batch, faults>>
      /\ cur' = [cur EXCEPT ![w] = None] /\ pc' = [pc EXCEPT ![w] = "grant"]
  BY DEF Record, svcVars
\* The row keeps its amount, and the sum follows its status.
<1>4. /\ rows' = [rows EXCEPT ![k] = r] /\ r \in Row /\ r # None /\ r.amount = rows[k].amount
      /\ \/ pc[w] = "synced" /\ r.status = "synced" /\ synced' = [synced EXCEPT ![u] = @ + cur[w].amount]
         \/ pc[w] = "failed" /\ r.status = "failed" /\ synced' = synced
  <2>1. CASE mark_synced(w)
    <3> DEFINE q == [rows[k] EXCEPT !.status = "synced"]
    <3>1. q \in Row /\ q.status = "synced" /\ q.amount = rows[k].amount  BY <1>2 DEF Row, Statuses
    <3>2. rows' = [rows EXCEPT ![k] = q] /\ pc[w] = "synced"  BY <2>1 DEF mark_synced, SetRow
    <3>3. r = q  BY <1>0, <1>2, <3>2 DEF RowsType
    <3>4. synced' = [synced EXCEPT ![u] = @ + (IF q.status = "synced" THEN q.amount ELSE 0)
                                            - (IF rows[k].status = "synced" THEN rows[k].amount ELSE 0)]
      BY <2>1 DEF mark_synced, SetRow
    <3>5. synced' = [synced EXCEPT ![u] = synced[u] + cur[w].amount]
      <4>1. synced[u] \in Nat /\ cur[w].amount \in Nat  BY <1>0, <1>2 DEF RowsType
      <4>2. synced[u] + (IF q.status = "synced" THEN q.amount ELSE 0)
              - (IF rows[k].status = "synced" THEN rows[k].amount ELSE 0) = synced[u] + cur[w].amount
        BY <1>2, <3>1, <4>1
      <4> QED  BY <3>4, <4>2
    <3> QED  BY <3>1, <3>2, <3>3, <3>5, PointsAssumption
  <2>2. CASE mark_failed(w)
    <3> DEFINE q == [rows[k] EXCEPT !.status = "failed", !.attempts = @ + 1]
    <3>1. q \in Row /\ q.status = "failed" /\ q.amount = rows[k].amount
      BY <1>2, FailedRow
    <3>2. rows' = [rows EXCEPT ![k] = q] /\ pc[w] = "failed"  BY <2>2 DEF mark_failed, SetRow
    <3>3. r = q  BY <1>0, <1>2, <3>2 DEF RowsType
    <3>4. synced' = [synced EXCEPT ![u] = @ + (IF q.status = "synced" THEN q.amount ELSE 0)
                                            - (IF rows[k].status = "synced" THEN rows[k].amount ELSE 0)]
      BY <2>2 DEF mark_failed, SetRow
    <3>5. synced' = synced
      <4>1. synced[u] \in Nat  BY <1>0, <1>2 DEF RowsType
      <4>2. synced[u] + (IF q.status = "synced" THEN q.amount ELSE 0)
              - (IF rows[k].status = "synced" THEN rows[k].amount ELSE 0) = synced[u]
        BY <1>2, <3>1, <4>1
      <4> QED  BY <1>0, <3>4, <4>2 DEF RowsType
    <3> QED  BY <3>1, <3>2, <3>3, <3>5, PointsAssumption
  <2> QED  BY <2>1, <2>2 DEF Record
<1> HIDE DEF k, u, r
<1>5. \A l \in Keys : rows'[l] = IF l = k THEN r ELSE rows[l]
  BY <1>0, <1>4 DEF RowsType
<1>6. \A v \in Users : synced'[v] = IF v = u /\ pc[w] = "synced" THEN synced[v] + cur[w].amount ELSE synced[v]
  BY <1>0, <1>4 DEF RowsType
<1>7. synced[u] \in Nat /\ cur[w].amount \in Nat /\ u = k[1] /\ k = cur[w].key
  BY <1>0, <1>2 DEF RowsType, u, k
<1>8. Types'
  <2>1. rows' \in [Keys -> Row \cup {None}]  BY <1>0, <1>4 DEF RowsType
  <2>2. synced' \in [Users -> Nat]  BY <1>0, <1>4, <1>7 DEF RowsType
  <2>3. \A l \in Keys : rows'[l] # None => rows'[l].amount \in 1..MaxCredit
    BY <1>0, <1>2, <1>4, <1>5 DEF RowsType
  <2>4. RunType'  BY <1>0, <1>3 DEF RunType
  <2>5. PointsType' /\ SvcType' /\ FaultType'  BY <1>0, <1>3 DEF PointsType, SvcType, FaultType
  <2> QED  BY <2>1, <2>2, <2>3, <2>4, <2>5 DEF Types, RowsType
<1>9. Mutex'
  <2>1. pc'[w] = "grant" /\ cur'[w] = None  BY <1>0, <1>3 DEF RunType
  <2>2. ASSUME NEW v \in Workers \ {w} PROVE pc'[v] = "idle" /\ cur'[v] = None /\ batch'[v] = {}
    BY <1>0, <1>2, <1>3 DEF RunType
  <2>3. None \notin batch[w]  BY <1>0, PointsAssumption DEF RunType
  <2> QED  BY <1>2, <1>3, <2>1, <2>2, <2>3 DEF Mutex
\* Another open row belongs to another user.
<1>10. ASSUME NEW l \in Keys, l # k, Open(rows'[l]) PROVE Open(rows[l]) /\ rows'[l] = rows[l] /\ l[1] # u
  BY <1>0, <1>2, <1>5, <1>7, <1>10 DEF OneOpenRow
<1>11. OneOpenRow'
  BY <1>0, <1>2, <1>7, <1>10 DEF OneOpenRow
<1>12. OpenRows'
  <2> SUFFICES ASSUME NEW l \in Keys, Open(rows'[l])
               PROVE  rows'[l].amount + synced'[l[1]] = l[2] /\ l[2] <= earned[l[1]]
    BY <1>3 DEF OpenRows
  <2>1. CASE l # k
    BY <1>0, <1>6, <1>10, <2>1, KeyParts DEF OpenRows
  <2>2. CASE l = k
    <3>1. r.status # "synced" /\ synced' = synced  BY <1>4, <1>5, <2>2 DEF Open
    <3> QED  BY <1>0, <1>2, <1>4, <1>5, <2>2, <3>1 DEF OpenRows
  <2> QED  BY <2>1, <2>2
<1>13. Items'
  <2> SUFFICES ASSUME NEW it \in batch[w] PROVE Open(rows'[it.key]) /\ rows'[it.key].amount = it.amount
    <3>1. \A v \in Workers : cur'[v] = None  BY <1>0, <1>2, <1>3 DEF RunType
    <3> QED  BY <1>2, <1>3, <3>1 DEF Items, ItemRow
  <2>1. it \in Item /\ it.key \in Keys /\ Open(rows[it.key]) /\ rows[it.key].amount = it.amount
    BY <1>0 DEF RunType, Items, ItemRow, Item
  <2>2. it # cur[w]  BY <1>0 DEF Mutex
  <2>3. it.key # k
    <3>1. it = [key |-> it.key, amount |-> it.amount]  BY <2>1 DEF Item
    <3>2. cur[w] = [key |-> cur[w].key, amount |-> cur[w].amount]  BY <1>2 DEF Item
    <3> QED  BY <1>2, <1>7, <2>1, <2>2, <3>1, <3>2
  <2> QED  BY <1>5, <2>1, <2>3
<1>14. Granted'
  <2> SUFFICES ASSUME NEW l \in seen PROVE rows'[l] # None /\ rows'[l].status = "synced"
    BY <1>3 DEF Granted
  <2>1. l \in Keys /\ rows[l] # None  BY <1>0 DEF SvcType, Granted
  <2>2. CASE l # k
    <3>1. \A v \in Workers : ~InFlight(v, l)  BY <1>2, <1>7, <2>2 DEF InFlight
    <3> QED  BY <1>0, <1>5, <2>1, <2>2, <3>1 DEF Granted
  <2>3. CASE l = k
    <3>1. \E v \in Workers : InFlight(v, k)  BY <1>0, <1>2, <2>3 DEF Granted
    <3>2. pc[w] = "synced"  BY <1>2, <3>1 DEF InFlight
    <3> QED  BY <1>4, <1>5, <2>1, <2>3, <3>2
  <2> QED  BY <2>2, <2>3
<1>15. Balance'
  <2>1. \A v \in Workers : pc'[v] # "synced"  BY <1>0, <1>2, <1>3 DEF RunType
  <2>2. ASSUME NEW v \in Users PROVE total[v] = synced'[v]
    <3>1. CASE v = u /\ pc[w] = "synced"
      BY <1>0, <1>6, <1>7, <3>1 DEF Balance
    <3>2. CASE ~(v = u /\ pc[w] = "synced")
      BY <1>0, <1>2, <1>6, <1>7, <3>2 DEF Balance
    <3> QED  BY <3>1, <3>2
  <2> QED  BY <1>3, <2>1, <2>2 DEF Balance
<1>16. Bounded'
  <2> SUFFICES ASSUME NEW v \in Users PROVE synced'[v] <= earned[v]
    BY <1>3 DEF Bounded
  <2>1. CASE v = u /\ pc[w] = "synced"
    BY <1>0, <1>2, <1>6, <1>7, <2>1 DEF OpenRows
  <2>2. CASE ~(v = u /\ pc[w] = "synced")  BY <1>0, <1>6, <2>2 DEF Bounded
  <2> QED  BY <2>1, <2>2
<1> QED  BY <1>8, <1>9, <1>11, <1>12, <1>13, <1>14, <1>15, <1>16 DEF IInv

LEMMA StutterInv == ASSUME IInv, UNCHANGED vars PROVE IInv'
<1>1. UNCHANGED <<target, earned, rowVars, svcVars, lock, pc, batch, cur, faults>>
  BY DEF vars, runVars
<1>2. RunType' /\ FaultType'  BY <1>1 DEF IInv, Types, RunType, FaultType
<1>3. Mutex' /\ Items'  BY <1>1 DEF IInv, Mutex, Items, ItemRow, rowVars
<1>4. Types' /\ OpenRows' /\ OneOpenRow' /\ Bounded'
  BY <1>1, <1>2 DEF IInv, Types, PointsType, RowsType, SvcType, OpenRows, OneOpenRow, Bounded,
     rowVars, svcVars
<1>5. Granted' /\ Balance'
  BY <1>1 DEF IInv, Granted, Balance, InFlight, rowVars, svcVars
<1> QED  BY <1>3, <1>4, <1>5 DEF IInv

LEMMA NextInv == ASSUME Clean, IInv, [Next]_vars PROVE IInv'
<1>1. ASSUME NEW w \in Workers, LockLost(w) PROVE FALSE  BY <1>1 DEF LockLost, Fault, Clean
<1>2. ASSUME NEW w \in Workers, RunStep(w) PROVE IInv'
  BY <1>2, StageInv, LoadInv, GrantInv, RecordInv, FinishInv DEF RunStep
<1> QED
  BY <1>1, <1>2, RefreshInv, BeginInv, GrantFailsInv, AbandonInv, StutterInv DEF Next

-----------------------------------------------------------------------------
THEOREM Invariance == ASSUME Clean PROVE Spec => []IInv
<1>1. Init => IInv  BY InitInv
<1>2. IInv /\ [Next]_vars => IInv'  BY NextInv
<1> QED  BY <1>1, <1>2, PTL DEF Spec

\* points_sync/mod.rs:140-152, 297-308: under the lock a user has one open row, so
\* one grant at a time.
THEOREM OneRowOpen == ASSUME Clean PROVE Spec => []OneOpenRow
<1>1. IInv => OneOpenRow  BY DEF IInv
<1> QED  BY <1>1, Invariance, PTL

\* points_sync/mod.rs:255-296: no user is granted more than the settled points have
\* justified, however targets move and whatever is refused, fails or dies.
THEOREM PointsImportedOnce == ASSUME Clean PROVE Spec => []NoOverpayment
<1>1. IInv => NoOverpayment
  <2> SUFFICES ASSUME IInv, NEW u \in Users PROVE total[u] <= earned[u]
    BY DEF NoOverpayment
  <2>0. Mutex /\ Balance /\ Bounded /\ OpenRows /\ RowsType  BY DEF IInv, Types
  <2>1. CASE \A w \in Workers : pc[w] = "synced" => cur[w].key[1] # u
    BY <2>0, <2>1 DEF Balance, Bounded
  <2>2. CASE \E w \in Workers : pc[w] = "synced" /\ cur[w].key[1] = u
    <3>1. PICK w \in Workers : pc[w] = "synced" /\ cur[w].key[1] = u  BY <2>2
    <3>2. /\ Open(rows[cur[w].key]) /\ cur[w].key \in Keys
          /\ rows[cur[w].key].amount = cur[w].amount /\ cur[w].amount \in Nat
      BY <3>1, CurItem
    <3>3. total[u] = synced[u] + cur[w].amount  BY <2>0, <3>1 DEF Balance
    <3>4. cur[w].amount + synced[u] = cur[w].key[2] /\ cur[w].key[2] <= earned[u]
      BY <2>0, <3>1, <3>2 DEF OpenRows
    <3> QED  BY <2>0, <3>2, <3>3, <3>4 DEF RowsType
  <2> QED  BY <2>1, <2>2
<1> QED  BY <1>1, Invariance, PTL

\* The detailed specification implements the ledger: every step settles points,
\* grants what is still due, or changes neither.
THEOREM ImplementsLedger == ASSUME Clean PROVE Spec => LedgerSpec
<1>1. Init => Ledger!Init
  BY PointsAssumption DEF Init, Ledger!Init
<1>2. ASSUME IInv, [Next]_vars PROVE [Ledger!Next]_<<earned, total>>
  <2>1. ASSUME NEW u \in Users, NEW t \in 0..MaxTarget, Refresh(u, t)
        PROVE  Ledger!Settle(u) \/ UNCHANGED <<earned, total>>
    <3>1. earned \in [Users -> 0..MaxTarget]  BY <1>2 DEF IInv, Types, PointsType
    <3>2. total' = total  BY <2>1 DEF Refresh, svcVars
    <3>3. CASE t > earned[u]
      <4>1. earned' = [earned EXCEPT ![u] = t]  BY <2>1, <3>3 DEF Refresh
      <4>2. earned'[u] = t  BY <3>1, <4>1
      <4>3. earned'[u] \in Nat /\ earned'[u] > earned[u]  BY <3>3, <4>2, PointsAssumption
      <4>4. earned' = [earned EXCEPT ![u] = earned'[u]]  BY <4>1, <4>2
      <4> QED  BY <3>2, <4>3, <4>4 DEF Ledger!Settle
    <3>4. CASE ~(t > earned[u])
      <4>1. earned' = earned  BY <2>1, <3>1, <3>4 DEF Refresh
      <4> QED  BY <3>2, <4>1
    <3> QED  BY <3>3, <3>4
  <2>2. ASSUME NEW w \in Workers, NEW it \in batch[w], grant_credit(w, it)
        PROVE  \E u \in Users : Ledger!Grant(u)
    <3>1. /\ it.key[1] \in Users /\ it.amount \in Nat \ {0}
          /\ total' = [total EXCEPT ![it.key[1]] = @ + it.amount]
          /\ it.amount <= earned[it.key[1]] - total[it.key[1]]
      BY <1>2, <2>2, GrantEffect
    <3>2. earned[it.key[1]] \in Int /\ total[it.key[1]] \in Int
      BY <1>2, <3>1 DEF IInv, Types, PointsType, SvcType
    <3>3. it.amount \in 1..(earned[it.key[1]] - total[it.key[1]])  BY <3>1, <3>2
    <3>4. earned' = earned  BY <2>2 DEF grant_credit
    <3> QED  BY <3>1, <3>3, <3>4 DEF Ledger!Grant
  <2>3. ASSUME NEW w \in Workers, NEW it \in batch[w], grant_credit_fails(w, it)
        PROVE  UNCHANGED <<earned, total>>
    BY <2>3 DEF grant_credit_fails, Fault, Clean, svcVars
  <2>4. ASSUME NEW w \in Workers,
               \/ Begin(w) \/ stage_ready_points(w) \/ load_pending_items(w) \/ Record(w)
               \/ Finish(w) \/ Unlock(w) \/ DbFails(w) \/ Crash(w) \/ LockLost(w)
        PROVE  UNCHANGED <<earned, total>>
    BY <2>4 DEF Begin, stage_ready_points, load_pending_items, Record, Finish, Unlock, DbFails,
       Crash, LockLost, svcVars
  <2>5. CASE UNCHANGED vars  BY <2>5 DEF vars, svcVars
  <2> QED  BY <1>2, <2>1, <2>2, <2>3, <2>4, <2>5 DEF Next, RunStep, Ledger!Next
<1> QED  BY <1>1, <1>2, Invariance, PTL DEF Spec, LedgerSpec, Ledger!Spec

-----------------------------------------------------------------------------
(* Whatever is lost: no proviso from here on.  Two runs may overlap and an      *)
(* outcome may be recorded twice, in either order.                            *)

Marked(r) == r # None /\ r.status = "synced"

\* Rows are never deleted, so an item's row exists; a grant about to be recorded
\* is one the service has made.
LossInv ==
    /\ rows \in [Keys -> Row \cup {None}]
    /\ seen \subseteq Keys
    /\ pc \in [Workers -> {"idle", "stage", "load", "grant", "synced", "failed", "unlock"}]
    /\ batch \in [Workers -> SUBSET Item]
    /\ cur \in [Workers -> Item \cup {None}]
    /\ \A w \in Workers :
          /\ \A it \in batch[w] : rows[it.key] # None
          /\ pc[w] \in {"synced", "failed"} => cur[w] # None /\ rows[cur[w].key] # None
          /\ pc[w] = "synced" => cur[w].key \in seen
    /\ SyncedWasGranted

\* stage_ready_points calls no row synced that was not, and deletes none.
LEMMA StageMarks ==
    ASSUME LossInv, NEW w \in Workers, stage_ready_points(w), NEW k \in Keys
    PROVE  /\ rows'[k] \in Row \cup {None}
           /\ rows[k] # None => rows'[k] # None
           /\ Marked(rows'[k]) => Marked(rows[k])
<1>0. rows'[k] = CASE superseded(k) -> [rows[k] EXCEPT !.status = "superseded"]
                   [] inserted(k)   -> staged(k)
                   [] OTHER         -> rows[k]
  BY DEF stage_ready_points
<1>1. ~(superseded(k) /\ inserted(k))
  BY PointsAssumption DEF superseded, inserted
<1>2. rows[k] \in Row \cup {None} /\ None \notin Row  BY PointsAssumption DEF LossInv
<1>3. CASE superseded(k)
  <2>1. rows[k] \in Row /\ rows'[k] = [rows[k] EXCEPT !.status = "superseded"]
    BY <1>0, <1>1, <1>2, <1>3 DEF superseded, Open
  <2>2. rows'[k] \in Row /\ rows'[k].status = "superseded"  BY <2>1 DEF Row, Statuses
  <2> QED  BY <1>2, <2>2 DEF Marked
<1>4. CASE inserted(k)
  <2>1. rows'[k] = staged(k)  BY <1>0, <1>1, <1>4
  <2>2. credit_amount(k[1]) \in Nat  BY <1>4, PointsAssumption DEF inserted
  <2>3. CASE rows[k] = None
    <3>1. staged(k) \in Row /\ staged(k).status = "pending"
      BY <2>2, <2>3 DEF staged, Row, Statuses
    <3> QED  BY <1>2, <2>1, <2>3, <3>1 DEF Marked
  <2>4. CASE rows[k] # None
    <3>1. rows[k] \in Row /\ staged(k) = [rows[k] EXCEPT !.amount = credit_amount(k[1])]
      BY <1>2, <2>4 DEF staged
    <3>2. staged(k) \in Row /\ staged(k).status = rows[k].status
      BY <2>2, <3>1 DEF Row, Statuses
    <3> QED  BY <1>2, <2>1, <2>4, <3>2 DEF Marked
  <2> QED  BY <2>3, <2>4
<1>5. CASE ~superseded(k) /\ ~inserted(k)  BY <1>0, <1>2, <1>5
<1> QED  BY <1>3, <1>4, <1>5

LEMMA LossStep == ASSUME LossInv, [Next]_vars PROVE LossInv'
<1> USE DEF Marked
<1>0. /\ rows \in [Keys -> Row \cup {None}] /\ seen \subseteq Keys
      /\ pc \in [Workers -> {"idle", "stage", "load", "grant", "synced", "failed", "unlock"}]
      /\ batch \in [Workers -> SUBSET Item]
      /\ cur \in [Workers -> Item \cup {None}]
      /\ \A it \in Item : it.key \in Keys /\ it # None
  BY PointsAssumption DEF LossInv, Item
<1>1. ASSUME UNCHANGED <<rows, seen>>,
             pc' \in [Workers -> {"idle", "stage", "load", "grant", "synced", "failed", "unlock"}],
             batch' \in [Workers -> SUBSET Item], cur' \in [Workers -> Item \cup {None}],
             \A w \in Workers : /\ batch'[w] \subseteq batch[w]
                                /\ pc'[w] \in {"synced", "failed"} => pc'[w] = pc[w] /\ cur'[w] = cur[w]
      PROVE  LossInv'
  <2>1. ASSUME NEW w \in Workers
        PROVE  /\ \A it \in batch'[w] : rows[it.key] # None
               /\ pc'[w] \in {"synced", "failed"} => cur'[w] # None /\ rows[cur'[w].key] # None
               /\ pc'[w] = "synced" => cur'[w].key \in seen
    <3>1. batch'[w] \subseteq batch[w]  BY <1>1
    <3>2. pc'[w] \in {"synced", "failed"} => pc'[w] = pc[w] /\ cur'[w] = cur[w]  BY <1>1
    <3> QED  BY <3>1, <3>2 DEF LossInv
  <2> QED  BY <1>1, <2>1 DEF LossInv, SyncedWasGranted
<1>2. ASSUME NEW w \in Workers, \/ Begin(w) \/ Finish(w) \/ Unlock(w) \/ DbFails(w) \/ Crash(w)
                               \/ LockLost(w)
      PROVE  LossInv'
  BY <1>0, <1>1, <1>2 DEF Begin, Finish, Unlock, DbFails, Crash, LockLost, rowVars, svcVars
<1>3. ASSUME NEW u \in Users, NEW t \in 0..MaxTarget, Refresh(u, t) PROVE LossInv'
  BY <1>0, <1>1, <1>3 DEF Refresh, rowVars, svcVars, runVars
<1>4. CASE UNCHANGED vars  BY <1>0, <1>1, <1>4 DEF vars, rowVars, svcVars, runVars
<1>5. ASSUME NEW w \in Workers, stage_ready_points(w) PROVE LossInv'
  <2>1. /\ pc' = [pc EXCEPT ![w] = "load"] /\ UNCHANGED <<seen, batch, cur>>
        /\ rows' = [k \in Keys |-> rows'[k]]
    BY <1>5 DEF stage_ready_points, svcVars
  <2>2. \A k \in Keys : /\ rows'[k] \in Row \cup {None}
                        /\ rows[k] # None => rows'[k] # None
                        /\ Marked(rows'[k]) => Marked(rows[k])
    BY <1>5, StageMarks
  <2>3. rows' \in [Keys -> Row \cup {None}]  BY <2>1, <2>2
  <2>4. SyncedWasGranted'  BY <2>1, <2>2 DEF LossInv, SyncedWasGranted
  <2>5. ASSUME NEW v \in Workers
        PROVE  /\ \A it \in batch'[v] : rows'[it.key] # None
               /\ pc'[v] \in {"synced", "failed"} => cur'[v] # None /\ rows'[cur'[v].key] # None
               /\ pc'[v] = "synced" => cur'[v].key \in seen'
    BY <1>0, <2>1, <2>2 DEF LossInv
  <2> QED  BY <1>0, <2>1, <2>3, <2>4, <2>5 DEF LossInv
<1>6. ASSUME NEW w \in Workers, load_pending_items(w) PROVE LossInv'
  <2>1. PICK ks \in SUBSET Pending :
           batch' = [batch EXCEPT ![w] = {[key |-> k, amount |-> rows[k].amount] : k \in ks}]
    BY <1>6 DEF load_pending_items
  <2>2. pc' = [pc EXCEPT ![w] = "grant"] /\ UNCHANGED <<rows, seen, cur>>
    BY <1>6 DEF load_pending_items, rowVars, svcVars
  <2>3. \A k \in ks : k \in Keys /\ rows[k] \in Row /\ rows[k] # None
    BY <1>0 DEF Pending, Open
  <2>4. \A it \in {[key |-> k, amount |-> rows[k].amount] : k \in ks} :
           it \in Item /\ rows[it.key] # None
    BY <2>3 DEF Item, Row
  <2>5. batch' \in [Workers -> SUBSET Item]  BY <1>0, <2>1, <2>4
  <2>6. \A v \in Workers : \A it \in batch'[v] : rows[it.key] # None
    BY <1>0, <2>1, <2>4 DEF LossInv
  <2> QED  BY <1>0, <2>2, <2>5, <2>6 DEF LossInv, SyncedWasGranted
<1>7. ASSUME NEW w \in Workers, NEW it \in batch[w], NEW to \in {"synced", "failed"},
             batch' = [batch EXCEPT ![w] = @ \ {it}], cur' = [cur EXCEPT ![w] = it],
             pc' = [pc EXCEPT ![w] = to], rows' = rows,
             seen' = seen \/ seen' = seen \cup {it.key}, to = "synced" => it.key \in seen'
      PROVE  LossInv'
  <2>1. it \in Item /\ it.key \in Keys /\ rows[it.key] # None /\ it # None
    BY <1>0, <1>7 DEF LossInv
  <2>2. seen \subseteq seen' /\ seen' \subseteq Keys  BY <1>0, <1>7, <2>1
  <2>3. \A v \in Workers : batch'[v] \subseteq batch[v]  BY <1>0, <1>7
  <2>4. /\ pc' \in [Workers -> {"idle", "stage", "load", "grant", "synced", "failed", "unlock"}]
        /\ batch' \in [Workers -> SUBSET Item] /\ cur' \in [Workers -> Item \cup {None}]
    BY <1>0, <1>7, <2>1
  <2>5. ASSUME NEW v \in Workers
        PROVE  /\ \A i \in batch'[v] : rows[i.key] # None
               /\ pc'[v] \in {"synced", "failed"} => cur'[v] # None /\ rows[cur'[v].key] # None
               /\ pc'[v] = "synced" => cur'[v].key \in seen'
    BY <1>0, <1>7, <2>1, <2>2, <2>3 DEF LossInv
  <2>6. SyncedWasGranted'  BY <1>7, <2>2 DEF LossInv, SyncedWasGranted
  <2> QED  BY <1>0, <1>7, <2>2, <2>4, <2>5, <2>6 DEF LossInv
<1>8. ASSUME NEW w \in Workers, NEW it \in batch[w],
             grant_credit(w, it) \/ grant_credit_fails(w, it)
      PROVE  LossInv'
  BY <1>7, <1>8 DEF grant_credit, grant_credit_fails, Service, Fault, rowVars, svcVars
<1>9. ASSUME NEW w \in Workers, Record(w) PROVE LossInv'
  <2> DEFINE k == cur[w].key
  <2>1. /\ pc[w] \in {"synced", "failed"} /\ cur' = [cur EXCEPT ![w] = None]
        /\ pc' = [pc EXCEPT ![w] = "grant"] /\ UNCHANGED <<seen, batch>>
    BY <1>9 DEF Record, mark_synced, mark_failed, svcVars
  <2>2. k \in Keys /\ rows[k] # None /\ rows[k] \in Row /\ (pc[w] = "synced" => k \in seen)
    BY <1>0, <2>1 DEF LossInv
  <2>3. PICK r : rows' = [rows EXCEPT ![k] = r] /\ r \in Row /\ (r.status = "synced" => k \in seen)
    <3>1. CASE mark_synced(w)
      <4>1. [rows[k] EXCEPT !.status = "synced"] \in Row  BY <2>2 DEF Row, Statuses
      <4> QED  BY <2>2, <3>1, <4>1 DEF mark_synced, SetRow
    <3>2. CASE mark_failed(w)
      <4>1. rows' = [rows EXCEPT ![k] = [rows[k] EXCEPT !.status = "failed", !.attempts = @ + 1]]
        BY <3>2 DEF mark_failed, SetRow
      <4> QED  BY <2>2, <4>1, FailedRow
    <3> QED  BY <1>9, <3>1, <3>2 DEF Record
  <2>4. /\ rows' \in [Keys -> Row \cup {None}] /\ \A l \in Keys : rows[l] # None => rows'[l] # None
        /\ \A l \in Keys : Marked(rows'[l]) => l \in seen
    BY <1>0, <2>2, <2>3, PointsAssumption DEF LossInv, SyncedWasGranted
  <2>5. ASSUME NEW v \in Workers
        PROVE  /\ \A i \in batch'[v] : rows'[i.key] # None
               /\ pc'[v] \in {"synced", "failed"} => cur'[v] # None /\ rows'[cur'[v].key] # None
               /\ pc'[v] = "synced" => cur'[v].key \in seen
    BY <1>0, <2>1, <2>4 DEF LossInv
  <2> QED  BY <1>0, <2>1, <2>4, <2>5 DEF LossInv, SyncedWasGranted
<1> QED  BY <1>2, <1>3, <1>4, <1>5, <1>6, <1>8, <1>9 DEF Next, RunStep

\* points_sync/mod.rs:165-184, 412-513: a row is called synced only if the service granted
\* its biz_no, whatever answers, statements, processes and locks are lost.
THEOREM SyncedRowsWereGranted == Spec => []SyncedWasGranted
<1>1. Init => LossInv
  BY PointsAssumption DEF Init, LossInv, SyncedWasGranted
<1>2. LossInv /\ [Next]_vars => LossInv'  BY LossStep
<1>3. LossInv => SyncedWasGranted  BY DEF LossInv
<1> QED  BY <1>1, <1>2, <1>3, PTL DEF Spec
=============================================================================
