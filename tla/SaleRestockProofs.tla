------------------------- MODULE SaleRestockProofs -------------------------
(***************************************************************************)
(* Proofs about SaleRestock, for any jobs, plans, targets and limits.      *)
(***************************************************************************)
EXTENDS SaleRestock, TLAPS

(* A step that starts with well-typed variables leaves them well-typed.    *)
LEMMA TypeStep ==
  ASSUME TypeOK, [Next]_vars
  PROVE  TypeOK'
<1> USE JobsAssumption, LimitsAssumption DEF TypeOK, rowVars, shop, Running, Statuses, Outcomes
<1>1. CASE StartPass
  <2>1. status' \in [Jobs -> Statuses]
    BY <1>1, Zenon DEF StartPass, Queued
  <2>2. minute' \in [Jobs -> {"before", "now", "seen", "past"}]
    BY <1>1 DEF StartPass
  <2>3. faults' \in Nat /\ left' \in Nat /\ open' \subseteq Jobs
    BY <1>1 DEF StartPass, Fault, Claimable
  <2> QED BY <1>1, <2>1, <2>2, <2>3 DEF StartPass
<1>2. ASSUME NEW j \in Jobs, Claim(j) PROVE TypeOK'
  BY <1>2 DEF Claim
<1>3. CASE EndPass
  BY <1>3 DEF EndPass, Fault
<1>4. CASE QueryStock
  <2>1. Deficit \in Nat /\ ToUpload \in Nat
    BY <1>4 DEF QueryStock, Deficit, ToUpload, Stock
  <2> QED BY <1>4, <2>1 DEF QueryStock, Ends, Goes
<1>5. CASE CreateKeys
  BY <1>5 DEF CreateKeys, Goes
<1>6. CASE Upload
  BY <1>6 DEF Upload, List, Goes
<1>7. CASE RunFails
  BY <1>7 DEF RunFails, List, Fault
<1>8. CASE Verify
  BY <1>8 DEF Verify, Ends
<1>9. CASE VerifyFails
  BY <1>9 DEF VerifyFails, Ends, Fault
<1>10. CASE Recheck
  BY <1>10 DEF Recheck, AfterTimeout, Ends, Fault
<1>11. CASE Settle
  BY <1>11 DEF Settle, Forget, Retried, TimedOut
<1>12. CASE SettleLost
  BY <1>12 DEF SettleLost, Forget, Fault
<1>13. CASE Crash
  BY <1>13 DEF Crash, Fault
<1>14. ASSUME NEW p \in Plans, Sell(p) PROVE TypeOK'
  BY <1>14 DEF Sell
<1>15. ASSUME NEW p \in Plans, LateUploadLands(p) PROVE TypeOK'
  BY <1>15 DEF LateUploadLands
<1>16. ASSUME NEW j \in Jobs, LockExpires(j) PROVE TypeOK'
  BY <1>16 DEF LockExpires
<1>17. ASSUME NEW j \in Jobs, MinuteStarts(j) \/ MinuteEnds(j) PROVE TypeOK'
  BY <1>17 DEF MinuteStarts, MinuteEnds
<1>18. CASE UNCHANGED vars
  BY <1>18 DEF vars
<1> QED
  BY <1>1, <1>2, <1>3, <1>4, <1>5, <1>6, <1>7, <1>8, <1>9, <1>10, <1>11, <1>12,
     <1>13, <1>14, <1>15, <1>16, <1>17, <1>18
     DEF Next, Scheduler, Environment

LEMMA TypeInit == Init => TypeOK
BY JobsAssumption DEF Init, TypeOK, Running, Statuses, Outcomes

(* Every variable keeps its type.                                          *)
THEOREM RestockTypeCorrect == Spec => []TypeOK
BY TypeInit, TypeStep, PTL DEF Spec

-----------------------------------------------------------------------------
(* A target that admits n cards admits fewer.                              *)
LEMMA WithinDown ==
  ASSUME NEW p, NEW n \in Nat, NEW m \in Nat, m <= n, Within(p, n)
  PROVE  Within(p, m)
BY JobsAssumption DEF Within

(* The rows a pass may still claim, and the one it runs, are not settled.  *)
LEMMA RowStep ==
  ASSUME TypeOK, RowInv, [Next]_vars
  PROVE  RowInv'
<1> USE JobsAssumption DEF TypeOK, RowInv, Settled, Running, rowVars
<1>1. CASE StartPass
  BY <1>1 DEF StartPass, Claimable
<1>2. ASSUME NEW j \in Jobs, Claim(j) PROVE RowInv'
  BY <1>2 DEF Claim
<1>3. CASE EndPass \/ Crash
  BY <1>3 DEF EndPass, Crash
<1>4. CASE QueryStock \/ CreateKeys \/ Upload \/ RunFails
  BY <1>4 DEF QueryStock, CreateKeys, Upload, RunFails, Ends, Goes
<1>5. CASE Verify \/ VerifyFails \/ Recheck
  BY <1>5 DEF Verify, VerifyFails, Recheck, AfterTimeout, Ends
<1>6. CASE Settle
  BY <1>6 DEF Settle, Forget
<1>7. CASE SettleLost
  BY <1>7 DEF SettleLost, Forget
<1>8. ASSUME NEW p \in Plans, Sell(p) \/ LateUploadLands(p) PROVE RowInv'
  BY <1>8 DEF Sell, LateUploadLands
<1>9. ASSUME NEW j \in Jobs, LockExpires(j) \/ MinuteStarts(j) \/ MinuteEnds(j)
      PROVE RowInv'
  BY <1>9 DEF LockExpires, MinuteStarts, MinuteEnds
<1>10. CASE UNCHANGED vars
  BY <1>10 DEF vars
<1> QED
  BY <1>1, <1>2, <1>3, <1>4, <1>5, <1>6, <1>7, <1>8, <1>9, <1>10
     DEF Next, Scheduler, Environment

(* Without a fault no run gets on the way to a failure.                    *)
LEMMA FaultFreeStep ==
  ASSUME TypeOK, FaultFreeInv, [Next]_vars
  PROVE  FaultFreeInv'
<1> USE JobsAssumption, LimitsAssumption
    DEF TypeOK, FaultFreeInv, FaultFreeSucceeds, Running, rowVars
<1>1. CASE StartPass
  <2>1. CASE UNCHANGED faults
    BY <1>1, <2>1, Zenon DEF StartPass, Queued
  <2>2. CASE Fault
    BY <1>1, <2>2 DEF StartPass, Fault
  <2> QED BY <1>1, <2>1, <2>2 DEF StartPass
<1>2. ASSUME NEW j \in Jobs, Claim(j) PROVE FaultFreeInv'
  BY <1>2 DEF Claim
<1>3. CASE EndPass \/ Crash
  BY <1>3 DEF EndPass, Crash, Fault
<1>4. CASE QueryStock \/ CreateKeys \/ Upload
  BY <1>4 DEF QueryStock, CreateKeys, Upload, Ends, Goes
<1>5. CASE RunFails \/ VerifyFails \/ SettleLost
  BY <1>5 DEF RunFails, VerifyFails, SettleLost, Fault
<1>6. CASE Verify
  BY <1>6 DEF Verify, Ends
<1>7. CASE Recheck
  BY <1>7 DEF Recheck, Fault, AfterTimeout, Ends
<1>8. CASE Settle
  BY <1>8 DEF Settle, Forget, Retried
<1>9. ASSUME NEW p \in Plans, Sell(p) \/ LateUploadLands(p) PROVE FaultFreeInv'
  BY <1>9 DEF Sell, LateUploadLands
<1>10. ASSUME NEW j \in Jobs, LockExpires(j) \/ MinuteStarts(j) \/ MinuteEnds(j)
       PROVE FaultFreeInv'
  BY <1>10 DEF LockExpires, MinuteStarts, MinuteEnds
<1>11. CASE UNCHANGED vars
  BY <1>11 DEF vars
<1> QED
  BY <1>1, <1>2, <1>3, <1>4, <1>5, <1>6, <1>7, <1>8, <1>9, <1>10, <1>11
     DEF Next, Scheduler, Environment

-----------------------------------------------------------------------------
(* The stock, together with the cards about to be listed, stays within the *)
(* greatest target.                                                        *)
Fits == StockWithinTarget /\ RoomLeft

(* Listing what there is room for.                                         *)
LEMMA ListFits ==
  ASSUME TypeOK, Fits, pc = "upload", List, UNCHANGED strays
  PROVE  StockWithinTarget'
<1> SUFFICES ASSUME NEW p \in Plans \ strays
             PROVE  stock'[p] = 0 \/ Within(p, stock'[p])
  BY DEF StockWithinTarget, Within
<1> USE JobsAssumption DEF TypeOK, Running
<1>1. CASE p = PlanOf[cur]
  <2>1. stock'[p] = Stock + keys
    BY <1>1 DEF List, Stock
  <2> QED BY <1>1, <2>1 DEF Fits, RoomLeft
<1>2. CASE p # PlanOf[cur]
  BY <1>2 DEF List, Fits, StockWithinTarget
<1> QED BY <1>1, <1>2

LEMMA FitsStep ==
  ASSUME TypeOK, Fits, [Next]_vars
  PROVE  Fits'
<1> USE JobsAssumption, LimitsAssumption DEF TypeOK, Running, rowVars, shop
<1>1. ASSUME UNCHANGED shop, pc' \notin {"create", "upload"} PROVE Fits'
  BY <1>1 DEF Fits, StockWithinTarget, RoomLeft, Within
<1>2. CASE \/ StartPass \/ EndPass \/ Verify \/ VerifyFails \/ Recheck
           \/ Settle \/ SettleLost \/ Crash \/ \E j \in Jobs : Claim(j)
  BY <1>1, <1>2 DEF StartPass, EndPass, Verify, VerifyFails, Recheck, AfterTimeout,
     Settle, SettleLost, Forget, Ends, Crash, Claim
<1>3. CASE QueryStock
  <2>1. CASE ToUpload = 0
    BY <1>1, <1>3, <2>1 DEF QueryStock, Ends
  <2>2. CASE ToUpload # 0
    <3>1. Stock + ToUpload <= Target[cur]
      BY <1>3, <2>2 DEF QueryStock, ToUpload, Deficit, Stock
    <3>2. Within(PlanOf[cur], Stock + ToUpload)
      BY <1>3, <3>1 DEF QueryStock, Within
    <3> QED BY <1>3, <2>2, <3>2
            DEF QueryStock, Goes, Fits, StockWithinTarget, RoomLeft, Stock, Within
  <2> QED BY <2>1, <2>2
<1>4. CASE CreateKeys
  BY <1>4 DEF CreateKeys, Goes, Fits, StockWithinTarget, RoomLeft, Stock, Within
<1>5. CASE Upload
  <2>1. StockWithinTarget'
    BY <1>5, ListFits DEF Upload
  <2> QED BY <1>5, <2>1 DEF Upload, Goes, Fits, RoomLeft
<1>6. CASE RunFails
  <2>1. StockWithinTarget'
    <3>1. CASE UNCHANGED stock
      BY <1>6, <3>1 DEF RunFails, Fits, StockWithinTarget, Within
    <3>2. CASE pc = "upload" /\ List
      BY <1>6, <3>2, ListFits DEF RunFails
    <3> QED BY <1>6, <3>1, <3>2 DEF RunFails
  <2> QED BY <1>6, <2>1 DEF RunFails, Fits, RoomLeft
<1>7. ASSUME NEW p \in Plans, Sell(p) PROVE Fits'
  <2>1. /\ stock' \in [Plans -> Nat] /\ stock'[p] = stock[p] - 1 /\ stock[p] > 0
        /\ \A q \in Plans : stock'[q] <= stock[q]
    BY <1>7 DEF Sell
  <2>2. StockWithinTarget'
    <3> SUFFICES ASSUME NEW q \in Plans \ strays
                 PROVE  stock'[q] = 0 \/ Within(q, stock'[q])
      BY <1>7 DEF Sell, StockWithinTarget, Within
    <3>1. stock[q] \in Nat /\ stock'[q] \in Nat /\ stock'[q] <= stock[q]
      BY <2>1
    <3>2. stock[q] = 0 \/ Within(q, stock[q])
      BY DEF Fits, StockWithinTarget
    <3> HIDE DEF TypeOK
    <3> QED BY <3>1, <3>2, WithinDown
  <2>3. RoomLeft'
    <3> SUFFICES ASSUME pc \in {"create", "upload"}, PlanOf[cur] \notin strays
                 PROVE  Within(PlanOf[cur], Stock' + keys)
      BY <1>7 DEF Sell, RoomLeft, Within, Stock
    <3> DEFINE q == PlanOf[cur]
    <3>1. cur \in Jobs /\ q \in Plans
      OBVIOUS
    <3>2. /\ stock[q] \in Nat /\ stock'[q] \in Nat /\ keys \in Nat
          /\ stock'[q] <= stock[q]
      BY <2>1, <3>1
    <3>3. Within(q, stock[q] + keys)
      BY DEF Fits, RoomLeft, Stock
    <3>4. Within(q, stock'[q] + keys)
      <4> HIDE DEF TypeOK, q
      <4>1. /\ stock[q] + keys \in Nat /\ stock'[q] + keys \in Nat
            /\ stock'[q] + keys <= stock[q] + keys
        BY <3>2
      <4> QED BY <3>3, <4>1, WithinDown
    <3> QED BY <1>7, <3>4 DEF Sell, Stock
  <2> QED BY <2>2, <2>3 DEF Fits
<1>8. ASSUME NEW p \in Plans, LateUploadLands(p) PROVE Fits'
  <2>1. p \in strays' /\ strays \subseteq strays'
        /\ \A q \in Plans \ strays' : stock'[q] = stock[q]
    BY <1>8 DEF LateUploadLands
  <2>2. UNCHANGED <<pc, cur, keys>>
    BY <1>8 DEF LateUploadLands
  <2>3. StockWithinTarget'
    BY <2>1 DEF Fits, StockWithinTarget, Within
  <2>4. RoomLeft'
    BY <2>1, <2>2 DEF Fits, RoomLeft, Within, Stock
  <2> QED BY <2>3, <2>4 DEF Fits
<1>9. CASE \E j \in Jobs : LockExpires(j) \/ MinuteStarts(j) \/ MinuteEnds(j)
  BY <1>9 DEF LockExpires, MinuteStarts, MinuteEnds, Fits, StockWithinTarget, RoomLeft,
     Within, Stock
<1>10. CASE UNCHANGED vars
  BY <1>10 DEF vars, Fits, StockWithinTarget, RoomLeft, Within, Stock
<1> QED
  BY <1>2, <1>3, <1>4, <1>5, <1>6, <1>7, <1>8, <1>9, <1>10
     DEF Next, Scheduler, Environment

-----------------------------------------------------------------------------
(* RestockInv holds of every behaviour.                                    *)
THEOREM RestockSafe == Spec => []RestockInv
<1>1. ASSUME Init PROVE RestockInv
  <2>1. StockWithinTarget /\ RoomLeft
    BY <1>1 DEF Init, StockWithinTarget, RoomLeft
  <2>2. RowInv
    BY <1>1, JobsAssumption DEF Init, RowInv, Running
  <2>3. FaultFreeInv
    BY <1>1 DEF Init, FaultFreeInv, FaultFreeSucceeds
  <2> QED BY <2>1, <2>2, <2>3 DEF RestockInv
<1>2. ASSUME TypeOK, RestockInv, [Next]_vars PROVE RestockInv'
  <2>1. Fits /\ RowInv /\ FaultFreeInv
    BY <1>2 DEF RestockInv, Fits
  <2>2. Fits' /\ RowInv' /\ FaultFreeInv'
    BY <1>2, <2>1, RowStep, FaultFreeStep, FitsStep
  <2> QED BY <2>2 DEF RestockInv, Fits
<1> QED BY <1>1, <1>2, RestockTypeCorrect, PTL DEF Spec

(* The shop never holds more than the greatest target, for any number of   *)
(* jobs, plans, retries and crashes.                                       *)
THEOREM NeverOverstocked == Spec => []StockWithinTarget
<1>1. RestockInv => StockWithinTarget
  BY DEF RestockInv
<1> QED BY <1>1, RestockSafe, PTL

(* Only a failed call makes a job fail.                                    *)
THEOREM OnlyFaultsFail == Spec => []FaultFreeSucceeds
<1>1. RestockInv => FaultFreeSucceeds
  BY DEF RestockInv, FaultFreeInv
<1> QED BY <1>1, RestockSafe, PTL

(* A settled job is never run again.                                       *)
THEOREM RestockOnceADay == Spec => SettledForGood
<1> DEFINE Stays == \A j \in Jobs : Settled(j) => status'[j] = status[j]
<1>1. ASSUME TypeOK, RowInv, Next PROVE Stays
  <2> USE DEF TypeOK, RowInv, Settled, Running, rowVars
  <2>1. CASE StartPass
    BY <1>1, <2>1, Zenon DEF StartPass, Queued
  <2>2. CASE \E j \in Jobs : Claim(j)
    BY <1>1, <2>2 DEF Claim
  <2>3. CASE Settle
    <3> SUFFICES ASSUME NEW j \in Jobs, Settled(j) PROVE status'[j] = status[j]
      OBVIOUS
    <3>1. j # cur
      BY <1>1, <2>3 DEF Settle
    <3> QED BY <1>1, <2>3, <3>1 DEF Settle
  <2>4. CASE UNCHANGED status
    BY <2>4
  <2> QED
    BY <1>1, <2>1, <2>2, <2>3, <2>4
       DEF Next, Scheduler, Environment, EndPass, QueryStock, CreateKeys, Upload,
       RunFails, Verify, VerifyFails, Recheck, SettleLost, Crash, Sell,
       LateUploadLands, LockExpires, MinuteStarts, MinuteEnds
<1>2. TypeOK /\ RestockInv /\ [Next]_vars => [Stays]_vars
  BY <1>1 DEF RestockInv
<1> QED BY <1>2, RestockSafe, RestockTypeCorrect, PTL DEF Spec, SettledForGood
=============================================================================
