---------------------------- MODULE GatewayProofs ----------------------------
(***************************************************************************)
(* Proofs about Gateway for any number of requests and keys, any quota and *)
(* limit, and any number of windows and crashes.                           *)
(*                                                                         *)
(* A request that acts or has still to store its outcome holds its key:    *)
(* the row is its own and nobody else can claim, release or expire it      *)
(* (HoldersHold).  What remains of it afterwards is the row that carries   *)
(* its name, as long as it has not given the key up (EffectsHeld).  This   *)
(* needs rows that outlive their handlers: the theorems about the effects  *)
(* of a key assume Timely, and BaseInv, the part of the invariant behind   *)
(* the others, does without it.                                            *)
(***************************************************************************)
EXTENDS Gateway, FiniteSetTheorems, TLAPS

\* An operation belongs to the place where its handler awaits it, or its handler is gone.
OpsInPlace ==
    \A r \in Requests :
        /\ op[r] = "check" => pc[r] \in {"checking", "dropped"}
        /\ op[r] = "claim" => pc[r] \in {"claiming", "dropped"} /\ key[r] # NoKey
        /\ op[r] = "complete" =>
              pc[r] \in {"completing", "dropped"} /\ key[r] # NoKey /\ effect[r] # "none"
        /\ op[r] = "release" => pc[r] \in {"releasing", "dropped"} /\ key[r] # NoKey

\* r has claimed its key and has not stored its outcome.
Holds(r) == key[r] # NoKey /\ (pc[r] = "acting" \/ op[r] \in {"complete", "release"})

HoldersHold ==
    \A r \in Requests : Holds(r) =>
        /\ rows[key[r]] # NoRow
        /\ rows[key[r]].state = "processing"
        /\ rows[key[r]].by = r
        /\ ~rows[key[r]].expired

RowsTrue ==
    \A k \in Keys : rows[k] # NoRow =>
        /\ key[rows[k].by] = k
        /\ rows[k].state = "completed" => effect[rows[k].by] # "none"

EffectsHeld ==
    \A r \in Requests : effect[r] # "none" /\ key[r] # NoKey /\ r \notin givenUp =>
        /\ rows[key[r]] # NoRow
        /\ rows[key[r]].by = r
        /\ ~rows[key[r]].expired

\* In the life of the process in which it was spawned, a child runs under its handler.
TasksAct ==
    \A r \in Requests :
        /\ life[r] <= crashes
        /\ kind = "task" /\ effect[r] = "running" /\ life[r] = crashes => pc[r] = "acting"

PermitsBounded == Cardinality(Permits) <= MaxConcurrency

\* Requests that the current window has not counted, and that may act or have acted in it:
\* a check that began before the window counts where it began.
Carried ==
    {r \in Requests \ counted[windows] :
        \/ r \in used
        \/ pc[r] \in {"guarding", "claiming", "acting"}
        \/ pc[r] = "checking" /\ window[r] # windows}

WindowBounded ==
    /\ \A w \in 0..MaxWindows : Cardinality(counted[w] \ overrun) <= Quota
    /\ Cardinality(Carried) <= MaxConcurrency

\* Whoever was told of an effect was told of one that began, and the job of one that
\* began is known.
AnswersTrue ==
    \A r \in Requests :
        /\ pc[r] = "ok" => effect[r] # "none"
        /\ replayOf[r] # NoRequest => effect[replayOf[r]] # "none"
        /\ kind = "job" /\ effect[r] # "none" => r \in jobs \/ life[r] < crashes

BaseInv ==
    /\ TypeOK
    /\ OpsInPlace
    /\ RowsTrue
    /\ TasksAct
    /\ PermitsBounded
    /\ WindowBounded
    /\ AnswersTrue

IInv == BaseInv /\ HoldersHold /\ EffectsHeld /\ TaskRunsAlone

-----------------------------------------------------------------------------

\* Purging leaves a row as it is or removes it, and never removes an unexpired one.
LEMMA PurgedRows ==
    ASSUME TypeOK
    PROVE  /\ Purged \in [Keys -> Row \cup {NoRow}]
           /\ \A k \in Keys : Purged[k] \in {rows[k], NoRow}
           /\ \A k \in Keys : rows[k] # NoRow /\ ~rows[k].expired => Purged[k] = rows[k]
           /\ \A k \in Keys : Purged[k] # NoRow => ~Purged[k].expired
BY DEF Purged, TypeOK, Row

\* The row of a claim.
LEMMA ClaimedRow ==
    ASSUME NEW r \in Requests
    PROVE  LET row == [state |-> "processing", by |-> r, expired |-> FALSE] IN
           /\ row \in Row /\ row # NoRow
           /\ row.state = "processing" /\ row.by = r /\ ~row.expired
<1> DEFINE row == [state |-> "processing", by |-> r, expired |-> FALSE]
<1>1. row \in Row
  BY DEF Row
<1>2. row # NoRow
  BY <1>1, NamesAssumption
<1> QED
  BY <1>1, <1>2

\* complete() turns the claim it finds into a response.
LEMMA CompleteRows ==
    ASSUME TypeOK, OpsInPlace, NEW r \in Requests, Complete(r), Reserved(r)
    PROVE  /\ key[r] \in Keys
           /\ rows' \in [Keys -> Row \cup {NoRow}]
           /\ rows'[key[r]] # NoRow
           /\ rows'[key[r]].state = "completed"
           /\ rows'[key[r]].by = r
           /\ rows'[key[r]].expired = rows[key[r]].expired
           /\ \A k \in Keys \ {key[r]} : rows'[k] = rows[k]
<1> DEFINE row == rows[key[r]]
           done == [row EXCEPT !.state = "completed", !.by = r]
<1>1. key[r] \in Keys
  BY DEF Complete, OpsInPlace, TypeOK, Ops
<1>2. row \in Row
  BY <1>1 DEF Reserved, TypeOK
<1>3. rows' = [rows EXCEPT ![key[r]] = done]
  BY <1>1 DEF Complete, TypeOK
<1>4. /\ done \in Row
      /\ done.state = "completed" /\ done.by = r /\ done.expired = row.expired
  BY <1>2 DEF Row
<1>5. done # NoRow
  BY <1>4, NamesAssumption
<1> QED
  BY <1>1, <1>3, <1>4, <1>5 DEF TypeOK

LEMMA WindowsStep ==
    ASSUME TypeOK, [Next]_vars
    PROVE  WindowsTyped'
<1>0. WindowsTyped /\ MaxWindows \in Nat
  BY BoundsAssumption DEF TypeOK
<1>1. ASSUME NEW r \in Requests, Arrive(r) PROVE WindowsTyped'
  BY <1>0, <1>1 DEF Arrive, WindowsTyped
<1>2. ASSUME NEW r \in Requests, Check(r) PROVE WindowsTyped'
  BY <1>0, <1>2 DEF Check, WindowsTyped
<1>3. ASSUME NEW r \in Requests, CheckBlindly(r) PROVE WindowsTyped'
  BY <1>0, <1>3 DEF CheckBlindly, WindowsTyped
<1>4. CASE NewWindow
  BY <1>0, <1>4 DEF NewWindow, WindowsTyped
<1>5. CASE UNCHANGED <<counted, window, windows>>
  BY <1>0, <1>5 DEF WindowsTyped
<1> QED
  BY <1>1, <1>2, <1>3, <1>4, <1>5
     DEF Next, vars, Refuse, Authorize, Claim, Begin, End, Respond, Oversize, Fail, Complete,
         Release, OpFails, Drop, Expire, Crash

LEMMA TypeStep ==
    ASSUME TypeOK, OpsInPlace, [Next]_vars
    PROVE  TypeOK'
<1> USE DEF TypeOK, Inside, Answers, Ops
<1>0. WindowsTyped'
  BY WindowsStep
<1>1. ASSUME NEW r \in Requests, Arrive(r) PROVE TypeOK'
  BY <1>0, <1>1, BoundsAssumption DEF Arrive, Goto, Await
<1>2. ASSUME NEW r \in Requests, Check(r) PROVE TypeOK'
  BY <1>0, <1>2, BoundsAssumption DEF Check, Returns
<1>3. ASSUME NEW r \in Requests, Refuse(r) PROVE TypeOK'
  BY <1>0, <1>3, BoundsAssumption DEF Refuse, Goto
<1>4. ASSUME NEW r \in Requests, Authorize(r) PROVE TypeOK'
  BY <1>0, <1>4, BoundsAssumption DEF Authorize, Await, Goto
<1>5. ASSUME NEW r \in Requests, Claim(r) PROVE TypeOK'
  <2>1. key[r] \in Keys
    BY <1>5 DEF Claim, OpsInPlace
  <2>2. rows' \in [Keys -> Row \cup {NoRow}]
    BY <1>5, <2>1, PurgedRows, ClaimedRow DEF Claim
  <2>3. ~Claimable(key[r]) => Purged[key[r]].by \in Requests
    BY <2>1, PurgedRows DEF Claimable, Row
  <2> QED
    BY <1>0, <1>5, <2>1, <2>2, <2>3 DEF Claim, Returns
<1>6. ASSUME NEW r \in Requests, Begin(r) PROVE TypeOK'
  BY <1>0, <1>6, BoundsAssumption DEF Begin, Known
<1>7. ASSUME NEW r \in Requests, End(r) PROVE TypeOK'
  BY <1>0, <1>7, BoundsAssumption DEF End
<1>8. ASSUME NEW r \in Requests, Respond(r) PROVE TypeOK'
  BY <1>0, <1>8, BoundsAssumption DEF Respond, Conclude, Await, Goto
<1>9. ASSUME NEW r \in Requests, Oversize(r) PROVE TypeOK'
  BY <1>0, <1>9, BoundsAssumption DEF Oversize, Await, Goto
<1>10. ASSUME NEW r \in Requests, Fail(r) PROVE TypeOK'
  BY <1>0, <1>10, BoundsAssumption DEF Fail, Conclude, Await, Goto, Left
<1>11. ASSUME NEW r \in Requests, Complete(r) PROVE TypeOK'
  <2>1. rows' \in [Keys -> Row \cup {NoRow}]
    BY <1>11, CompleteRows DEF Complete
  <2> QED
    BY <1>0, <1>11, <2>1 DEF Complete, Returns
<1>12. ASSUME NEW r \in Requests, Release(r) PROVE TypeOK'
  BY <1>0, <1>12, BoundsAssumption DEF Release, Returns
<1>13. ASSUME NEW r \in Requests, OpFails(r) PROVE TypeOK'
  BY <1>0, <1>13, BoundsAssumption DEF OpFails, Returns
<1>14. ASSUME NEW r \in Requests, Drop(r) PROVE TypeOK'
  BY <1>0, <1>14, BoundsAssumption DEF Drop, Goto, Left
<1>15. ASSUME NEW k \in Keys, Expire(k) PROVE TypeOK'
  <2>1. rows[k] \in Row
    BY <1>15 DEF Expire
  <2>2. rows' \in [Keys -> Row \cup {NoRow}]
    BY <1>15, <2>1 DEF Expire, Row
  <2>3. rows[k].by \in Requests
    BY <2>1 DEF Row
  <2> QED
    BY <1>0, <1>15, <2>2, <2>3 DEF Expire
<1>16. CASE NewWindow
  BY <1>0, <1>16, BoundsAssumption DEF NewWindow
<1>17. CASE Crash
  BY <1>0, <1>17, BoundsAssumption DEF Crash
<1>18. CASE UNCHANGED vars
  BY <1>0, <1>18, BoundsAssumption DEF vars
<1>19. ASSUME NEW r \in Requests, CheckBlindly(r) PROVE TypeOK'
  BY <1>0, <1>19 DEF CheckBlindly, Returns
<1> QED
  BY <1>1, <1>2, <1>3, <1>4, <1>5, <1>6, <1>7, <1>8, <1>9, <1>10, <1>11, <1>12,
     <1>13, <1>14, <1>15, <1>16, <1>17, <1>18, <1>19 DEF Next

LEMMA OpsStep ==
    ASSUME BaseInv, [Next]_vars
    PROVE  OpsInPlace'
<1> USE DEF BaseInv, TypeOK, Inside, Answers, Ops, OpsInPlace
<1>1. ASSUME NEW r \in Requests, Arrive(r) PROVE OpsInPlace'
  BY <1>1, NamesAssumption DEF Arrive, Goto, Await
<1>2. ASSUME NEW r \in Requests, Check(r) PROVE OpsInPlace'
  BY <1>2, NamesAssumption DEF Check, Returns
<1>3. ASSUME NEW r \in Requests, Refuse(r) PROVE OpsInPlace'
  BY <1>3, NamesAssumption DEF Refuse, Goto
<1>4. ASSUME NEW r \in Requests, Authorize(r) PROVE OpsInPlace'
  BY <1>4, NamesAssumption DEF Authorize, Await, Goto
<1>5. ASSUME NEW r \in Requests, Claim(r) PROVE OpsInPlace'
  BY <1>5, NamesAssumption DEF Claim, Returns
<1>6. ASSUME NEW r \in Requests, Begin(r) PROVE OpsInPlace'
  BY <1>6, NamesAssumption DEF Begin, Known
<1>7. ASSUME NEW r \in Requests, End(r) PROVE OpsInPlace'
  BY <1>7, NamesAssumption DEF End
<1>8. ASSUME NEW r \in Requests, Respond(r) PROVE OpsInPlace'
  BY <1>8, NamesAssumption DEF Respond, Conclude, Await, Goto
<1>9. ASSUME NEW r \in Requests, Oversize(r) PROVE OpsInPlace'
  BY <1>9, NamesAssumption DEF Oversize, Await, Goto
<1>10. ASSUME NEW r \in Requests, Fail(r) PROVE OpsInPlace'
  BY <1>10, NamesAssumption DEF Fail, Conclude, Await, Goto, Left
<1>11. ASSUME NEW r \in Requests, Complete(r) PROVE OpsInPlace'
  BY <1>11, NamesAssumption DEF Complete, Returns
<1>12. ASSUME NEW r \in Requests, Release(r) PROVE OpsInPlace'
  BY <1>12, NamesAssumption DEF Release, Returns
<1>13. ASSUME NEW r \in Requests, OpFails(r) PROVE OpsInPlace'
  BY <1>13, NamesAssumption DEF OpFails, Returns
<1>14. ASSUME NEW r \in Requests, Drop(r) PROVE OpsInPlace'
  BY <1>14, NamesAssumption DEF Drop, Goto, Left
<1>15. ASSUME NEW k \in Keys, Expire(k) PROVE OpsInPlace'
  BY <1>15, NamesAssumption DEF Expire
<1>16. CASE NewWindow
  BY <1>16, NamesAssumption DEF NewWindow
<1>17. CASE Crash
  BY <1>17, NamesAssumption DEF Crash
<1>18. CASE UNCHANGED vars
  BY <1>18, NamesAssumption DEF vars
<1>19. ASSUME NEW r \in Requests, CheckBlindly(r) PROVE OpsInPlace'
  BY <1>19, NamesAssumption DEF CheckBlindly, Returns
<1> QED
  BY <1>1, <1>2, <1>3, <1>4, <1>5, <1>6, <1>7, <1>8, <1>9, <1>10, <1>11, <1>12,
     <1>13, <1>14, <1>15, <1>16, <1>17, <1>18, <1>19 DEF Next

\* What claim() does to the table: it inserts a row where there is none after purging,
\* or at most purges.
ClaimOutcome(r) ==
    /\ UNCHANGED <<kind, key, effect, jobs, crashes, givenUp, life>>
    /\ \/ /\ Purged[key[r]] = NoRow
          /\ rows'[key[r]] = [state |-> "processing", by |-> r, expired |-> FALSE]
          /\ \A k \in Keys \ {key[r]} : rows'[k] = Purged[k]
          /\ Returns(r, "acting") /\ UNCHANGED replayOf
       \/ /\ rows' \in {rows, Purged}
          /\ Returns(r, "replayed") \/ Returns(r, "error")
          /\ \/ UNCHANGED replayOf
             \/ /\ Purged[key[r]] # NoRow
                /\ Purged[key[r]].state = "completed"
                /\ replayOf' = [replayOf EXCEPT ![r] = Purged[key[r]].by]

LEMMA ClaimRows ==
    ASSUME BaseInv, NEW r \in Requests, Claim(r)
    PROVE  key[r] \in Keys /\ ClaimOutcome(r)
<1>1. key[r] \in Keys
  BY DEF Claim, BaseInv, OpsInPlace, TypeOK
<1> QED
  BY <1>1, PurgedRows DEF Claim, Claimable, BaseInv, ClaimOutcome

LEMMA HoldersStep ==
    ASSUME Timely, IInv, [Next]_vars
    PROVE  HoldersHold'
<1> USE DEF TypeOK, Inside, Answers, Ops, HoldersHold, OpsInPlace, Holds, Row
<1>0. TypeOK /\ OpsInPlace /\ HoldersHold /\ RowsTrue /\ EffectsHeld /\ TasksAct
      /\ TaskRunsAlone /\ AnswersTrue
  BY DEF IInv, BaseInv
<1>1. ASSUME NEW r \in Requests, Arrive(r) PROVE HoldersHold'
  BY <1>1, <1>0, NamesAssumption DEF Arrive, Goto, Await
<1>2. ASSUME NEW r \in Requests, Check(r) PROVE HoldersHold'
  BY <1>2, <1>0, NamesAssumption DEF Check, Returns
<1>3. ASSUME NEW r \in Requests, Refuse(r) PROVE HoldersHold'
  BY <1>3, <1>0, NamesAssumption DEF Refuse, Goto
<1>4. ASSUME NEW r \in Requests, Authorize(r) PROVE HoldersHold'
  BY <1>4, <1>0, NamesAssumption DEF Authorize, Await, Goto
<1>5. ASSUME NEW r \in Requests, Claim(r) PROVE HoldersHold'
  <2>0. key[r] \in Keys /\ ClaimOutcome(r)
    BY <1>5, ClaimRows DEF IInv
  <2> SUFFICES ASSUME NEW q \in Requests, Holds(q)'
               PROVE  (/\ rows[key[q]] # NoRow
                       /\ rows[key[q]].state = "processing"
                       /\ rows[key[q]].by = q
                       /\ ~rows[key[q]].expired)'
    OBVIOUS
  <2>1. CASE q # r
    <3>1. Holds(q)
      BY <1>0, NamesAssumption, <2>1, <1>5, <2>0 DEF ClaimOutcome, Returns
    <3>2. Purged[key[q]] = rows[key[q]]
      BY <1>0, NamesAssumption, <3>1, PurgedRows
    <3> QED
      BY <1>0, NamesAssumption, <2>1, <3>1, <3>2, <1>5, <2>0 DEF ClaimOutcome
  <2>2. CASE q = r
    <3>1. Returns(r, "acting")
      BY <1>0, NamesAssumption, <2>2, <1>5, <2>0 DEF ClaimOutcome, Returns
    <3>2. ~Returns(r, "replayed") /\ ~Returns(r, "error")
      BY <1>0, NamesAssumption, <2>2, <3>1, <1>5 DEF Returns, Claim
    <3> QED
      BY <1>0, NamesAssumption, <2>2, <3>2, <1>5, <2>0, ClaimedRow DEF ClaimOutcome
  <2> QED
    BY <2>1, <2>2
<1>6. ASSUME NEW r \in Requests, Begin(r) PROVE HoldersHold'
  BY <1>6, <1>0, NamesAssumption DEF Begin, Known
<1>7. ASSUME NEW r \in Requests, End(r) PROVE HoldersHold'
  BY <1>7, <1>0, NamesAssumption DEF End
<1>8. ASSUME NEW r \in Requests, Respond(r) PROVE HoldersHold'
  BY <1>8, <1>0, NamesAssumption DEF Respond, Conclude, Await, Goto
<1>9. ASSUME NEW r \in Requests, Oversize(r) PROVE HoldersHold'
  BY <1>9, <1>0, NamesAssumption DEF Oversize, Await, Goto
<1>10. ASSUME NEW r \in Requests, Fail(r) PROVE HoldersHold'
  BY <1>10, <1>0, NamesAssumption DEF Fail, Conclude, Await, Goto, Left
<1>11. ASSUME NEW r \in Requests, Complete(r) PROVE HoldersHold'
  BY <1>11, <1>0, NamesAssumption DEF Complete, Returns
<1>12. ASSUME NEW r \in Requests, Release(r) PROVE HoldersHold'
  BY <1>12, <1>0, NamesAssumption DEF Release, Returns
<1>13. ASSUME NEW r \in Requests, OpFails(r) PROVE HoldersHold'
  BY <1>13, <1>0, NamesAssumption DEF OpFails, Returns
<1>14. ASSUME NEW r \in Requests, Drop(r) PROVE HoldersHold'
  BY <1>14, <1>0, NamesAssumption DEF Drop, Goto, Left
<1>15. ASSUME NEW k \in Keys, Expire(k) PROVE HoldersHold'
  <2> SUFFICES ASSUME NEW q \in Requests, Holds(q)'
               PROVE  (/\ rows[key[q]] # NoRow
                       /\ rows[key[q]].state = "processing"
                       /\ rows[key[q]].by = q
                       /\ ~rows[key[q]].expired)'
    OBVIOUS
  <2>1. Holds(q)
    BY <1>0, NamesAssumption, <1>15 DEF Expire
  <2>2. key[q] \in Keys /\ Held(key[q])
    BY <1>0, NamesAssumption, <2>1 DEF Held
  <2>3. rows'[key[q]] = rows[key[q]]
    BY <1>0, NamesAssumption, Timely, <2>2, <1>15 DEF Expire
  <2> QED
    BY <1>0, NamesAssumption, <2>1, <2>3, <1>15 DEF Expire
<1>16. CASE NewWindow
  BY <1>16, <1>0, NamesAssumption DEF NewWindow
<1>17. CASE Crash
  BY <1>17, <1>0, NamesAssumption DEF Crash
<1>18. CASE UNCHANGED vars
  BY <1>18, <1>0, NamesAssumption DEF vars
<1>19. ASSUME NEW r \in Requests, CheckBlindly(r) PROVE HoldersHold'
  BY <1>19, <1>0, NamesAssumption DEF CheckBlindly, Returns
<1> QED
  BY <1>1, <1>2, <1>3, <1>4, <1>5, <1>6, <1>7, <1>8, <1>9, <1>10, <1>11, <1>12,
     <1>13, <1>14, <1>15, <1>16, <1>17, <1>18, <1>19 DEF Next

LEMMA RowsStep ==
    ASSUME BaseInv, [Next]_vars
    PROVE  RowsTrue'
<1> USE DEF TypeOK, Inside, Answers, Ops, RowsTrue, OpsInPlace, Row
<1>0. TypeOK /\ OpsInPlace /\ RowsTrue /\ TasksAct /\ AnswersTrue
  BY DEF BaseInv
<1>1. ASSUME NEW r \in Requests, Arrive(r) PROVE RowsTrue'
  BY <1>1, <1>0, NamesAssumption DEF Arrive, Goto, Await
<1>2. ASSUME NEW r \in Requests, Check(r) PROVE RowsTrue'
  BY <1>2, <1>0, NamesAssumption DEF Check, Returns
<1>3. ASSUME NEW r \in Requests, Refuse(r) PROVE RowsTrue'
  BY <1>3, <1>0, NamesAssumption DEF Refuse, Goto
<1>4. ASSUME NEW r \in Requests, Authorize(r) PROVE RowsTrue'
  BY <1>4, <1>0, NamesAssumption DEF Authorize, Await, Goto
<1>5. ASSUME NEW r \in Requests, Claim(r) PROVE RowsTrue'
  <2>0. key[r] \in Keys /\ ClaimOutcome(r)
    BY <1>5, ClaimRows
  <2> SUFFICES ASSUME NEW k \in Keys, rows'[k] # NoRow
               PROVE  (/\ key[rows[k].by] = k
                       /\ rows[k].state = "completed" => effect[rows[k].by] # "none")'
    OBVIOUS
  <2>1. \/ rows'[k] = rows[k] /\ rows[k] # NoRow
        \/ k = key[r] /\ rows'[k] = [state |-> "processing", by |-> r, expired |-> FALSE]
    BY <1>0, NamesAssumption, <1>5, <2>0, PurgedRows DEF ClaimOutcome
  <2> QED
    BY <1>0, NamesAssumption, <2>1, <1>5, <2>0, ClaimedRow DEF ClaimOutcome
<1>6. ASSUME NEW r \in Requests, Begin(r) PROVE RowsTrue'
  BY <1>6, <1>0, NamesAssumption DEF Begin, Known
<1>7. ASSUME NEW r \in Requests, End(r) PROVE RowsTrue'
  BY <1>7, <1>0, NamesAssumption DEF End
<1>8. ASSUME NEW r \in Requests, Respond(r) PROVE RowsTrue'
  BY <1>8, <1>0, NamesAssumption DEF Respond, Conclude, Await, Goto
<1>9. ASSUME NEW r \in Requests, Oversize(r) PROVE RowsTrue'
  BY <1>9, <1>0, NamesAssumption DEF Oversize, Await, Goto
<1>10. ASSUME NEW r \in Requests, Fail(r) PROVE RowsTrue'
  BY <1>10, <1>0, NamesAssumption DEF Fail, Conclude, Await, Goto, Left
<1>11. ASSUME NEW r \in Requests, Complete(r) PROVE RowsTrue'
  <2> SUFFICES ASSUME NEW k \in Keys, rows'[k] # NoRow
               PROVE  (/\ key[rows[k].by] = k
                       /\ rows[k].state = "completed" => effect[rows[k].by] # "none")'
    OBVIOUS
  <2>1. CASE Reserved(r) /\ k = key[r]
    <3>1. rows'[k].by = r /\ op[r] = "complete" /\ UNCHANGED <<key, effect>>
      BY <1>0, <2>1, <1>11, CompleteRows DEF Complete
    <3> QED
      BY <1>0, <2>1, <3>1
  <2>2. CASE ~Reserved(r) \/ k # key[r]
    <3>1. rows'[k] = rows[k]
      BY <1>0, NamesAssumption, <2>2, <1>11, CompleteRows DEF Complete
    <3> QED
      BY <1>0, NamesAssumption, <3>1, <1>11 DEF Complete
  <2> QED
    BY <2>1, <2>2
<1>12. ASSUME NEW r \in Requests, Release(r) PROVE RowsTrue'
  BY <1>12, <1>0, NamesAssumption DEF Release, Returns
<1>13. ASSUME NEW r \in Requests, OpFails(r) PROVE RowsTrue'
  BY <1>13, <1>0, NamesAssumption DEF OpFails, Returns
<1>14. ASSUME NEW r \in Requests, Drop(r) PROVE RowsTrue'
  BY <1>14, <1>0, NamesAssumption DEF Drop, Goto, Left
<1>15. ASSUME NEW k \in Keys, Expire(k) PROVE RowsTrue'
  BY <1>15, <1>0, NamesAssumption DEF Expire
<1>16. CASE NewWindow
  BY <1>16, <1>0, NamesAssumption DEF NewWindow
<1>17. CASE Crash
  BY <1>17, <1>0, NamesAssumption DEF Crash
<1>18. CASE UNCHANGED vars
  BY <1>18, <1>0, NamesAssumption DEF vars
<1>19. ASSUME NEW r \in Requests, CheckBlindly(r) PROVE RowsTrue'
  BY <1>19, <1>0, NamesAssumption DEF CheckBlindly, Returns
<1> QED
  BY <1>1, <1>2, <1>3, <1>4, <1>5, <1>6, <1>7, <1>8, <1>9, <1>10, <1>11, <1>12,
     <1>13, <1>14, <1>15, <1>16, <1>17, <1>18, <1>19 DEF Next

LEMMA EffectsStep ==
    ASSUME IInv, [Next]_vars
    PROVE  EffectsHeld'
<1> USE DEF TypeOK, Inside, Answers, Ops, EffectsHeld, OpsInPlace, Row
<1>0. TypeOK /\ OpsInPlace /\ HoldersHold /\ RowsTrue /\ EffectsHeld /\ TasksAct
      /\ TaskRunsAlone /\ AnswersTrue
  BY DEF IInv, BaseInv
<1>1. ASSUME NEW r \in Requests, Arrive(r) PROVE EffectsHeld'
  BY <1>1, <1>0, NamesAssumption DEF Arrive, Goto, Await
<1>2. ASSUME NEW r \in Requests, Check(r) PROVE EffectsHeld'
  BY <1>2, <1>0, NamesAssumption DEF Check, Returns
<1>3. ASSUME NEW r \in Requests, Refuse(r) PROVE EffectsHeld'
  BY <1>3, <1>0, NamesAssumption DEF Refuse, Goto
<1>4. ASSUME NEW r \in Requests, Authorize(r) PROVE EffectsHeld'
  BY <1>4, <1>0, NamesAssumption DEF Authorize, Await, Goto
<1>5. ASSUME NEW r \in Requests, Claim(r) PROVE EffectsHeld'
  <2>0. key[r] \in Keys /\ ClaimOutcome(r)
    BY <1>5, ClaimRows DEF IInv
  <2> SUFFICES ASSUME NEW q \in Requests, effect'[q] # "none", key'[q] # NoKey, q \notin givenUp'
               PROVE  (/\ rows[key[q]] # NoRow
                       /\ rows[key[q]].by = q
                       /\ ~rows[key[q]].expired)'
    OBVIOUS
  <2>1. key[q] \in Keys /\ rows[key[q]] # NoRow /\ rows[key[q]].by = q /\ ~rows[key[q]].expired
    BY <1>0, NamesAssumption, <1>5, <2>0 DEF ClaimOutcome
  <2>2. Purged[key[q]] = rows[key[q]]
    BY <1>0, NamesAssumption, <2>1, PurgedRows
  <2>3. rows'[key[q]] = rows[key[q]]
    BY <1>0, <2>1, <2>2, <1>5, <2>0 DEF ClaimOutcome
  <2> QED
    BY <2>1, <2>3, <1>5, <2>0 DEF ClaimOutcome
<1>6. ASSUME NEW r \in Requests, Begin(r) PROVE EffectsHeld'
  BY <1>6, <1>0 DEF ClaimOutcome, Begin, HoldersHold, Holds
<1>7. ASSUME NEW r \in Requests, End(r) PROVE EffectsHeld'
  BY <1>7, <1>0, NamesAssumption DEF End
<1>8. ASSUME NEW r \in Requests, Respond(r) PROVE EffectsHeld'
  BY <1>8, <1>0, NamesAssumption DEF Respond, Conclude, Await, Goto
<1>9. ASSUME NEW r \in Requests, Oversize(r) PROVE EffectsHeld'
  BY <1>9, <1>0, NamesAssumption DEF Oversize, Await, Goto
<1>10. ASSUME NEW r \in Requests, Fail(r) PROVE EffectsHeld'
  BY <1>10, <1>0, NamesAssumption DEF Fail, Conclude, Await, Goto, Left
<1>11. ASSUME NEW r \in Requests, Complete(r) PROVE EffectsHeld'
  BY <1>11, <1>0, NamesAssumption DEF Complete, Returns
<1>12. ASSUME NEW r \in Requests, Release(r) PROVE EffectsHeld'
  <2> SUFFICES ASSUME NEW q \in Requests, effect'[q] # "none", key'[q] # NoKey, q \notin givenUp'
               PROVE  (/\ rows[key[q]] # NoRow
                       /\ rows[key[q]].by = q
                       /\ ~rows[key[q]].expired)'
    OBVIOUS
  <2>1. Holds(r) /\ r # q
    BY <1>0, NamesAssumption, <1>12 DEF Release, Holds
  <2>2. key[q] # key[r]
    BY <1>0, NamesAssumption, <2>1, <1>12 DEF HoldersHold, Release
  <2> QED
    BY <1>0, NamesAssumption, <2>2, <1>12 DEF Release
<1>13. ASSUME NEW r \in Requests, OpFails(r) PROVE EffectsHeld'
  BY <1>13, <1>0, NamesAssumption DEF OpFails, Returns
<1>14. ASSUME NEW r \in Requests, Drop(r) PROVE EffectsHeld'
  BY <1>14, <1>0, NamesAssumption DEF Drop, Goto, Left
<1>15. ASSUME NEW k \in Keys, Expire(k) PROVE EffectsHeld'
  BY <1>15, <1>0, NamesAssumption DEF Expire
<1>16. CASE NewWindow
  BY <1>16, <1>0, NamesAssumption DEF NewWindow
<1>17. CASE Crash
  BY <1>17, <1>0, NamesAssumption DEF Crash
<1>18. CASE UNCHANGED vars
  BY <1>18, <1>0, NamesAssumption DEF vars
<1>19. ASSUME NEW r \in Requests, CheckBlindly(r) PROVE EffectsHeld'
  BY <1>19, <1>0, NamesAssumption DEF CheckBlindly, Returns
<1> QED
  BY <1>1, <1>2, <1>3, <1>4, <1>5, <1>6, <1>7, <1>8, <1>9, <1>10, <1>11, <1>12,
     <1>13, <1>14, <1>15, <1>16, <1>17, <1>18, <1>19 DEF Next

LEMMA TasksStep ==
    ASSUME BaseInv, [Next]_vars
    PROVE  TasksAct'
<1> USE DEF TypeOK, Inside, Answers, Ops, TasksAct, OpsInPlace
<1>0. TypeOK /\ OpsInPlace /\ RowsTrue /\ TasksAct /\ AnswersTrue
  BY DEF BaseInv
<1>1. ASSUME NEW r \in Requests, Arrive(r) PROVE TasksAct'
  BY <1>1, <1>0, NamesAssumption DEF Arrive, Goto, Await
<1>2. ASSUME NEW r \in Requests, Check(r) PROVE TasksAct'
  BY <1>2, <1>0, NamesAssumption DEF Check, Returns
<1>3. ASSUME NEW r \in Requests, Refuse(r) PROVE TasksAct'
  BY <1>3, <1>0, NamesAssumption DEF Refuse, Goto
<1>4. ASSUME NEW r \in Requests, Authorize(r) PROVE TasksAct'
  BY <1>4, <1>0, NamesAssumption DEF Authorize, Await, Goto
<1>5. ASSUME NEW r \in Requests, Claim(r) PROVE TasksAct'
  BY <1>5, <1>0, NamesAssumption DEF Claim, Returns
<1>6. ASSUME NEW r \in Requests, Begin(r) PROVE TasksAct'
  BY <1>6, <1>0, NamesAssumption DEF Begin, Known
<1>7. ASSUME NEW r \in Requests, End(r) PROVE TasksAct'
  BY <1>7, <1>0, NamesAssumption DEF End
<1>8. ASSUME NEW r \in Requests, Respond(r) PROVE TasksAct'
  BY <1>8, <1>0, NamesAssumption DEF Respond, Conclude, Await, Goto
<1>9. ASSUME NEW r \in Requests, Oversize(r) PROVE TasksAct'
  BY <1>9, <1>0, NamesAssumption DEF Oversize, Await, Goto
<1>10. ASSUME NEW r \in Requests, Fail(r) PROVE TasksAct'
  BY <1>10, <1>0, NamesAssumption DEF Fail, Conclude, Await, Goto, Left
<1>11. ASSUME NEW r \in Requests, Complete(r) PROVE TasksAct'
  BY <1>11, <1>0, NamesAssumption DEF Complete, Returns
<1>12. ASSUME NEW r \in Requests, Release(r) PROVE TasksAct'
  BY <1>12, <1>0, NamesAssumption DEF Release, Returns
<1>13. ASSUME NEW r \in Requests, OpFails(r) PROVE TasksAct'
  BY <1>13, <1>0, NamesAssumption DEF OpFails, Returns
<1>14. ASSUME NEW r \in Requests, Drop(r) PROVE TasksAct'
  BY <1>14, <1>0, NamesAssumption DEF Drop, Goto, Left
<1>15. ASSUME NEW k \in Keys, Expire(k) PROVE TasksAct'
  BY <1>15, <1>0, NamesAssumption DEF Expire
<1>16. CASE NewWindow
  BY <1>16, <1>0, NamesAssumption DEF NewWindow
<1>17. CASE Crash
  BY <1>17, <1>0, NamesAssumption DEF Crash
<1>18. CASE UNCHANGED vars
  BY <1>18, <1>0, NamesAssumption DEF vars
<1>19. ASSUME NEW r \in Requests, CheckBlindly(r) PROVE TasksAct'
  BY <1>19, <1>0, NamesAssumption DEF CheckBlindly, Returns
<1> QED
  BY <1>1, <1>2, <1>3, <1>4, <1>5, <1>6, <1>7, <1>8, <1>9, <1>10, <1>11, <1>12,
     <1>13, <1>14, <1>15, <1>16, <1>17, <1>18, <1>19 DEF Next

LEMMA AloneStep ==
    ASSUME IInv, [Next]_vars
    PROVE  TaskRunsAlone'
<1> USE DEF TypeOK, Inside, Answers, Ops, TaskRunsAlone, TasksAct, HoldersHold, Holds
<1>0. TypeOK /\ OpsInPlace /\ HoldersHold /\ RowsTrue /\ EffectsHeld /\ TasksAct
      /\ TaskRunsAlone /\ AnswersTrue
  BY DEF IInv, BaseInv
<1>1. ASSUME NEW r \in Requests, Arrive(r) PROVE TaskRunsAlone'
  BY <1>1, <1>0, NamesAssumption DEF Arrive, Goto, Await
<1>2. ASSUME NEW r \in Requests, Check(r) PROVE TaskRunsAlone'
  BY <1>2, <1>0, NamesAssumption DEF Check, Returns
<1>3. ASSUME NEW r \in Requests, Refuse(r) PROVE TaskRunsAlone'
  BY <1>3, <1>0, NamesAssumption DEF Refuse, Goto
<1>4. ASSUME NEW r \in Requests, Authorize(r) PROVE TaskRunsAlone'
  BY <1>4, <1>0, NamesAssumption DEF Authorize, Await, Goto
<1>5. ASSUME NEW r \in Requests, Claim(r) PROVE TaskRunsAlone'
  BY <1>5, <1>0, NamesAssumption DEF Claim, Returns
<1>6. ASSUME NEW r \in Requests, Begin(r) PROVE TaskRunsAlone'
  BY <1>6, <1>0, NamesAssumption DEF Begin, Known
<1>7. ASSUME NEW r \in Requests, End(r) PROVE TaskRunsAlone'
  BY <1>7, <1>0, NamesAssumption DEF End
<1>8. ASSUME NEW r \in Requests, Respond(r) PROVE TaskRunsAlone'
  BY <1>8, <1>0, NamesAssumption DEF Respond, Conclude, Await, Goto
<1>9. ASSUME NEW r \in Requests, Oversize(r) PROVE TaskRunsAlone'
  BY <1>9, <1>0, NamesAssumption DEF Oversize, Await, Goto
<1>10. ASSUME NEW r \in Requests, Fail(r) PROVE TaskRunsAlone'
  BY <1>10, <1>0, NamesAssumption DEF Fail, Conclude, Await, Goto, Left
<1>11. ASSUME NEW r \in Requests, Complete(r) PROVE TaskRunsAlone'
  BY <1>11, <1>0, NamesAssumption DEF Complete, Returns
<1>12. ASSUME NEW r \in Requests, Release(r) PROVE TaskRunsAlone'
  BY <1>12, <1>0, NamesAssumption DEF Release, Returns
<1>13. ASSUME NEW r \in Requests, OpFails(r) PROVE TaskRunsAlone'
  BY <1>13, <1>0, NamesAssumption DEF OpFails, Returns
<1>14. ASSUME NEW r \in Requests, Drop(r) PROVE TaskRunsAlone'
  BY <1>14, <1>0, NamesAssumption DEF Drop, Goto, Left
<1>15. ASSUME NEW k \in Keys, Expire(k) PROVE TaskRunsAlone'
  BY <1>15, <1>0, NamesAssumption DEF Expire
<1>16. CASE NewWindow
  BY <1>16, <1>0, NamesAssumption DEF NewWindow
<1>17. CASE Crash
  BY <1>17, <1>0, NamesAssumption DEF Crash
<1>18. CASE UNCHANGED vars
  BY <1>18, <1>0, NamesAssumption DEF vars
<1>19. ASSUME NEW r \in Requests, CheckBlindly(r) PROVE TaskRunsAlone'
  BY <1>19, <1>0, NamesAssumption DEF CheckBlindly, Returns
<1> QED
  BY <1>1, <1>2, <1>3, <1>4, <1>5, <1>6, <1>7, <1>8, <1>9, <1>10, <1>11, <1>12,
     <1>13, <1>14, <1>15, <1>16, <1>17, <1>18, <1>19 DEF Next

LEMMA AnswersStep ==
    ASSUME BaseInv, [Next]_vars
    PROVE  AnswersTrue'
<1> USE DEF TypeOK, Inside, Answers, Ops, AnswersTrue, OpsInPlace
<1>0. TypeOK /\ OpsInPlace /\ RowsTrue /\ TasksAct /\ AnswersTrue
  BY DEF BaseInv
<1>1. ASSUME NEW r \in Requests, Arrive(r) PROVE AnswersTrue'
  BY <1>1, <1>0, NamesAssumption DEF Arrive, Goto, Await
<1>2. ASSUME NEW r \in Requests, Check(r) PROVE AnswersTrue'
  BY <1>2, <1>0, NamesAssumption DEF Check, Returns
<1>3. ASSUME NEW r \in Requests, Refuse(r) PROVE AnswersTrue'
  BY <1>3, <1>0, NamesAssumption DEF Refuse, Goto
<1>4. ASSUME NEW r \in Requests, Authorize(r) PROVE AnswersTrue'
  BY <1>4, <1>0, NamesAssumption DEF Authorize, Await, Goto
<1>5. ASSUME NEW r \in Requests, Claim(r) PROVE AnswersTrue'
  <2>0. key[r] \in Keys /\ ClaimOutcome(r)
    BY <1>5, ClaimRows
  <2>1. \A q \in Requests : pc'[q] = "ok" => pc[q] = "ok"
    BY <1>0, NamesAssumption, <1>5, <2>0 DEF ClaimOutcome, Returns
  <2>2. \A q \in Requests : replayOf'[q] # NoRequest => effect[replayOf'[q]] # "none"
    <3>1. Purged[key[r]] # NoRow /\ Purged[key[r]].state = "completed"
          => effect[Purged[key[r]].by] # "none"
      BY <1>0, NamesAssumption, <1>5, <2>0, PurgedRows DEF ClaimOutcome, RowsTrue
    <3> QED
      BY <1>0, NamesAssumption, <3>1, <1>5, <2>0 DEF ClaimOutcome
  <2> QED
    BY <1>0, <2>1, <2>2, <1>5, <2>0 DEF ClaimOutcome
<1>6. ASSUME NEW r \in Requests, Begin(r) PROVE AnswersTrue'
  BY <1>6, <1>0, NamesAssumption DEF Begin, Known
<1>7. ASSUME NEW r \in Requests, End(r) PROVE AnswersTrue'
  BY <1>7, <1>0, NamesAssumption DEF End
<1>8. ASSUME NEW r \in Requests, Respond(r) PROVE AnswersTrue'
  BY <1>8, <1>0, NamesAssumption DEF Respond, Conclude, Await, Goto
<1>9. ASSUME NEW r \in Requests, Oversize(r) PROVE AnswersTrue'
  BY <1>9, <1>0, NamesAssumption DEF Oversize, Await, Goto
<1>10. ASSUME NEW r \in Requests, Fail(r) PROVE AnswersTrue'
  BY <1>10, <1>0, NamesAssumption DEF Fail, Conclude, Await, Goto, Left
<1>11. ASSUME NEW r \in Requests, Complete(r) PROVE AnswersTrue'
  BY <1>11, <1>0, NamesAssumption DEF Complete, Returns
<1>12. ASSUME NEW r \in Requests, Release(r) PROVE AnswersTrue'
  BY <1>12, <1>0, NamesAssumption DEF Release, Returns
<1>13. ASSUME NEW r \in Requests, OpFails(r) PROVE AnswersTrue'
  BY <1>13, <1>0, NamesAssumption DEF OpFails, Returns
<1>14. ASSUME NEW r \in Requests, Drop(r) PROVE AnswersTrue'
  BY <1>14, <1>0, NamesAssumption DEF Drop, Goto, Left
<1>15. ASSUME NEW k \in Keys, Expire(k) PROVE AnswersTrue'
  BY <1>15, <1>0, NamesAssumption DEF Expire
<1>16. CASE NewWindow
  BY <1>16, <1>0, NamesAssumption DEF NewWindow
<1>17. CASE Crash
  BY <1>17, <1>0 DEF ClaimOutcome, Crash, TasksAct
<1>18. CASE UNCHANGED vars
  BY <1>18, <1>0, NamesAssumption DEF vars
<1>19. ASSUME NEW r \in Requests, CheckBlindly(r) PROVE AnswersTrue'
  BY <1>19, <1>0, NamesAssumption DEF CheckBlindly, Returns
<1> QED
  BY <1>1, <1>2, <1>3, <1>4, <1>5, <1>6, <1>7, <1>8, <1>9, <1>10, <1>11, <1>12,
     <1>13, <1>14, <1>15, <1>16, <1>17, <1>18, <1>19 DEF Next

LEMMA OneMore ==
    ASSUME NEW S, IsFiniteSet(S), NEW x, NEW n \in Nat, Cardinality(S) < n
    PROVE  IsFiniteSet(S \cup {x}) /\ Cardinality(S \cup {x}) <= n
<1>1. CASE x \in S
  <2>1. S \cup {x} = S
    BY <1>1
  <2>2. Cardinality(S) \in Nat
    BY FS_CardinalityType
  <2>3. IsFiniteSet(S) /\ Cardinality(S) <= n
    BY <2>2
  <2> QED
    BY <2>1, <2>3, Zenon
<1>2. CASE x \notin S
  <2>1. IsFiniteSet(S \cup {x}) /\ Cardinality(S \cup {x}) = Cardinality(S) + 1
    BY <1>2, FS_AddElement
  <2> QED
    BY <2>1, FS_CardinalityType
<1> QED
  BY <1>1, <1>2

LEMMA Smaller ==
    ASSUME NEW S, IsFiniteSet(S), NEW T, T \subseteq S, NEW n \in Nat, Cardinality(S) <= n
    PROVE  Cardinality(T) <= n
BY FS_Subset, FS_CardinalityType

\* Every step keeps the handlers inside, except that a new one may find a permit.
LEMMA PermitsStep ==
    ASSUME BaseInv, [Next]_vars
    PROVE  PermitsBounded'
<1> USE DEF Inside, Permits
<1>0. TypeOK /\ OpsInPlace
  BY DEF BaseInv
<1>1. ASSUME NEW r \in Requests, Arrive(r), Admitted(r), Permits' \subseteq Permits \cup {r}
      PROVE  PermitsBounded'
  <2>1. IsFiniteSet(Permits) /\ Cardinality(Permits) < MaxConcurrency
    BY <1>1, BoundsAssumption, FS_Subset DEF Admitted
  <2>2. IsFiniteSet(Permits \cup {r}) /\ Cardinality(Permits \cup {r}) <= MaxConcurrency
    BY <2>1, OneMore, BoundsAssumption
  <2> QED
    BY <1>1, <2>2, FS_Subset, FS_CardinalityType, BoundsAssumption DEF PermitsBounded
<1>2. ASSUME Permits' \subseteq Permits PROVE PermitsBounded'
  <2>1. IsFiniteSet(Permits)
    BY BoundsAssumption, FS_Subset
  <2> QED
    BY <1>2, <2>1, FS_Subset, FS_CardinalityType, BoundsAssumption DEF PermitsBounded, BaseInv
<1>3. \/ \E r \in Requests : Arrive(r) /\ Admitted(r) /\ Permits' \subseteq Permits \cup {r}
      \/ Permits' \subseteq Permits
  <2>1. ASSUME NEW r \in Requests, Arrive(r)
        PROVE  Permits' \subseteq Permits \/ (Admitted(r) /\ Permits' \subseteq Permits \cup {r})
    BY <2>1, <1>0 DEF Arrive, Goto, Await, TypeOK
  <2>2. ASSUME NEW r \in Requests, Claim(r) PROVE Permits' \subseteq Permits
    BY <2>2, <1>0 DEF Claim, Returns, TypeOK
  <2>3. ASSUME NEW r \in Requests, Authorize(r) PROVE Permits' \subseteq Permits
    BY <2>3, <1>0 DEF Authorize, Await, Goto, TypeOK
  <2>4. ASSUME NEW r \in Requests, Respond(r) \/ Oversize(r) \/ Fail(r) PROVE Permits' \subseteq Permits
    BY <2>4, <1>0 DEF Respond, Oversize, Fail, Conclude, Await, Goto, TypeOK
  <2>5. ASSUME NEW r \in Requests, Check(r) \/ CheckBlindly(r) \/ Complete(r) \/ Release(r) \/ OpFails(r)
        PROVE  Permits' \subseteq Permits
    BY <2>5, <1>0 DEF Check, CheckBlindly, Complete, Release, OpFails, Returns, TypeOK
  <2>6. ASSUME NEW r \in Requests, Refuse(r) \/ Drop(r) \/ Begin(r) \/ End(r)
        PROVE  Permits' \subseteq Permits
    BY <2>6, <1>0 DEF Refuse, Drop, Begin, End, Goto, TypeOK
  <2>7. ASSUME NEW k \in Keys, Expire(k) PROVE Permits' \subseteq Permits
    BY <2>7 DEF Expire
  <2>8. CASE NewWindow \/ Crash \/ UNCHANGED vars
    BY <2>8, <1>0 DEF NewWindow, Crash, vars, TypeOK
  <2> QED
    BY <2>1, <2>2, <2>3, <2>4, <2>5, <2>6, <2>7, <2>8 DEF Next
<1> QED
  BY <1>1, <1>2, <1>3

\* The requests a window carries over were inside when it began, and their number only falls.
LEMMA WindowStep ==
    ASSUME BaseInv, [Next]_vars
    PROVE  WindowBounded'
<1> USE DEF Inside
<1>0. TypeOK /\ OpsInPlace /\ PermitsBounded /\ WindowBounded /\ IsFiniteSet(Requests)
      /\ Quota \in Nat /\ MaxConcurrency \in Nat
  BY BoundsAssumption DEF BaseInv
<1>1. IsFiniteSet(Carried) /\ IsFiniteSet(Permits) /\ \A w \in 0..MaxWindows : IsFiniteSet(counted[w])
  BY <1>0, FS_Subset DEF Carried, Permits, TypeOK, WindowsTyped
<1>11. \A w \in 0..MaxWindows : IsFiniteSet(counted[w] \ overrun)
  BY <1>1, FS_Subset
<1>2. ASSUME Carried' \subseteq Carried, UNCHANGED <<counted, overrun>> PROVE WindowBounded'
  BY <1>0, <1>1, <1>2, FS_Subset, FS_CardinalityType DEF WindowBounded
<1>3. ASSUME NEW r \in Requests, Check(r) \/ CheckBlindly(r) PROVE WindowBounded'
  <2> DEFINE mine == window[r]
             more == [counted EXCEPT ![mine] = @ \cup {r}]
  <2>0. pc[r] \in {"checking", "dropped"} /\ mine \in 0..MaxWindows /\ windows \in 0..MaxWindows
    BY <1>0, <1>3 DEF Check, CheckBlindly, OpsInPlace, TypeOK, WindowsTyped
  <2>1. Carried' \subseteq Carried
    <3>1. CASE counted' = more /\ (Returns(r, "guarding") \/ Returns(r, "error"))
      <4>1. counted[windows] \subseteq counted'[windows] /\ (mine = windows => r \in counted'[windows])
        BY <1>0, <2>0, <3>1 DEF TypeOK, WindowsTyped
      <4> QED
        BY <1>0, <1>3, <2>0, <3>1, <4>1 DEF Check, CheckBlindly, Returns, Carried, TypeOK
    <3>2. CASE counted' = counted /\ Returns(r, "error")
      BY <1>0, <1>3, <2>0, <3>2 DEF Check, CheckBlindly, Returns, Carried, TypeOK
    <3> QED
      BY <1>3, <3>1, <3>2 DEF Check, CheckBlindly
  <2>2. ASSUME NEW w \in 0..MaxWindows PROVE Cardinality((counted[w] \ overrun)') <= Quota
    <3>1. \/ counted'[w] = counted[w] /\ overrun' = overrun
          \/ HasRoom(r) /\ counted'[w] \in {counted[w], counted[w] \cup {r}} /\ overrun' = overrun
             /\ (counted'[w] # counted[w] => w = mine)
          \/ counted'[w] \subseteq counted[w] \cup {r} /\ overrun' = overrun \cup {r}
      BY <1>0, <1>3, <2>0 DEF Check, CheckBlindly, TypeOK, WindowsTyped
    <3>2. CASE counted'[w] \ overrun' \subseteq counted[w] \ overrun
      <4>1. IsFiniteSet(counted[w] \ overrun) /\ Cardinality(counted[w] \ overrun) <= Quota
        BY <1>0, <1>11 DEF WindowBounded
      <4> QED
        BY <1>0, <3>2, <4>1, Smaller
    <3>3. CASE HasRoom(r) /\ w = mine /\ counted'[w] = counted[w] \cup {r}
      <4>1. IsFiniteSet(counted[w]) /\ Cardinality(counted[w]) < Quota
        BY <1>1, <3>3 DEF HasRoom
      <4>2. IsFiniteSet(counted[w] \cup {r}) /\ Cardinality(counted[w] \cup {r}) <= Quota
        BY <1>0, <4>1, OneMore
      <4>3. counted'[w] \ overrun' \subseteq counted[w] \cup {r}
        BY <3>3
      <4> QED
        BY <1>0, <4>2, <4>3, Smaller
    <3> QED
      BY <3>1, <3>2, <3>3
  <2> QED
    BY <1>0, <1>1, <2>1, <2>2, FS_Subset, FS_CardinalityType DEF WindowBounded
<1>4. CASE NewWindow
  <2>1. Carried' \subseteq Permits /\ UNCHANGED <<counted, overrun>>
    BY <1>4 DEF NewWindow, Carried, Permits
  <2> QED
    BY <1>0, <1>1, <2>1, FS_Subset, FS_CardinalityType DEF WindowBounded, PermitsBounded
<1>5. ASSUME NEW r \in Requests, Arrive(r) \/ Refuse(r) \/ Authorize(r) \/ Drop(r) \/ Begin(r) \/ End(r)
      PROVE  Carried' \subseteq Carried /\ UNCHANGED <<counted, overrun>>
  <2>1. CASE Arrive(r)
    <3>1. pc'[r] = "checking" => window'[r] = windows'
      BY <1>0, <2>1 DEF Arrive, Goto, TypeOK, WindowsTyped
    <3>2. pc'[r] \in {"checking", "error"}
          /\ \A q \in Requests \ {r} : pc'[q] = pc[q] /\ window'[q] = window[q]
      BY <1>0, <2>1 DEF Arrive, Await, Goto, TypeOK, WindowsTyped
    <3> QED
      BY <2>1, <3>1, <3>2 DEF Arrive, Carried
  <2>2. CASE Refuse(r) \/ Authorize(r) \/ Drop(r) \/ Begin(r) \/ End(r)
    BY <1>0, <2>2 DEF Refuse, Authorize, Drop, Begin, End, Await, Goto, Carried, TypeOK
  <2> QED
    BY <1>5, <2>1, <2>2
<1>6. ASSUME NEW r \in Requests, Respond(r) \/ Oversize(r) \/ Fail(r)
      PROVE  Carried' \subseteq Carried /\ UNCHANGED <<counted, overrun>>
  BY <1>0, <1>6 DEF Respond, Oversize, Fail, Conclude, Await, Goto, Carried, TypeOK
<1>7. ASSUME NEW r \in Requests, Complete(r) \/ Release(r) \/ OpFails(r)
      PROVE  Carried' \subseteq Carried /\ UNCHANGED <<counted, overrun>>
  BY <1>0, <1>7 DEF Complete, Release, OpFails, Returns, Carried, TypeOK
<1>8. ASSUME NEW r \in Requests, Claim(r)
      PROVE  Carried' \subseteq Carried /\ UNCHANGED <<counted, overrun>>
  BY <1>0, <1>8 DEF Claim, Returns, Carried, OpsInPlace, TypeOK
<1>9. ASSUME NEW k \in Keys, Expire(k) PROVE Carried' \subseteq Carried /\ UNCHANGED <<counted, overrun>>
  BY <1>9 DEF Expire, Carried
<1>10. CASE Crash \/ UNCHANGED vars
  <2>1. Carried' \subseteq Carried /\ UNCHANGED <<counted, overrun>>
    BY <1>10, <1>0 DEF Crash, vars, Carried, TypeOK
  <2> QED
    BY <1>2, <2>1
<1> QED
  BY <1>2, <1>3, <1>4, <1>5, <1>6, <1>7, <1>8, <1>9, <1>10 DEF Next

-----------------------------------------------------------------------------
LEMMA BaseInvariance == Spec => []BaseInv
<1>1. Init => BaseInv
  <2> SUFFICES ASSUME Init PROVE BaseInv
    OBVIOUS
  <2>1. TypeOK /\ OpsInPlace /\ RowsTrue /\ TasksAct /\ AnswersTrue
    BY NamesAssumption, BoundsAssumption
       DEF Init, TypeOK, WindowsTyped, OpsInPlace, RowsTrue, TasksAct, AnswersTrue, Ops
  <2>2. Permits = {} /\ Carried = {} /\ \A w \in 0..MaxWindows : counted[w] \ overrun = {}
    BY DEF Init, Permits, Inside, Carried
  <2>3. PermitsBounded /\ WindowBounded
    BY <2>2, FS_EmptySet, BoundsAssumption DEF PermitsBounded, WindowBounded
  <2> QED
    BY <2>1, <2>3 DEF BaseInv
<1>2. BaseInv /\ [Next]_vars => BaseInv'
  BY TypeStep, OpsStep, RowsStep, TasksStep, PermitsStep, WindowStep, AnswersStep DEF BaseInv
<1> QED
  BY <1>1, <1>2, PTL DEF Spec

LEMMA Invariance == ASSUME Timely PROVE Spec => []IInv
<1>1. Init => HoldersHold /\ EffectsHeld /\ TaskRunsAlone
  BY NamesAssumption DEF Init, HoldersHold, Holds, EffectsHeld, TaskRunsAlone, Ops
<1>2. IInv /\ [Next]_vars => (HoldersHold /\ EffectsHeld /\ TaskRunsAlone)'
  BY HoldersStep, EffectsStep, AloneStep
<1>3. IInv <=> BaseInv /\ (HoldersHold /\ EffectsHeld /\ TaskRunsAlone)
  BY DEF IInv
<1> QED
  BY <1>1, <1>2, <1>3, BaseInvariance, PTL DEF Spec

\* Every variable keeps its type, whichever operations outlive their handlers.
THEOREM TypeCorrect == Spec => []TypeOK
<1>1. BaseInv => TypeOK
  BY DEF BaseInv
<1> QED
  BY <1>1, BaseInvariance, PTL

\* Where rows outlive their handlers, requests that repeat a key have one effect in the
\* world, whatever becomes of their handlers, operations and the process, until the row
\* of the first is released by itself or expires.
THEOREM EffectTheorem == ASSUME Timely PROVE Spec => []OneUnreleasedEffect
<1>1. IInv => OneUnreleasedEffect
  BY DEF IInv, EffectsHeld, OneUnreleasedEffect
<1> QED
  BY <1>1, Invariance, PTL

\* Where rows outlive their handlers, two tasks of a key never run side by side in one
\* life of the process.
THEOREM AloneTheorem == ASSUME Timely PROVE Spec => []TaskRunsAlone
<1>1. IInv => TaskRunsAlone
  BY DEF IInv
<1> QED
  BY <1>1, Invariance, PTL

\* At most max_concurrency tasks run that this life of the process has spawned: they
\* are the tasks of handlers that hold a permit.
THEOREM PermitsTheorem == Spec => []WorkWithinPermits
<1>1. BaseInv => WorkWithinPermits
  <2> SUFFICES ASSUME BaseInv, kind = "task"
               PROVE  Cardinality({r \in Requests : effect[r] = "running" /\ life[r] = crashes})
                         <= MaxConcurrency
    BY DEF WorkWithinPermits
  <2> DEFINE Work == {r \in Requests : effect[r] = "running" /\ life[r] = crashes}
  <2>1. Work \subseteq Permits
    BY DEF BaseInv, TasksAct, Permits, Inside
  <2>2. IsFiniteSet(Permits)
    BY BoundsAssumption, FS_Subset DEF Permits
  <2>3. Cardinality(Permits) <= MaxConcurrency
    BY DEF BaseInv, PermitsBounded
  <2> QED
    BY <2>1, <2>2, <2>3, FS_Subset, FS_CardinalityType, BoundsAssumption
<1> QED
  BY <1>1, BaseInvariance, PTL

\* What begins in a window is what it counted, a quota at most beside what blind checks
\* counted when it was full, and what at most max_concurrency requests bring over from
\* the window before.
THEOREM WindowTheorem == Spec => []EffectsPerWindow
<1>1. BaseInv => EffectsPerWindow
  <2> SUFFICES ASSUME BaseInv PROVE EffectsPerWindow
    OBVIOUS
  <2> DEFINE here == counted[windows] \ overrun
  <2>1. here \subseteq Requests /\ IsFiniteSet(here) /\ IsFiniteSet(Carried)
    BY BoundsAssumption, FS_Subset DEF Carried, BaseInv, TypeOK, WindowsTyped
  <2>2. (used \cap counted[windows]) \ overrun \subseteq here
        /\ used \ counted[windows] \subseteq Carried
    BY DEF Carried, BaseInv, TypeOK, WindowsTyped
  <2>3. Cardinality(here) <= Quota /\ Cardinality(Carried) <= MaxConcurrency
    BY DEF BaseInv, TypeOK, WindowsTyped, WindowBounded
  <2> QED
    BY <2>1, <2>2, <2>3, FS_Subset, FS_CardinalityType, BoundsAssumption DEF EffectsPerWindow
<1> QED
  BY <1>1, BaseInvariance, PTL

\* A client that was told of a job can ask for it, in the life of the process that told it.
THEOREM JobTheorem == Spec => []ToldJobIsKnown
<1>1. BaseInv => ToldJobIsKnown
  BY DEF BaseInv, TypeOK, AnswersTrue, ToldJobIsKnown
<1> QED
  BY <1>1, BaseInvariance, PTL


-----------------------------------------------------------------------------
(***************************************************************************)
(* The pipeline implements IdempotencyPromise: what idempotency promises   *)
(* by itself holds inside the permit, the rate limit and the guards.       *)
(***************************************************************************)

PInput == [r \in Requests |-> [key |-> key[r], fp |-> "same"]]
PSlot == [k \in Keys \cup {NoKey} |->
             IF k = NoKey \/ rows[k] = NoRow THEN [phase |-> "free", by |-> NoRequest]
             ELSE [phase |-> rows[k].state, by |-> rows[k].by]]

LEMMA SameSlots ==
    ASSUME TypeOK, UNCHANGED <<key, rows, replayOf>>
    PROVE  UNCHANGED Promise!vars
BY DEF Promise!vars

\* The keys whose rows have expired.
Lapsed == {k \in Keys : rows[k] # NoRow /\ rows[k].expired}

LEMMA PurgedSlots ==
    ASSUME TypeOK
    PROVE  Promise!Forgotten(Lapsed) =
              [k \in Keys \cup {NoKey} |->
                 IF k = NoKey \/ Purged[k] = NoRow THEN [phase |-> "free", by |-> NoRequest]
                 ELSE [phase |-> Purged[k].state, by |-> Purged[k].by]]
BY NamesAssumption DEF Promise!Forgotten, Promise!Free, Lapsed, Purged, TypeOK

\* A claim, completion, release or replay of the promise is a step of it, or
\* changes nothing.
LEMMA PromiseStep ==
    ASSUME Promise!Step
    PROVE  [Promise!Next]_(Promise!vars)
<1>1. UNCHANGED PInput
  BY DEF Promise!Step, Promise!Claim, Promise!Complete, Promise!Release, Promise!Replay, PInput
<1> QED
  BY <1>1 DEF Promise!Next, Promise!vars, PInput

LEMMA ClaimImplements ==
    ASSUME IInv, NEW r \in Requests, Claim(r)
    PROVE  [Promise!Next]_(Promise!vars)
<1>1. key[r] \in Keys /\ ClaimOutcome(r) /\ TypeOK
  BY ClaimRows DEF IInv, BaseInv
<1>2. PICK K \in SUBSET (Keys \cup {NoKey}) : K = Lapsed
  BY DEF Lapsed
<1>3. /\ key[r] # NoKey
      /\ Promise!Forgotten(K) =
            [k \in Keys \cup {NoKey} |->
               IF k = NoKey \/ Purged[k] = NoRow THEN [phase |-> "free", by |-> NoRequest]
               ELSE [phase |-> Purged[k].state, by |-> Purged[k].by]]
  BY <1>1, <1>2, PurgedSlots, NamesAssumption
<1>4. CASE Claimable(key[r])
  <2>1. /\ Purged[key[r]] = NoRow /\ UNCHANGED <<key, replayOf>>
        /\ rows' = [Purged EXCEPT ![key[r]] =
                       [state |-> "processing", by |-> r, expired |-> FALSE]]
    BY <1>4 DEF Claim, Claimable
  <2>2. Promise!Claim(r, K)
    <3>1. Promise!Forgotten(K)[key[r]] = Promise!Free
      BY <1>1, <2>1, <1>3 DEF Promise!Free
    <3>2. PSlot' = [Promise!Forgotten(K) EXCEPT ![key[r]] = [phase |-> "processing", by |-> r]]
      <4> DEFINE row == [state |-> "processing", by |-> r, expired |-> FALSE]
      <4>1. row # NoRow /\ row.state = "processing" /\ row.by = r
        BY ClaimedRow
      <4>2. rows'[key[r]] = row /\ \A k \in Keys \ {key[r]} : rows'[k] = Purged[k]
        BY <1>1, <2>1, PurgedRows
      <4> HIDE DEF row
      <4>3. ASSUME NEW k \in Keys \cup {NoKey}
            PROVE  PSlot'[k] = [Promise!Forgotten(K) EXCEPT ![key[r]] =
                                   [phase |-> "processing", by |-> r]][k]
        BY <1>1, <1>3, <4>1, <4>2 DEF PSlot
      <4>4. PSlot' = [k \in Keys \cup {NoKey} |-> PSlot'[k]]
        BY DEF PSlot
      <4> QED
        BY <1>3, <4>3, <4>4
    <3> QED
      BY <3>1, <3>2, <2>1 DEF Promise!Claim, PSlot
  <2> QED
    BY <2>2, PromiseStep DEF Promise!Step
<1>5. CASE ~Claimable(key[r]) /\ Purged[key[r]].state = "completed"
  <2>1. /\ rows' = Purged /\ Purged[key[r]] # NoRow /\ UNCHANGED key
        /\ replayOf' \in {replayOf, [replayOf EXCEPT ![r] = Purged[key[r]].by]}
    BY <1>5 DEF Claim, Claimable
  <2>2. Promise!Replay(r, K)
    <3>1. Promise!Forgotten(K)[key[r]] = [phase |-> "completed", by |-> Purged[key[r]].by]
      BY <1>1, <1>2, <1>5, <2>1, <1>3
    <3>2. key[Purged[key[r]].by] = key[r] /\ Purged[key[r]].by \in Requests
      BY <1>1, <2>1, PurgedRows DEF IInv, BaseInv, RowsTrue, Row
    <3>3. PSlot' = Promise!Forgotten(K)
      BY <1>1, <2>1, <1>3 DEF PSlot
    <3> QED
      BY <3>1, <3>2, <3>3, <2>1 DEF Promise!Replay, PSlot
  <2> QED
    BY <2>2, PromiseStep DEF Promise!Step
<1>6. CASE ~Claimable(key[r]) /\ Purged[key[r]].state # "completed"
  <2>1. UNCHANGED <<key, rows, replayOf>>
    BY <1>6 DEF Claim
  <2> QED
    BY <1>1, <2>1, SameSlots
<1> QED
  BY <1>4, <1>5, <1>6

LEMMA CompleteImplements ==
    ASSUME IInv, NEW r \in Requests, Complete(r)
    PROVE  [Promise!Next]_(Promise!vars)
<1>1. TypeOK /\ OpsInPlace /\ Holds(r)
  BY DEF IInv, BaseInv, Complete, Holds, OpsInPlace
<1>2. key[r] \in Keys /\ Reserved(r) /\ rows[key[r]].by = r
  BY <1>1 DEF IInv, BaseInv, HoldersHold, Reserved, TypeOK, Holds
<1>3. Promise!Complete(r)
  <2>1. PSlot[key[r]] = [phase |-> "processing", by |-> r]
    BY <1>2, NamesAssumption DEF PSlot, Reserved
  <2>2. PSlot' = [PSlot EXCEPT ![key[r]] = [phase |-> "completed", by |-> r]]
    <3>1. /\ rows'[key[r]] # NoRow /\ rows'[key[r]].state = "completed" /\ rows'[key[r]].by = r
          /\ \A k \in Keys \ {key[r]} : rows'[k] = rows[k]
      BY <1>1, <1>2, CompleteRows
    <3> QED
      BY <1>2, <3>1, NamesAssumption DEF PSlot
  <2>3. UNCHANGED <<key, replayOf>>
    BY DEF Complete
  <2> QED
    BY <2>1, <2>2, <2>3 DEF Promise!Complete, PSlot
<1> QED
  BY <1>3, PromiseStep DEF Promise!Step

LEMMA ReleaseImplements ==
    ASSUME IInv, NEW r \in Requests, Release(r)
    PROVE  [Promise!Next]_(Promise!vars)
<1>1. TypeOK /\ OpsInPlace /\ Holds(r)
  BY DEF IInv, BaseInv, Release, Holds, OpsInPlace
<1>2. key[r] \in Keys /\ Reserved(r) /\ rows[key[r]].by = r
  BY <1>1 DEF IInv, BaseInv, HoldersHold, Reserved, TypeOK, Holds
<1>3. Promise!Release(r)
  <2>1. PSlot[key[r]] = [phase |-> "processing", by |-> r]
    BY <1>2, NamesAssumption DEF PSlot, Reserved
  <2>2. PSlot' = [PSlot EXCEPT ![key[r]] = Promise!Free]
    BY <1>1, <1>2, NamesAssumption DEF PSlot, Promise!Free, Release, TypeOK
  <2>3. UNCHANGED <<key, replayOf>>
    BY DEF Release
  <2> QED
    BY <2>1, <2>2, <2>3 DEF Promise!Release, PSlot
<1> QED
  BY <1>3, PromiseStep DEF Promise!Step

LEMMA ExpireImplements ==
    ASSUME IInv, NEW k \in Keys, Expire(k)
    PROVE  UNCHANGED Promise!vars
<1>1. rows[k] \in Row
  BY DEF IInv, BaseInv, TypeOK, Expire
<1> DEFINE late == [rows[k] EXCEPT !.expired = TRUE]
<1>2. late \in Row /\ late.state = rows[k].state /\ late.by = rows[k].by
  BY <1>1 DEF Row
<1>3. late # NoRow
  BY <1>2, NamesAssumption
<1>4. rows' = [rows EXCEPT ![k] = late] /\ UNCHANGED <<key, replayOf>>
  BY DEF Expire
<1>5. PSlot' = PSlot
  BY <1>2, <1>3, <1>4 DEF PSlot, IInv, TypeOK, Expire
<1> QED
  BY <1>4, <1>5 DEF Promise!vars, PSlot

\* Where rows outlive their handlers, every behaviour of the pipeline is one of the promise: a key is held by one request
\* at a time, which alone completes it or gives it up, and a replay returns the
\* response of the same request.
THEOREM RefinementTheorem == ASSUME Timely PROVE Spec => KeepsPromise
<1>1. Init => Promise!Init
  <2> SUFFICES ASSUME Init PROVE Promise!Init
    OBVIOUS
  <2>1. PInput \in [Requests -> [key : Keys \cup {NoKey}, fp : {"same"}]]
    BY DEF Init, PInput
  <2>2. PSlot = [k \in Keys \cup {NoKey} |-> Promise!Free]
    BY DEF Init, PSlot, Promise!Free
  <2> QED
    BY <2>1, <2>2 DEF Promise!Init, PInput, PSlot, Init
<1>2. IInv /\ [Next]_vars => [Promise!Next]_(Promise!vars)
  <2> SUFFICES ASSUME IInv, [Next]_vars PROVE [Promise!Next]_(Promise!vars)
    OBVIOUS
  <2>1. TypeOK
    BY DEF IInv, BaseInv
  <2>2. ASSUME NEW r \in Requests, Arrive(r) \/ Check(r) \/ CheckBlindly(r) \/ Refuse(r) \/ Authorize(r)
                                   \/ Begin(r) \/ End(r)
        PROVE  UNCHANGED <<key, rows, replayOf>>
    BY <2>2 DEF Arrive, Check, CheckBlindly, Refuse, Authorize, Begin, End
  <2>3. ASSUME NEW r \in Requests, Respond(r) \/ Oversize(r) \/ Fail(r) \/ OpFails(r) \/ Drop(r)
        PROVE  UNCHANGED <<key, rows, replayOf>>
    BY <2>3 DEF Respond, Oversize, Fail, OpFails, Drop
  <2>4. CASE NewWindow \/ Crash \/ UNCHANGED vars
    <3>1. UNCHANGED <<key, rows, replayOf>>
      BY <2>4 DEF NewWindow, Crash, vars
    <3> QED
      BY <2>1, <3>1, SameSlots
  <2> QED
    BY <2>1, <2>2, <2>3, <2>4, SameSlots, ClaimImplements, CompleteImplements, ReleaseImplements,
       ExpireImplements DEF Next
<1> QED
  BY <1>1, <1>2, Invariance, PTL DEF Spec, KeepsPromise, Promise!Spec

=============================================================================
