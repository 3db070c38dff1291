-------------------------- MODULE IdempotencyProofs --------------------------
(***************************************************************************)
(* Proofs about Idempotency for any number of requests, keys and           *)
(* fingerprints, either driver, and any ttl, deadline and bounds.          *)
(***************************************************************************)
EXTENDS Idempotency, TLAPS

LEMMA ReadingsBounded ==
    ASSUME TypeOK, NEW r \in Requests, op[r] # NoOp, op[r].at <= now,
           NEW t \in ClockReadings(r)
    PROVE  t \in Nat /\ t <= now /\ op[r].at <= t
BY DEF ClockReadings, TypeOK, Op

LEMMA PurgedType ==
    ASSUME TypeOK, NEW t \in Nat
    PROVE  Purged(t) \in [Keys -> Record \cup {NoRecord}]
BY DEF Purged, TypeOK

LEMMA TypeStep == TypeOK /\ [Next]_vars => TypeOK'
<1> SUFFICES ASSUME TypeOK, [Next]_vars PROVE TypeOK'
  OBVIOUS
<1> USE DEF TypeOK, Alive, Answers
<1>1. ASSUME NEW r \in Requests, Arrive(r) PROVE TypeOK'
  BY <1>1 DEF Arrive
<1>2. ASSUME NEW r \in Requests, Refuse(r) PROVE TypeOK'
  BY <1>2 DEF Refuse
<1>3. ASSUME NEW r \in Requests, Authorize(r) PROVE TypeOK'
  BY <1>3 DEF Authorize, Await, Op
<1>4. ASSUME NEW r \in Requests, Claim(r) PROVE TypeOK'
  <2>1. PICK t \in ClockReadings(r) :
           ClaimInserts(r, t) \/ ClaimRefused(r, t) \/ ClaimReplays(r, t)
    BY <1>4 DEF Claim
  <2>2. t \in Nat
    BY <1>4 DEF ClockReadings, Op, Claim, Doing
  <2>3. Purged(t) \in [Keys -> Record \cup {NoRecord}]
    BY <2>2, PurgedType
  <2>4. KeyOf(r) \in Keys /\ FpOf(r) \in Fingerprints
    BY DEF KeyOf, FpOf
  <2>5. UNCHANGED <<now, crashes, input, started>>
    BY <1>4 DEF Claim
  <2>6. CASE ClaimInserts(r, t)
    <3>1. NewRecord(r, t) \in Record
      BY <2>2, <2>4, ConfigAssumption DEF NewRecord, Record
    <3> QED
      BY <2>3, <2>4, <2>5, <2>6, <3>1 DEF ClaimInserts, OpEnds
  <2>7. CASE ClaimRefused(r, t)
    BY <2>5, <2>7, ZenonT(60) DEF ClaimRefused, OpEnds
  <2>8. CASE ClaimReplays(r, t)
    <3>1. Purged(t)[KeyOf(r)] \in Record
      BY <2>3, <2>4, <2>8 DEF ClaimReplays
    <3>2. Purged(t)[KeyOf(r)].response \in Requests \cup {NoRequest}
      BY <3>1 DEF Record
    <3> QED
      BY <2>3, <2>5, <2>8, <3>2 DEF ClaimReplays, OpEnds
  <2> QED
    BY <2>1, <2>6, <2>7, <2>8
<1>5. ASSUME NEW r \in Requests, ActionSucceeds(r) PROVE TypeOK'
  BY <1>5 DEF ActionSucceeds, Await, Op
<1>6. ASSUME NEW r \in Requests, ActionFails(r) PROVE TypeOK'
  BY <1>6 DEF ActionFails, Await, Op
<1>7. ASSUME NEW r \in Requests, Complete(r) PROVE TypeOK'
  <2>1. records' \in [Keys -> Record \cup {NoRecord}]
    BY <1>7 DEF Complete, Reserved, KeyOf, Record
  <2> QED
    BY <1>7, <2>1, ZenonT(60) DEF Complete, OpEnds
<1>8. ASSUME NEW r \in Requests, Release(r) PROVE TypeOK'
  BY <1>8 DEF Release, OpEnds
<1>9. ASSUME NEW r \in Requests, OpFails(r) PROVE TypeOK'
  BY <1>9 DEF OpFails, OpEnds
<1>10. ASSUME NEW r \in Requests, DeadlinePasses(r) PROVE TypeOK'
  BY <1>10 DEF DeadlinePasses, OpsOutlive
<1>11. ASSUME NEW r \in Requests, Disconnect(r) PROVE TypeOK'
  BY <1>11 DEF Disconnect, OpsOutlive
<1>12. CASE Crash
  BY <1>12, ConfigAssumption DEF Crash, OpsOutlive
<1>13. CASE Tick
  BY <1>13, ConfigAssumption DEF Tick
<1>14. CASE UNCHANGED vars
  BY <1>14 DEF vars
<1> QED
  BY <1>1, <1>2, <1>3, <1>4, <1>5, <1>6, <1>7, <1>8, <1>9, <1>10, <1>11,
     <1>12, <1>13, <1>14 DEF Next

\* Every variable keeps its type: the clock and the expiry times stay natural
\* numbers, and a row never holds anything but a claim or a stored response.
THEOREM TypeCorrect == Spec => []TypeOK
<1>1. Init => TypeOK
  BY ConfigAssumption DEF Init, TypeOK
<1> QED
  BY <1>1, TypeStep, PTL DEF Spec

-----------------------------------------------------------------------------
\* While r holds its key, no claim reads a clock late enough to purge its row.
LEMMA HeldRowSurvives ==
    ASSUME Timely, IInv, NEW r \in Requests, Holds(r), NEW t \in Nat, t <= now
    PROVE  Purged(t)[KeyOf(r)] = records[KeyOf(r)]
<1>1. now <= started[r] + Deadline + OpBound
  BY ConfigAssumption DEF IInv, OnTime, Holds, TypeOK, Timely, Alive, Doing, Op
<1>2. started[r] + Ttl <= records[KeyOf(r)].expires
  BY DEF IInv, HeldRowIsMine
<1>3. KeyOf(r) \in Keys /\ records[KeyOf(r)] \in Record
  BY DEF IInv, TypeOK, KeyOf, HeldRowIsMine, Processing
<1>4. ~(records[KeyOf(r)].expires <= t)
  BY <1>1, <1>2, <1>3, ConfigAssumption DEF Timely, Record, IInv, TypeOK
<1> QED
  BY <1>3, <1>4 DEF Purged

\* The end of an operation of r leaves the other requests alone.
LEMMA OpEndsOthers ==
    ASSUME TypeOK, NEW r \in Requests, NEW p, OpEnds(r, p)
    PROVE  /\ \A q \in Requests \ {r} : pc'[q] = pc[q] /\ op'[q] = op[q]
           /\ op'[r] = NoOp
           /\ pc'[r] = pc[r] \/ (pc[r] = "waiting" /\ pc'[r] \in {p, "error"})
           /\ pc[r] = "waiting" => pc'[r] \in {p, "error"}
BY DEF OpEnds, TypeOK

\* What a claim does to the table: rows stay, expired ones go, and when the key
\* of r was free, r gets a row of its own.
LEMMA ClaimRows ==
    ASSUME TypeOK, OnTime, NEW r \in Requests, Claim(r)
    PROVE  \E t \in Nat :
             /\ started[r] <= t /\ t <= now
             /\ \/ /\ Purged(t)[KeyOf(r)] = NoRecord
                   /\ records' = [Purged(t) EXCEPT ![KeyOf(r)] = NewRecord(r, t)]
                   /\ OpEnds(r, "acting")
                   /\ UNCHANGED replayed
                \/ /\ records' \in {records, Purged(t)}
                   /\ \E p \in {"mismatch", "conflict", "replay"} : OpEnds(r, p)
                   /\ \/ UNCHANGED replayed
                      \/ /\ Purged(t)[KeyOf(r)] # NoRecord
                         /\ Purged(t)[KeyOf(r)].fp = FpOf(r)
                         /\ Purged(t)[KeyOf(r)].state = "completed"
                         /\ replayed' = [replayed EXCEPT
                                           ![r] = Purged(t)[KeyOf(r)].response]
<1>1. PICK t \in ClockReadings(r) :
         ClaimInserts(r, t) \/ ClaimRefused(r, t) \/ ClaimReplays(r, t)
  BY DEF Claim
<1>2. op[r] \in Op /\ started[r] <= op[r].at /\ op[r].at <= now
  BY DEF Claim, Doing, OnTime, TypeOK
<1>3. t \in Nat /\ started[r] <= t /\ t <= now
  BY <1>2 DEF ClockReadings, TypeOK, Op
<1>4. CASE ClaimInserts(r, t)
  BY <1>3, <1>4 DEF ClaimInserts
<1>5. CASE ClaimRefused(r, t)
  BY <1>3, <1>5 DEF ClaimRefused
<1>6. CASE ClaimReplays(r, t)
  BY <1>3, <1>6 DEF ClaimReplays
<1> QED
  BY <1>1, <1>4, <1>5, <1>6

\* Purging leaves every row as it is or removes it.
LEMMA PurgedRows ==
    ASSUME NEW t, NEW k \in Keys
    PROVE  Purged(t)[k] \in {records[k], NoRecord}
BY DEF Purged

\* The row a claim inserts.
LEMMA NewRow ==
    ASSUME TypeOK, NEW r \in Requests, NEW t \in Nat
    PROVE  /\ KeyOf(r) \in Keys
           /\ NewRecord(r, t) \in Record
           /\ NewRecord(r, t).state = "processing"
           /\ NewRecord(r, t).claimer = r
           /\ NewRecord(r, t).fp = FpOf(r)
           /\ NewRecord(r, t).expires = t + Ttl
BY ConfigAssumption DEF NewRecord, Record, KeyOf, FpOf, TypeOK

\* What complete() does to the table: at most the row of r's key changes, from
\* a claim to a stored response of r.
LEMMA CompleteRows ==
    ASSUME TypeOK, NEW r \in Requests, Complete(r)
    PROVE  \/ UNCHANGED records
           \/ /\ Reserved(r) /\ KeyOf(r) \in Keys
              /\ records'[KeyOf(r)] # NoRecord
              /\ records'[KeyOf(r)].fp = records[KeyOf(r)].fp
              /\ records'[KeyOf(r)].state = "completed"
              /\ records'[KeyOf(r)].response = r
              /\ records'[KeyOf(r)].expires = records[KeyOf(r)].expires
              /\ records'[KeyOf(r)].claimer = records[KeyOf(r)].claimer
              /\ \A k \in Keys \ {KeyOf(r)} : records'[k] = records[k]
<1>1. CASE UNCHANGED records
  BY <1>1
<1>2. CASE ~UNCHANGED records
  <2> DEFINE row == records[KeyOf(r)]
             done == [row EXCEPT !.state = "completed", !.response = r]
  <2>1. Reserved(r) /\ KeyOf(r) \in Keys /\ row \in Record
    BY <1>2 DEF Complete, Reserved, KeyOf, TypeOK
  <2>2. records' = [records EXCEPT ![KeyOf(r)] = done]
    BY <1>2, <2>1 DEF Complete, TypeOK
  <2>3. /\ done.fp = row.fp /\ done.state = "completed" /\ done.response = r
        /\ done.expires = row.expires /\ done.claimer = row.claimer
    BY <2>1 DEF Record
  <2>6. done # NoRecord
    <3>1. done \in Record
      BY <2>1 DEF Record
    <3> QED
      BY <3>1, NamesAssumption
  <2>4. records'[KeyOf(r)] = done
    BY <2>1, <2>2 DEF TypeOK
  <2>5. \A k \in Keys \ {KeyOf(r)} : records'[k] = records[k]
    BY <2>2 DEF TypeOK
  <2> QED
    BY <2>1, <2>3, <2>4, <2>5, <2>6
<1> QED
  BY <1>1, <1>2

LEMMA OnTimeStep ==
    ASSUME Timely, IInv, [Next]_vars
    PROVE  OnTime'
<1> USE DEF IInv, TypeOK, OnTime, Alive, Answers, Timely, Doing, Op
<1>1. ASSUME NEW r \in Requests, Arrive(r) PROVE OnTime'
  BY <1>1, ConfigAssumption DEF Arrive
<1>2. ASSUME NEW r \in Requests, Refuse(r) PROVE OnTime'
  BY <1>2, ConfigAssumption DEF Refuse
<1>3. ASSUME NEW r \in Requests, Authorize(r) PROVE OnTime'
  BY <1>3, ConfigAssumption DEF Authorize, Await
<1>4. ASSUME NEW r \in Requests, Claim(r) PROVE OnTime'
  BY <1>4, ConfigAssumption DEF Claim, OpEnds, ClaimInserts, ClaimRefused, ClaimReplays
<1>5. ASSUME NEW r \in Requests, ActionSucceeds(r) PROVE OnTime'
  BY <1>5, ConfigAssumption DEF ActionSucceeds, Await
<1>6. ASSUME NEW r \in Requests, ActionFails(r) PROVE OnTime'
  BY <1>6, ConfigAssumption DEF ActionFails, Await
<1>7. ASSUME NEW r \in Requests, Complete(r) PROVE OnTime'
  BY <1>7, ConfigAssumption DEF Complete, OpEnds
<1>8. ASSUME NEW r \in Requests, Release(r) PROVE OnTime'
  BY <1>8, ConfigAssumption DEF Release, OpEnds
<1>9. ASSUME NEW r \in Requests, OpFails(r) PROVE OnTime'
  BY <1>9, ConfigAssumption DEF OpFails, OpEnds
<1>10. ASSUME NEW r \in Requests, DeadlinePasses(r) PROVE OnTime'
  BY <1>10, ConfigAssumption DEF DeadlinePasses, OpsOutlive
<1>11. ASSUME NEW r \in Requests, Disconnect(r) PROVE OnTime'
  BY <1>11, ConfigAssumption DEF Disconnect, OpsOutlive
<1>12. CASE Crash
  BY <1>12 DEF Crash, OpsOutlive
<1>13. CASE Tick
  BY <1>13, ConfigAssumption DEF Tick
<1>14. CASE UNCHANGED vars
  BY <1>14 DEF vars
<1> QED
  BY <1>1, <1>2, <1>3, <1>4, <1>5, <1>6, <1>7, <1>8, <1>9, <1>10, <1>11, <1>12, <1>13, <1>14 DEF Next

LEMMA HeldRowIsMineStep ==
    ASSUME Timely, IInv, [Next]_vars
    PROVE  HeldRowIsMine'
<1> USE DEF IInv, TypeOK, HeldRowIsMine, Holds, Processing, Doing, KeyOf, Alive, Answers, Op
<1>1. ASSUME NEW r \in Requests, Arrive(r) PROVE HeldRowIsMine'
  BY <1>1 DEF Arrive, OnTime
<1>2. ASSUME NEW r \in Requests, Refuse(r) PROVE HeldRowIsMine'
  BY <1>2, ConfigAssumption DEF Refuse
<1>3. ASSUME NEW r \in Requests, Authorize(r) PROVE HeldRowIsMine'
  BY <1>3, ConfigAssumption DEF Authorize, Await
<1>4. ASSUME NEW r \in Requests, Claim(r) PROVE HeldRowIsMine'
  <2> SUFFICES ASSUME NEW q \in Requests, Holds(q)'
               PROVE  (/\ Processing(KeyOf(q))
                       /\ records[KeyOf(q)].claimer = q
                       /\ started[q] + Ttl <= records[KeyOf(q)].expires)'
    OBVIOUS
  <2>1. UNCHANGED <<input, started>> /\ op[r] # NoOp
    BY <1>4 DEF Claim
  <2>2. PICK t \in Nat : 
           /\ started[r] <= t /\ t <= now
           /\ \/ /\ Purged(t)[KeyOf(r)] = NoRecord
                 /\ records' = [Purged(t) EXCEPT ![KeyOf(r)] = NewRecord(r, t)]
                 /\ OpEnds(r, "acting")
              \/ /\ records' \in {records, Purged(t)}
                 /\ \E p \in {"mismatch", "conflict", "replay"} : OpEnds(r, p)
    BY <1>4, ClaimRows
  <2>3. CASE q # r
    <3>1. Holds(q)
      BY <2>2, <2>3, OpEndsOthers
    <3>2. Purged(t)[KeyOf(q)] = records[KeyOf(q)] /\ records[KeyOf(q)] # NoRecord
      BY <2>2, <3>1, HeldRowSurvives
    <3>3. records'[KeyOf(q)] = records[KeyOf(q)]
      BY <2>2, <3>2, PurgedType
    <3> QED
      BY <2>1, <3>1, <3>3
  <2>4. CASE q = r
    <3>1. op'[r] = NoOp /\ pc'[r] = "acting"
      BY <2>2, <2>4, OpEndsOthers
    <3>2. pc[r] = "waiting"
      BY <2>1, <2>2, <3>1, OpEndsOthers DEF OnTime
    <3>3. /\ Purged(t)[KeyOf(r)] = NoRecord
          /\ records' = [Purged(t) EXCEPT ![KeyOf(r)] = NewRecord(r, t)]
      BY <2>2, <3>1, <3>2, OpEndsOthers
    <3>4. KeyOf(r) \in Keys /\ records'[KeyOf(r)] = NewRecord(r, t)
      BY <3>3, PurgedType
    <3>5. records'[KeyOf(r)] # NoRecord
      BY <3>4, NewRow, NamesAssumption
    <3> QED
      BY <2>1, <2>2, <2>4, <3>4, <3>5, NewRow, ConfigAssumption
  <2> QED
    BY <2>3, <2>4
<1>5. ASSUME NEW r \in Requests, ActionSucceeds(r) PROVE HeldRowIsMine'
  BY <1>5, ConfigAssumption DEF ActionSucceeds, Await
<1>6. ASSUME NEW r \in Requests, ActionFails(r) PROVE HeldRowIsMine'
  BY <1>6, ConfigAssumption DEF ActionFails, Await
<1>7. ASSUME NEW r \in Requests, Complete(r) PROVE HeldRowIsMine'
  <2> SUFFICES ASSUME NEW q \in Requests, Holds(q)'
               PROVE  (/\ Processing(KeyOf(q))
                       /\ records[KeyOf(q)].claimer = q
                       /\ started[q] + Ttl <= records[KeyOf(q)].expires)'
    OBVIOUS
  <2>1. UNCHANGED <<input, started>> /\ Holds(r) /\ op[r] # NoOp
    BY <1>7 DEF Complete
  <2>2. PICK p : OpEnds(r, p) /\ p \in {"ok", "error"}
    BY <1>7 DEF Complete
  <2>3. q # r /\ Holds(q)
    BY <2>1, <2>2, OpEndsOthers DEF OnTime
  <2>4. KeyOf(q) # KeyOf(r)
    BY <2>1, <2>3
  <2>5. records'[KeyOf(q)] = records[KeyOf(q)]
    BY <1>7, <2>4, CompleteRows
  <2> QED
    BY <2>1, <2>3, <2>5
<1>8. ASSUME NEW r \in Requests, Release(r) PROVE HeldRowIsMine'
  <2> SUFFICES ASSUME NEW q \in Requests, Holds(q)'
               PROVE  (/\ Processing(KeyOf(q))
                       /\ records[KeyOf(q)].claimer = q
                       /\ started[q] + Ttl <= records[KeyOf(q)].expires)'
    OBVIOUS
  <2>1. UNCHANGED <<input, started>> /\ Holds(r) /\ op[r] # NoOp /\ OpEnds(r, "error")
    BY <1>8 DEF Release
  <2>2. q # r /\ Holds(q)
    BY <2>1, OpEndsOthers DEF OnTime
  <2>3. KeyOf(q) # KeyOf(r)
    BY <2>1, <2>2
  <2>4. records'[KeyOf(q)] = records[KeyOf(q)]
    BY <1>8, <2>3 DEF Release
  <2> QED
    BY <2>1, <2>2, <2>4
<1>9. ASSUME NEW r \in Requests, OpFails(r) PROVE HeldRowIsMine'
  BY <1>9, ConfigAssumption DEF OpFails, OpEnds
<1>10. ASSUME NEW r \in Requests, DeadlinePasses(r) PROVE HeldRowIsMine'
  BY <1>10, ConfigAssumption DEF DeadlinePasses, OpsOutlive
<1>11. ASSUME NEW r \in Requests, Disconnect(r) PROVE HeldRowIsMine'
  BY <1>11, ConfigAssumption DEF Disconnect, OpsOutlive
<1>12. CASE Crash
  BY <1>12 DEF Crash, OpsOutlive
<1>13. CASE Tick
  BY <1>13, ConfigAssumption DEF Tick
<1>14. CASE UNCHANGED vars
  BY <1>14 DEF vars
<1> QED
  BY <1>1, <1>2, <1>3, <1>4, <1>5, <1>6, <1>7, <1>8, <1>9, <1>10, <1>11, <1>12, <1>13, <1>14 DEF Next

LEMMA RowOfClaimerStep ==
    ASSUME Timely, IInv, [Next]_vars
    PROVE  RowOfClaimer'
<1> USE DEF IInv, TypeOK, RowOfClaimer, KeyOf, FpOf, Record
<1>1. ASSUME NEW r \in Requests, Arrive(r) PROVE RowOfClaimer'
  BY <1>1, ConfigAssumption DEF Arrive
<1>2. ASSUME NEW r \in Requests, Refuse(r) PROVE RowOfClaimer'
  BY <1>2, ConfigAssumption DEF Refuse
<1>3. ASSUME NEW r \in Requests, Authorize(r) PROVE RowOfClaimer'
  BY <1>3, ConfigAssumption DEF Authorize, Await
<1>4. ASSUME NEW r \in Requests, Claim(r) PROVE RowOfClaimer'
  <2> SUFFICES ASSUME NEW k \in Keys, records'[k] # NoRecord
               PROVE  (/\ KeyOf(records[k].claimer) = k
                       /\ FpOf(records[k].claimer) = records[k].fp)'
    OBVIOUS
  <2>1. UNCHANGED input
    BY <1>4 DEF Claim
  <2>2. PICK t \in Nat :
           \/ records' = [Purged(t) EXCEPT ![KeyOf(r)] = NewRecord(r, t)]
           \/ records' \in {records, Purged(t)}
    BY <1>4, ClaimRows
  <2>3. records'[k] = records[k] \/ (k = KeyOf(r) /\ records'[k] = NewRecord(r, t))
    BY <2>2, PurgedType, PurgedRows
  <2> QED
    BY <2>1, <2>3, NewRow
<1>5. ASSUME NEW r \in Requests, ActionSucceeds(r) PROVE RowOfClaimer'
  BY <1>5, ConfigAssumption DEF ActionSucceeds, Await
<1>6. ASSUME NEW r \in Requests, ActionFails(r) PROVE RowOfClaimer'
  BY <1>6, ConfigAssumption DEF ActionFails, Await
<1>7. ASSUME NEW r \in Requests, Complete(r) PROVE RowOfClaimer'
  <2> SUFFICES ASSUME NEW k \in Keys, records'[k] # NoRecord
               PROVE  (/\ KeyOf(records[k].claimer) = k
                       /\ FpOf(records[k].claimer) = records[k].fp)'
    OBVIOUS
  <2>1. UNCHANGED input
    BY <1>7 DEF Complete
  <2>2. /\ records[k] # NoRecord
        /\ records'[k].claimer = records[k].claimer
        /\ records'[k].fp = records[k].fp
    BY <1>7, CompleteRows DEF Reserved
  <2> QED
    BY <2>1, <2>2
<1>8. ASSUME NEW r \in Requests, Release(r) PROVE RowOfClaimer'
  BY <1>8, ConfigAssumption DEF Release, OpEnds
<1>9. ASSUME NEW r \in Requests, OpFails(r) PROVE RowOfClaimer'
  BY <1>9, ConfigAssumption DEF OpFails, OpEnds
<1>10. ASSUME NEW r \in Requests, DeadlinePasses(r) PROVE RowOfClaimer'
  BY <1>10, ConfigAssumption DEF DeadlinePasses, OpsOutlive
<1>11. ASSUME NEW r \in Requests, Disconnect(r) PROVE RowOfClaimer'
  BY <1>11, ConfigAssumption DEF Disconnect, OpsOutlive
<1>12. CASE Crash
  BY <1>12 DEF Crash, OpsOutlive
<1>13. CASE Tick
  BY <1>13, ConfigAssumption DEF Tick
<1>14. CASE UNCHANGED vars
  BY <1>14 DEF vars
<1> QED
  BY <1>1, <1>2, <1>3, <1>4, <1>5, <1>6, <1>7, <1>8, <1>9, <1>10, <1>11, <1>12, <1>13, <1>14 DEF Next

LEMMA CompletedByOwnerStep ==
    ASSUME Timely, IInv, [Next]_vars
    PROVE  CompletedByOwner'
<1> USE DEF IInv, TypeOK, CompletedByOwner, Completed, KeyOf, Record
<1>1. ASSUME NEW r \in Requests, Arrive(r) PROVE CompletedByOwner'
  BY <1>1, ConfigAssumption DEF Arrive
<1>2. ASSUME NEW r \in Requests, Refuse(r) PROVE CompletedByOwner'
  BY <1>2, ConfigAssumption DEF Refuse
<1>3. ASSUME NEW r \in Requests, Authorize(r) PROVE CompletedByOwner'
  BY <1>3, ConfigAssumption DEF Authorize, Await
<1>4. ASSUME NEW r \in Requests, Claim(r) PROVE CompletedByOwner'
  <2> SUFFICES ASSUME NEW k \in Keys, Completed(k)'
               PROVE  (records[k].response = records[k].claimer)'
    OBVIOUS
  <2>1. PICK t \in Nat :
           \/ records' = [Purged(t) EXCEPT ![KeyOf(r)] = NewRecord(r, t)]
           \/ records' \in {records, Purged(t)}
    BY <1>4, ClaimRows
  <2>2. records'[k] = records[k] \/ (k = KeyOf(r) /\ records'[k] = NewRecord(r, t))
    BY <2>1, PurgedType, PurgedRows
  <2> QED
    BY <2>2, NewRow
<1>5. ASSUME NEW r \in Requests, ActionSucceeds(r) PROVE CompletedByOwner'
  BY <1>5, ConfigAssumption DEF ActionSucceeds, Await
<1>6. ASSUME NEW r \in Requests, ActionFails(r) PROVE CompletedByOwner'
  BY <1>6, ConfigAssumption DEF ActionFails, Await
<1>7. ASSUME NEW r \in Requests, Complete(r) PROVE CompletedByOwner'
  <2>1. Reserved(r) => records[KeyOf(r)].claimer = r
    BY <1>7 DEF Complete, HeldRowIsMine, Holds
  <2> QED
    BY <1>7, <2>1, CompleteRows
<1>8. ASSUME NEW r \in Requests, Release(r) PROVE CompletedByOwner'
  BY <1>8, ConfigAssumption DEF Release, OpEnds
<1>9. ASSUME NEW r \in Requests, OpFails(r) PROVE CompletedByOwner'
  BY <1>9, ConfigAssumption DEF OpFails, OpEnds
<1>10. ASSUME NEW r \in Requests, DeadlinePasses(r) PROVE CompletedByOwner'
  BY <1>10, ConfigAssumption DEF DeadlinePasses, OpsOutlive
<1>11. ASSUME NEW r \in Requests, Disconnect(r) PROVE CompletedByOwner'
  BY <1>11, ConfigAssumption DEF Disconnect, OpsOutlive
<1>12. CASE Crash
  BY <1>12 DEF Crash, OpsOutlive
<1>13. CASE Tick
  BY <1>13, ConfigAssumption DEF Tick
<1>14. CASE UNCHANGED vars
  BY <1>14 DEF vars
<1> QED
  BY <1>1, <1>2, <1>3, <1>4, <1>5, <1>6, <1>7, <1>8, <1>9, <1>10, <1>11, <1>12, <1>13, <1>14 DEF Next

LEMMA ReplaysSameRequestStep ==
    ASSUME Timely, IInv, [Next]_vars
    PROVE  ReplaysSameRequest'
<1> USE DEF IInv, TypeOK, ReplaysSameRequest, RowOfClaimer, CompletedByOwner, Completed, KeyOf, FpOf, Record
<1>1. ASSUME NEW r \in Requests, Arrive(r) PROVE ReplaysSameRequest'
  BY <1>1, ConfigAssumption DEF Arrive
<1>2. ASSUME NEW r \in Requests, Refuse(r) PROVE ReplaysSameRequest'
  BY <1>2, ConfigAssumption DEF Refuse
<1>3. ASSUME NEW r \in Requests, Authorize(r) PROVE ReplaysSameRequest'
  BY <1>3, ConfigAssumption DEF Authorize, Await
<1>4. ASSUME NEW r \in Requests, Claim(r) PROVE ReplaysSameRequest'
  <2>1. UNCHANGED input
    BY <1>4 DEF Claim
  <2>2. PICK t \in Nat :
           \/ UNCHANGED replayed
           \/ /\ Purged(t)[KeyOf(r)] # NoRecord
              /\ Purged(t)[KeyOf(r)].fp = FpOf(r)
              /\ Purged(t)[KeyOf(r)].state = "completed"
              /\ replayed' = [replayed EXCEPT ![r] = Purged(t)[KeyOf(r)].response]
    BY <1>4, ClaimRows
  <2>3. CASE UNCHANGED replayed
    BY <2>1, <2>3
  <2>4. CASE ~UNCHANGED replayed
    <3> DEFINE row == records[KeyOf(r)]
    <3>1. KeyOf(r) \in Keys /\ Purged(t)[KeyOf(r)] = row /\ row \in Record
      BY <2>2, <2>4, PurgedRows
    <3>2. row.response = row.claimer /\ row.claimer \in Requests
      BY <2>2, <2>4, <3>1
    <3>3. input[row.response] = input[r]
      BY <2>2, <2>4, <3>1, <3>2
    <3> QED
      BY <2>1, <2>2, <2>4, <3>1, <3>2, <3>3
  <2> QED
    BY <2>3, <2>4
<1>5. ASSUME NEW r \in Requests, ActionSucceeds(r) PROVE ReplaysSameRequest'
  BY <1>5, ConfigAssumption DEF ActionSucceeds, Await
<1>6. ASSUME NEW r \in Requests, ActionFails(r) PROVE ReplaysSameRequest'
  BY <1>6, ConfigAssumption DEF ActionFails, Await
<1>7. ASSUME NEW r \in Requests, Complete(r) PROVE ReplaysSameRequest'
  BY <1>7, ConfigAssumption DEF Complete, OpEnds
<1>8. ASSUME NEW r \in Requests, Release(r) PROVE ReplaysSameRequest'
  BY <1>8, ConfigAssumption DEF Release, OpEnds
<1>9. ASSUME NEW r \in Requests, OpFails(r) PROVE ReplaysSameRequest'
  BY <1>9, ConfigAssumption DEF OpFails, OpEnds
<1>10. ASSUME NEW r \in Requests, DeadlinePasses(r) PROVE ReplaysSameRequest'
  BY <1>10, ConfigAssumption DEF DeadlinePasses, OpsOutlive
<1>11. ASSUME NEW r \in Requests, Disconnect(r) PROVE ReplaysSameRequest'
  BY <1>11, ConfigAssumption DEF Disconnect, OpsOutlive
<1>12. CASE Crash
  BY <1>12 DEF Crash, OpsOutlive
<1>13. CASE Tick
  BY <1>13, ConfigAssumption DEF Tick
<1>14. CASE UNCHANGED vars
  BY <1>14 DEF vars
<1> QED
  BY <1>1, <1>2, <1>3, <1>4, <1>5, <1>6, <1>7, <1>8, <1>9, <1>10, <1>11, <1>12, <1>13, <1>14 DEF Next

-----------------------------------------------------------------------------
LEMMA InitIInv == Init => IInv
BY ConfigAssumption
   DEF Init, IInv, TypeOK, OnTime, HeldRowIsMine, RowOfClaimer, CompletedByOwner,
       ReplaysSameRequest, Holds, Doing, Completed, Alive

LEMMA IInvStep == ASSUME Timely PROVE IInv /\ [Next]_vars => IInv'
<1> SUFFICES ASSUME IInv, [Next]_vars PROVE IInv'
  OBVIOUS
<1>1. TypeOK'
  BY TypeStep DEF IInv
<1> QED
  BY <1>1, OnTimeStep, HeldRowIsMineStep, RowOfClaimerStep, CompletedByOwnerStep,
     ReplaysSameRequestStep DEF IInv

\* With a deadline, and a ttl that outlasts it and the operations it leaves
\* behind, the inductive invariant holds in every state.
THEOREM Invariance == ASSUME Timely PROVE Spec => []IInv
BY InitIInv, IInvStep, PTL DEF Spec

\* Then complete() stores a response only in the row its own request claimed.
THEOREM OwnersComplete == ASSUME Timely PROVE Spec => []CompletedByOwner
<1>1. IInv => CompletedByOwner
  BY DEF IInv
<1> QED
  BY <1>1, Invariance, PTL

\* Then a replay never returns the response of another request.
THEOREM FaithfulReplay == ASSUME Timely PROVE Spec => []ReplaysSameRequest
<1>1. IInv => ReplaysSameRequest
  BY DEF IInv
<1> QED
  BY <1>1, Invariance, PTL

\* Then two requests never run the action for one key at the same time.
THEOREM Exclusion == ASSUME Timely PROVE Spec => []OneRunPerKey
<1>1. IInv => OneRunPerKey
  BY DEF IInv, HeldRowIsMine, Holds, OneRunPerKey
<1> QED
  BY <1>1, Invariance, PTL

-----------------------------------------------------------------------------
\* An unexpired row survives every purge a claim makes, and blocks insertion.
LEMMA ClaimKeepsUnexpired ==
    ASSUME TypeOK, NEW r \in Requests, Claim(r),
           NEW k \in Keys, records[k] # NoRecord, now < records[k].expires
    PROVE  records'[k] = records[k]
<1>1. PICK t \in ClockReadings(r) :
         ClaimInserts(r, t) \/ ClaimRefused(r, t) \/ ClaimReplays(r, t)
  BY DEF Claim
<1>2. op[r] \in Op /\ records[k] \in Record
  BY DEF Claim, Doing, TypeOK
<1>3. t \in Nat /\ t <= now
  BY <1>2 DEF ClockReadings, TypeOK, Op
<1>4. Purged(t)[k] = records[k]
  BY <1>2, <1>3 DEF Purged, TypeOK, Record
<1>5. CASE ClaimInserts(r, t)
  BY <1>3, <1>4, <1>5, PurgedType DEF ClaimInserts
<1>6. CASE ClaimRefused(r, t)
  BY <1>6 DEF ClaimRefused
<1>7. CASE ClaimReplays(r, t)
  BY <1>4, <1>7 DEF ClaimReplays
<1> QED
  BY <1>1, <1>5, <1>6, <1>7

\* Only claims, completions and releases change the table.
LEMMA TableWriters ==
    ASSUME [Next]_vars, ~UNCHANGED records
    PROVE  \E r \in Requests : Claim(r) \/ Complete(r) \/ Release(r)
BY DEF Next, vars, Arrive, Refuse, Authorize, ActionSucceeds, ActionFails, OpFails,
       DeadlinePasses, Disconnect, Crash, Tick

\* An unexpired completed row survives every step.
LEMMA CompletedStays ==
    ASSUME TypeOK, [Next]_vars, NEW k \in Keys, Completed(k), now < records[k].expires
    PROVE  records'[k] = records[k]
<1>1. CASE UNCHANGED records
  BY <1>1
<1>2. ASSUME NEW r \in Requests, Claim(r) PROVE records'[k] = records[k]
  BY <1>2, ClaimKeepsUnexpired DEF Completed
<1>3. ASSUME NEW r \in Requests, Complete(r) PROVE records'[k] = records[k]
  BY <1>3, CompleteRows DEF Completed, Reserved
<1>4. ASSUME NEW r \in Requests, Release(r) PROVE records'[k] = records[k]
  BY <1>4 DEF Release, Completed, Reserved, TypeOK
<1> QED
  BY <1>1, <1>2, <1>3, <1>4, TableWriters

\* Whatever the ttl, the deadline and the crashes, a stored response stays as it
\* is until it expires.
THEOREM StoredResponsesStay == Spec => CompletedIsStable
<1>1. TypeOK /\ [Next]_vars =>
        [\A k \in Keys : Completed(k) /\ now < records[k].expires =>
                            records'[k] = records[k]]_vars
  BY CompletedStays
<1> QED
  BY <1>1, TypeCorrect, PTL DEF CompletedIsStable, Spec

-----------------------------------------------------------------------------
\* The row of an answered request holds its response for its ttl.
OkIsStored ==
    \A r \in Requests : pc[r] = "ok" /\ now < started[r] + Ttl =>
        /\ Completed(KeyOf(r))
        /\ records[KeyOf(r)].response = r
        /\ started[r] + Ttl <= records[KeyOf(r)].expires

\* A request enters "ok" when its own completion finds a reserved row.
LEMMA OkFrom ==
    ASSUME TypeOK, [Next]_vars, NEW r \in Requests, pc'[r] = "ok"
    PROVE  /\ started'[r] = started[r] /\ KeyOf(r)' = KeyOf(r) /\ now' >= now
           /\ \/ pc[r] = "ok"
              \/ Complete(r) /\ ~UNCHANGED records /\ UNCHANGED now
<1> DEFINE Goal == /\ started'[r] = started[r] /\ input' = input /\ now' >= now
                   /\ pc[r] = "ok" \/ (Complete(r) /\ ~UNCHANGED records /\ UNCHANGED now)
<1> USE DEF TypeOK
<1>0. now \in Nat
  BY ConfigAssumption
<1>1. ASSUME NEW q \in Requests, Arrive(q) PROVE Goal
  <2>1. q # r /\ pc[r] = "ok"
    BY <1>1 DEF Arrive
  <2> QED
    BY <1>0, <1>1, <2>1 DEF Arrive
<1>7. ASSUME NEW q \in Requests, Refuse(q) \/ Authorize(q) \/ ActionSucceeds(q) \/ ActionFails(q)
      PROVE  Goal
  BY <1>0, <1>7 DEF Refuse, Authorize, ActionSucceeds, ActionFails, Await
<1>8. ASSUME NEW q \in Requests, DeadlinePasses(q) \/ Disconnect(q) PROVE Goal
  <2>1. /\ UNCHANGED <<now, input, started>>
        /\ \E p \in {"timeout", "dropped"} : pc' = [pc EXCEPT ![q] = p]
    BY <1>8 DEF DeadlinePasses, Disconnect
  <2>2. pc[r] = "ok"
    BY <2>1
  <2> QED
    BY <1>0, <2>1, <2>2
<1>2. ASSUME NEW q \in Requests, Claim(q) PROVE Goal
  BY <1>2 DEF Claim, ClaimInserts, ClaimRefused, ClaimReplays, OpEnds
<1>3. ASSUME NEW q \in Requests, Release(q) \/ OpFails(q) PROVE Goal
  BY <1>3 DEF Release, OpFails, OpEnds
<1>4. ASSUME NEW q \in Requests, Complete(q) PROVE Goal
  <2>1. UNCHANGED <<now, input, started>>
    BY <1>4 DEF Complete
  <2>2. CASE q # r \/ pc[r] # "waiting"
    BY <1>4, <2>1, <2>2 DEF Complete, OpEnds
  <2>3. CASE q = r /\ pc[r] = "waiting" /\ ~Reserved(r)
    BY <1>4, <2>3 DEF Complete, OpEnds
  <2>4. CASE q = r /\ pc[r] = "waiting" /\ Reserved(r)
    <3>1. \/ UNCHANGED records
          \/ records'[KeyOf(r)].state = "completed"
      BY <1>4, <2>4, CompleteRows
    <3>2. /\ records' = [records EXCEPT ![KeyOf(r)].state = "completed",
                                        ![KeyOf(r)].response = r]
          /\ KeyOf(r) \in Keys /\ records[KeyOf(r)] \in Record
          /\ records[KeyOf(r)].state = "processing"
      BY <1>4, <2>4 DEF Complete, Reserved, KeyOf
    <3>3. records'[KeyOf(r)].state = "completed"
      BY <3>2 DEF Record
    <3>4. ~UNCHANGED records
      BY <3>2, <3>3
    <3> QED
      BY <1>4, <2>1, <2>4, <3>4
  <2> QED
    BY <2>2, <2>3, <2>4
<1>5. ASSUME Crash PROVE Goal
  BY <1>0, <1>5 DEF Crash, Alive
<1>9. ASSUME Tick \/ UNCHANGED vars PROVE Goal
  BY <1>0, <1>9 DEF Tick, vars
<1>6. Goal
  BY <1>1, <1>2, <1>3, <1>4, <1>5, <1>7, <1>8, <1>9 DEF Next
<1> QED
  BY <1>6 DEF KeyOf

\* A request that was answered with its own response stays replayable for its
\* ttl: its claim was still its own when it was completed, and stored responses stay.
THEOREM OkTheorem == ASSUME Timely PROVE Spec => []OkIsReplayable
<1>1. Init => OkIsStored
  BY DEF Init, OkIsStored
<1>2. IInv /\ OkIsStored /\ [Next]_vars => OkIsStored'
  <2> SUFFICES ASSUME IInv, OkIsStored, [Next]_vars, NEW r \in Requests,
                      pc'[r] = "ok", now' < started'[r] + Ttl
               PROVE  (/\ Completed(KeyOf(r))
                       /\ records[KeyOf(r)].response = r
                       /\ started[r] + Ttl <= records[KeyOf(r)].expires)'
    BY DEF OkIsStored
  <2>1. /\ started'[r] = started[r] /\ KeyOf(r)' = KeyOf(r) /\ now' >= now
        /\ \/ pc[r] = "ok"
           \/ Complete(r) /\ ~UNCHANGED records /\ UNCHANGED now
    BY OkFrom DEF IInv
  <2>2. now \in Nat /\ now' \in Nat /\ started[r] \in Nat /\ KeyOf(r) \in Keys
    BY TypeStep, ConfigAssumption DEF IInv, TypeOK, KeyOf
  <2>3. CASE pc[r] = "ok"
    <3>1. /\ Completed(KeyOf(r)) /\ records[KeyOf(r)].response = r
          /\ started[r] + Ttl <= records[KeyOf(r)].expires
      BY <2>1, <2>2, <2>3, ConfigAssumption DEF OkIsStored
    <3>2. records[KeyOf(r)].expires \in Nat
      BY <2>2, <3>1 DEF IInv, TypeOK, Completed, Record
    <3>3. records'[KeyOf(r)] = records[KeyOf(r)]
      BY <2>1, <2>2, <3>1, <3>2, CompletedStays, ConfigAssumption DEF IInv
    <3> QED
      BY <2>1, <3>1, <3>3 DEF Completed
  <2>4. CASE Complete(r) /\ ~UNCHANGED records
    <3>1. started[r] + Ttl <= records[KeyOf(r)].expires
      BY <2>4 DEF Complete, IInv, HeldRowIsMine, Holds
    <3>2. /\ records'[KeyOf(r)] # NoRecord
          /\ records'[KeyOf(r)].state = "completed"
          /\ records'[KeyOf(r)].response = r
          /\ records'[KeyOf(r)].expires = records[KeyOf(r)].expires
      BY <2>4, CompleteRows DEF IInv
    <3> QED
      BY <2>1, <3>1, <3>2 DEF Completed
  <2> QED
    BY <2>1, <2>3, <2>4
<1>3. OkIsStored => OkIsReplayable
  BY DEF OkIsStored, OkIsReplayable
<1> QED
  BY <1>1, <1>2, <1>3, Invariance, PTL DEF Spec

\* With a deadline and a ttl that outlasts it, a live claim is ended by the
\* request that made it and by no other.
THEOREM OwnersEndClaims == ASSUME Timely PROVE Spec => OnlyOwnerEndsClaim
<1>1. ASSUME IInv, [Next]_vars, NEW k \in Keys, Processing(k), now < records[k].expires
      PROVE  \/ records'[k] = records[k]
             \/ LET r == records[k].claimer IN
                (Doing(r, "complete") \/ Doing(r, "release")) /\ op'[r] = NoOp
  <2> USE <1>1
  <2>1. CASE UNCHANGED records
    BY <2>1
  <2>2. ASSUME NEW r \in Requests, Claim(r) PROVE records'[k] = records[k]
    BY <2>2, ClaimKeepsUnexpired DEF Processing, IInv
  <2>3. ASSUME NEW r \in Requests, Complete(r) \/ Release(r),
               records'[k] # records[k]
        PROVE  /\ records[k].claimer = r
               /\ Doing(r, "complete") \/ Doing(r, "release")
               /\ op'[r] = NoOp
    <3>1. k = KeyOf(r)
      BY <2>3, CompleteRows DEF Release, IInv, TypeOK
    <3>2. Doing(r, "complete") \/ Doing(r, "release")
      BY <2>3 DEF Complete, Release
    <3>3. op'[r] = NoOp
      BY <2>3, OpEndsOthers DEF Complete, Release, IInv
    <3> QED
      BY <3>1, <3>2, <3>3 DEF IInv, HeldRowIsMine, Holds
  <2> QED
    BY <2>1, <2>2, <2>3, TableWriters
<1>2. IInv /\ [Next]_vars =>
        [\A k \in Keys : Processing(k) /\ now < records[k].expires =>
            \/ records'[k] = records[k]
            \/ LET r == records[k].claimer IN
               (Doing(r, "complete") \/ Doing(r, "release")) /\ op'[r] = NoOp]_vars
  BY <1>1
<1> QED
  BY <1>2, Invariance, PTL DEF OnlyOwnerEndsClaim, Spec

-----------------------------------------------------------------------------
\* The slots after a purge are the slots with the purged keys forgotten.
LEMMA PurgedSlots ==
    ASSUME TypeOK, NEW t \in Nat, NEW r \in Requests, NEW K,
           K = {k \in Keys : records[k] # NoRecord /\ records[k].expires <= t}
    PROVE  /\ K \in SUBSET Keys
           /\ \A k \in Keys : Promise!Forgotten(K)[k] =
                 IF Purged(t)[k] = NoRecord THEN Promise!Free ELSE Slot[k]
BY DEF Purged, Promise!Forgotten, Promise!Free, Slot

\* A claim, completion, release or replay of the promise is a step of it, or
\* changes nothing.
LEMMA PromiseStep ==
    ASSUME Promise!Step
    PROVE  [Promise!Next]_(Promise!vars)
<1>1. UNCHANGED input
  BY DEF Promise!Step, Promise!Claim, Promise!Complete, Promise!Release, Promise!Replay
<1> QED
  BY <1>1 DEF Promise!Next, Promise!vars

LEMMA ClaimMaps ==
    ASSUME IInv, NEW r \in Requests, Claim(r)
    PROVE  [Promise!Next]_(Promise!vars)
<1> USE DEF IInv
<1>1. UNCHANGED input /\ KeyOf(r) \in Keys
  BY DEF Claim, KeyOf, TypeOK
<1>2. PICK t \in ClockReadings(r) :
         ClaimInserts(r, t) \/ ClaimRefused(r, t) \/ ClaimReplays(r, t)
  BY DEF Claim
<1>3. t \in Nat
  BY DEF ClockReadings, TypeOK, Op, Claim, Doing
<1> DEFINE K == {k \in Keys : records[k] # NoRecord /\ records[k].expires <= t}
<1>4. K \in SUBSET Keys
  OBVIOUS
<1>5. \A k \in Keys : Promise!Forgotten(K)[k] =
         IF Purged(t)[k] = NoRecord THEN Promise!Free ELSE Slot[k]
  BY <1>3, PurgedSlots
<1>6. CASE ClaimInserts(r, t)
  <2>1. Promise!Forgotten(K)[KeyOf(r)] = Promise!Free
    BY <1>1, <1>5, <1>6 DEF ClaimInserts
  <2>2. Slot' = [Promise!Forgotten(K) EXCEPT ![KeyOf(r)] =
                   [phase |-> "processing", by |-> r]]
    <3>1. Promise!Forgotten(K) = [k \in Keys |-> Promise!Forgotten(K)[k]]
      BY DEF Promise!Forgotten
    <3>2. ASSUME NEW k \in Keys, k # KeyOf(r)
          PROVE  Slot'[k] = Promise!Forgotten(K)[k]
      <4>1. records'[k] = Purged(t)[k]
        BY <1>3, <1>6, <3>2, PurgedType DEF ClaimInserts
      <4>2. Purged(t)[k] \in {records[k], NoRecord}
        BY PurgedRows
      <4>3. CASE Purged(t)[k] = NoRecord
        BY <1>5, <4>1, <4>3 DEF Slot, Promise!Free
      <4>4. CASE Purged(t)[k] # NoRecord
        <5>1. records'[k] = records[k]
          BY <4>1, <4>2, <4>4
        <5>2. Slot'[k] = Slot[k]
          BY <5>1 DEF Slot, Completed
        <5> QED
          BY <1>5, <4>4, <5>2
      <4> QED
        BY <4>3, <4>4
    <3>3. Slot'[KeyOf(r)] = [phase |-> "processing", by |-> r]
      <4>1. records'[KeyOf(r)] = NewRecord(r, t)
        BY <1>1, <1>3, <1>6, PurgedType DEF ClaimInserts
      <4>2. NewRecord(r, t) # NoRecord
        BY <1>3, NewRow, NamesAssumption
      <4> QED
        BY <1>1, <1>3, <4>1, <4>2, NewRow DEF Slot, Completed
    <3>4. Slot' = [k \in Keys |-> Slot'[k]]
      BY DEF Slot
    <3> QED
      BY <1>1, <3>1, <3>2, <3>3, <3>4
  <2>3. Promise!Claim(r, K)
    BY <1>1, <1>6, <2>1, <2>2 DEF Promise!Claim, ClaimInserts, KeyOf
  <2> QED
    BY <1>4, <2>3, PromiseStep DEF Promise!Step
<1>7. CASE ClaimRefused(r, t)
  BY <1>1, <1>7 DEF ClaimRefused, Promise!vars, Slot, Completed
<1>8. CASE ClaimReplays(r, t)
  <2> DEFINE row == records[KeyOf(r)]
  <2>1. /\ Purged(t)[KeyOf(r)] = row /\ row # NoRecord /\ row.state = "completed"
        /\ row.fp = FpOf(r) /\ row \in Record
    BY <1>1, <1>8, PurgedRows DEF ClaimReplays, TypeOK
  <2>2. Promise!Forgotten(K)[KeyOf(r)] = [phase |-> "completed", by |-> row.response]
    BY <1>1, <1>5, <2>1 DEF Slot, Completed
  <2>3. input[row.response] = input[r]
    BY <1>1, <2>1 DEF CompletedByOwner, Completed, RowOfClaimer, KeyOf, FpOf, Record, TypeOK
  <2>4. Slot' = Promise!Forgotten(K)
    <3>1. ASSUME NEW k \in Keys PROVE Slot'[k] = Promise!Forgotten(K)[k]
      <4>1. records'[k] = Purged(t)[k]
        BY <1>8 DEF ClaimReplays
      <4>2. Purged(t)[k] \in {records[k], NoRecord}
        BY PurgedRows
      <4>3. CASE Purged(t)[k] = NoRecord
        BY <1>5, <4>1, <4>3 DEF Slot, Promise!Free
      <4>4. CASE Purged(t)[k] # NoRecord
        <5>1. records'[k] = records[k]
          BY <4>1, <4>2, <4>4
        <5>2. Slot'[k] = Slot[k]
          BY <5>1 DEF Slot, Completed
        <5> QED
          BY <1>5, <4>4, <5>2
      <4> QED
        BY <4>3, <4>4
    <3> QED
      BY <3>1 DEF Slot, Promise!Forgotten
  <2>5. replayed' \in {replayed, [replayed EXCEPT ![r] = row.response]}
    BY <1>8, <2>1 DEF ClaimReplays
  <2>6. Promise!Replay(r, K)
    <3> DEFINE held == Promise!Forgotten(K)[input[r].key]
    <3>1. held.phase = "completed" /\ held.by = row.response
      BY <2>2 DEF KeyOf
    <3>2. input' = input
      BY <1>1
    <3> HIDE DEF held
    <3>3. input[held.by] = input[r]
      BY <2>3, <3>1
    <3>4. replayed' \in {replayed, [replayed EXCEPT ![r] = held.by]}
      BY <2>5, <3>1
    <3> QED
      BY <2>4, <3>1, <3>2, <3>3, <3>4 DEF Promise!Replay, held
  <2> QED
    BY <1>4, <2>6, PromiseStep DEF Promise!Step
<1> QED
  BY <1>2, <1>6, <1>7, <1>8

LEMMA CompleteMaps ==
    ASSUME IInv, NEW r \in Requests, Complete(r)
    PROVE  [Promise!Next]_(Promise!vars)
<1>1. UNCHANGED <<input, replayed>>
  BY DEF Complete
<1>2. CASE UNCHANGED records
  BY <1>1, <1>2 DEF Promise!vars, Slot, Completed
<1>3. CASE ~UNCHANGED records
  <2>1. /\ KeyOf(r) \in Keys
        /\ Slot[KeyOf(r)] = [phase |-> "processing", by |-> r]
    BY <1>3, CompleteRows
       DEF IInv, HeldRowIsMine, Holds, Complete, Reserved, Slot, Completed
  <2>2. \A k \in Keys \ {KeyOf(r)} : Slot'[k] = Slot[k]
    BY <1>3, CompleteRows DEF IInv, Slot, Completed
  <2>3. records'[KeyOf(r)] # NoRecord
    BY <1>3, CompleteRows DEF IInv
  <2>4. Slot'[KeyOf(r)] = [phase |-> "completed", by |-> r]
    BY <1>3, <2>1, <2>3, CompleteRows DEF IInv, Slot, Completed
  <2>5. Slot' = [Slot EXCEPT ![KeyOf(r)] = [phase |-> "completed", by |-> r]]
    BY <2>1, <2>2, <2>4 DEF Slot
  <2>6. Promise!Complete(r)
    BY <1>1, <2>1, <2>5 DEF Promise!Complete, KeyOf
  <2> QED
    BY <2>6, PromiseStep DEF Promise!Step
<1> QED
  BY <1>2, <1>3

LEMMA ReleaseMaps ==
    ASSUME IInv, NEW r \in Requests, Release(r)
    PROVE  [Promise!Next]_(Promise!vars)
<1>1. UNCHANGED <<input, replayed>> /\ KeyOf(r) \in Keys
  BY DEF Release, KeyOf, IInv, TypeOK
<1>2. CASE ~Reserved(r)
  BY <1>1, <1>2 DEF Release, Promise!vars, Slot, Completed
<1>3. CASE Reserved(r)
  <2>1. Slot[KeyOf(r)] = [phase |-> "processing", by |-> r]
    BY <1>1, <1>3 DEF IInv, HeldRowIsMine, Holds, Release, Reserved, Slot, Completed
  <2>2. records' = [records EXCEPT ![KeyOf(r)] = NoRecord]
    BY <1>3 DEF Release
  <2>3. Slot' = [Slot EXCEPT ![KeyOf(r)] = Promise!Free]
    BY <1>1, <2>2 DEF Slot, Completed, Promise!Free, IInv, TypeOK
  <2>4. Promise!Release(r)
    BY <1>1, <2>1, <2>3 DEF Promise!Release, KeyOf
  <2> QED
    BY <2>4, PromiseStep DEF Promise!Step
<1> QED
  BY <1>2, <1>3

\* With a deadline and a ttl that outlasts it, the table keeps the promise: its
\* first state is an initial state of it, and every step a step of it or none.
THEOREM Refinement == ASSUME Timely PROVE Spec => KeepsPromise
<1>1. Init => Promise!Init
  BY DEF Init, Promise!Init, Slot, Promise!Free
<1>2. IInv /\ [Next]_vars => [Promise!Next]_(Promise!vars)
  <2> SUFFICES ASSUME IInv, [Next]_vars PROVE [Promise!Next]_(Promise!vars)
    OBVIOUS
  <2>1. CASE \E r \in Requests : Claim(r) \/ Complete(r) \/ Release(r)
    BY <2>1, ClaimMaps, CompleteMaps, ReleaseMaps
  <2>2. CASE ~\E r \in Requests : Claim(r) \/ Complete(r) \/ Release(r)
    <3>1. UNCHANGED <<records, input, replayed>>
      BY <2>2 DEF Next, vars, Arrive, Refuse, Authorize, ActionSucceeds, ActionFails,
                  OpFails, DeadlinePasses, Disconnect, Crash, Tick
    <3> QED
      BY <3>1 DEF Promise!vars, Slot, Completed
  <2> QED
    BY <2>1, <2>2
<1> QED
  BY <1>1, <1>2, Invariance, PTL DEF Spec, KeepsPromise, Promise!Spec

=============================================================================
