-------------------------- MODULE FailureBlockProofs --------------------------
(***************************************************************************)
(* Proofs about FailureBlock for any requests, keys, limits and windows.   *)
(***************************************************************************)
EXTENDS FailureBlock, FiniteSetTheorems, TLAPS

LEMMA EntryType ==
    ASSUME TypeOK, NEW k \in Keys, NEW t \in Nat
    PROVE  /\ Entry(k, t) \in Record
           /\ Added(Entry(k, t), t) \in Record
           /\ Added(Entry(k, t), t) # NoRecord
<1>1. Fresh(t) \in Record
  BY DEF Fresh, Record
<1>2. Entry(k, t) \in Record
  BY <1>1 DEF Entry, TypeOK
<1>3. Added(Entry(k, t), t) \in Record
  BY <1>2, ConfigAssumption DEF Added, Record
<1> QED
  BY <1>2, <1>3, ConfigAssumption

LEMMA TypeStep == TypeOK /\ [Next]_vars => TypeOK'
<1> SUFFICES ASSUME TypeOK, [Next]_vars PROVE TypeOK'
  OBVIOUS
<1> USE DEF TypeOK, InFlight, Waiting, Goto
<1>1. ASSUME NEW r \in Requests, Admit(r) PROVE TypeOK'
  <2>1. at' \in [Requests -> Nat]
    BY <1>1, ConfigAssumption DEF Admit
  <2>2. pc' = [pc EXCEPT ![r] = "checking"] \/ pc' = [pc EXCEPT ![r] = "busy"]
    BY <1>1 DEF Admit
  <2> QED
    BY <1>1, <2>1, <2>2 DEF Admit
<1>2. ASSUME NEW r \in Requests, CheckBlock(r) PROVE TypeOK'
  BY <1>2 DEF CheckBlock
<1>3. ASSUME NEW r \in Requests, GuardsPass(r) PROVE TypeOK'
  BY <1>3 DEF GuardsPass
<1>4. ASSUME NEW r \in Requests, GuardsFail(r) PROVE TypeOK'
  BY <1>4, ConfigAssumption DEF GuardsFail
<1>5. ASSUME NEW r \in Requests, ClearFailure(r) PROVE TypeOK'
  BY <1>5 DEF ClearFailure
<1>6. ASSUME NEW r \in Requests, RecordFailure(r) PROVE TypeOK'
  <2>1. failures' \in [Keys -> Record \cup {NoRecord}]
    BY <1>6, EntryType DEF RecordFailure
  <2>2. log' \in [Keys -> Seq(Nat)]
    <3>1. log[key[r]] \in Seq(Nat) /\ at[r] \in Nat
      OBVIOUS
    <3>2. Append(log[key[r]], at[r]) \in Seq(Nat)
      BY <3>1
    <3> QED
      BY <1>6, <3>2 DEF RecordFailure
  <2> QED
    BY <1>6, <2>1, <2>2 DEF RecordFailure
<1>7. ASSUME NEW r \in Requests, Serve(r) \/ Drop(r) PROVE TypeOK'
  BY <1>7 DEF Serve, Drop
<1>8. CASE Tick
  BY <1>8, ConfigAssumption DEF Tick
<1>9. CASE UNCHANGED vars
  BY <1>9 DEF vars
<1> QED
  BY <1>1, <1>2, <1>3, <1>4, <1>5, <1>6, <1>7, <1>8, <1>9 DEF Next

\* Every variable keeps its type.
THEOREM TypeCorrect == Spec => []TypeOK
<1>1. Init => TypeOK
  BY ConfigAssumption DEF Init, TypeOK
<1> QED
  BY <1>1, TypeStep, PTL DEF Spec

\* Only ClearFailure and RecordFailure change the map, and only at the request's
\* own key.
LEMMA MapWriters ==
    ASSUME [Next]_vars
    PROVE  \/ UNCHANGED failures
           \/ \E r \in Requests : ClearFailure(r) \/ RecordFailure(r)
BY DEF Next, vars, Admit, CheckBlock, GuardsPass, GuardsFail, Serve, Drop, Tick

\* A record carries a block exactly when its count has reached max_failures, in
\* every state and whatever the limits are.
THEOREM BlockedTheorem == Spec => []BlockedIffThreshold
<1>1. Init => BlockedIffThreshold
  BY DEF Init, BlockedIffThreshold, Exists
<1>2. TypeOK /\ BlockedIffThreshold /\ [Next]_vars => BlockedIffThreshold'
  <2> SUFFICES ASSUME TypeOK, BlockedIffThreshold, [Next]_vars,
                      NEW k \in Keys, Exists(k)'
               PROVE  (failures[k].blocked_until # NotBlocked
                         <=> failures[k].failures >= MaxFailures)'
    BY DEF BlockedIffThreshold
  <2>1. CASE UNCHANGED failures
    BY <2>1 DEF BlockedIffThreshold, Exists
  <2>2. ASSUME NEW r \in Requests, ClearFailure(r)
        PROVE  k # key[r] /\ failures'[k] = failures[k]
    BY <2>2 DEF ClearFailure, Exists, TypeOK
  <2>3. ASSUME NEW r \in Requests, RecordFailure(r), k # key[r]
        PROVE  failures'[k] = failures[k]
    BY <2>3 DEF RecordFailure, TypeOK
  <2>4. ASSUME NEW r \in Requests, RecordFailure(r), k = key[r]
        PROVE  failures'[k].blocked_until # NotBlocked
                 <=> failures'[k].failures >= MaxFailures
    <3> DEFINE e == Entry(k, at[r])
    <3>1. at[r] \in Nat
      BY DEF TypeOK
    <3>2. e \in Record
      BY <3>1, EntryType
    <3>3. e.blocked_until # NotBlocked <=> e.failures >= MaxFailures
      <4>1. CASE e = Fresh(at[r])
        BY <4>1, ConfigAssumption DEF Fresh
      <4>2. CASE e = failures[k] /\ failures[k] # NoRecord
        BY <4>2 DEF BlockedIffThreshold, Exists
      <4> QED
        BY <4>1, <4>2 DEF Entry
    <3>4. failures'[k] = Added(e, at[r])
      BY <2>4 DEF RecordFailure, TypeOK
    <3>5. at[r] + Block # NotBlocked
      BY <3>1, ConfigAssumption
    <3>6. e.failures \in Nat
      BY <3>2 DEF Record
    <3> HIDE DEF e
    <3> QED
      BY <3>3, <3>4, <3>5, <3>6, ConfigAssumption DEF Added
  <2> QED
    BY <2>1, <2>2, <2>3, <2>4, MapWriters DEF BlockedIffThreshold, Exists
<1> QED
  BY <1>1, <1>2, TypeCorrect, PTL DEF Spec

-----------------------------------------------------------------------------
\* At an endpoint that serves one request at a time, the request that has passed
\* the check finds its key unblocked until it is done with it.
Serial ==
    /\ \A q, r \in Requests : pc[q] \in InFlight /\ pc[r] \in InFlight => q = r
    /\ \A r \in Requests :
          /\ pc[r] = "checking" => at[r] <= now
          /\ pc[r] \in {"guarding", "recording", "clearing"} => ~IsBlocked(key[r], now)

LEMMA BlockExpires ==
    ASSUME TypeOK, NEW k \in Keys, NEW t \in Nat, NEW u \in Nat, t <= u, ~IsBlocked(k, t)
    PROVE  ~IsBlocked(k, u)
BY DEF IsBlocked, TypeOK, Record

LEMMA SerialStep ==
    ASSUME MaxConcurrency = 1, TypeOK, Serial, [Next]_vars
    PROVE  Serial'
<1> USE DEF Serial, InFlight, Waiting, Goto
<1>1. ASSUME NEW r \in Requests, Admit(r) PROVE Serial'
  <2>1. CASE pc'[r] = "busy"
    BY <1>1, <2>1 DEF Admit, TypeOK, IsBlocked
  <2>2. CASE pc'[r] # "busy"
    <3>1. Cardinality(Permits) < 1
      BY <1>1, <2>2 DEF Admit, TypeOK
    <3>2. IsFiniteSet(Permits)
      BY ConfigAssumption, FS_Subset DEF Permits
    <3>3. Permits = {}
      BY <3>1, <3>2, FS_CardinalityType, FS_EmptySet
    <3>4. \A q \in Requests : pc[q] \notin InFlight
      BY <3>3 DEF Permits
    <3>5. pc' = [pc EXCEPT ![r] = "checking"] /\ at' = [at EXCEPT ![r] = now] /\ now' = now
      BY <1>1, <2>2 DEF Admit, TypeOK
    <3> QED
      BY <3>4, <3>5 DEF TypeOK
  <2> QED
    BY <2>1, <2>2
<1>2. ASSUME NEW r \in Requests, CheckBlock(r) PROVE Serial'
  <2>1. pc'[r] = "guarding" => ~IsBlocked(key[r], now)
    <3>1. at[r] \in Nat /\ now \in Nat /\ at[r] <= now /\ key[r] \in Keys
      BY <1>2, ConfigAssumption DEF CheckBlock, TypeOK
    <3>2. pc'[r] = "guarding" => ~IsBlocked(key[r], at[r])
      BY <1>2 DEF CheckBlock, TypeOK
    <3> QED
      BY <3>1, <3>2, BlockExpires
  <2> QED
    BY <1>2, <2>1 DEF CheckBlock, TypeOK, IsBlocked
<1>3. ASSUME NEW r \in Requests, GuardsPass(r) PROVE Serial'
  BY <1>3 DEF GuardsPass, TypeOK, IsBlocked
<1>4. ASSUME NEW r \in Requests, GuardsFail(r) PROVE Serial'
  BY <1>4 DEF GuardsFail, TypeOK, IsBlocked
<1>5. ASSUME NEW r \in Requests, ClearFailure(r) PROVE Serial'
  BY <1>5 DEF ClearFailure, TypeOK
<1>6. ASSUME NEW r \in Requests, RecordFailure(r) PROVE Serial'
  BY <1>6 DEF RecordFailure, TypeOK
<1>7. ASSUME NEW r \in Requests, Serve(r) \/ Drop(r) PROVE Serial'
  BY <1>7, ZenonT(60) DEF Serve, Drop, TypeOK, IsBlocked
<1>8. CASE Tick
  <2>1. now' = now + 1 /\ UNCHANGED <<failures, pc, key, at>> /\ now \in Nat
    BY <1>8, ConfigAssumption DEF Tick, TypeOK
  <2>2. ASSUME NEW k \in Keys, ~IsBlocked(k, now) PROVE ~IsBlocked(k, now)'
    BY <2>1, <2>2, BlockExpires DEF IsBlocked
  <2> QED
    BY <2>1, <2>2 DEF TypeOK
<1>9. CASE UNCHANGED vars
  BY <1>9 DEF vars, IsBlocked
<1> QED
  BY <1>1, <1>2, <1>3, <1>4, <1>5, <1>6, <1>7, <1>8, <1>9 DEF Next

\* An endpoint that serves one request at a time keeps a key blocked for all of
\* block_secs.
THEOREM SerialBlocksLast == ASSUME MaxConcurrency = 1 PROVE Spec => BlockLasts
<1>1. Init => Serial
  BY DEF Init, Serial, InFlight, Waiting
<1>2. TypeOK /\ Serial /\ [Next]_vars => Serial'
  BY SerialStep
<1>3. ASSUME TypeOK, Serial, [Next]_vars, NEW k \in Keys, IsBlocked(k, now)
      PROVE  failures'[k] = failures[k]
  <2>1. ASSUME NEW r \in Requests, ClearFailure(r) \/ RecordFailure(r) PROVE k # key[r]
    BY <1>3, <2>1 DEF ClearFailure, RecordFailure, Serial
  <2> QED
    BY <1>3, <2>1, MapWriters DEF ClearFailure, RecordFailure, TypeOK
<1>4. TypeOK /\ Serial /\ [Next]_vars =>
        [\A k \in Keys : IsBlocked(k, now) =>
            /\ failures'[k] # NoRecord
            /\ failures'[k].blocked_until # NotBlocked
            /\ failures'[k].blocked_until >= failures[k].blocked_until]_vars
  <2> SUFFICES ASSUME TypeOK, Serial, [Next]_vars, NEW k \in Keys, IsBlocked(k, now)
               PROVE  /\ failures'[k] # NoRecord
                      /\ failures'[k].blocked_until # NotBlocked
                      /\ failures'[k].blocked_until >= failures[k].blocked_until
    OBVIOUS
  <2>1. failures[k].blocked_until \in Nat
    BY DEF IsBlocked, TypeOK, Record
  <2> QED
    BY <1>3, <2>1 DEF IsBlocked
<1> QED
  BY <1>1, <1>2, <1>4, TypeCorrect, PTL DEF Spec, BlockLasts

-----------------------------------------------------------------------------
\* No reading of the clock lies in the future, and none is carried to the lock of
\* the map for longer than Stall.
Clocks ==
    \A r \in Requests :
        /\ pc[r] \in InFlight => at[r] <= now
        /\ pc[r] \in Waiting => now <= at[r] + Stall

LEMMA ClocksStep == TypeOK /\ Clocks /\ [Next]_vars => Clocks'
<1> SUFFICES ASSUME TypeOK, Clocks, [Next]_vars PROVE Clocks'
  OBVIOUS
<1> USE ConfigAssumption DEF Clocks, InFlight, Waiting, Goto, TypeOK
<1>1. ASSUME NEW r \in Requests, Admit(r) PROVE Clocks'
  <2>1. pc' = [pc EXCEPT ![r] = "checking"] \/ pc' = [pc EXCEPT ![r] = "busy"]
    BY <1>1 DEF Admit
  <2>2. at' = [at EXCEPT ![r] = now] /\ now' = now
    BY <1>1 DEF Admit
  <2> QED
    BY <2>1, <2>2
<1>2. ASSUME NEW r \in Requests, CheckBlock(r) PROVE Clocks'
  <2>1. pc' = [pc EXCEPT ![r] = "blocked"] \/ pc' = [pc EXCEPT ![r] = "guarding"]
    BY <1>2 DEF CheckBlock
  <2>2. at' = at /\ now' = now /\ pc[r] = "checking"
    BY <1>2 DEF CheckBlock
  <2> QED
    BY <2>1, <2>2
<1>3. ASSUME NEW r \in Requests, GuardsPass(r) PROVE Clocks'
  BY <1>3 DEF GuardsPass
<1>4. ASSUME NEW r \in Requests, GuardsFail(r) PROVE Clocks'
  BY <1>4 DEF GuardsFail
<1>5. ASSUME NEW r \in Requests, ClearFailure(r) PROVE Clocks'
  BY <1>5 DEF ClearFailure
<1>6. ASSUME NEW r \in Requests, RecordFailure(r) PROVE Clocks'
  BY <1>6 DEF RecordFailure
<1>7. ASSUME NEW r \in Requests, Serve(r) \/ Drop(r) PROVE Clocks'
  BY <1>7 DEF Serve, Drop
<1>8. CASE Tick
  BY <1>8 DEF Tick
<1>9. CASE UNCHANGED vars
  BY <1>9 DEF vars
<1> QED
  BY <1>1, <1>2, <1>3, <1>4, <1>5, <1>6, <1>7, <1>8, <1>9 DEF Next

\* While a key is blocked nobody is past its check who was admitted after the
\* blocking failure was recorded.
THEOREM HoldsBackTheorem == Spec => []BlockHoldsBack
<1>1. Init => Clocks /\ BlockHoldsBack
  BY DEF Init, Clocks, BlockHoldsBack, InFlight, Waiting
<1>2. TypeOK /\ Clocks /\ BlockHoldsBack /\ [Next]_vars => BlockHoldsBack'
  <2> SUFFICES ASSUME TypeOK, Clocks, BlockHoldsBack, [Next]_vars, NEW r \in Requests,
                      pc'[r] \in {"guarding", "clearing"}, IsBlocked(key[r], now)'
               PROVE  at'[r] + Block <= failures'[key'[r]].blocked_until + Stall
    BY DEF BlockHoldsBack
  <2> DEFINE Kept == at'[r] + Block <= failures'[key'[r]].blocked_until + Stall
  <2> USE ConfigAssumption DEF TypeOK, Goto
  <2>0. at[r] \in Nat /\ key[r] \in Keys /\ now \in Nat
    OBVIOUS
  <2>1. ASSUME NEW q \in Requests, Admit(q) PROVE Kept
    BY <2>1 DEF Admit, BlockHoldsBack, IsBlocked
  <2>2. ASSUME NEW q \in Requests, CheckBlock(q) PROVE Kept
    <3>1. UNCHANGED <<now, failures, key, at>>
      BY <2>2 DEF CheckBlock
    <3>2. CASE q = r
      <4>1. ~IsBlocked(key[r], at[r]) /\ at[r] <= now
        BY <2>2, <3>2 DEF CheckBlock, Clocks, InFlight, Waiting
      <4>2. ~IsBlocked(key[r], now)
        BY <2>0, <4>1, BlockExpires
      <4> QED
        BY <3>1, <4>2 DEF IsBlocked
    <3>3. CASE q # r
      BY <2>2, <3>1, <3>3 DEF CheckBlock, BlockHoldsBack, IsBlocked
    <3> QED
      BY <3>2, <3>3
  <2>3. ASSUME NEW q \in Requests, GuardsPass(q) PROVE Kept
    BY <2>3 DEF GuardsPass, BlockHoldsBack, IsBlocked
  <2>4. ASSUME NEW q \in Requests, GuardsFail(q) PROVE Kept
    BY <2>4 DEF GuardsFail, BlockHoldsBack, IsBlocked
  <2>5. ASSUME NEW q \in Requests, ClearFailure(q) PROVE Kept
    BY <2>5 DEF ClearFailure, BlockHoldsBack, IsBlocked
  <2>6. ASSUME NEW q \in Requests, RecordFailure(q) PROVE Kept
    <3>1. UNCHANGED <<now, key, at>> /\ q # r /\ pc'[r] = pc[r]
      BY <2>6 DEF RecordFailure
    <3>2. CASE key[q] # key[r]
      BY <2>6, <3>1, <3>2 DEF RecordFailure, BlockHoldsBack, IsBlocked
    <3>3. CASE key[q] = key[r]
      <4> DEFINE e == Entry(key[r], at[q])
      <4>1. failures'[key[r]] = Added(e, at[q])
        BY <2>6, <3>3 DEF RecordFailure
      <4>2. at[r] <= now /\ now <= at[q] + Stall /\ at[q] \in Nat
        BY <2>6, <3>1 DEF RecordFailure, Clocks, InFlight, Waiting
      <4>3. CASE failures'[key[r]].blocked_until = at[q] + Block
        BY <2>0, <3>1, <4>2, <4>3
      <4>4. CASE failures'[key[r]].blocked_until = e.blocked_until
        <5>1. e = Fresh(at[q]) \/ (e = failures[key[r]] /\ failures[key[r]] # NoRecord)
          BY DEF Entry
        <5>2. e # Fresh(at[q])
          BY <3>1, <4>4 DEF Fresh, IsBlocked
        <5>3. IsBlocked(key[r], now) /\ failures'[key[r]].blocked_until = failures[key[r]].blocked_until
          BY <3>1, <4>4, <5>1, <5>2 DEF IsBlocked
        <5> QED
          BY <3>1, <5>3 DEF BlockHoldsBack
      <4>5. \/ failures'[key[r]].blocked_until = at[q] + Block
            \/ failures'[key[r]].blocked_until = e.blocked_until
        <5> HIDE DEF e
        <5> QED
          BY <4>1 DEF Added
      <4> QED
        BY <4>3, <4>4, <4>5
    <3> QED
      BY <3>2, <3>3
  <2>7. ASSUME NEW q \in Requests, Serve(q) \/ Drop(q) PROVE Kept
    BY <2>7 DEF Serve, Drop, BlockHoldsBack, IsBlocked
  <2>8. CASE Tick
    <3>1. UNCHANGED <<failures, pc, key, at>> /\ now' = now + 1
      BY <2>8 DEF Tick
    <3>2. IsBlocked(key[r], now)
      BY <2>0, <3>1, BlockExpires DEF IsBlocked
    <3> QED
      BY <3>1, <3>2 DEF BlockHoldsBack
  <2>9. CASE UNCHANGED vars
    BY <2>9 DEF vars, BlockHoldsBack, IsBlocked
  <2> QED
    BY <2>1, <2>2, <2>3, <2>4, <2>5, <2>6, <2>7, <2>8, <2>9 DEF Next
<1> QED
  BY <1>1, <1>2, ClocksStep, TypeCorrect, PTL DEF Spec

-----------------------------------------------------------------------------
PermitsBounded == Cardinality(Permits) <= MaxConcurrency

LEMMA PermitsStep ==
    ASSUME TypeOK, PermitsBounded, [Next]_vars
    PROVE  PermitsBounded'
<1> USE DEF TypeOK, InFlight, Waiting, Goto
<1>1. IsFiniteSet(Permits) /\ Cardinality(Permits) \in Nat /\ MaxConcurrency \in Nat
  BY ConfigAssumption, FS_Subset, FS_CardinalityType DEF Permits
<1>2. ASSUME Permits' \subseteq Permits PROVE PermitsBounded'
  BY <1>1, <1>2, FS_Subset, FS_CardinalityType DEF PermitsBounded
<1>3. ASSUME NEW r \in Requests, Cardinality(Permits) < MaxConcurrency,
             Permits' \subseteq Permits \cup {r}
      PROVE  PermitsBounded'
  <2>1. CASE r \in Permits
    <3>1. Permits' \subseteq Permits
      BY <1>3, <2>1
    <3> QED
      BY <1>2, <3>1
  <2>2. CASE r \notin Permits
    <3>1. /\ IsFiniteSet(Permits \cup {r})
          /\ Cardinality(Permits \cup {r}) = Cardinality(Permits) + 1
      BY <1>1, <2>2, FS_AddElement
    <3>2. Cardinality(Permits') \in Nat /\ Cardinality(Permits') <= Cardinality(Permits \cup {r})
      BY <1>3, <3>1, FS_Subset, FS_CardinalityType
    <3> QED
      BY <1>1, <1>3, <3>1, <3>2 DEF PermitsBounded
  <2> QED
    BY <2>1, <2>2
<1>4. ASSUME NEW r \in Requests, Admit(r)
      PROVE  \/ Permits' \subseteq Permits
             \/ Cardinality(Permits) < MaxConcurrency /\ Permits' \subseteq Permits \cup {r}
  BY <1>4 DEF Admit, Permits
<1>5. ASSUME NEW r \in Requests, CheckBlock(r) \/ GuardsPass(r) \/ GuardsFail(r)
      PROVE  Permits' \subseteq Permits
  BY <1>5 DEF CheckBlock, GuardsPass, GuardsFail, Permits
<1>6. ASSUME NEW r \in Requests, ClearFailure(r) \/ RecordFailure(r) \/ Serve(r) \/ Drop(r)
      PROVE  Permits' \subseteq Permits
  BY <1>6 DEF ClearFailure, RecordFailure, Serve, Drop, Permits
<1>7. CASE Tick \/ UNCHANGED vars
  <2>1. Permits' \subseteq Permits
    BY <1>7 DEF Tick, vars, Permits
  <2> QED
    BY <1>2, <2>1
<1> QED
  BY <1>2, <1>3, <1>4, <1>5, <1>6, <1>7 DEF Next

\* The requests past the check whose failure would still be counted in k's window.
Late(k) ==
    {r \in Requests : /\ key[r] = k
                      /\ pc[r] \in {"guarding", "recording"}
                      /\ at[r] <= failures[k].first_seen + Window}

\* Of a key that has reached its threshold, the failures counted and those that may
\* still be counted are bounded together, and its block outlasts its window.
Bounded(k) ==
    Exists(k) =>
        /\ failures[k].first_seen <= now
        /\ failures[k].failures >= MaxFailures =>
              /\ failures[k].blocked_until \in Nat
              /\ failures[k].first_seen + Window < failures[k].blocked_until
              /\ failures[k].failures + Cardinality(Late(k)) <= MaxFailures - 1 + MaxConcurrency

\* The request that records leaves the others: one permit less.
LEMMA OthersPastCheck ==
    ASSUME TypeOK, PermitsBounded, NEW r \in Requests, pc[r] \in InFlight,
           NEW S, S \subseteq Permits \ {r}
    PROVE  IsFiniteSet(S) /\ Cardinality(S) \in Nat /\ Cardinality(S) <= MaxConcurrency - 1
<1>1. IsFiniteSet(Permits) /\ Cardinality(Permits) \in Nat
  BY ConfigAssumption, FS_Subset, FS_CardinalityType DEF Permits
<1>2. r \in Permits
  BY DEF Permits
<1>3. IsFiniteSet(Permits \ {r}) /\ Cardinality(Permits \ {r}) = Cardinality(Permits) - 1
  BY <1>1, <1>2, FS_RemoveElement
<1>4. IsFiniteSet(S) /\ Cardinality(S) <= Cardinality(Permits \ {r})
  BY <1>3, FS_Subset
<1> QED
  BY <1>1, <1>3, <1>4, FS_CardinalityType, ConfigAssumption DEF PermitsBounded

\* A step that leaves k's record alone adds nobody to Late(k) once k is blocked.
LEMMA BoundedKept ==
    ASSUME TypeOK, Clocks, NEW k \in Keys, Bounded(k), [Next]_vars, failures'[k] = failures[k],
           \A r \in Requests : key[r] = k => ~RecordFailure(r)
    PROVE  Bounded(k)'
<1> USE ConfigAssumption DEF TypeOK, InFlight, Waiting, Goto
<1>1. now <= now' /\ key' = key /\ now \in Nat /\ now' \in Nat
  BY TypeStep DEF Next, vars, Admit, CheckBlock, GuardsPass, GuardsFail, ClearFailure,
                  RecordFailure, Serve, Drop, Tick
<1>2. CASE ~Exists(k) \/ failures[k].failures < MaxFailures
  <2>1. Exists(k) => failures[k].first_seen <= now' /\ ~(failures[k].failures >= MaxFailures)
    <3>1. Exists(k) => failures[k].first_seen \in Nat /\ failures[k].failures \in Nat
      BY DEF Exists, Record
    <3> QED
      BY <1>1, <1>2, <3>1 DEF Bounded
  <2> QED
    BY <2>1 DEF Bounded, Exists
<1>3. CASE Exists(k) /\ failures[k].failures >= MaxFailures
  <2>0. /\ failures[k].first_seen + Window < failures[k].blocked_until
        /\ failures[k].blocked_until \in Nat /\ failures[k].first_seen \in Nat
        /\ failures[k].blocked_until # NotBlocked
    BY <1>3 DEF Bounded, Exists, Record
  <2>1. ASSUME NEW r \in Requests, Admit(r) PROVE Late(k)' \subseteq Late(k)
    BY <1>1, <2>1 DEF Admit, Late
  <2>2. ASSUME NEW r \in Requests, CheckBlock(r) PROVE Late(k)' \subseteq Late(k)
    <3>1. key[r] = k /\ pc'[r] = "guarding" => at[r] > failures[k].first_seen + Window
      BY <1>3, <2>0, <2>2 DEF CheckBlock, IsBlocked, Exists
    <3>2. pc' = [pc EXCEPT ![r] = "guarding"] \/ pc' = [pc EXCEPT ![r] = "blocked"]
      BY <2>2 DEF CheckBlock
    <3>3. UNCHANGED <<failures, key, at>>
      BY <2>2 DEF CheckBlock
    <3>4. ASSUME NEW q \in Late(k)' PROVE q \in Late(k)
      <4>1. q # r \/ pc'[r] = "blocked"
        BY <2>0, <3>1, <3>2, <3>3, <3>4 DEF Late
      <4> QED
        BY <3>2, <3>3, <3>4, <4>1 DEF Late
    <3> QED
      BY <3>4
  <2>3. ASSUME NEW r \in Requests, GuardsFail(r) PROVE Late(k)' \subseteq Late(k)
    <3>1. at[r] <= now /\ at' = [at EXCEPT ![r] = now] /\ now \in Nat /\ at[r] \in Nat
      BY <2>3 DEF GuardsFail, Clocks
    <3> QED
      BY <1>1, <2>0, <2>3, <3>1 DEF GuardsFail, Late
  <2>4. ASSUME NEW r \in Requests, GuardsPass(r) \/ ClearFailure(r) \/ Serve(r) \/ Drop(r)
        PROVE  Late(k)' \subseteq Late(k)
    BY <1>1, <2>4 DEF GuardsPass, ClearFailure, Serve, Drop, Late
  <2>5. ASSUME NEW r \in Requests, RecordFailure(r) PROVE Late(k)' \subseteq Late(k)
    BY <1>1, <2>5 DEF RecordFailure, Late
  <2>6. ASSUME Tick \/ UNCHANGED vars PROVE Late(k)' \subseteq Late(k)
    BY <2>6 DEF Tick, vars, Late
  <2>7. Late(k)' \subseteq Late(k)
    BY <2>1, <2>2, <2>3, <2>4, <2>5, <2>6 DEF Next
  <2>8. IsFiniteSet(Late(k)) /\ Cardinality(Late(k)) \in Nat
    BY FS_Subset, FS_CardinalityType DEF Late
  <2>9. Cardinality(Late(k)') \in Nat /\ Cardinality(Late(k)') <= Cardinality(Late(k))
    BY <2>7, <2>8, FS_Subset, FS_CardinalityType
  <2>10. failures[k].failures \in Nat /\ now \in Nat /\ now' \in Nat
    BY <1>1, <1>3 DEF Exists, Record
  <2>11. /\ failures[k].first_seen <= now
         /\ failures[k].failures + Cardinality(Late(k)) <= MaxFailures - 1 + MaxConcurrency
    BY <1>3 DEF Bounded
  <2>12. failures[k].failures + Cardinality(Late(k)') <= MaxFailures - 1 + MaxConcurrency
    BY <2>8, <2>9, <2>10, <2>11
  <2> HIDE DEF TypeOK
  <2> QED
    BY <1>1, <2>0, <2>10, <2>11, <2>12 DEF Bounded, Exists
<1> QED
  BY <1>2, <1>3 DEF Exists, Record

\* Recording a failure takes one request out of Late(k) for the failure it adds.
LEMMA BoundedRecord ==
    ASSUME Block > Window + Stall, TypeOK, Clocks, PermitsBounded,
           NEW r \in Requests, RecordFailure(r), Bounded(key[r])
    PROVE  Bounded(key[r])'
<1> DEFINE k == key[r]
           e == Entry(k, at[r])
<1>1. /\ k \in Keys /\ at[r] \in Nat /\ now \in Nat /\ at[r] <= now /\ now <= at[r] + Stall
      /\ pc[r] = "recording" /\ pc[r] \in InFlight
      /\ UNCHANGED <<now, key, at>> /\ pc' = [pc EXCEPT ![r] = "rejected"]
  BY ConfigAssumption DEF RecordFailure, TypeOK, Clocks, InFlight, Waiting, Goto
<1>2. failures'[k] = Added(e, at[r])
  BY <1>1 DEF RecordFailure, TypeOK
<1>3. e \in Record
  BY <1>1, EntryType
<1>4. Late(k)' \subseteq Permits \ {r}
  BY <1>1 DEF Late, Permits, InFlight, Waiting, TypeOK
<1>5. Cardinality(Late(k)') \in Nat /\ Cardinality(Late(k)') <= MaxConcurrency - 1
  BY <1>1, <1>4, OthersPastCheck
<1>6. CASE e = Fresh(at[r])
  <2>1. /\ failures'[k].first_seen = at[r] /\ failures'[k].failures = 1
        /\ 1 >= MaxFailures => failures'[k].blocked_until = at[r] + Block
    BY <1>2, <1>6 DEF Added, Fresh
  <2>2. 1 >= MaxFailures => MaxFailures = 1
    BY ConfigAssumption
  <2> QED
    BY <1>1, <1>5, <2>1, <2>2, ConfigAssumption DEF Bounded
<1>7. CASE e # Fresh(at[r])
  <2>1. /\ e = failures[k] /\ Exists(k) /\ Since(at[r], e.first_seen) <= Window
        /\ e.first_seen \in Nat /\ e.failures \in Nat
    BY <1>1, <1>3, <1>7, ConfigAssumption DEF Entry, Exists, Record, Since
  <2>2. e.first_seen <= now /\ at[r] <= e.first_seen + Window
    BY <1>1, <2>1, ConfigAssumption DEF Bounded, Since
  <2>3. /\ failures'[k].first_seen = e.first_seen
        /\ failures'[k].failures = e.failures + 1
        /\ e.failures + 1 >= MaxFailures => failures'[k].blocked_until = at[r] + Block
    BY <1>2 DEF Added
  <2>4. e.first_seen + Window < at[r] + Block /\ at[r] + Block \in Nat
    BY <1>1, <2>1, <2>2, ConfigAssumption
  <2>5. e.failures >= MaxFailures =>
           e.failures + 1 + Cardinality(Late(k)') <= MaxFailures - 1 + MaxConcurrency
    <3>1. r \in Late(k)
      BY <1>1, <2>1, <2>2 DEF Late
    <3>2. IsFiniteSet(Late(k)) /\ Cardinality(Late(k)) \in Nat
      BY ConfigAssumption, FS_Subset, FS_CardinalityType DEF Late
    <3>3. IsFiniteSet(Late(k) \ {r}) /\ Cardinality(Late(k) \ {r}) = Cardinality(Late(k)) - 1
      BY <3>1, <3>2, FS_RemoveElement
    <3>4. Late(k)' \subseteq Late(k) \ {r}
      BY <1>1, <2>1, <2>3 DEF Late, TypeOK
    <3>5. Cardinality(Late(k)') <= Cardinality(Late(k)) - 1
      BY <3>3, <3>4, FS_Subset
    <3>6. e.failures >= MaxFailures =>
             e.failures + Cardinality(Late(k)) <= MaxFailures - 1 + MaxConcurrency
      BY <2>1 DEF Bounded
    <3> QED
      BY <1>5, <2>1, <3>2, <3>5, <3>6, ConfigAssumption
  <2>6. e.failures + 1 >= MaxFailures /\ e.failures < MaxFailures =>
           e.failures + 1 + Cardinality(Late(k)') <= MaxFailures - 1 + MaxConcurrency
    BY <1>5, <2>1, ConfigAssumption
  <2>7. e.failures + 1 >= MaxFailures =>
           e.failures + 1 + Cardinality(Late(k)') <= MaxFailures - 1 + MaxConcurrency
    BY <2>1, <2>5, <2>6, ConfigAssumption
  <2> HIDE DEF e
  <2> QED
    BY <1>1, <2>2, <2>3, <2>4, <2>7 DEF Bounded
<1> QED
  BY <1>6, <1>7

\* Once a key is blocked its count runs at most max_concurrency past the threshold, if
\* the block outlasts the window: those who are past the check are all that can add.
THEOREM OvershootTheorem == Spec => []OvershootBounded
<1> DEFINE Inv == PermitsBounded /\ (Block > Window + Stall => \A k \in Keys : Bounded(k))
<1>1. Init => Clocks /\ Inv
  <2> SUFFICES ASSUME Init PROVE Clocks /\ Inv
    OBVIOUS
  <2>1. Permits = {}
    BY DEF Init, Permits, InFlight, Waiting
  <2> QED
    BY <2>1, FS_EmptySet, ConfigAssumption
       DEF Init, Clocks, InFlight, Waiting, PermitsBounded, Bounded, Exists
<1>2. TypeOK /\ Clocks /\ Inv /\ [Next]_vars => Inv'
  <2> SUFFICES ASSUME TypeOK, Clocks, Inv, [Next]_vars PROVE Inv'
    OBVIOUS
  <2>1. PermitsBounded'
    BY PermitsStep
  <2>2. ASSUME Block > Window + Stall, NEW k \in Keys PROVE Bounded(k)'
    <3>0. Bounded(k)
      BY <2>2
    <3>1. CASE \E r \in Requests : RecordFailure(r) /\ key[r] = k
      <4>1. PICK r \in Requests : RecordFailure(r) /\ key[r] = k
        BY <3>1
      <4>2. Bounded(key[r])'
        BY <2>2, <3>0, <4>1, BoundedRecord
      <4>3. key' = key
        BY <4>1 DEF RecordFailure
      <4> QED
        BY <4>1, <4>2, <4>3
    <3>2. CASE failures'[k] = failures[k] /\ \A r \in Requests : key[r] = k => ~RecordFailure(r)
      BY <2>2, <3>0, <3>2, BoundedKept
    <3>3. CASE failures'[k] # failures[k] /\ \A r \in Requests : key[r] = k => ~RecordFailure(r)
      <4>1. PICK r \in Requests : ClearFailure(r) \/ (RecordFailure(r) /\ key[r] # k)
        BY <3>3, MapWriters
      <4>2. ~Exists(k)'
        BY <3>3, <4>1 DEF ClearFailure, RecordFailure, Exists, TypeOK
      <4> QED
        BY <4>2 DEF Bounded
    <3> QED
      BY <3>1, <3>2, <3>3
  <2> QED
    BY <2>1, <2>2
<1>3. TypeOK /\ Inv => OvershootBounded
  <2> SUFFICES ASSUME TypeOK, Inv, Block > Window + Stall, NEW k \in Keys, Exists(k)
               PROVE  failures[k].failures <= MaxFailures - 1 + MaxConcurrency
    BY DEF OvershootBounded
  <2>1. Cardinality(Late(k)) \in Nat /\ failures[k].failures \in Nat
    BY ConfigAssumption, FS_Subset, FS_CardinalityType DEF Late, Exists, TypeOK, Record
  <2> QED
    BY <2>1, ConfigAssumption DEF Bounded
<1> QED
  BY <1>1, <1>2, <1>3, ClocksStep, TypeCorrect, PTL DEF Spec

-----------------------------------------------------------------------------
\* Where the window of k's record begins, at most Stall before its first failure.
Begins(k) == IF failures[k].first_seen < Stall THEN 0 ELSE failures[k].first_seen - Stall

\* The failures of k that lie in the window of its record.
InWindow(k) == {i \in DOMAIN log[k] : log[k][i] \in Begins(k)..(Begins(k) + Window + Stall)}

\* A record counts no more failures than lie in its window, since the guards last passed.
Counted(k) ==
    Exists(k) => /\ failures[k].first_seen <= now
                 /\ failures[k].failures <= Cardinality(InWindow(k))

\* A failure is logged within the window of the record it is added to.
LEMMA CountedRecord ==
    ASSUME TypeOK, Clocks, NEW r \in Requests, RecordFailure(r), Counted(key[r])
    PROVE  Counted(key[r])'
<1> DEFINE k == key[r]
           e == Entry(k, at[r])
           n == Len(log[k])
<1>1. /\ k \in Keys /\ at[r] \in Nat /\ now \in Nat /\ at[r] <= now /\ now <= at[r] + Stall
      /\ UNCHANGED <<now, key, at>>
  BY ConfigAssumption DEF RecordFailure, TypeOK, Clocks, InFlight, Waiting
<1>2. failures'[k] = Added(e, at[r]) /\ log'[k] = Append(log[k], at[r])
  BY <1>1 DEF RecordFailure, TypeOK
<1>3. e \in Record /\ e.first_seen \in Nat /\ e.failures \in Nat
  BY <1>1, EntryType DEF Record
<1>4. failures'[k].first_seen = e.first_seen /\ failures'[k].failures = e.failures + 1
  BY <1>2 DEF Added
<1>5. /\ n \in Nat /\ DOMAIN log[k] = 1..n /\ DOMAIN log'[k] = 1..(n + 1)
      /\ log'[k][n + 1] = at[r] /\ \A i \in 1..n : log'[k][i] = log[k][i]
  <2>1. log[k] \in Seq(Nat)
    BY <1>1 DEF TypeOK
  <2> QED
    BY <1>1, <1>2, <2>1
<1>6. IsFiniteSet(InWindow(k)') /\ Cardinality(InWindow(k)') \in Nat
  <2>1. InWindow(k)' \subseteq 1..(n + 1)
    BY <1>1, <1>5 DEF InWindow
  <2>2. IsFiniteSet(1..(n + 1))
    <3>1. 1 \in Int /\ n + 1 \in Int
      BY <1>5
    <3> QED
      BY <3>1, FS_Interval
  <2> QED
    BY <2>1, <2>2, FS_Subset, FS_CardinalityType
<1>7. CASE e = Fresh(at[r])
  <2>1. e.first_seen = at[r] /\ e.failures = 0
    BY <1>7 DEF Fresh
  <2>2. n + 1 \in InWindow(k)'
    <3>1. Begins(k)' \in Nat /\ Begins(k)' <= at[r] /\ at[r] <= Begins(k)' + Window + Stall
      <4>1. failures'[k].first_seen = at[r] /\ k' = k
        BY <1>1, <1>4, <2>1
      <4>2. CASE at[r] < Stall
        BY <1>1, <4>1, <4>2, ConfigAssumption DEF Begins
      <4>3. CASE ~(at[r] < Stall)
        BY <1>1, <4>1, <4>3, ConfigAssumption DEF Begins
      <4> QED
        BY <4>2, <4>3
    <3>2. at[r] \in Begins(k)'..(Begins(k)' + Window + Stall)
      BY <1>1, <3>1, ConfigAssumption
    <3>3. n + 1 \in DOMAIN log'[k] /\ log'[k][n + 1] = at[r] /\ k' = k
      BY <1>1, <1>5
    <3> QED
      BY <3>2, <3>3 DEF InWindow
  <2>3. InWindow(k)' # {}
    BY <2>2
  <2>4. Cardinality(InWindow(k)') # 0
    BY <1>6, <2>3, FS_EmptySet
  <2> HIDE DEF e
  <2> QED
    BY <1>1, <1>4, <1>6, <2>1, <2>4 DEF Counted
<1>8. CASE e # Fresh(at[r])
  <2>1. e = failures[k] /\ Exists(k) /\ Since(at[r], e.first_seen) <= Window
    BY <1>1, <1>3, <1>8, ConfigAssumption DEF Entry, Exists, Since
  <2>2. e.first_seen <= now /\ e.failures <= Cardinality(InWindow(k))
    BY <2>1 DEF Counted
  <2>3. at[r] <= e.first_seen + Window /\ e.first_seen <= at[r] + Stall
    BY <1>1, <1>3, <2>1, <2>2, ConfigAssumption DEF Since
  <2>4. Begins(k)' = Begins(k)
    BY <1>1, <1>4, <2>1 DEF Begins
  <2>5. Begins(k) \in Nat /\ Begins(k) <= at[r] /\ at[r] <= Begins(k) + Window + Stall
    <3>1. CASE e.first_seen < Stall
      <4>1. Begins(k) = 0
        BY <2>1, <3>1 DEF Begins
      <4> QED
        BY <1>1, <1>3, <2>3, <3>1, <4>1, ConfigAssumption
    <3>2. CASE ~(e.first_seen < Stall)
      <4>1. Begins(k) = e.first_seen - Stall
        BY <2>1, <3>2 DEF Begins
      <4> QED
        BY <1>1, <1>3, <2>3, <3>2, <4>1, ConfigAssumption
    <3> QED
      BY <3>1, <3>2
  <2>6. n + 1 \in InWindow(k)'
    <3>1. at[r] \in Begins(k)'..(Begins(k)' + Window + Stall)
      BY <1>1, <2>4, <2>5, ConfigAssumption
    <3>2. n + 1 \in DOMAIN log'[k] /\ log'[k][n + 1] = at[r] /\ k' = k
      BY <1>1, <1>5
    <3> QED
      BY <3>1, <3>2 DEF InWindow
  <2>7. InWindow(k) \subseteq InWindow(k)' \ {n + 1}
    BY <1>1, <1>5, <2>4 DEF InWindow
  <2>8. IsFiniteSet(InWindow(k)' \ {n + 1})
        /\ Cardinality(InWindow(k)' \ {n + 1}) = Cardinality(InWindow(k)') - 1
    BY <1>6, <2>6, FS_RemoveElement, ZenonT(60)
  <2>9. Cardinality(InWindow(k)) \in Nat
        /\ Cardinality(InWindow(k)) <= Cardinality(InWindow(k)') - 1
    BY <2>7, <2>8, FS_Subset, FS_CardinalityType
  <2> HIDE DEF e
  <2> QED
    BY <1>1, <1>3, <1>4, <1>6, <2>2, <2>9 DEF Counted
<1> QED
  BY <1>7, <1>8

\* Other steps leave the record and the log of the key alone, or clear both.
LEMMA CountedKept ==
    ASSUME TypeOK, NEW k \in Keys, Counted(k), [Next]_vars,
           \A r \in Requests : key[r] = k => ~RecordFailure(r)
    PROVE  Counted(k)'
<1>1. now <= now' /\ now \in Nat /\ now' \in Nat
  BY ConfigAssumption, TypeStep
     DEF TypeOK, Next, vars, Admit, CheckBlock, GuardsPass, GuardsFail, ClearFailure,
         RecordFailure, Serve, Drop, Tick
<1>2. ~Exists(k)' \/ (failures'[k] = failures[k] /\ log'[k] = log[k])
  BY DEF TypeOK, Next, vars, Admit, CheckBlock, GuardsPass, GuardsFail, ClearFailure,
         RecordFailure, Serve, Drop, Tick, Exists
<1>3. ASSUME failures'[k] = failures[k], log'[k] = log[k], Exists(k)
      PROVE  Counted(k)'
  <2>1. InWindow(k)' = InWindow(k)
    BY <1>3 DEF InWindow, Begins
  <2>2. failures[k].first_seen \in Nat
    BY <1>3 DEF TypeOK, Exists, Record
  <2> QED
    BY <1>1, <1>3, <2>1, <2>2 DEF Counted, Exists
<1> QED
  BY <1>2, <1>3 DEF Exists, Counted

\* A key is blocked only if max_failures failures, none of them before the guards last
\* passed, lie within one window.
THEOREM NoEarlyBlockTheorem == Spec => []NoEarlyBlock
<1> DEFINE Inv == \A k \in Keys : Counted(k)
<1>1. Init => Clocks /\ Inv
  BY DEF Init, Clocks, InFlight, Waiting, Counted, Exists
<1>2. TypeOK /\ Clocks /\ Inv /\ [Next]_vars => Inv'
  <2> SUFFICES ASSUME TypeOK, Clocks, Inv, [Next]_vars, NEW k \in Keys PROVE Counted(k)'
    OBVIOUS
  <2>1. CASE \E r \in Requests : RecordFailure(r) /\ key[r] = k
    <3>1. PICK r \in Requests : RecordFailure(r) /\ key[r] = k
      BY <2>1
    <3>2. Counted(key[r])'
      BY <3>1, CountedRecord
    <3>3. key' = key
      BY <3>1 DEF RecordFailure
    <3> QED
      BY <3>1, <3>2, <3>3
  <2>2. CASE \A r \in Requests : key[r] = k => ~RecordFailure(r)
    BY <2>2, CountedKept
  <2> QED
    BY <2>1, <2>2
<1>3. TypeOK /\ Inv /\ BlockedIffThreshold => NoEarlyBlock
  <2> SUFFICES ASSUME TypeOK, Inv, BlockedIffThreshold, NEW k \in Keys,
                      Exists(k), failures[k].blocked_until # NotBlocked
               PROVE  \E t \in 0..MaxTime :
                         Cardinality({i \in DOMAIN log[k] : log[k][i] \in t..(t + Window + Stall)})
                            >= MaxFailures
    BY DEF NoEarlyBlock
  <2>1. /\ failures[k].failures >= MaxFailures /\ failures[k].failures \in Nat
        /\ failures[k].first_seen <= now /\ failures[k].first_seen \in Nat
        /\ failures[k].failures <= Cardinality(InWindow(k))
    BY DEF BlockedIffThreshold, Counted, TypeOK, Exists, Record
  <2>2. Begins(k) \in 0..MaxTime
    BY <2>1, ConfigAssumption DEF Begins, TypeOK
  <2>3. Cardinality(InWindow(k)) \in Nat
    <3>1. log[k] \in Seq(Nat) /\ DOMAIN log[k] = 1..Len(log[k]) /\ Len(log[k]) \in Nat
      BY DEF TypeOK
    <3>2. IsFiniteSet(1..Len(log[k])) /\ InWindow(k) \subseteq 1..Len(log[k])
      BY <3>1, FS_Interval DEF InWindow
    <3> QED
      BY <3>2, FS_Subset, FS_CardinalityType
  <2>4. Cardinality(InWindow(k)) >= MaxFailures
    BY <2>1, <2>3, ConfigAssumption
  <2> QED
    BY <2>2, <2>4 DEF InWindow
<1> QED
  BY <1>1, <1>2, <1>3, ClocksStep, TypeCorrect, BlockedTheorem, PTL DEF Spec

=============================================================================
