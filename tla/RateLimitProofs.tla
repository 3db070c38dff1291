--------------------------- MODULE RateLimitProofs ---------------------------
(***************************************************************************)
(* Proofs about RateLimit for any endpoints, clients, requests, quotas and *)
(* windows, on either driver.                                              *)
(***************************************************************************)
EXTENDS RateLimit, FiniteSetTheorems, TLAPS

\* The window of a reading begins at or before it and ends after it.
LEMMA WindowAround ==
    ASSUME NEW e \in Endpoints, NEW t \in Nat
    PROVE  /\ WindowStart(e, t) \in Nat
           /\ WindowStart(e, t) <= t
           /\ t < WindowStart(e, t) + Window[e]
<1> DEFINE w == Window[e]
           n == t \div w
<1>1. w \in Nat /\ w > 0
  BY ConfigAssumption
<1> HIDE DEF w
<1>2. n \in Nat /\ t = w * n + (t % w) /\ t % w \in 0..(w - 1)
  BY <1>1
<1>3. n * w = w * n /\ n * w \in Nat
  BY <1>1, <1>2
<1> DEFINE start == n * w
<1>4. WindowStart(e, t) = start
  BY DEF WindowStart, w
<1>5. start \in Nat /\ t = start + (t % w)
  BY <1>2, <1>3
<1> HIDE DEF n, start
<1>6. start <= t /\ t < start + w
  BY <1>1, <1>2, <1>5
<1> QED
  BY <1>4, <1>5, <1>6 DEF w

\* The bucket of a request belongs to its endpoint.
LEMMA BucketType ==
    ASSUME TypeOK, NEW r \in Requests, WindowOf(r) <= readAt[r]
    PROVE  /\ EndpointOf(r) \in Endpoints
           /\ Bucket(r) \in Buckets
           /\ Bucket(r)[1] = EndpointOf(r)
           /\ Bucket(r)[3] = WindowOf(r)
<1>1. EndpointOf(r) \in Endpoints /\ readAt[r] \in Starts /\ readAt[r] \in Nat
  BY ConfigAssumption DEF TypeOK, EndpointOf, Starts
<1>2. WindowOf(r) \in Starts
  BY <1>1, WindowAround, ConfigAssumption DEF WindowOf, Starts
<1> QED
  BY <1>1, <1>2 DEF TypeOK, Bucket, Buckets

LEMMA OwnBucket ==
    ASSUME TypeOK, NEW r \in Requests
    PROVE  /\ EndpointOf(r) \in Endpoints
           /\ WindowOf(r) \in Nat
           /\ WindowOf(r) <= readAt[r] /\ readAt[r] < WindowOf(r) + Window[EndpointOf(r)]
           /\ Bucket(r) \in Buckets
           /\ Bucket(r)[1] = EndpointOf(r)
           /\ Bucket(r)[3] = WindowOf(r)
<1>1. EndpointOf(r) \in Endpoints /\ readAt[r] \in Nat
  BY ConfigAssumption DEF TypeOK, EndpointOf, Starts
<1>2. /\ WindowOf(r) \in Nat
      /\ WindowOf(r) <= readAt[r] /\ readAt[r] < WindowOf(r) + Window[EndpointOf(r)]
  BY <1>1, WindowAround DEF WindowOf
<1> QED
  BY <1>1, <1>2, BucketType

LEMMA KeptType ==
    ASSUME TypeOK, NEW start \in Nat
    PROVE  /\ Kept(start) \in [Buckets -> Nat]
           /\ \A b \in Buckets : Kept(start)[b] \in {rows[b], 0}
BY DEF TypeOK, Kept

LEMMA TypeStep == TypeOK /\ [Next]_vars => TypeOK'
<1> SUFFICES ASSUME TypeOK, [Next]_vars PROVE TypeOK'
  OBVIOUS
<1>1. ASSUME NEW r \in Requests, Begin(r) PROVE TypeOK'
  BY <1>1 DEF TypeOK, Begin
<1>2. ASSUME NEW r \in Requests, Allow(r) PROVE TypeOK'
  <2> DEFINE kept == Kept(WindowOf(r))
  <2>1. /\ kept \in [Buckets -> Nat] /\ Bucket(r) \in Buckets
        /\ Quota[EndpointOf(r)] \in Nat
    BY KeptType, OwnBucket, ConfigAssumption
  <2>2. /\ rows' = [kept EXCEPT ![Bucket(r)] = kept[Bucket(r)] + 1]
        /\ kept[Bucket(r)] < Quota[EndpointOf(r)]
    BY <1>2 DEF Allow, Counted, HasRoom
  <2>3. rows' \in [Buckets -> Nat] /\ rows'[Bucket(r)] = kept[Bucket(r)] + 1
    BY <2>1, <2>2
  <2>4. Quota[EndpointOf(r)] - rows'[Bucket(r)] \in Nat
    BY <2>1, <2>2, <2>3
  <2>5. spent' \in [Buckets -> Nat] /\ remaining' \in [Requests -> Nat]
    BY <1>2, <2>1, <2>4 DEF Allow, TypeOK
  <2> QED
    BY <1>2, <2>3, <2>5 DEF TypeOK, Allow, TransactionEnds
<1>3. ASSUME NEW r \in Requests, Limit(r) PROVE TypeOK'
  BY <1>3, KeptType, OwnBucket DEF TypeOK, Limit, TransactionEnds
<1>4. ASSUME NEW r \in Requests, Fail(r) PROVE TypeOK'
  BY <1>4 DEF TypeOK, Fail, TransactionEnds
<1>5. ASSUME NEW r \in Requests, Drop(r) PROVE TypeOK'
  BY <1>5 DEF TypeOK, Drop
<1>6. CASE Tick
  BY <1>6, ConfigAssumption DEF TypeOK, Tick, Starts
<1>7. CASE UNCHANGED vars
  BY <1>7 DEF TypeOK, vars
<1>8. ASSUME NEW r \in Requests, ReadFails(r) PROVE TypeOK'
  <2>1. /\ Kept(WindowOf(r)) \in [Buckets -> Nat] /\ Bucket(r) \in Buckets
        /\ Quota[EndpointOf(r)] \in Nat \ {0}
    BY KeptType, OwnBucket, ConfigAssumption
  <2>2. rows' \in [Buckets -> Nat]
    <3>1. ASSUME NEW table \in [Buckets -> Nat] PROVE Counted(table, r) \in [Buckets -> Nat]
      BY <2>1 DEF Counted
    <3> QED
      BY <1>8, <2>1, <3>1 DEF ReadFails, TypeOK
  <2>3. Quota[EndpointOf(r)] - 1 \in Nat
    BY <2>1
  <2>4. spent' \in [Buckets -> Nat] /\ remaining' \in [Requests -> Nat]
    BY <1>8, <2>1, <2>3 DEF ReadFails, TypeOK
  <2> QED
    BY <1>8, <2>2, <2>4 DEF TypeOK, ReadFails, TransactionEnds
<1> QED
  BY <1>1, <1>2, <1>3, <1>4, <1>5, <1>6, <1>7, <1>8 DEF Next

\* Every variable keeps its type; in particular what remains of a quota never
\* falls below zero.
THEOREM TypeCorrect == Spec => []TypeOK
<1>1. Init => TypeOK
  BY ConfigAssumption DEF Init, TypeOK, Starts
<1> QED
  BY <1>1, TypeStep, PTL DEF Spec

-----------------------------------------------------------------------------
LEMMA PendingStep == ASSUME IInv, [Next]_vars PROVE PendingOnTime'
<1> USE DEF IInv, PendingOnTime
<1>1. ASSUME NEW r \in Requests, Begin(r) PROVE PendingOnTime'
  BY <1>1, ConfigAssumption DEF Begin, TypeOK, Starts
<1>2. ASSUME NEW r \in Requests, Allow(r) \/ Limit(r) \/ ReadFails(r) \/ Fail(r)
      PROVE  PendingOnTime'
  BY <1>2 DEF Allow, Limit, ReadFails, Fail, TransactionEnds
<1>3. ASSUME NEW r \in Requests, Drop(r) PROVE PendingOnTime'
  BY <1>3 DEF Drop
<1>4. CASE Tick
  BY <1>4, ConfigAssumption DEF Tick, TypeOK, Starts
<1>5. CASE UNCHANGED vars
  BY <1>5 DEF vars
<1> QED
  BY <1>1, <1>2, <1>3, <1>4, <1>5 DEF Next

\* A check still pending works in a usable window, and its purge spares the rows
\* of every usable window of every endpoint.
LEMMA PurgeSparesUsable ==
    ASSUME WindowsFit, IInv, NEW r \in Requests, r \in pending
    PROVE  /\ Usable(EndpointOf(r), WindowOf(r))
           /\ \A b \in Buckets : Usable(b[1], b[3]) => Kept(WindowOf(r))[b] = rows[b]
<1>1. /\ now \in Nat /\ readAt[r] \in Nat /\ readAt[r] <= now
      /\ now <= readAt[r] + Stall
  BY ConfigAssumption DEF IInv, TypeOK, PendingOnTime, Starts
<1>2. Usable(EndpointOf(r), WindowOf(r))
  BY <1>1, OwnBucket, ConfigAssumption DEF Usable, IInv
<1>3. ASSUME NEW b \in Buckets, Usable(b[1], b[3]) PROVE Kept(WindowOf(r))[b] = rows[b]
  <2>1. b[1] \in Endpoints /\ b[3] \in Nat
    BY ConfigAssumption DEF Buckets, Starts
  <2>2. ~(b[3] < WindowOf(r) - Retention)
    BY <1>1, <1>3, <2>1, OwnBucket, ConfigAssumption DEF Usable, WindowsFit, IInv
  <2> QED
    BY <2>2 DEF Kept
<1> QED
  BY <1>2, <1>3

\* A check counts its request once, in a bucket that belongs to it for good.
LEMMA BegunStep == ASSUME IInv, [Next]_vars PROVE PendingHasBegun' /\ MisreadOnce'
<1> USE DEF IInv, PendingHasBegun, MisreadOnce
<1>1. ASSUME NEW r \in Requests, Begin(r) PROVE PendingHasBegun' /\ MisreadOnce'
  BY <1>1 DEF Begin, TypeOK
<1>2. ASSUME NEW r \in Requests, Allow(r) \/ Limit(r) \/ Fail(r)
      PROVE  PendingHasBegun' /\ MisreadOnce'
  BY <1>2 DEF Allow, Limit, Fail, TransactionEnds, TypeOK
<1>3. ASSUME NEW r \in Requests, ReadFails(r) PROVE PendingHasBegun' /\ MisreadOnce'
  <2>1. IsFiniteSet(misread')
    BY <1>3, FS_AddElement DEF ReadFails
  <2>2. PendingHasBegun'
    BY <1>3 DEF ReadFails, TransactionEnds, TypeOK
  <2>3. \A q \in misread' : q \notin pending' /\ pc'[q] # "idle"
    BY <1>3 DEF ReadFails, TransactionEnds, TypeOK
  <2>4. driver' = "sqlite"
    BY <1>3 DEF ReadFails
  <2> QED
    BY <2>1, <2>2, <2>3, <2>4
<1>4. ASSUME NEW r \in Requests, Drop(r) PROVE PendingHasBegun' /\ MisreadOnce'
  BY <1>4 DEF Drop, TypeOK
<1>5. CASE Tick \/ UNCHANGED vars
  BY <1>5 DEF Tick, vars
<1> QED
  BY <1>1, <1>2, <1>3, <1>4, <1>5 DEF Next

LEMMA MisreadFinite ==
    ASSUME MisreadOnce, NEW b
    PROVE  IsFiniteSet(MisreadIn(b)) /\ Cardinality(MisreadIn(b)) \in Nat
BY FS_Subset, FS_CardinalityType DEF MisreadOnce, MisreadIn

\* What is misread in a bucket changes by ReadFails alone.
LEMMA MisreadSame ==
    ASSUME IInv, [Next]_vars, NEW b, misread' = misread
    PROVE  MisreadIn(b)' = MisreadIn(b)
<1> USE DEF IInv
<1>1. misread \subseteq Requests /\ \A q \in Requests : ~ReadFails(q)
  BY DEF ReadFails, TypeOK, MisreadOnce
<1>2. ASSUME NEW r \in misread PROVE Bucket(r)' = Bucket(r)
  <2>1. ASSUME NEW q \in Requests, Begin(q)
        PROVE  input' = input /\ readAt'[r] = readAt[r]
    BY <1>1, <2>1 DEF Begin, MisreadOnce, TypeOK
  <2>2. ASSUME NEW q \in Requests, Allow(q) \/ Limit(q) \/ Fail(q) \/ Drop(q)
        PROVE  input' = input /\ readAt'[r] = readAt[r]
    BY <2>2 DEF Allow, Limit, Fail, Drop
  <2>3. ASSUME Tick \/ UNCHANGED vars
        PROVE  input' = input /\ readAt'[r] = readAt[r]
    BY <2>3 DEF Tick, vars
  <2>4. input' = input /\ readAt'[r] = readAt[r]
    BY <1>1, <2>1, <2>2, <2>3 DEF Next
  <2> QED
    BY <2>4 DEF Bucket, EndpointOf, WindowOf
<1> QED
  BY <1>1, <1>2 DEF MisreadIn

\* A blind check adds one to what is misread in its own bucket.
LEMMA MisreadGrows ==
    ASSUME IInv, NEW r \in Requests, ReadFails(r), NEW b \in Buckets
    PROVE  Cardinality(MisreadIn(b)') =
             Cardinality(MisreadIn(b)) + (IF b = Bucket(r) THEN 1 ELSE 0)
<1>1. /\ r \notin misread /\ misread' = misread \cup {r}
      /\ \A q \in Requests : Bucket(q)' = Bucket(q)
  BY DEF ReadFails, IInv, MisreadOnce, Bucket, EndpointOf, WindowOf
<1>2. misread \subseteq Requests
  BY DEF IInv, TypeOK
<1>3. CASE b = Bucket(r)
  <2>1. MisreadIn(b)' = MisreadIn(b) \cup {r} /\ r \notin MisreadIn(b)
    BY <1>1, <1>2, <1>3 DEF MisreadIn
  <2>2. IsFiniteSet(MisreadIn(b))
    BY MisreadFinite DEF IInv
  <2> QED
    BY <1>3, <2>1, <2>2, FS_AddElement
<1>4. CASE b # Bucket(r)
  <2>1. MisreadIn(b)' = MisreadIn(b)
    BY <1>1, <1>2, <1>4 DEF MisreadIn
  <2>2. Cardinality(MisreadIn(b)) \in Nat
    BY MisreadFinite DEF IInv
  <2> QED
    BY <1>4, <2>1, <2>2
<1> QED
  BY <1>3, <1>4

\* Counting keeps the row of a usable window what its bucket has counted, whether
\* the purge is kept or undone.
LEMMA CountingKeeps ==
    ASSUME WindowsFit, IInv, NEW r \in Requests, r \in pending,
           NEW table, table \in {Kept(WindowOf(r)), rows}, rows' = Counted(table, r),
           spent' = [spent EXCEPT ![Bucket(r)] = spent[Bucket(r)] + 1], now' = now,
           NEW b \in Buckets
    PROVE  /\ rows'[b] <= spent'[b]
           /\ Usable(b[1], b[3])' => rows'[b] = spent'[b]
<1>1. /\ rows[b] \in Nat /\ spent[b] \in Nat
      /\ rows[b] <= spent[b]
  BY DEF IInv, TypeOK, RowsAreSpent
<1>2. table \in [Buckets -> Nat] /\ table[b] \in {rows[b], 0}
  <2>1. TypeOK /\ WindowOf(r) \in Nat
    BY OwnBucket DEF IInv
  <2>2. Kept(WindowOf(r)) \in [Buckets -> Nat] /\ Kept(WindowOf(r))[b] \in {rows[b], 0}
    BY <2>1, KeptType
  <2>3. rows \in [Buckets -> Nat]
    BY <2>1 DEF TypeOK
  <2> QED
    BY <2>2, <2>3
<1>3. Usable(b[1], b[3])' <=> Usable(b[1], b[3])
  BY DEF Usable
<1>4. Usable(b[1], b[3]) => table[b] = rows[b] /\ rows[b] = spent[b]
  BY PurgeSparesUsable DEF IInv, RowsAreSpent
<1>5. CASE b = Bucket(r)
  <2>1. rows'[b] = table[b] + 1 /\ spent'[b] = spent[b] + 1
    BY <1>2, <1>5 DEF Counted, IInv, TypeOK
  <2> QED
    BY <1>1, <1>2, <1>3, <1>4, <2>1
<1>6. CASE b # Bucket(r)
  <2>1. rows'[b] = table[b] /\ spent'[b] = spent[b]
    BY <1>2, <1>6 DEF Counted, IInv, TypeOK
  <2> QED
    BY <1>1, <1>2, <1>3, <1>4, <2>1
<1> QED
  BY <1>5, <1>6

LEMMA RowsStep == ASSUME WindowsFit, IInv, [Next]_vars PROVE RowsAreSpent'
<1> USE DEF IInv
<1>1. ASSUME NEW r \in Requests, Allow(r) PROVE RowsAreSpent'
  <2> SUFFICES ASSUME NEW b \in Buckets
               PROVE  (/\ rows[b] <= spent[b]
                       /\ spent[b] <= Quota[b[1]] + Cardinality(MisreadIn(b))
                       /\ Usable(b[1], b[3]) => rows[b] = spent[b])'
    BY DEF RowsAreSpent
  <2> DEFINE kept == Kept(WindowOf(r))
             m == Cardinality(MisreadIn(b))
  <2>1. /\ rows' = Counted(kept, r)
        /\ spent' = [spent EXCEPT ![Bucket(r)] = spent[Bucket(r)] + 1]
        /\ kept[Bucket(r)] < Quota[EndpointOf(r)]
        /\ now' = now /\ r \in pending
    BY <1>1 DEF Allow, HasRoom
  <2>2. rows'[b] <= spent'[b] /\ (Usable(b[1], b[3])' => rows'[b] = spent'[b])
    BY <2>1, CountingKeeps
  <2>3. /\ spent[b] \in Nat /\ Quota[b[1]] \in Nat /\ m \in Nat
        /\ spent[b] <= Quota[b[1]] + m
    BY ConfigAssumption, MisreadFinite DEF TypeOK, RowsAreSpent, Buckets
  <2>4. Cardinality(MisreadIn(b)') = m
    BY <1>1, MisreadSame DEF Allow
  <2>5. CASE b = Bucket(r)
    <3>1. kept[b] = spent[b] /\ b[1] = EndpointOf(r)
      BY <2>1, <2>5, PurgeSparesUsable, OwnBucket DEF RowsAreSpent
    <3>2. spent'[b] = spent[b] + 1 /\ spent[b] < Quota[b[1]]
      BY <2>1, <2>5, <3>1 DEF TypeOK
    <3> HIDE DEF m
    <3> QED
      BY <2>2, <2>3, <2>4, <3>2
  <2>6. CASE b # Bucket(r)
    <3>1. spent'[b] = spent[b]
      BY <2>1, <2>6 DEF TypeOK
    <3> HIDE DEF m
    <3> QED
      BY <2>2, <2>3, <2>4, <3>1
  <2> QED
    BY <2>5, <2>6
<1>2. ASSUME NEW r \in Requests, ReadFails(r) PROVE RowsAreSpent'
  <2> SUFFICES ASSUME NEW b \in Buckets
               PROVE  (/\ rows[b] <= spent[b]
                       /\ spent[b] <= Quota[b[1]] + Cardinality(MisreadIn(b))
                       /\ Usable(b[1], b[3]) => rows[b] = spent[b])'
    BY DEF RowsAreSpent
  <2> DEFINE m == Cardinality(MisreadIn(b))
  <2>1. /\ rows' \in {Counted(Kept(WindowOf(r)), r), Counted(rows, r)}
        /\ spent' = [spent EXCEPT ![Bucket(r)] = spent[Bucket(r)] + 1]
        /\ now' = now /\ r \in pending
    BY <1>2 DEF ReadFails
  <2>2. rows'[b] <= spent'[b] /\ (Usable(b[1], b[3])' => rows'[b] = spent'[b])
    BY <2>1, CountingKeeps
  <2>3. /\ spent[b] \in Nat /\ Quota[b[1]] \in Nat /\ m \in Nat
        /\ spent[b] <= Quota[b[1]] + m
    BY ConfigAssumption, MisreadFinite DEF TypeOK, RowsAreSpent, Buckets
  <2>4. Cardinality(MisreadIn(b)') = m + (IF b = Bucket(r) THEN 1 ELSE 0)
    BY <1>2, MisreadGrows
  <2>5. spent'[b] = spent[b] + (IF b = Bucket(r) THEN 1 ELSE 0)
    BY <2>1, <2>3 DEF TypeOK
  <2> HIDE DEF m
  <2> QED
    BY <2>2, <2>3, <2>4, <2>5
<1>3. ASSUME NEW r \in Requests, Limit(r) PROVE RowsAreSpent'
  <2> SUFFICES ASSUME NEW b \in Buckets
               PROVE  (/\ rows[b] <= spent[b]
                       /\ spent[b] <= Quota[b[1]] + Cardinality(MisreadIn(b))
                       /\ Usable(b[1], b[3]) => rows[b] = spent[b])'
    BY DEF RowsAreSpent
  <2>1. rows' = Kept(WindowOf(r)) /\ UNCHANGED <<now, spent>> /\ r \in pending
    BY <1>3 DEF Limit
  <2>2. Kept(WindowOf(r))[b] \in {rows[b], 0}
    BY KeptType, OwnBucket
  <2>3. Usable(b[1], b[3]) => Kept(WindowOf(r))[b] = rows[b]
    BY <2>1, PurgeSparesUsable
  <2>4. MisreadIn(b)' = MisreadIn(b)
    BY <1>3, MisreadSame DEF Limit
  <2> QED
    BY <2>1, <2>2, <2>3, <2>4 DEF RowsAreSpent, TypeOK, Usable
<1>4. ASSUME NEW r \in Requests, Begin(r) \/ Fail(r) \/ Drop(r) PROVE RowsAreSpent'
  <2>1. \A b \in Buckets : MisreadIn(b)' = MisreadIn(b)
    BY <1>4, MisreadSame DEF Begin, Fail, Drop
  <2> QED
    BY <1>4, <2>1 DEF Begin, Fail, Drop, RowsAreSpent, Usable
<1>5. CASE Tick
  <2>1. UNCHANGED <<rows, spent>> /\ now' = now + 1 /\ now \in Nat
    BY <1>5, ConfigAssumption DEF Tick, TypeOK, Starts
  <2>2. ASSUME NEW b \in Buckets, Usable(b[1], b[3])' PROVE Usable(b[1], b[3])
    <3>1. b[1] \in Endpoints /\ b[3] \in Nat
      BY ConfigAssumption DEF Buckets, Starts
    <3> QED
      BY <2>1, <2>2, <3>1, ConfigAssumption DEF Usable
  <2>3. \A b \in Buckets : MisreadIn(b)' = MisreadIn(b)
    BY <1>5, MisreadSame DEF Tick
  <2> QED
    BY <2>1, <2>2, <2>3 DEF RowsAreSpent
<1>6. CASE UNCHANGED vars
  BY <1>6 DEF vars, RowsAreSpent, Usable, MisreadIn, Bucket, EndpointOf, WindowOf
<1> QED
  BY <1>1, <1>2, <1>3, <1>4, <1>5, <1>6 DEF Next

\* While every window with a stalled transaction fits into the retention, the
\* rows of all usable windows hold what their buckets have counted.
THEOREM Invariance == ASSUME WindowsFit PROVE Spec => []IInv
<1>1. Init => IInv
  <2> SUFFICES ASSUME Init PROVE IInv
    OBVIOUS
  <2>1. TypeOK /\ PendingOnTime /\ MisreadOnce /\ PendingHasBegun
    BY ConfigAssumption, FS_EmptySet
       DEF Init, TypeOK, PendingOnTime, MisreadOnce, PendingHasBegun, Starts
  <2>2. RowsAreSpent
    <3>1. \A b \in Buckets : MisreadIn(b) = {}
      BY DEF Init, MisreadIn
    <3>2. \A b \in Buckets : Quota[b[1]] \in Nat
      BY ConfigAssumption DEF Buckets
    <3>3. Cardinality({}) = 0
      BY FS_EmptySet
    <3> SUFFICES ASSUME NEW b \in Buckets
                 PROVE  /\ rows[b] <= spent[b]
                        /\ spent[b] <= Quota[b[1]] + Cardinality(MisreadIn(b))
                        /\ rows[b] = spent[b]
      BY DEF RowsAreSpent
    <3>4. rows[b] = 0 /\ spent[b] = 0 /\ Cardinality(MisreadIn(b)) = 0
      BY <3>1, <3>3 DEF Init
    <3> QED
      BY <3>2, <3>4
  <2> QED
    BY <2>1, <2>2 DEF IInv
<1>2. IInv /\ [Next]_vars => IInv'
  BY TypeStep, PendingStep, RowsStep, BegunStep DEF IInv
<1> QED
  BY <1>1, <1>2, PTL DEF Spec

\* The upsert of PostgreSQL reads and counts in one statement.
ExactOnPostgres ==
    driver = "postgres" => \A b \in Buckets : spent[b] <= Quota[b[1]]

\* Then no bucket counts more requests than its quota and its own blind checks, in
\* spite of the purges of the other endpoints and of checks whose clock reading is
\* old; on PostgreSQL no check is blind.
THEOREM QuotaTheorem ==
    ASSUME WindowsFit PROVE Spec => [](QuotaRespected /\ ExactOnPostgres)
<1>1. IInv => QuotaRespected /\ ExactOnPostgres
  <2> SUFFICES ASSUME IInv PROVE QuotaRespected /\ ExactOnPostgres
    OBVIOUS
  <2>1. QuotaRespected
    BY DEF IInv, RowsAreSpent, QuotaRespected
  <2>2. ASSUME driver = "postgres", NEW b \in Buckets PROVE spent[b] <= Quota[b[1]]
    <3>1. Cardinality(MisreadIn(b)) = 0
      BY <2>2, FS_EmptySet DEF IInv, MisreadOnce, MisreadIn
    <3>2. spent[b] \in Nat /\ Quota[b[1]] \in Nat
      BY ConfigAssumption DEF IInv, TypeOK, Buckets
    <3> QED
      BY <2>1, <3>1, <3>2 DEF QuotaRespected
  <2> QED
    BY <2>1, <2>2 DEF ExactOnPostgres
<1> QED
  BY <1>1, Invariance, PTL

\* Whatever the window, retry_after names between one second and one window, and
\* a client that waits for it begins in a later window.
THEOREM RetryTheorem == Spec => []RetryFindsNewWindow
<1>1. TypeOK => RetryFindsNewWindow
  <2> SUFFICES ASSUME TypeOK, NEW r \in Requests
               PROVE  /\ RetryAfter(EndpointOf(r), readAt[r]) \in 1..Window[EndpointOf(r)]
                      /\ WindowStart(EndpointOf(r),
                            readAt[r] + RetryAfter(EndpointOf(r), readAt[r])) > WindowOf(r)
    BY DEF RetryFindsNewWindow
  <2> DEFINE e == EndpointOf(r)
             t == readAt[r] + RetryAfter(e, readAt[r])
  <2>1. /\ e \in Endpoints /\ readAt[r] \in Nat /\ Window[e] \in Nat
        /\ WindowOf(r) \in Nat /\ WindowOf(r) <= readAt[r]
        /\ readAt[r] < WindowOf(r) + Window[e]
    BY OwnBucket, ConfigAssumption DEF TypeOK, Starts
  <2>2. RetryAfter(e, readAt[r]) = WindowOf(r) + Window[e] - readAt[r]
    BY DEF RetryAfter, WindowOf
  <2>3. RetryAfter(e, readAt[r]) \in 1..Window[e] /\ t = WindowOf(r) + Window[e]
    BY <2>1, <2>2
  <2>4. /\ t \in Nat /\ WindowStart(e, t) \in Nat
        /\ t < WindowStart(e, t) + Window[e]
    BY <2>1, <2>3, WindowAround
  <2> QED
    BY <2>1, <2>3, <2>4
<1> QED
  BY <1>1, TypeCorrect, PTL

-----------------------------------------------------------------------------
\* Whatever is purged, a row never holds more than its bucket has counted.
RowsAreCovered == \A b \in Buckets : rows[b] <= spent[b]

LEMMA CoveredStep == TypeOK /\ RowsAreCovered /\ [Next]_vars => RowsAreCovered'
<1> SUFFICES ASSUME TypeOK, RowsAreCovered, [Next]_vars, NEW b \in Buckets
             PROVE  rows'[b] <= spent'[b]
  BY DEF RowsAreCovered
<1>1. rows[b] \in Nat /\ spent[b] \in Nat /\ rows[b] <= spent[b]
  BY DEF TypeOK, RowsAreCovered
<1>2. ASSUME NEW r \in Requests, Allow(r) PROVE rows'[b] <= spent'[b]
  <2> DEFINE kept == Kept(WindowOf(r))
  <2>1. /\ rows' = [kept EXCEPT ![Bucket(r)] = kept[Bucket(r)] + 1]
        /\ spent' = [spent EXCEPT ![Bucket(r)] = spent[Bucket(r)] + 1]
    BY <1>2 DEF Allow, Counted
  <2>2. kept \in [Buckets -> Nat] /\ kept[b] \in {rows[b], 0}
    BY KeptType, OwnBucket
  <2> HIDE DEF kept
  <2> QED
    BY <1>1, <2>1, <2>2 DEF TypeOK
<1>3. ASSUME NEW r \in Requests, Limit(r) PROVE rows'[b] <= spent'[b]
  <2>1. rows' = Kept(WindowOf(r)) /\ spent' = spent
    BY <1>3 DEF Limit
  <2>2. Kept(WindowOf(r))[b] \in {rows[b], 0}
    BY KeptType, OwnBucket
  <2> QED
    BY <1>1, <2>1, <2>2
<1>4. ASSUME NEW r \in Requests, Begin(r) \/ Fail(r) \/ Drop(r) PROVE rows'[b] <= spent'[b]
  BY <1>1, <1>4 DEF Begin, Fail, Drop
<1>5. CASE Tick \/ UNCHANGED vars
  BY <1>1, <1>5 DEF Tick, vars
<1>6. ASSUME NEW r \in Requests, ReadFails(r) PROVE rows'[b] <= spent'[b]
  <2>1. /\ rows' \in {Counted(Kept(WindowOf(r)), r), Counted(rows, r)}
        /\ spent' = [spent EXCEPT ![Bucket(r)] = spent[Bucket(r)] + 1]
    BY <1>6 DEF ReadFails
  <2>2. ASSUME NEW table \in [Buckets -> Nat], table[b] \in {rows[b], 0},
               rows' = Counted(table, r)
        PROVE  rows'[b] <= spent'[b]
    BY <1>1, <2>1, <2>2 DEF Counted, TypeOK
  <2>3. rows \in [Buckets -> Nat] /\ Kept(WindowOf(r)) \in [Buckets -> Nat]
        /\ Kept(WindowOf(r))[b] \in {rows[b], 0}
    BY KeptType, OwnBucket DEF TypeOK
  <2> QED
    BY <2>1, <2>2, <2>3
<1> QED
  BY <1>2, <1>3, <1>4, <1>5, <1>6 DEF Next

\* A bucket's history only grows.
LEMMA SpentGrows ==
    ASSUME TypeOK, [Next]_vars, NEW b \in Buckets
    PROVE  spent'[b] \in Nat /\ spent[b] \in Nat /\ spent'[b] >= spent[b]
<1>1. spent[b] \in Nat
  BY DEF TypeOK
<1>2. ASSUME NEW r \in Requests, Allow(r) \/ ReadFails(r)
      PROVE  spent'[b] \in {spent[b], spent[b] + 1}
  BY <1>2 DEF Allow, ReadFails, TypeOK
<1>3. ASSUME NEW r \in Requests, Begin(r) \/ Limit(r) \/ Fail(r) \/ Drop(r)
      PROVE  spent' = spent
  BY <1>3 DEF Begin, Limit, Fail, Drop
<1>4. ASSUME Tick \/ UNCHANGED vars PROVE spent' = spent
  BY <1>4 DEF Tick, vars
<1> QED
  BY <1>1, <1>2, <1>3, <1>4 DEF Next

\* A request enters "limited" by Limit alone, and its bucket stays the same while
\* it is there.
LEMMA LimitedFrom ==
    ASSUME TypeOK, [Next]_vars, NEW r \in Requests, pc'[r] = "limited"
    PROVE  /\ input'[r] = input[r] /\ readAt'[r] = readAt[r]
           /\ pc[r] = "limited" \/ Limit(r)
<1>1. ASSUME NEW q \in Requests, Begin(q)
      PROVE  pc[r] = "limited" /\ input' = input /\ readAt'[r] = readAt[r]
  BY <1>1 DEF Begin, TypeOK
<1>2. ASSUME NEW q \in Requests, Allow(q) \/ ReadFails(q) \/ Fail(q)
      PROVE  pc[r] = "limited" /\ UNCHANGED <<input, readAt>>
  BY <1>2 DEF Allow, ReadFails, Fail, TransactionEnds, TypeOK
<1>3. ASSUME NEW q \in Requests, Limit(q)
      PROVE  (pc[r] = "limited" \/ Limit(r)) /\ UNCHANGED <<input, readAt>>
  <2>1. CASE q = r
    BY <1>3, <2>1 DEF Limit
  <2>2. CASE q # r
    BY <1>3, <2>2 DEF Limit, TransactionEnds, TypeOK
  <2> QED
    BY <2>1, <2>2
<1>4. ASSUME NEW q \in Requests, Drop(q)
      PROVE  pc[r] = "limited" /\ UNCHANGED <<input, readAt>>
  BY <1>4 DEF Drop, TypeOK
<1>5. CASE Tick \/ UNCHANGED vars
  BY <1>5 DEF Tick, vars
<1> QED
  BY <1>1, <1>2, <1>3, <1>4, <1>5 DEF Next

\* Only requests that were counted use up a quota: a limited client finds it spent,
\* on any configuration, even one whose rows are purged too early.
THEOREM LimitedTheorem == Spec => []LimitedOnlyWhenSpent
<1>1. Init => RowsAreCovered /\ LimitedOnlyWhenSpent
  BY DEF Init, RowsAreCovered, LimitedOnlyWhenSpent
<1>2. TypeOK /\ RowsAreCovered /\ LimitedOnlyWhenSpent /\ [Next]_vars => LimitedOnlyWhenSpent'
  <2> SUFFICES ASSUME TypeOK, RowsAreCovered, LimitedOnlyWhenSpent, [Next]_vars,
                      NEW r \in Requests, pc'[r] = "limited"
               PROVE  spent'[Bucket(r)'] >= Quota[EndpointOf(r)']
    BY DEF LimitedOnlyWhenSpent
  <2>1. Bucket(r)' = Bucket(r) /\ EndpointOf(r)' = EndpointOf(r)
    BY LimitedFrom DEF Bucket, EndpointOf, WindowOf
  <2>2. Bucket(r) \in Buckets /\ Quota[EndpointOf(r)] \in Nat
    BY OwnBucket, ConfigAssumption
  <2>3. spent[Bucket(r)] >= Quota[EndpointOf(r)]
    <3>1. CASE pc[r] = "limited"
      BY <3>1 DEF LimitedOnlyWhenSpent
    <3>2. CASE Limit(r)
      <4> DEFINE kept == Kept(WindowOf(r))
      <4>1. ~(kept[Bucket(r)] < Quota[EndpointOf(r)])
        BY <3>2 DEF Limit, HasRoom
      <4>2. kept[Bucket(r)] \in {rows[Bucket(r)], 0}
        BY <2>2, KeptType, OwnBucket
      <4>3. rows[Bucket(r)] \in Nat /\ rows[Bucket(r)] <= spent[Bucket(r)]
        BY <2>2 DEF TypeOK, RowsAreCovered
      <4>4. spent[Bucket(r)] \in Nat
        BY <2>2 DEF TypeOK
      <4> HIDE DEF kept
      <4> QED
        BY <2>2, <4>1, <4>2, <4>3, <4>4
    <3> QED
      BY <3>1, <3>2, LimitedFrom
  <2> QED
    BY <2>1, <2>2, <2>3, SpentGrows
<1> QED
  BY <1>1, <1>2, CoveredStep, TypeCorrect, PTL DEF Spec

-----------------------------------------------------------------------------
\* What a request that its bucket allowed was told is what the bucket had left when
\* it was counted, so at least what is left now.
ToldWhatWasLeft ==
    \A r \in Requests \ misread : pc[r] = "allowed" =>
        /\ remaining[r] >= Quota[EndpointOf(r)] - spent[Bucket(r)]
        /\ remaining[r] < Quota[EndpointOf(r)]

\* A request whose check is not blind enters "allowed" by Allow alone, and keeps its
\* bucket there.
LEMMA AllowedFrom ==
    ASSUME IInv, [Next]_vars, NEW r \in Requests, pc'[r] = "allowed", r \notin misread'
    PROVE  /\ EndpointOf(r)' = EndpointOf(r) /\ Bucket(r)' = Bucket(r)
           /\ r \notin misread
           /\ \/ pc[r] = "allowed" /\ remaining'[r] = remaining[r] /\ ~Allow(r)
              \/ Allow(r) /\ pc[r] # "allowed"
<1> DEFINE Same == UNCHANGED input /\ readAt'[r] = readAt[r]
           Stays == pc[r] = "allowed" /\ remaining'[r] = remaining[r]
<1> USE DEF IInv
<1>1. ASSUME NEW q \in Requests, Begin(q) PROVE Same /\ Stays
  BY <1>1 DEF Begin, TypeOK
<1>2. ASSUME NEW q \in Requests, Limit(q) \/ Fail(q) PROVE Same /\ Stays
  BY <1>2 DEF Limit, Fail, TransactionEnds, TypeOK
<1>3. ASSUME NEW q \in Requests, Allow(q) PROVE Same /\ (Stays \/ Allow(r))
  <2>1. CASE q = r
    BY <1>3, <2>1 DEF Allow
  <2>2. CASE q # r
    BY <1>3, <2>2 DEF Allow, TransactionEnds, TypeOK
  <2> QED
    BY <2>1, <2>2
<1>4. ASSUME NEW q \in Requests, Drop(q) PROVE Same /\ Stays
  BY <1>4 DEF Drop, TypeOK
<1>5. ASSUME Tick \/ UNCHANGED vars PROVE Same /\ Stays
  BY <1>5 DEF Tick, vars
<1>6. ASSUME NEW q \in Requests, ReadFails(q) PROVE Same /\ Stays
  <2>1. q # r
    BY <1>6 DEF ReadFails
  <2> QED
    BY <1>6, <2>1 DEF ReadFails, TransactionEnds, TypeOK
<1>7. Same /\ (Stays \/ Allow(r))
  BY <1>1, <1>2, <1>3, <1>4, <1>5, <1>6 DEF Next
<1>8. Allow(r) => r \in pending /\ pc[r] # "allowed"
  BY DEF Allow, PendingHasBegun
<1>9. r \notin misread
  BY DEF Next, Begin, Allow, Limit, ReadFails, Fail, Drop, Tick, vars
<1> QED
  BY <1>7, <1>8, <1>9 DEF EndpointOf, Bucket, WindowOf

\* A request that is counted is told less than every one counted before it.
LEMMA CountedRemaining ==
    ASSUME WindowsFit, IInv, NEW r \in Requests, Allow(r)
    PROVE  /\ spent'[Bucket(r)] = spent[Bucket(r)] + 1
           /\ remaining'[r] = Quota[EndpointOf(r)] - (spent[Bucket(r)] + 1)
<1> DEFINE b == Bucket(r)
           kept == Kept(WindowOf(r))
<1>1. /\ rows' = [kept EXCEPT ![b] = kept[b] + 1]
      /\ spent' = [spent EXCEPT ![b] = spent[b] + 1]
      /\ remaining' = [remaining EXCEPT ![r] = Quota[EndpointOf(r)] - rows'[b]]
      /\ r \in pending
  BY DEF Allow, Counted
<1>2. /\ b \in Buckets /\ b[1] = EndpointOf(r) /\ b[3] = WindowOf(r)
      /\ kept \in [Buckets -> Nat]
  BY OwnBucket, KeptType DEF IInv
<1>3. kept[b] = rows[b] /\ rows[b] = spent[b]
  BY <1>1, <1>2, PurgeSparesUsable DEF IInv, RowsAreSpent
<1> HIDE DEF b, kept
<1> QED
  BY <1>1, <1>2, <1>3 DEF b, IInv, TypeOK

LEMMA ToldStep ==
    ASSUME WindowsFit, IInv, ToldWhatWasLeft, [Next]_vars
    PROVE  ToldWhatWasLeft'
<1>1. ASSUME NEW r \in Requests, pc'[r] = "allowed", r \notin misread'
      PROVE  /\ remaining'[r] >= Quota[EndpointOf(r)'] - spent'[Bucket(r)']
             /\ remaining'[r] < Quota[EndpointOf(r)']
  <2>1. /\ r \notin misread
        /\ EndpointOf(r)' = EndpointOf(r) /\ Bucket(r)' = Bucket(r)
        /\ \/ pc[r] = "allowed" /\ remaining'[r] = remaining[r]
           \/ Allow(r)
    BY <1>1, AllowedFrom
  <2>2. Bucket(r) \in Buckets /\ Quota[EndpointOf(r)] \in Nat /\ remaining[r] \in Nat
    BY OwnBucket, ConfigAssumption DEF IInv, TypeOK
  <2>3. /\ spent[Bucket(r)] \in Nat /\ spent'[Bucket(r)] \in Nat
        /\ spent'[Bucket(r)] >= spent[Bucket(r)]
    BY <2>2, SpentGrows DEF IInv
  <2>4. CASE Allow(r)
    BY <2>1, <2>2, <2>3, <2>4, CountedRemaining
  <2>5. CASE pc[r] = "allowed" /\ remaining'[r] = remaining[r]
    BY <1>1, <2>1, <2>2, <2>3, <2>5 DEF ToldWhatWasLeft
  <2> QED
    BY <2>1, <2>4, <2>5
<1> QED
  BY <1>1 DEF ToldWhatWasLeft

\* No two requests that a bucket allows are told that the same number remains: no
\* update of the counter is lost between concurrent transactions, though one that
\* reads blindly may tell its own request a number told before.
RemainingIsDistinct ==
    \A q, r \in Requests \ misread :
        /\ q # r /\ pc[q] = "allowed" /\ pc[r] = "allowed" /\ Bucket(q) = Bucket(r)
        => remaining[q] # remaining[r]

\* No update of a counter is lost: no two requests that a bucket allows on reading it
\* are told that the same number remains.
THEOREM RemainingTheorem ==
    ASSUME WindowsFit PROVE Spec => [](ToldWhatWasLeft /\ RemainingIsDistinct)
<1>1. Init => ToldWhatWasLeft /\ RemainingIsDistinct
  BY DEF Init, ToldWhatWasLeft, RemainingIsDistinct
<1>2. IInv /\ ToldWhatWasLeft /\ RemainingIsDistinct /\ [Next]_vars => RemainingIsDistinct'
  <2> SUFFICES ASSUME IInv, ToldWhatWasLeft, RemainingIsDistinct, [Next]_vars,
                      NEW q \in Requests, NEW r \in Requests, q # r,
                      q \notin misread', r \notin misread',
                      pc'[q] = "allowed", pc'[r] = "allowed", Bucket(q)' = Bucket(r)'
               PROVE  remaining'[q] # remaining'[r]
    BY DEF RemainingIsDistinct
  <2>1. /\ Bucket(q) = Bucket(r) /\ q \notin misread /\ r \notin misread
        /\ \/ pc[q] = "allowed" /\ remaining'[q] = remaining[q] /\ ~Allow(q)
           \/ Allow(q) /\ pc[q] # "allowed"
        /\ \/ pc[r] = "allowed" /\ remaining'[r] = remaining[r] /\ ~Allow(r)
           \/ Allow(r) /\ pc[r] # "allowed"
    BY AllowedFrom
  <2>2. ASSUME NEW x \in Requests, NEW y \in Requests, x # y, Bucket(x) = Bucket(y),
               Allow(x), pc[y] = "allowed", remaining'[y] = remaining[y],
               y \notin misread
        PROVE  remaining'[x] # remaining'[y]
    <3>1. EndpointOf(x) = EndpointOf(y) /\ Bucket(x) \in Buckets
      BY <2>2, OwnBucket DEF IInv
    <3>2. /\ Quota[EndpointOf(x)] \in Nat /\ spent[Bucket(x)] \in Nat
          /\ remaining[y] \in Nat
      BY <3>1, OwnBucket, ConfigAssumption DEF IInv, TypeOK
    <3>3. remaining[y] >= Quota[EndpointOf(x)] - spent[Bucket(x)]
      BY <2>2, <3>1 DEF ToldWhatWasLeft
    <3> QED
      BY <2>2, <3>2, <3>3, CountedRemaining
  <2>3. ~(Allow(q) /\ Allow(r))
    <3>1. SUFFICES ASSUME Allow(q), Allow(r) PROVE FALSE
      OBVIOUS
    <3>3. pending' = pending \ {q} /\ pending' = pending \ {r} /\ q \in pending /\ r \in pending
      BY <3>1 DEF Allow, TransactionEnds
    <3> QED
      BY <3>3
  <2>4. CASE pc[q] = "allowed" /\ pc[r] = "allowed"
    BY <2>1, <2>4 DEF RemainingIsDistinct
  <2> QED
    BY <2>1, <2>2, <2>3, <2>4
<1> QED
  BY <1>1, <1>2, ToldStep, Invariance, PTL DEF Spec

\* The requests that a bucket allowed on reading its row.
AllowedBy(b) == {r \in Requests \ misread : pc[r] = "allowed" /\ Bucket(r) = b}

\* At most as many requests as its quota hear from a bucket that they are allowed,
\* but for those whose SELECT failed, however many there are: what they are told
\* remains is different for each.
AllowedWithinQuota == \A b \in Buckets : Cardinality(AllowedBy(b)) <= Quota[b[1]]

THEOREM AllowedTheorem == ASSUME WindowsFit PROVE Spec => []AllowedWithinQuota
<1>1. TypeOK /\ ToldWhatWasLeft /\ RemainingIsDistinct => AllowedWithinQuota
  <2> SUFFICES ASSUME TypeOK, ToldWhatWasLeft, RemainingIsDistinct, NEW b \in Buckets
               PROVE  Cardinality(AllowedBy(b)) <= Quota[b[1]]
    BY DEF AllowedWithinQuota
  <2> DEFINE A == AllowedBy(b)
             n == Quota[b[1]]
             f == [r \in A |-> remaining[r]]
  <2>1. n \in Nat /\ n > 0
    BY ConfigAssumption DEF Buckets
  <2>2. \A r \in A : EndpointOf(r) = b[1]
    BY DEF Bucket, AllowedBy
  <2>3. \A r \in A : remaining[r] \in 0..n - 1
    <3> SUFFICES ASSUME NEW r \in A PROVE remaining[r] \in 0..n - 1
      OBVIOUS
    <3>1. remaining[r] \in Nat /\ remaining[r] < Quota[EndpointOf(r)]
      BY DEF TypeOK, ToldWhatWasLeft, AllowedBy
    <3>2. Quota[EndpointOf(r)] = n
      BY <2>2
    <3> HIDE DEF n
    <3> QED
      BY <2>1, <3>1, <3>2
  <2>4. f \in Injection(A, 0..n - 1)
    <3>1. f \in [A -> 0..n - 1]
      BY <2>3
    <3>2. \A q, r \in A : f[q] = f[r] => q = r
      BY DEF RemainingIsDistinct, AllowedBy
    <3> HIDE DEF f, A, n
    <3> QED
      BY <3>1, <3>2, Zenon DEF Injection, IsInjective
  <2>5. IsFiniteSet(0..n - 1) /\ Cardinality(0..n - 1) = n
    <3>1. 0 \in Int /\ n - 1 \in Int /\ ~(0 > n - 1) /\ (n - 1) - 0 + 1 = n
      BY <2>1
    <3> HIDE DEF n
    <3> QED
      BY <3>1, FS_Interval
  <2> HIDE DEF f, A, n
  <2>6. Cardinality(A) <= n
    BY <2>4, <2>5, FS_Injection
  <2> QED
    BY <2>6 DEF A, n
<1> QED
  BY <1>1, TypeCorrect, RemainingTheorem, PTL

-----------------------------------------------------------------------------
(***************************************************************************)
(* The refinement: a row that a check may still use holds what its bucket  *)
(* has counted, so a transaction decides on the promise's counter.         *)
(***************************************************************************)

LEMMA AllowMaps ==
    ASSUME WindowsFit, IInv, NEW r \in Requests, Allow(r)
    PROVE  Promise!Allow(r)
<1> DEFINE b == Bucket(r)
           kept == Kept(WindowOf(r))
<1>1. /\ kept[b] < Quota[EndpointOf(r)]
      /\ r \in pending
      /\ spent' = [spent EXCEPT ![b] = spent[b] + 1]
      /\ remaining' = [remaining EXCEPT ![r] = Quota[EndpointOf(r)] - rows'[b]]
      /\ rows' = [kept EXCEPT ![b] = kept[b] + 1]
      /\ UNCHANGED <<driver, now, input, readAt>>
  BY DEF Allow, HasRoom, Counted
<1>2. /\ b \in Buckets /\ b[1] = EndpointOf(r) /\ b[3] = WindowOf(r)
      /\ kept \in [Buckets -> Nat]
  BY OwnBucket, KeptType DEF IInv
<1>3. kept[b] = spent[b]
  BY <1>1, <1>2, PurgeSparesUsable DEF IInv, RowsAreSpent
<1>4. spent[b] \in Nat /\ Quota[b[1]] \in Nat
  BY <1>2, ConfigAssumption DEF IInv, TypeOK, Buckets
<1>5. remaining' = [remaining EXCEPT ![r] = Quota[b[1]] - spent[b] - 1]
  <2>1. rows'[b] = spent[b] + 1
    BY <1>1, <1>2, <1>3
  <2>2. Quota[b[1]] - (spent[b] + 1) = Quota[b[1]] - spent[b] - 1
    BY <1>4
  <2> HIDE DEF b
  <2> QED
    BY <1>1, <1>2, <2>1, <2>2
<1>6. UNCHANGED [q \in Requests |-> Bucket(q)]
  BY <1>1 DEF Bucket, EndpointOf, WindowOf
<1>7. Promise!Ends(r, "allowed") \/ Promise!Ends(r, "failed")
  BY DEF Allow, TransactionEnds, Promise!Ends
<1> QED
  BY <1>1, <1>2, <1>3, <1>5, <1>6, <1>7 DEF Promise!Allow

LEMMA BlindMaps ==
    ASSUME IInv, NEW r \in Requests, ReadFails(r)
    PROVE  Promise!AllowBlindly(r)
<1>1. /\ driver = "sqlite" /\ driver' = driver
      /\ r \in pending
      /\ spent' = [spent EXCEPT ![Bucket(r)] = spent[Bucket(r)] + 1]
      /\ remaining' = [remaining EXCEPT ![r] = Quota[EndpointOf(r)] - 1]
      /\ UNCHANGED <<input, readAt>>
  BY DEF ReadFails
<1>2. Bucket(r) \in Buckets /\ Bucket(r)[1] = EndpointOf(r)
  BY OwnBucket DEF IInv
<1>3. UNCHANGED [q \in Requests |-> Bucket(q)]
  BY <1>1 DEF Bucket, EndpointOf, WindowOf
<1>4. Promise!Ends(r, "allowed") \/ Promise!Ends(r, "failed")
  BY <1>1 DEF ReadFails, TransactionEnds, Promise!Ends
<1> QED
  BY <1>1, <1>2, <1>3, <1>4 DEF Promise!AllowBlindly

LEMMA LimitMaps ==
    ASSUME IInv, NEW r \in Requests, Limit(r)
    PROVE  Promise!Limit(r)
<1> DEFINE b == Bucket(r)
           kept == Kept(WindowOf(r))
<1>1. ~(kept[b] < Quota[EndpointOf(r)]) /\ UNCHANGED <<driver, now, input, readAt, remaining, spent>>
  BY DEF Limit, HasRoom
<1>2. /\ b \in Buckets /\ b[1] = EndpointOf(r)
      /\ kept[b] \in {rows[b], 0}
  BY OwnBucket, KeptType DEF IInv
<1>3. /\ spent[b] \in Nat /\ Quota[b[1]] \in Nat \ {0}
      /\ rows[b] \in Nat /\ rows[b] <= spent[b]
  BY <1>2, ConfigAssumption DEF IInv, TypeOK, RowsAreSpent, Buckets
<1>4. spent[b] >= Quota[b[1]]
  <2> HIDE DEF b, kept
  <2> QED
    BY <1>1, <1>2, <1>3
<1>5. UNCHANGED [q \in Requests |-> Bucket(q)]
  BY <1>1 DEF Bucket, EndpointOf, WindowOf
<1>6. Promise!Ends(r, "limited") \/ Promise!Ends(r, "failed")
  BY DEF Limit, TransactionEnds, Promise!Ends
<1> QED
  BY <1>1, <1>2, <1>4, <1>5, <1>6 DEF Promise!Limit

LEMMA BeginMaps ==
    ASSUME TypeOK, TypeOK', NEW r \in Requests, Begin(r)
    PROVE  Promise!Begin(r)
<1> DEFINE bucket == [q \in Requests |-> Bucket(q)]
<1>1. Bucket(r)' \in Buckets
  <2>1. \A q \in Requests : WindowStart(EndpointOf(q)', readAt'[q]) \in Nat
                           /\ WindowStart(EndpointOf(q)', readAt'[q]) <= readAt'[q]
    BY WindowAround, ConfigAssumption, SMTT(30) DEF TypeOK, EndpointOf, Starts
  <2>2. input'[r].endpoint \in Endpoints /\ input'[r].client \in Clients
        /\ readAt'[r] \in Nat /\ readAt'[r] <= MaxTime
    BY ConfigAssumption DEF TypeOK, Starts
  <2>3. WindowStart(EndpointOf(r)', readAt'[r]) \in Starts
    BY <2>1, <2>2, ConfigAssumption DEF Starts
  <2> QED
    BY <2>2, <2>3 DEF Bucket, EndpointOf, WindowOf, Buckets
<1>2. \A q \in Requests : q # r => Bucket(q)' = Bucket(q)
  BY DEF Begin, TypeOK, Bucket, EndpointOf, WindowOf
<1>3. bucket' = [bucket EXCEPT ![r] = bucket'[r]] /\ bucket'[r] \in Buckets
  BY <1>1, <1>2
<1> QED
  BY <1>3 DEF Begin, Promise!Begin

\* Transactions at any time after their clock readings, that purge the rows of every
\* endpoint, implement one counter for each bucket that is never lost, and that only
\* a check on SQLite may use blindly.
THEOREM Refinement == ASSUME WindowsFit PROVE Spec => KeepsPromise
<1>1. Init => Promise!Init
  <2> SUFFICES ASSUME Init PROVE Promise!Init
    OBVIOUS
  <2>1. TypeOK
    BY ConfigAssumption DEF Init, TypeOK, Starts
  <2> QED
    BY <2>1, OwnBucket DEF Init, Promise!Init
<1>2. IInv /\ TypeOK' /\ [Next]_vars => [Promise!Next]_(Promise!vars)
  <2> SUFFICES ASSUME IInv, TypeOK', [Next]_vars PROVE [Promise!Next]_(Promise!vars)
    OBVIOUS
  <2>1. ASSUME NEW r \in Requests, Begin(r) PROVE Promise!Next
    BY <2>1, BeginMaps DEF IInv, Promise!Next
  <2>2. ASSUME NEW r \in Requests, Allow(r) PROVE Promise!Next
    BY <2>2, AllowMaps DEF Promise!Next
  <2>3. ASSUME NEW r \in Requests, Limit(r) PROVE Promise!Next
    BY <2>3, LimitMaps DEF Promise!Next
  <2>4. ASSUME NEW r \in Requests, Fail(r) PROVE Promise!Next
    <3>1. UNCHANGED [q \in Requests |-> Bucket(q)]
      BY <2>4 DEF Fail, Bucket, EndpointOf, WindowOf
    <3> QED
      BY <2>4, <3>1 DEF Fail, TransactionEnds, Promise!Next, Promise!Fail, Promise!Ends
  <2>5. ASSUME NEW r \in Requests, Drop(r) PROVE Promise!Next
    <3>1. UNCHANGED [q \in Requests |-> Bucket(q)]
      BY <2>5 DEF Drop, Bucket, EndpointOf, WindowOf
    <3> QED
      BY <2>5, <3>1 DEF Drop, Promise!Next, Promise!GiveUp
  <2>6. CASE Tick \/ UNCHANGED vars
    BY <2>6 DEF Tick, vars, Promise!vars, Bucket, EndpointOf, WindowOf
  <2>7. ASSUME NEW r \in Requests, ReadFails(r) PROVE Promise!Next
    BY <2>7, BlindMaps DEF Promise!Next
  <2> QED
    BY <2>1, <2>2, <2>3, <2>4, <2>5, <2>6, <2>7 DEF Next
<1> QED
  BY <1>1, <1>2, Invariance, TypeCorrect, PTL DEF Spec, KeepsPromise, Promise!Spec

=============================================================================
