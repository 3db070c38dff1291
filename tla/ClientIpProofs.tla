--------------------------- MODULE ClientIpProofs ---------------------------
(***************************************************************************)
(* Proofs about ClientIp for any hosts, trusted networks, paths and        *)
(* headers.                                                                *)
(***************************************************************************)
EXTENDS ClientIp, TLAPS

LEMMA WrittenIsSeq == Written \subseteq Seq(Entries)
BY BoundsAssumption DEF Written

\* What every hop does to the header.
LEMMA HopType ==
    ASSUME TypeOK, NEW h \in Hosts, Hop(h)
    PROVE  /\ path' = Append(path, h) /\ path' \in Seq(Hosts) /\ Len(path') = Len(path) + 1
           /\ UNCHANGED <<configured, trusted, answer>> /\ answer = NoAnswer
           /\ first' \in Seq(Entries) /\ more' \in Seq(Entries)
           /\ origin' \in 0..Len(path') /\ honest' \in BOOLEAN
<1> USE DEF TypeOK
<1>1. /\ path' = Append(path, h) /\ path' \in Seq(Hosts) /\ Len(path') = Len(path) + 1
      /\ UNCHANGED <<configured, trusted, answer>> /\ answer = NoAnswer
  BY DEF Hop
<1>2. CASE Make(h)
  <2>1. first' \in Seq(Entries)
    BY <1>2, WrittenIsSeq DEF Make
  <2>2. more' \in Seq(Entries)
    BY <1>2, WrittenIsSeq DEF Make
  <2>3. honest' \in BOOLEAN
    BY <1>2 DEF Make
  <2> QED
    BY <1>1, <1>2, <2>1, <2>2, <2>3 DEF Make
<1>3. CASE Originate(h)
  BY <1>1, <1>3 DEF Originate
<1>4. CASE PassOn(h)
  <2>1. path[Len(path)] \in Entries
    BY <1>4 DEF PassOn, Entries
  <2>2. (first \o more) \o <<path[Len(path)]>> \in Seq(Entries)
    BY <2>1
  <2> QED
    BY <1>1, <1>4, <2>2 DEF PassOn
<1> QED
  BY <1>1, <1>2, <1>3, <1>4 DEF Hop

\* The rightmost of a set of positions.
LEMMA Rightmost ==
    ASSUME NEW S, NEW i \in S, S \subseteq Int, \A j \in S : j <= i
    PROVE  (CHOOSE k \in S : \A j \in S : j <= k) = i
<1> DEFINE m == CHOOSE k \in S : \A j \in S : j <= k
<1>1. m \in S /\ \A j \in S : j <= m
  OBVIOUS
<1> HIDE DEF m
<1>2. m \in Int /\ i \in Int /\ i <= m /\ m <= i
  BY <1>1
<1>3. m = i
  BY <1>2
<1> QED
  BY <1>3 DEF m

\* If the header tells the path, reading it from the right finds the origin.
LEMMA ClientIsOrigin ==
    ASSUME TypeOK, OriginIsLast, HeaderTellsPath, path # <<>>, Peer \in trusted
    PROVE  ClientOf(first) = IF origin # 0 THEN path[origin] ELSE Peer
<1>0. Len(path) \in Nat /\ Len(path) >= 1 /\ DOMAIN path = 1..Len(path)
      /\ Len(first) \in Nat /\ DOMAIN first = 1..Len(first) /\ origin \in 0..Len(path)
  BY DEF TypeOK
<1>1. origin < Len(path)
  BY <1>0 DEF OriginIsLast, Peer
\* The positions of the header that the trusted proxies have written.
<1>2. ASSUME NEW n \in DOMAIN first, n > Len(first) - (Len(path) - 1 - origin)
      PROVE  first[n] \in trusted
  <2> DEFINE i == n - Len(first) + (Len(path) - 1)
  <2>1. i \in DOMAIN path /\ origin <= i /\ i < Len(path) /\ i > origin
    BY <1>0, <1>1, <1>2
  <2>2. Len(first) - (Len(path) - 1 - i) = n
    BY <1>0
  <2>3. first[n] = path[i]
    BY <2>1, <2>2 DEF HeaderTellsPath
  <2> QED
    BY <2>1, <2>3 DEF OriginIsLast
<1>3. CASE origin = 0
  <2>1. Len(first) = Len(path) - 1
    BY <1>3 DEF HeaderTellsPath
  <2>2. Untrusted(first) = {}
    BY <1>0, <1>2, <1>3, <2>1 DEF Untrusted
  <2> QED
    BY <1>3, <2>2 DEF ClientOf
<1>4. CASE origin # 0
  <2> DEFINE m == Len(first) - (Len(path) - 1 - origin)
  <2>1. m \in DOMAIN first /\ origin \in DOMAIN path
    <3>1. Len(first) >= Len(path) - origin
      BY <1>1, <1>4 DEF HeaderTellsPath
    <3>2. m \in 1..Len(first) /\ origin \in 1..Len(path)
      BY <1>0, <1>1, <1>4, <3>1
    <3> QED
      BY <1>0, <3>2
  <2>2. first[m] = path[origin]
    BY <1>1, <2>1 DEF HeaderTellsPath
  <2>3. m \in Untrusted(first)
    BY <1>4, <2>1, <2>2 DEF OriginIsLast, Untrusted
  <2>4. \A j \in Untrusted(first) : j <= m
    BY <1>0, <1>2 DEF Untrusted
  <2>5. Untrusted(first) \subseteq Int
    BY <1>0 DEF Untrusted
  <2> HIDE DEF m
  <2>6. (CHOOSE k \in Untrusted(first) : \A j \in Untrusted(first) : j <= k) = m
    BY <2>3, <2>4, <2>5, Rightmost
  <2> QED
    BY <1>4, <2>2, <2>3, <2>6 DEF ClientOf
<1> QED
  BY <1>3, <1>4

LEMMA HopKeepsPath ==
    ASSUME TypeOK, OriginIsLast, HeaderTellsPath, NEW h \in Hosts, Hop(h)
    PROVE  OriginIsLast' /\ HeaderTellsPath'
<1> USE DEF TypeOK
<1>9. Len(path) \in Nat /\ Len(first) \in Nat /\ origin \in Nat /\ origin <= Len(path)
  OBVIOUS
<1>0. /\ Len(path) \in Nat /\ Len(first) \in Nat /\ Len(more) \in Nat
      /\ DOMAIN path = 1..Len(path) /\ DOMAIN path' = 1..(Len(path) + 1)
      /\ path'[Len(path) + 1] = h /\ \A i \in DOMAIN path : path'[i] = path[i]
      /\ Len(path') = Len(path) + 1 /\ path' # <<>> /\ trusted' = trusted
  <2>1. path' = Append(path, h) /\ path' \in Seq(Hosts) /\ trusted' = trusted
    BY HopType
  <2> QED
    BY <2>1, SMTT(30)
<1>1. CASE Make(h)
  <2>1. origin' = Len(path) + 1 /\ h \notin trusted
    BY <1>1 DEF Make
  <2>2. OriginIsLast'
    BY <1>0, <2>1 DEF OriginIsLast
  <2>3. /\ ~(origin' < Len(path'))
        /\ \A i \in DOMAIN path' : ~(origin' <= i /\ i < Len(path'))
    BY <1>0, <2>1
  <2>4. HeaderTellsPath'
    BY <1>0, <2>3 DEF HeaderTellsPath
  <2> QED
    BY <2>2, <2>4
<1>2. CASE Originate(h)
  <2>1. path = <<>> /\ Len(path) = 0 /\ h \in trusted /\ UNCHANGED <<first, more, origin>>
    BY <1>2 DEF Originate
  <2>2. origin = 0 /\ first = <<>> /\ more = <<>>
    BY <2>1 DEF HeaderTellsPath
  <2>3. OriginIsLast'
    BY <1>0, <2>1, <2>2 DEF OriginIsLast
  <2>4. HeaderTellsPath'
    BY <1>0, <2>1, <2>2 DEF HeaderTellsPath
  <2> QED
    BY <2>3, <2>4
<1>3. CASE PassOn(h)
  <2> DEFINE joined == first \o more
  <2>1. /\ h \in trusted /\ path # <<>> /\ more' = <<>> /\ origin' = origin
        /\ first' = joined \o <<path[Len(path)]>>
    BY <1>3 DEF PassOn
  <2>2. /\ joined \in Seq(Entries) /\ Len(joined) = Len(first) + Len(more)
        /\ path[Len(path)] \in Entries
    BY <1>0, <2>1 DEF Entries
  <2>3. /\ Len(first') = Len(joined) + 1 /\ first'[Len(joined) + 1] = path[Len(path)]
        /\ \A n \in 1..Len(joined) : first'[n] = joined[n]
    BY <2>1, <2>2
  <2>7. origin # 0 => origin \in DOMAIN path
    BY <1>0
  <2>8. ASSUME NEW i \in DOMAIN path', i > origin PROVE path'[i] \in trusted
    BY <1>0, <2>1, <2>8, SMTT(30) DEF OriginIsLast
  <2>4. OriginIsLast'
    BY <1>0, <2>1, <2>7, <2>8 DEF OriginIsLast
  <2>5. CASE origin = Len(path)
    <3>1. origin # 0
      BY <1>0, <2>1, <2>5
    <3>2. Len(first') >= Len(path') - origin'
      BY <1>0, <2>1, <2>2, <2>3, <2>5
    <3>3. ASSUME NEW i \in DOMAIN path', origin' <= i, i < Len(path')
          PROVE  first'[Len(first') - (Len(path') - 1 - i)] = path'[i]
      <4>1. i = Len(path) /\ i \in DOMAIN path
        BY <1>0, <2>1, <2>5, <3>1, <3>3
      <4>2. Len(first') - (Len(path') - 1 - i) = Len(joined) + 1
        BY <1>0, <2>2, <2>3, <4>1
      <4> QED
        BY <1>0, <2>3, <4>1, <4>2
    <3>4. path' # <<>> /\ more' = <<>> /\ origin' # 0
      BY <1>0, <2>1, <3>1
    <3>5. \A i \in DOMAIN path' : origin' <= i /\ i < Len(path') =>
             first'[Len(first') - (Len(path') - 1 - i)] = path'[i]
      BY <3>3, <3>4
    <3>6. (path = <<>> => first = <<>> /\ more = <<>>)'
      BY <3>4
    <3>7. (origin < Len(path) =>
              /\ more = <<>>
              /\ origin = 0 => Len(first) = Len(path) - 1
              /\ origin # 0 => Len(first) >= Len(path) - origin)'
      BY <3>4, <3>2
    <3> QED
      BY <2>4, <3>5, <3>6, <3>7, Zenon DEF HeaderTellsPath
  <2>6. CASE origin < Len(path)
    <3>1. more = <<>> /\ joined = first
      BY <2>6 DEF HeaderTellsPath
    <3>2. ASSUME NEW i \in DOMAIN path', origin <= i, i < Len(path')
          PROVE  first'[Len(first') - (Len(path') - 1 - i)] = path'[i]
      <4>1. CASE i = Len(path)
        BY <1>0, <2>1, <2>3, <4>1
      <4>2. CASE i # Len(path)
        <5>1. i \in DOMAIN path /\ i < Len(path)
          BY <1>0, <3>2, <4>2
        <5>2. first[Len(first) - (Len(path) - 1 - i)] = path[i]
          BY <3>2, <5>1 DEF HeaderTellsPath
        <5>5. /\ origin = 0 => Len(first) = Len(path) - 1
              /\ origin # 0 => Len(first) >= Len(path) - origin
          BY <2>6 DEF HeaderTellsPath
        <5>3. Len(first) - (Len(path) - 1 - i) \in 1..Len(first)
          <6>1. i \in Nat /\ i >= 1 /\ origin <= i /\ i < Len(path)
            BY <1>0, <3>2, <5>1
          <6> HIDE DEF TypeOK
          <6> QED
            BY <1>9, <5>5, <6>1
        <5>4. Len(first') - (Len(path') - 1 - i) = Len(first) - (Len(path) - 1 - i)
          BY <1>0, <2>2, <2>3, <3>1, <5>1
        <5> QED
          BY <1>0, <2>2, <2>3, <3>1, <5>1, <5>2, <5>3, <5>4
      <4> QED
        BY <4>1, <4>2
    <3>3. /\ origin' = 0 => Len(first') = Len(path') - 1
          /\ origin' # 0 => Len(first') >= Len(path') - origin'
      <4>1. /\ origin = 0 => Len(first) = Len(path) - 1
            /\ origin # 0 => Len(first) >= Len(path) - origin
        BY <2>6 DEF HeaderTellsPath
      <4>2. /\ Len(first') = Len(first) + 1 /\ Len(path') = Len(path) + 1
            /\ origin' = origin
        BY <1>0, <2>1, <2>3, <3>1
      <4> HIDE DEF TypeOK
      <4> QED
        BY <1>9, <4>1, <4>2
    <3>4. path' # <<>> /\ more' = <<>> /\ origin' = origin
      BY <1>0, <2>1
    <3>5. \A i \in DOMAIN path' : origin' <= i /\ i < Len(path') =>
             first'[Len(first') - (Len(path') - 1 - i)] = path'[i]
      BY <3>2, <3>4
    <3>6. (path = <<>> => first = <<>> /\ more = <<>>)'
      BY <3>4
    <3>7. (origin < Len(path) =>
              /\ more = <<>>
              /\ origin = 0 => Len(first) = Len(path) - 1
              /\ origin # 0 => Len(first) >= Len(path) - origin)'
      BY <3>4, <3>3
    <3> QED
      BY <2>4, <3>5, <3>6, <3>7, Zenon DEF HeaderTellsPath
  <2> QED
    BY <1>9, <2>4, <2>5, <2>6
<1> QED
  BY <1>1, <1>2, <1>3 DEF Hop

LEMMA HopKeepsHonesty ==
    ASSUME TypeOK, Honesty, OriginIsLast, NEW h \in Hosts, Hop(h)
    PROVE  Honesty'
<1> USE DEF TypeOK
<1>1. CASE Make(h)
  BY <1>1 DEF Make, Honesty, Malformed
<1>2. CASE Originate(h)
  BY <1>2 DEF Originate, Honesty, Malformed
<1>3. CASE PassOn(h)
  <2>1. path[Len(path)] \in Hosts /\ path[Len(path)] # Garbled
    BY <1>3, NamesAssumption DEF PassOn
  <2>2. ASSUME honest, NEW n \in DOMAIN first' PROVE first'[n] # Garbled
    <3>1. /\ \A i \in 1..Len(first) : first[i] # Garbled
          /\ \A i \in 1..Len(more) : more[i] # Garbled
      BY <2>2 DEF Honesty, Malformed
    <3> QED
      BY <1>3, <2>1, <2>2, <3>1 DEF PassOn
  <2> QED
    BY <1>3, <2>2 DEF PassOn, Honesty, Malformed
<1> QED
  BY <1>1, <1>2, <1>3 DEF Hop

LEMMA ResolveKeeps == IInv /\ Resolve => IInv'
<1> SUFFICES ASSUME IInv, Resolve PROVE IInv'
  OBVIOUS
<1>0. UNCHANGED <<configured, trusted, path, first, more, origin, honest>> /\ path # <<>>
  BY DEF Resolve
<1>1. OriginIsLast' /\ HeaderTellsPath' /\ Honesty'
  BY <1>0 DEF IInv, OriginIsLast, HeaderTellsPath, Honesty, Malformed
<1>2. Peer \in Hosts /\ Peer' = Peer
  BY <1>0 DEF IInv, TypeOK, Peer
<1>3. CASE PeerIsClient
  <2>1. answer' = Peer /\ (configured => Peer \notin trusted)
    BY <1>3 DEF PeerIsClient, HeaderCounts
  <2>2. configured => origin = Len(path)
    BY <1>0, <2>1 DEF IInv, TypeOK, OriginIsLast, Peer
  <2>3. IdentityIsOrigin'
    BY <1>0, <1>2, <2>1, <2>2 DEF IdentityIsOrigin, Peer
  <2>4. TypeOK' /\ HonestIsAnswered'
    BY <1>0, <1>2, <2>1, NamesAssumption DEF IInv, TypeOK, HonestIsAnswered
  <2> QED
    BY <1>1, <2>3, <2>4 DEF IInv
<1>4. CASE HeaderRefused
  <2>1. answer' = Rejected /\ Peer \in trusted /\ (first = <<>> \/ Malformed(first))
    BY <1>4 DEF HeaderRefused, HeaderCounts
  <2>2. origin < Len(path)
    BY <1>0, <2>1 DEF IInv, TypeOK, OriginIsLast, Peer
  <2>3. first = <<>> => Len(path) = 1
    BY <1>0, <2>2 DEF IInv, TypeOK, HeaderTellsPath
  <2>4. HonestIsAnswered'
    BY <1>0, <2>1, <2>3 DEF IInv, Honesty, HonestIsAnswered
  <2>5. TypeOK' /\ IdentityIsOrigin'
    BY <1>0, <2>1, NamesAssumption DEF IInv, TypeOK, IdentityIsOrigin
  <2> QED
    BY <1>1, <2>4, <2>5 DEF IInv
<1>5. CASE HeaderIsRead
  <2>1. answer' = ClientOf(first) /\ Peer \in trusted /\ configured
    BY <1>5 DEF HeaderIsRead, HeaderCounts
  <2>2. answer' = IF origin # 0 THEN path[origin] ELSE Peer
    BY <1>0, <2>1, ClientIsOrigin DEF IInv
  <2>3. answer' \in Hosts
    BY <1>0, <1>2, <2>2 DEF IInv, TypeOK
  <2>4. TypeOK' /\ IdentityIsOrigin' /\ HonestIsAnswered'
    BY <1>0, <1>2, <2>1, <2>2, <2>3, NamesAssumption
    DEF IInv, TypeOK, IdentityIsOrigin, HonestIsAnswered, Peer
  <2> QED
    BY <1>1, <2>4 DEF IInv
<1> QED
  BY <1>3, <1>4, <1>5 DEF Resolve

LEMMA Inductive == IInv /\ [Next]_vars => IInv'
<1> SUFFICES ASSUME IInv, [Next]_vars PROVE IInv'
  OBVIOUS
<1>1. ASSUME NEW h \in Hosts, Hop(h) PROVE IInv'
  <2>1. OriginIsLast' /\ HeaderTellsPath' /\ Honesty'
    BY <1>1, HopKeepsPath, HopKeepsHonesty DEF IInv
  <2>2. TypeOK'
    <3>1. Len(path) < MaxHops /\ TypeOK /\ Len(path) \in Nat
      BY <1>1 DEF Hop, IInv, TypeOK
    <3>2. Len(path') <= MaxHops
      BY <1>1, <3>1, HopType, BoundsAssumption
    <3> QED
      BY <1>1, <3>1, <3>2, HopType DEF TypeOK
  <2>3. IdentityIsOrigin' /\ HonestIsAnswered'
    BY <1>1, HopType, NamesAssumption DEF IInv, IdentityIsOrigin, HonestIsAnswered
  <2> QED
    BY <2>1, <2>2, <2>3 DEF IInv
<1>2. CASE Resolve
  BY <1>2, ResolveKeeps
<1>3. CASE UNCHANGED vars
  BY <1>3 DEF vars, IInv, TypeOK, OriginIsLast, HeaderTellsPath, Honesty, Malformed,
              IdentityIsOrigin, HonestIsAnswered, Peer
<1> QED
  BY <1>1, <1>2, <1>3 DEF Next

LEMMA Invariance == Spec => []IInv
<1>1. Init => IInv
  BY BoundsAssumption, NamesAssumption
  DEF Init, IInv, TypeOK, OriginIsLast, HeaderTellsPath, Honesty, Malformed,
      IdentityIsOrigin, HonestIsAnswered
<1> QED
  BY <1>1, Inductive, PTL DEF Spec

\* Every variable keeps its type.
THEOREM TypeCorrect == Spec => []TypeOK
BY Invariance, PTL DEF IInv

\* Whatever the hosts of a path write into the header, a client is identified by
\* the last of them that is not a trusted proxy.
THEOREM IdentityTheorem == Spec => []IdentityIsOrigin
BY Invariance, PTL DEF IInv

\* A request of a client that sent no malformed header is never refused for its header.
THEOREM HonestTheorem == Spec => []HonestIsAnswered
BY Invariance, PTL DEF IInv

=============================================================================
