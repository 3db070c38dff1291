--------------------------- MODULE LifecycleProofs ---------------------------
(***************************************************************************)
(* Proofs about Configuration and Lifecycle for any set of configurations, *)
(* texts and requests.                                                     *)
(***************************************************************************)
EXTENDS Lifecycle, SequenceTheorems, FiniteSetTheorems, WellFoundedInduction, TLAPS

(***************************************************************************)
(* Configuration: what validation establishes, field by field.             *)
(***************************************************************************)

LEMMA StepsResolve ==
    ASSUME NEW c, NEW e, NEW i \in DOMAIN e.steps,
           SharedProfilesValid(c), WorkflowValid(c, e),
           e.steps[i].kind \in {"task", "store", "http.request", "respond"}
    PROVE  StepResolves(c, e.steps[i])
<1> DEFINE s == e.steps[i]
<1>1. StepValid(c, s)
  BY DEF WorkflowValid
<1>2. CASE s.kind = "task"
  BY <1>1, <1>2 DEF StepValid, StepResolves
<1>3. CASE s.kind = "store"
  BY <1>1, <1>3 DEF StepValid, StepResolves
<1>4. CASE s.kind = "http.request"
  <2>1. \/ s.url \notin {None, ""}
        \/ s.transport \in DOMAIN c.transports
    BY <1>1, <1>4 DEF StepValid
  <2>2. s.transport \in DOMAIN c.transports => c.transports[s.transport] # ""
    BY DEF SharedProfilesValid
  <2> QED
    BY <1>4, <2>1, <2>2 DEF StepResolves
<1>5. CASE s.kind = "respond"
  BY <1>5 DEF StepResolves
<1> QED
  BY <1>2, <1>3, <1>4, <1>5

LEMMA AcceptedResolve ==
    ASSUME NEW c, EnumsKnown(c), Accepts(c), NEW i \in DOMAIN c.endpoints
    PROVE  ReferencesResolve(c, c.endpoints[i])
<1> DEFINE e == c.endpoints[i]
<1>1. ActionValid(c, e) /\ SecurityValid(c, e) /\ IdempotencyValid(c, e)
      /\ SharedProfilesValid(c)
  BY DEF Accepts
<1>2. e.action \in {"task.run", "workflow.run", "respond.static", "job.get"}
  BY DEF EnumsKnown
<1>3. /\ {e.challenge, e.x402} \subseteq TaskNames(c) \cup {None}
      /\ e.rate_limit # None => e.rate_limit.store \in DOMAIN c.stores
  BY <1>1 DEF SecurityValid, KeepsRows
<1>4. e.idempotency # None => e.idempotency.store \in DOMAIN c.stores
  BY <1>1 DEF IdempotencyValid, KeepsRows
<1>5. CASE e.action = "task.run"
  BY <1>1, <1>3, <1>4, <1>5 DEF ActionValid, ReferencesResolve
<1>6. CASE e.action = "workflow.run"
  <2>1. WorkflowValid(c, e)
    BY <1>1, <1>6 DEF ActionValid
  <2>2. \A n \in DOMAIN e.steps : StepResolves(c, e.steps[n])
    BY <1>1, <2>1, StepsResolve DEF EnumsKnown
  <2> QED
    BY <1>3, <1>4, <1>6, <2>2 DEF ReferencesResolve
<1>7. CASE e.action = "respond.static"
  BY <1>1, <1>3, <1>4, <1>7 DEF ActionValid, ReferencesResolve
<1>8. CASE e.action = "job.get"
  BY <1>3, <1>4, <1>8 DEF ReferencesResolve
<1> QED
  BY <1>2, <1>5, <1>6, <1>7, <1>8

(***************************************************************************)
(* Configuration: the scanner against the definition of an expansion.      *)
(*                                                                         *)
(* The scanner is a recursive function over the positions of a text, and   *)
(* the definition says position by position what each contributes.  That   *)
(* they agree goes by induction over positions, from the end of the text   *)
(* backwards for the scanner (PositionsDown) and forwards for the          *)
(* concatenation (PositionsUp): both in terms of a set of positions, from  *)
(* the well-foundedness of < (LeastMember).                                *)
(***************************************************************************)

(***************************************************************************)
(* Induction over positions.                                               *)
(***************************************************************************)
Below == {ss \in Nat \X Nat : ss[1] < ss[2]}

LEMMA BelowIsWellFounded == IsWellFoundedOn(Below, Nat)
BY NatLessThanWellFounded DEF OpToRel, Below

LEMMA LeastMember ==
    ASSUME NEW S, S \subseteq Nat, S # {}
    PROVE  \E n \in S : \A m \in S : n <= m
<1>1. PICK n \in S : \A m \in S : ~(<<m, n>> \in Below)
  BY WFMin, BelowIsWellFounded
<1>2. ASSUME NEW m \in S PROVE n <= m
  <2>1. m \in Nat /\ n \in Nat /\ ~(<<m, n>> \in Below)
    BY <1>1
  <2> QED
    BY <2>1 DEF Below
<1> QED
  BY <1>2

\* A set of positions that has every position whose predecessors it has.
LEMMA PositionsUp ==
    ASSUME NEW N \in Nat, NEW S,
           \A i \in 1..N : (\A j \in 1..N : j < i => j \in S) => i \in S
    PROVE  1..N \subseteq S
<1> SUFFICES ASSUME NEW i \in 1..N, i \notin S PROVE FALSE
  OBVIOUS
<1> DEFINE T == (1..N) \ S
<1>1. PICK n \in T : \A m \in T : n <= m
  <2>1. T \subseteq Nat /\ T # {}
    OBVIOUS
  <2> HIDE DEF T
  <2> QED
    BY <2>1, LeastMember
<1>2. ASSUME NEW j \in 1..N, j < n PROVE j \in S
  BY <1>1, <1>2
<1> QED
  BY <1>1, <1>2

\* The same from the end.
LEMMA PositionsDown ==
    ASSUME NEW N \in Nat, NEW S,
           \A i \in 1..N : (\A j \in 1..N : i < j => j \in S) => i \in S
    PROVE  1..N \subseteq S
<1> SUFFICES ASSUME NEW i \in 1..N, i \notin S PROVE FALSE
  OBVIOUS
<1> DEFINE T == {n \in Nat : n < N /\ N - n \notin S}
<1>1. N - i \in T
  OBVIOUS
<1>2. PICK n \in T : \A m \in T : n <= m
  <2>1. T \subseteq Nat /\ T # {}
    BY <1>1
  <2> HIDE DEF T
  <2> QED
    BY <2>1, LeastMember
<1>3. N - n \in 1..N /\ N - n \notin S
  BY <1>2
<1>4. ASSUME NEW j \in 1..N, N - n < j PROVE j \in S
  <2>1. N - j \in Nat /\ N - j < N /\ ~(N - j \in T) /\ N - (N - j) = j
    BY <1>2, <1>4
  <2> QED
    BY <2>1
<1> QED
  BY <1>3, <1>4

(***************************************************************************)
(* The recursive functions satisfy their equations.                        *)
(***************************************************************************)

\* What follows a reference lies behind it.
LEMMA CloseIsAfter ==
    ASSUME NEW raw \in Seq(STRING), NEW i \in 1..Len(raw)
    PROVE  LET j == CloseAfter(raw, i) IN
           \/ j = 0 /\ \A k \in DOMAIN raw : k > i => raw[k] # "close"
           \/ /\ j \in i + 1..Len(raw) /\ raw[j] = "close"
              /\ \A k \in DOMAIN raw : k > i /\ raw[k] = "close" => j <= k
<1>0. Len(raw) \in Nat /\ DOMAIN raw = 1..Len(raw)
  BY LenProperties
<1>1. CASE ~\E j \in DOMAIN raw : j > i /\ raw[j] = "close"
  BY <1>1 DEF CloseAfter
<1>2. CASE \E j \in DOMAIN raw : j > i /\ raw[j] = "close"
  <2> DEFINE C == {j \in DOMAIN raw : j > i /\ raw[j] = "close"}
  <2>1. \E j \in C : \A k \in C : j <= k
    <3>1. C \subseteq Nat /\ C # {}
      BY <1>0, <1>2
    <3> HIDE DEF C
    <3> QED
      BY <3>1, LeastMember
  <2>2. \E j \in DOMAIN raw : /\ j > i /\ raw[j] = "close"
                              /\ \A k \in DOMAIN raw : k > i /\ raw[k] = "close" => j <= k
    BY <2>1
  <2> DEFINE First(j) == /\ j > i /\ raw[j] = "close"
                         /\ \A k \in DOMAIN raw : k > i /\ raw[k] = "close" => j <= k
  <2>3. CloseAfter(raw, i) = CHOOSE j \in DOMAIN raw : First(j)
    BY <1>2 DEF CloseAfter
  <2>4. CloseAfter(raw, i) \in DOMAIN raw /\ First(CloseAfter(raw, i))
    <3>1. \E j \in DOMAIN raw : First(j)
      BY <2>2
    <3> HIDE DEF First
    <3> QED
      BY <2>3, <3>1
  <2> QED
    BY <1>0, <2>4
<1> QED
  BY <1>1, <1>2

\* The text from i on depends on later positions alone.
LEMMA ExpandAtLocal ==
    ASSUME NEW raw \in Seq(STRING), NEW i \in 1..Len(raw) + 1, NEW g, NEW h,
           \A k \in i + 1..Len(raw) + 1 : g[k] = h[k]
    PROVE  ExpandAt(raw, g, i) = ExpandAt(raw, h, i)
<1>0. Len(raw) \in Nat
  BY LenProperties
<1>1. CASE i > Len(raw)
  BY <1>1 DEF ExpandAt
<1>2. CASE i <= Len(raw) /\ raw[i] # "open"
  <2>1. i + 1 \in i + 1..Len(raw) + 1
    BY <1>0, <1>2
  <2> QED
    BY <1>2, <2>1 DEF ExpandAt
<1>3. CASE i <= Len(raw) /\ raw[i] = "open"
  <2> DEFINE j == CloseAfter(raw, i)
  <2>1. j # 0 => j \in i + 1..Len(raw)
    <3>1. i \in 1..Len(raw)
      BY <1>0, <1>3
    <3> QED
      BY <3>1, CloseIsAfter
  <2>2. j # 0 => g[j + 1] = h[j + 1]
    <3>1. j # 0 => j + 1 \in i + 1..Len(raw) + 1
      <4> HIDE DEF j
      <4> QED
        BY <1>0, <2>1
    <3> QED
      BY <3>1
  <2> QED
    BY <1>3, <2>2 DEF ExpandAt
<1> QED
  BY <1>0, <1>1, <1>2, <1>3

LEMMA ExpandedUnfolds ==
    ASSUME NEW raw \in Seq(STRING)
    PROVE  Expanded(raw) = [i \in 1..Len(raw) + 1 |-> ExpandAt(raw, Expanded(raw), i)]
<1> DEFINE N == Len(raw) + 1
           From(g, i) == g = [k \in i..N |-> ExpandAt(raw, g, k)]
           S == {i \in 1..N : \E g : From(g, i)}
<1>0. Len(raw) \in Nat
  BY LenProperties
<1>1. ASSUME NEW i \in 1..N, \A j \in 1..N : i < j => j \in S
      PROVE  i \in S
  <2>1. PICK g : \A k \in i + 1..N : g[k] = ExpandAt(raw, g, k)
    <3>1. CASE i = N
      BY <3>1
    <3>2. CASE i < N
      <4>1. i + 1 \in S
        BY <1>1, <3>2
      <4> QED
        BY <4>1
    <3> QED
      BY <3>1, <3>2
  <2> DEFINE h == [k \in i..N |-> IF k = i THEN ExpandAt(raw, g, i) ELSE g[k]]
  <2>2. ASSUME NEW k \in i..N PROVE h[k] = ExpandAt(raw, h, k)
    <3>1. k \in 1..Len(raw) + 1 /\ \A m \in k + 1..Len(raw) + 1 : g[m] = h[m]
      OBVIOUS
    <3>2. ExpandAt(raw, g, k) = ExpandAt(raw, h, k)
      <4> HIDE DEF h
      <4> QED
        BY <3>1, ExpandAtLocal
    <3>3. h[k] = ExpandAt(raw, g, k)
      BY <2>1
    <3> QED
      BY <3>2, <3>3
  <2>3. h = [k \in i..N |-> h[k]]
    OBVIOUS
  <2>4. From(h, i)
    <3> HIDE DEF h
    <3> QED
      BY <2>2, <2>3
  <2> QED
    BY <2>4
<1>2. 1 \in S
  <2>1. N \in Nat /\ 1 \in 1..N
    OBVIOUS
  <2> HIDE DEF S, N
  <2> QED
    BY <1>1, <2>1, PositionsDown
<1>3. PICK g : g = [i \in 1..Len(raw) + 1 |-> ExpandAt(raw, g, i)]
  BY <1>2
<1> QED
  BY <1>3 DEF Expanded

\* What a sequence of sequences flattens to, prefix by prefix.
LEMMA Flattened ==
    ASSUME NEW T, NEW s \in Seq(Seq(T))
    PROVE  \E upto : /\ upto[0] = <<>>
                     /\ \A n \in 0..Len(s) : upto[n] \in Seq(T)
                     /\ \A n \in 1..Len(s) : upto[n] = upto[n - 1] \o s[n]
                     /\ FlattenSeq(s) = upto[Len(s)]
<1> DEFINE N == Len(s)
           Upto(g, n) == g = [i \in 1..n |-> IF i = 1 THEN s[i] ELSE g[i - 1] \o s[i]]
           S == {n \in 1..N : \E g : Upto(g, n)}
<1>0. N \in Nat /\ \A n \in 1..N : s[n] \in Seq(T)
  OBVIOUS
<1>1. CASE N = 0
  <2>1. FlattenSeq(s) = <<>>
    BY <1>1 DEF FlattenSeq
  <2> DEFINE u == [n \in 0..0 |-> <<>>]
  <2>2. u[0] = <<>> /\ <<>> \in Seq(T)
    OBVIOUS
  <2> HIDE DEF u
  <2>3. /\ \A n \in 0..Len(s) : u[n] \in Seq(T)
        /\ \A n \in 1..Len(s) : u[n] = u[n - 1] \o s[n]
        /\ FlattenSeq(s) = u[Len(s)]
    <3>1. 0..Len(s) = {0} /\ 1..Len(s) = {}
      BY <1>1
    <3> QED
      BY <1>1, <2>1, <2>2, <3>1
  <2> QED
    BY <2>2, <2>3
<1>2. CASE N # 0
  <2>1. ASSUME NEW n \in 1..N, \A m \in 1..N : m < n => m \in S
        PROVE  n \in S
    <3>1. CASE n = 1
      <4>1. Upto([i \in 1..1 |-> s[i]], 1)
        OBVIOUS
      <4> QED
        BY <3>1, <4>1
    <3>2. CASE n > 1
      <4>1. n - 1 \in S
        <5>1. n - 1 \in 1..N /\ n - 1 < n
          <6> HIDE DEF S
          <6> QED
            BY <1>0, <3>2
        <5> HIDE DEF S
        <5> QED
          BY <2>1, <5>1
      <4>2. PICK g : Upto(g, n - 1)
        BY <4>1
      <4> DEFINE h == [i \in 1..n |-> IF i = n THEN g[n - 1] \o s[n] ELSE g[i]]
      <4>3. ASSUME NEW i \in 1..n PROVE h[i] = IF i = 1 THEN s[i] ELSE h[i - 1] \o s[i]
        <5>0. n \in Nat /\ n - 1 \in 1..n - 1 /\ n - 1 \in 1..n
          BY <1>0, <3>2
        <5>1. CASE i = n
          <6>1. n \in 1..n /\ n - 1 \in 1..n /\ n - 1 # n /\ n # 1
            BY <3>2, <5>0
          <6>2. h[n] = g[n - 1] \o s[n] /\ h[n - 1] = g[n - 1]
            BY <6>1
          <6> HIDE DEF h
          <6> QED
            BY <5>1, <6>1, <6>2
        <5>2. CASE i # n
          <6>1. i \in 1..n - 1 /\ h[i] = g[i]
            BY <5>0, <5>2
          <6>2. i # 1 => h[i - 1] = g[i - 1]
            BY <5>0, <6>1
          <6> QED
            BY <4>2, <6>1, <6>2
        <5> QED
          BY <5>1, <5>2
      <4>4. h = [i \in 1..n |-> h[i]]
        OBVIOUS
      <4>5. Upto(h, n)
        <5> HIDE DEF h
        <5> QED
          BY <4>3, <4>4
      <4> QED
        BY <4>5
    <3> HIDE DEF S
    <3> QED
      BY <1>0, <3>1, <3>2
  <2>2. N \in S
    <3>1. N \in 1..N
      BY <1>0, <1>2
    <3> HIDE DEF S
    <3> QED
      BY <1>0, <2>1, <3>1, PositionsUp
  <2>3. PICK g : /\ g = [i \in 1..Len(s) |-> IF i = 1 THEN s[i] ELSE g[i - 1] \o s[i]]
                 /\ FlattenSeq(s) = g[Len(s)]
    BY <1>2, <2>2 DEF FlattenSeq
  <2> DEFINE u == [n \in 0..N |-> IF n = 0 THEN <<>> ELSE g[n]]
             R == {n \in 1..N : g[n] \in Seq(T)}
  <2>4. 1..N \subseteq R
    <3>1. ASSUME NEW n \in 1..N, \A m \in 1..N : m < n => m \in R
          PROVE  n \in R
      <4>1. CASE n = 1
        BY <1>0, <2>3, <4>1
      <4>2. CASE n > 1
        <5>1. n - 1 \in R /\ n \in 1..Len(s) /\ n # 1
          <6> HIDE DEF R
          <6> QED
            BY <1>0, <3>1, <4>2
        <5>2. g[n] = g[n - 1] \o s[n]
          BY <2>3, <5>1
        <5> QED
          BY <1>0, <5>1, <5>2, ConcatProperties, ZenonT(60)
      <4> QED
        BY <1>0, <4>1, <4>2
    <3> HIDE DEF R
    <3> QED
      BY <1>0, <3>1, PositionsUp
  <2>5. u[0] = <<>> /\ \A n \in 0..N : u[n] \in Seq(T)
    <3>1. ASSUME NEW n \in 0..N PROVE n = 0 \/ n \in 1..N
      BY <1>0
    <3> QED
      BY <1>0, <2>4, <3>1, SMTT(30)
  <2>6. ASSUME NEW n \in 1..N PROVE u[n] = u[n - 1] \o s[n]
    <3>1. CASE n = 1
      <4>1. u[n] = s[n] /\ u[n - 1] = <<>>
        BY <2>3, <3>1
      <4> QED
        BY <1>0, <4>1, ConcatEmptySeq
    <3>2. CASE n > 1
      <4>1. u[n] = g[n] /\ u[n - 1] = g[n - 1] /\ n \in 1..Len(s) /\ n # 1
        BY <1>0, <3>2
      <4> HIDE DEF u
      <4> QED
        BY <2>3, <4>1
    <3>3. n = 1 \/ n > 1
      <4> HIDE DEF N
      <4> QED
        BY <1>0
    <3> QED
      BY <3>1, <3>2, <3>3
  <2>7. FlattenSeq(s) = u[Len(s)]
    BY <1>0, <1>2, <2>3
  <2> HIDE DEF u
  <2> QED
    BY <2>5, <2>6, <2>7
<1> QED
  BY <1>1, <1>2

(***************************************************************************)
(* The scanner against the reference definition.                           *)
(***************************************************************************)

\* A reference ends at the first "close" after it, and its name has neither token.
LEMMA ReferenceIsFound ==
    ASSUME NEW raw \in Seq(STRING), NEW i \in 1..Len(raw), NEW n, RefersTo(raw, i, n)
    PROVE  LET j == i + Len(n) + 1 IN
           /\ Len(n) \in Nat /\ j \in i + 1..Len(raw)
           /\ raw[i] = "open" /\ raw[j] = "close"
           /\ CloseAfter(raw, i) = j
           /\ n = NameBetween(raw, i, j) /\ IsName(n)
           /\ \A k \in i + 1..j - 1 : raw[k] \in Word
<1>0. Len(raw) \in Nat /\ DOMAIN raw = 1..Len(raw)
  BY LenProperties
<1>1. PICK j \in 1..Len(raw) : /\ i < j /\ raw[i] = "open" /\ raw[j] = "close"
                               /\ n = SubSeq(raw, i + 1, j - 1)
  BY <1>0 DEF RefersTo
<1>2. /\ n \in Seq(STRING) /\ Len(n) = j - 1 - i
      /\ \A k \in 1..Len(n) : n[k] = raw[i + k]
  <2>1. \A k \in i + 1..j - 1 : raw[k] \in STRING
    BY <1>0, ElementOfSeq
  <2>2. /\ SubSeq(raw, i + 1, j - 1) \in Seq(STRING)
        /\ Len(SubSeq(raw, i + 1, j - 1))
              = IF i + 1 <= j - 1 THEN (j - 1) - (i + 1) + 1 ELSE 0
        /\ \A k \in 1..(j - 1) - (i + 1) + 1 : SubSeq(raw, i + 1, j - 1)[k] = raw[(i + 1) + k - 1]
    <3>1. i + 1 \in Int /\ j - 1 \in Int
      BY <1>0
    <3> QED
      BY <2>1, <3>1, SubSeqProperties
  <2>3. Len(n) = j - 1 - i
    BY <1>0, <1>1, <2>2
  <2>4. ASSUME NEW k \in 1..Len(n) PROVE n[k] = raw[i + k]
    <3>1. k \in 1..(j - 1) - (i + 1) + 1 /\ (i + 1) + k - 1 = i + k
      BY <1>0, <2>3
    <3> QED
      BY <1>1, <2>2, <3>1
  <2> QED
    BY <1>1, <2>2, <2>3, <2>4
<1>3. IsName(n)
  BY DEF RefersTo
<1>4. ASSUME NEW k \in i + 1..j - 1 PROVE raw[k] \in Word
  <2>1. k - i \in 1..Len(n) /\ i + (k - i) = k
    BY <1>0, <1>2
  <2>2. n[k - i] = raw[k]
    BY <1>2, <2>1
  <2>3. k - i \in DOMAIN n
    BY <1>2, <2>1
  <2> QED
    BY <1>3, <2>2, <2>3 DEF IsName
<1>5. CloseAfter(raw, i) = j
  <2> DEFINE c == CloseAfter(raw, i)
  <2>1. /\ c \in i + 1..Len(raw) /\ raw[c] = "close" /\ c <= j
    BY <1>0, <1>1, CloseIsAfter
  <2>2. ~(c \in i + 1..j - 1)
    BY <1>4, <2>1 DEF Word, Letters
  <2> HIDE DEF c
  <2>3. c = j
    BY <1>0, <2>1, <2>2
  <2> QED
    BY <2>3 DEF c
<1>6. j = i + Len(n) + 1
  BY <1>0, <1>2
<1>7. n = NameBetween(raw, i, j)
  BY <1>1 DEF NameBetween
<1>8. Len(n) \in Nat /\ j \in i + 1..Len(raw)
  BY <1>0, <1>1, <1>2
<1> QED
  BY <1>1, <1>3, <1>4, <1>5, <1>6, <1>7, <1>8

\* The scanner stops at an "open" that begins no reference, and finds the others.
LEMMA ScanFindsReference ==
    ASSUME NEW raw \in Seq(STRING), NEW i \in 1..Len(raw), raw[i] = "open"
    PROVE  LET j == CloseAfter(raw, i)
               name == NameBetween(raw, i, j)
           IN  IF j = 0 \/ ~IsName(name) \/ name \notin DOMAIN Env
               THEN ~\E n \in DOMAIN Env : RefersTo(raw, i, n)
               ELSE /\ RefersTo(raw, i, name)
                    /\ \A n \in DOMAIN Env : RefersTo(raw, i, n) => n = name
<1> DEFINE j == CloseAfter(raw, i)
           name == NameBetween(raw, i, j)
<1>0. Len(raw) \in Nat /\ DOMAIN raw = 1..Len(raw)
  BY LenProperties
<1>1. ASSUME NEW n, RefersTo(raw, i, n)
      PROVE  j # 0 /\ n = name /\ IsName(name)
  <2>1. /\ CloseAfter(raw, i) = i + Len(n) + 1 /\ Len(n) \in Nat
        /\ n = NameBetween(raw, i, i + Len(n) + 1) /\ IsName(n)
    BY <1>1, ReferenceIsFound
  <2> QED
    BY <2>1
<1>2. j # 0 /\ IsName(name) => RefersTo(raw, i, name)
  <2>1. j # 0 => j \in 1..Len(raw) /\ i < j /\ raw[j] = "close"
    <3>1. j # 0 => j \in i + 1..Len(raw) /\ raw[j] = "close"
      BY CloseIsAfter
    <3> HIDE DEF j
    <3> QED
      BY <1>0, <3>1
  <2> QED
    BY <1>0, <2>1 DEF RefersTo, NameBetween
<1> HIDE DEF j, name
<1>3. CASE j = 0 \/ ~IsName(name) \/ name \notin DOMAIN Env
  <2>1. ~\E n \in DOMAIN Env : RefersTo(raw, i, n)
    BY <1>1, <1>3
  <2> QED
    BY <1>3, <2>1 DEF j, name
<1>4. CASE ~(j = 0 \/ ~IsName(name) \/ name \notin DOMAIN Env)
  <2>1. RefersTo(raw, i, name) /\ \A n \in DOMAIN Env : RefersTo(raw, i, n) => n = name
    BY <1>1, <1>2, <1>4
  <2> QED
    BY <1>4, <2>1 DEF j, name
<1> QED
  BY <1>3, <1>4

\* After a position outside all references that is no reference itself, the next one
\* is outside as well.
LEMMA OutsideAfterToken ==
    ASSUME NEW raw \in Seq(STRING), NEW i \in 1..Len(raw), ~Inside(raw, i),
           ~\E n \in DOMAIN Env : RefersTo(raw, i, n)
    PROVE  ~Inside(raw, i + 1)
<1> SUFFICES ASSUME NEW h \in 1..(i + 1) - 1, NEW n \in DOMAIN Env, RefersTo(raw, h, n),
                    (i + 1) - h <= Len(n) + 1
             PROVE  FALSE
  BY DEF Inside
<1>0. Len(raw) \in Nat /\ h \in 1..Len(raw)
  BY LenProperties
<1>1. h # i
  OBVIOUS
<1>2. Len(n) \in Nat
  BY <1>0, ReferenceIsFound
<1>3. h \in 1..i - 1 /\ i - h <= Len(n) + 1
  BY <1>0, <1>1, <1>2
<1> QED
  BY <1>3 DEF Inside

\* A reference outside all others covers the positions up to its "close", and the
\* next one is outside again.
LEMMA OutsideAfterReference ==
    ASSUME NEW raw \in Seq(STRING), NEW i \in 1..Len(raw), ~Inside(raw, i),
           NEW name \in DOMAIN Env, RefersTo(raw, i, name)
    PROVE  LET j == i + Len(name) + 1 IN
           /\ \A k \in i + 1..j : Inside(raw, k) /\ raw[k] # "open"
           /\ ~Inside(raw, j + 1)
<1> DEFINE j == i + Len(name) + 1
<1>0. Len(raw) \in Nat
  BY LenProperties
<1>1. /\ Len(name) \in Nat /\ j \in i + 1..Len(raw) /\ raw[j] = "close"
      /\ \A k \in i + 1..j - 1 : raw[k] \in Word
      /\ CloseAfter(raw, i) = j
  BY ReferenceIsFound
<1>2. ASSUME NEW k \in i + 1..j PROVE Inside(raw, k) /\ raw[k] # "open"
  <2>1. i \in 1..k - 1 /\ k - i <= Len(name) + 1
    BY <1>0, <1>1
  <2>2. k \in i + 1..j - 1 \/ k = j
    BY <1>0, <1>1
  <2>3. raw[k] # "open"
    BY <1>1, <2>2 DEF Word, Letters
  <2> QED
    BY <2>1, <2>3 DEF Inside
<1>3. ASSUME NEW h \in 1..(j + 1) - 1, NEW n \in DOMAIN Env, RefersTo(raw, h, n),
             (j + 1) - h <= Len(n) + 1
      PROVE  FALSE
  <2>0. h \in 1..Len(raw)
    BY <1>0, <1>1
  <2>1. /\ raw[h] = "open" /\ Len(n) \in Nat
        /\ CloseAfter(raw, h) = h + Len(n) + 1
    BY <1>3, <2>0, ReferenceIsFound
  <2>2. CASE h < i
    <3>1. h \in 1..i - 1 /\ i - h <= Len(n) + 1
      BY <1>0, <1>1, <1>3, <2>0, <2>1, <2>2
    <3> QED
      BY <1>3, <3>1 DEF Inside
  <2>3. CASE h = i
    BY <1>0, <1>1, <1>3, <2>1, <2>3
  <2>4. CASE h > i
    <3>1. h \in i + 1..j
      BY <1>0, <1>1, <2>0, <2>4
    <3> QED
      BY <1>2, <2>1, <3>1
  <2> QED
    BY <2>0, <2>2, <2>3, <2>4
<1>4. ~Inside(raw, j + 1)
  BY <1>3 DEF Inside
<1> HIDE DEF j
<1> QED
  BY <1>2, <1>4 DEF j

\* From a position outside all references the scanner either stops, at an "open"
\* that begins none, or it moves to another such position and adds what the
\* positions between the two contribute.
LEMMA ScanStep ==
    ASSUME NEW raw \in Seq(STRING), NEW i \in 1..Len(raw), ~Inside(raw, i), NEW g
    PROVE  \/ /\ raw[i] = "open" /\ ~\E n \in DOMAIN Env : RefersTo(raw, i, n)
              /\ ExpandAt(raw, g, i) = Failed
           \/ \E m \in i + 1..Len(raw) + 1 :
                 /\ ~Inside(raw, m)
                 /\ \A k \in i + 1..m - 1 : Inside(raw, k) /\ raw[k] # "open"
                 /\ raw[i] = "open" => \E n \in DOMAIN Env : RefersTo(raw, i, n)
                 /\ Contribution(raw)[i] \in Seq(STRING)
                 /\ ExpandAt(raw, g, i) = Prefixed(Contribution(raw)[i], g[m])
<1>0. /\ Len(raw) \in Nat /\ i <= Len(raw) /\ i \in DOMAIN raw /\ raw[i] \in STRING
  BY LenProperties, ElementOfSeq
<1>1. CASE raw[i] # "open"
  <2>1. ~\E n \in DOMAIN Env : RefersTo(raw, i, n)
    BY <1>1 DEF RefersTo
  <2>2. ~Inside(raw, i + 1)
    BY <2>1, OutsideAfterToken
  <2>3. Contribution(raw)[i] = <<raw[i]>> /\ <<raw[i]>> \in Seq(STRING)
    BY <1>0, <1>1 DEF Contribution
  <2>4. ExpandAt(raw, g, i) = Prefixed(<<raw[i]>>, g[i + 1])
    BY <1>0, <1>1 DEF ExpandAt
  <2>5. i + 1 \in i + 1..Len(raw) + 1 /\ i + 1..(i + 1) - 1 = {}
    BY <1>0
  <2> QED
    BY <1>1, <2>2, <2>3, <2>4, <2>5
<1>2. CASE raw[i] = "open"
  <2> DEFINE j == CloseAfter(raw, i)
             name == NameBetween(raw, i, j)
             stuck == j = 0 \/ ~IsName(name) \/ name \notin DOMAIN Env
  <2>1. IF stuck THEN ~\E n \in DOMAIN Env : RefersTo(raw, i, n)
        ELSE /\ RefersTo(raw, i, name)
             /\ \A n \in DOMAIN Env : RefersTo(raw, i, n) => n = name
    BY <1>2, ScanFindsReference
  <2>2. ExpandAt(raw, g, i) = IF stuck THEN Failed ELSE Prefixed(Env[name], g[j + 1])
    BY <1>0, <1>2 DEF ExpandAt
  <2>3. CASE stuck
    BY <1>2, <2>1, <2>2, <2>3
  <2>4. CASE ~stuck
    <3>1. name \in DOMAIN Env /\ RefersTo(raw, i, name)
      BY <2>1, <2>4
    <3>2. /\ j = i + Len(name) + 1 /\ Len(name) \in Nat /\ j \in i + 1..Len(raw)
      <4> HIDE DEF j, name
      <4> QED
        BY <3>1, ReferenceIsFound DEF j
    <3>3. /\ \A k \in i + 1..j : Inside(raw, k) /\ raw[k] # "open"
          /\ ~Inside(raw, j + 1)
      <4> HIDE DEF j, name
      <4> QED
        BY <3>1, <3>2, OutsideAfterReference
    <3>4. Contribution(raw)[i] = Env[name]
      <4>1. Contribution(raw)[i] = Env[CHOOSE n \in DOMAIN Env : RefersTo(raw, i, n)]
        BY <1>0, <1>2 DEF Contribution
      <4>2. (CHOOSE n \in DOMAIN Env : RefersTo(raw, i, n)) = name
        <5> HIDE DEF name, j, stuck
        <5> QED
          BY <2>1, <2>4, <3>1
      <4> QED
        BY <4>1, <4>2
    <3>5. Env[name] \in Seq(STRING)
      BY <3>1, EnvAssumption
    <3> HIDE DEF name, j, stuck
    <3>6. j + 1 \in i + 1..Len(raw) + 1 /\ i + 1..(j + 1) - 1 = i + 1..j
      BY <1>0, <3>2
    <3> QED
      BY <1>2, <2>2, <2>4, <3>1, <3>3, <3>4, <3>5, <3>6
  <2> QED
    BY <2>3, <2>4
<1> QED
  BY <1>1, <1>2

\* The end of a text expands to nothing, and every position before it to what it
\* contributes, before what follows.
LEMMA EndOfText ==
    ASSUME NEW raw \in Seq(STRING)
    PROVE  Expanded(raw)[Len(raw) + 1] = [ok |-> TRUE, text |-> <<>>]
<1> DEFINE i == Len(raw) + 1
           from == Expanded(raw)
<1>1. i \in 1..Len(raw) + 1 /\ i > Len(raw)
  BY LenProperties
<1>2. from[i] = ExpandAt(raw, from, i)
  <2> HIDE DEF i
  <2> QED
    BY <1>1, ExpandedUnfolds
<1> HIDE DEF i, from
<1>3. from[i] = [ok |-> TRUE, text |-> <<>>]
  BY <1>1, <1>2 DEF ExpandAt
<1> QED
  BY <1>3 DEF i, from

LEMMA TextsAssociate ==
    ASSUME NEW a \in Seq(STRING), NEW b \in Seq(STRING), NEW d \in Seq(STRING)
    PROVE  (a \o b) \o d = a \o (b \o d)
  BY ConcatAssociative

LEMMA PrefixedFacts ==
    ASSUME NEW head, NEW rest, NEW r, r = Prefixed(head, rest)
    PROVE  /\ r.ok <=> rest.ok
           /\ rest.ok => r.text = head \o rest.text
<1>1. CASE rest.ok
  BY <1>1 DEF Prefixed
<1>2. CASE ~rest.ok
  BY <1>2 DEF Prefixed, Failed
<1> QED
  BY <1>1, <1>2

\* The scanner succeeds on texts whose references are well-formed and set.
LEMMA ExpandSucceeds ==
    ASSUME NEW raw \in Seq(STRING)
    PROVE  Expand(raw).ok <=> Expandable(raw)
<1> DEFINE N == Len(raw)
           from == Expanded(raw)
           Good(i) == \A k \in i..N : raw[k] = "open" => \E n \in DOMAIN Env : RefersTo(raw, k, n)
           S == {i \in 1..N + 1 : ~Inside(raw, i) => (from[i].ok <=> Good(i))}
<1>0. N \in Nat /\ DOMAIN raw = 1..N
  BY LenProperties
<1>1. \A i \in 1..N + 1 : from[i] = ExpandAt(raw, from, i)
  BY ExpandedUnfolds
<1> HIDE DEF from
<1>2. ASSUME NEW i \in 1..N + 1, \A m \in 1..N + 1 : i < m => m \in S
      PROVE  i \in S
  <2> SUFFICES ASSUME ~Inside(raw, i) PROVE from[i].ok <=> Good(i)
    OBVIOUS
  <2>1. CASE i = N + 1
    <3>1. from[i] = [ok |-> TRUE, text |-> <<>>]
      BY <2>1, EndOfText DEF from
    <3>2. Good(i)
      BY <1>0, <2>1
    <3> QED
      BY <3>1, <3>2
  <2>2. CASE i \in 1..N
    <3>1. CASE /\ raw[i] = "open" /\ ~\E n \in DOMAIN Env : RefersTo(raw, i, n)
               /\ ExpandAt(raw, from, i) = Failed
      <4>1. from[i].ok = FALSE
        BY <1>1, <3>1 DEF Failed
      <4>2. i \in i..N
        BY <1>0, <2>2
      <4> QED
        BY <3>1, <4>1, <4>2
    <3>2. CASE \E m \in i + 1..N + 1 :
                  /\ ~Inside(raw, m)
                  /\ \A k \in i + 1..m - 1 : Inside(raw, k) /\ raw[k] # "open"
                  /\ raw[i] = "open" => \E n \in DOMAIN Env : RefersTo(raw, i, n)
                  /\ ExpandAt(raw, from, i) = Prefixed(Contribution(raw)[i], from[m])
      <4>1. PICK m \in i + 1..N + 1 :
                  /\ ~Inside(raw, m)
                  /\ \A k \in i + 1..m - 1 : Inside(raw, k) /\ raw[k] # "open"
                  /\ raw[i] = "open" => \E n \in DOMAIN Env : RefersTo(raw, i, n)
                  /\ ExpandAt(raw, from, i) = Prefixed(Contribution(raw)[i], from[m])
        BY <3>2
      <4>2. from[m].ok <=> Good(m)
        <5>1. m \in 1..N + 1 /\ i < m
          BY <1>0
        <5> QED
          BY <1>2, <4>1, <5>1
      <4>3. Good(m) <=> Good(i)
        <5>1. ASSUME NEW k \in i..N PROVE k = i \/ k \in i + 1..m - 1 \/ k \in m..N
          BY <1>0
        <5>2. m..N \subseteq i..N
          BY <1>0
        <5> QED
          BY <4>1, <5>1, <5>2
      <4>4. from[i].ok <=> from[m].ok
        <5>1. from[i] = Prefixed(Contribution(raw)[i], from[m])
          BY <1>1, <4>1
        <5> QED
          BY <5>1, PrefixedFacts
      <4> QED
        BY <4>2, <4>3, <4>4
    <3> QED
      BY <2>2, <3>1, <3>2, ScanStep, ZenonT(60)
  <2> QED
    BY <1>0, <2>1, <2>2
<1>3. 1 \in S
  <2>1. 1 \in 1..N + 1 /\ N + 1 \in Nat
    BY <1>0
  <2> HIDE DEF S, N
  <2> QED
    BY <1>2, <2>1, PositionsDown
<1>4. ~Inside(raw, 1)
  BY DEF Inside
<1> QED
  BY <1>0, <1>3, <1>4 DEF Expandable, Expand, from

\* And it then replaces each reference once and leaves the rest as it is.
LEMMA ExpandIsExpansion ==
    ASSUME NEW raw \in Seq(STRING), Expandable(raw)
    PROVE  Expand(raw).text = Expansion(raw)
<1> DEFINE N == Len(raw)
           from == Expanded(raw)
           c == Contribution(raw)
<1>0. N \in Nat /\ DOMAIN raw = 1..N
  BY LenProperties
<1>1. \A i \in 1..N + 1 : from[i] = ExpandAt(raw, from, i)
  BY ExpandedUnfolds
<1>2. ASSUME NEW p \in 1..N PROVE c[p] \in Seq(STRING) /\ (Inside(raw, p) => c[p] = <<>>)
  <2>1. CASE Inside(raw, p)
    BY <1>0, <2>1 DEF Contribution
  <2>2. CASE ~Inside(raw, p)
    <3>1. raw[p] = "open" => \E n \in DOMAIN Env : RefersTo(raw, p, n)
      BY <1>0 DEF Expandable
    <3> QED
      BY <2>2, <3>1, ScanStep
  <2> QED
    BY <2>1, <2>2
<1>3. c \in Seq(Seq(STRING)) /\ Len(c) = N
  <2>1. DOMAIN c = 1..N /\ c = [p \in 1..N |-> c[p]]
    BY <1>0 DEF Contribution
  <2>2. c \in [1..N -> Seq(STRING)]
    <3> HIDE DEF c
    <3> QED
      BY <1>2, <2>1
  <2> HIDE DEF c, N
  <2>3. c \in Seq(Seq(STRING))
    BY <1>0, <2>2, SeqDef
  <2> QED
    BY <1>0, <2>1, <2>3, LenProperties
<1>4. PICK upto : /\ upto[0] = <<>>
                  /\ \A n \in 0..N : upto[n] \in Seq(STRING)
                  /\ \A n \in 1..N : upto[n] = upto[n - 1] \o c[n]
                  /\ FlattenSeq(c) = upto[N]
  <2> HIDE DEF c, N
  <2> QED
    BY <1>3, Flattened
<1> HIDE DEF from, c
\* Positions inside a reference add nothing.
<1>5. ASSUME NEW i \in 1..N, NEW m \in i + 1..N + 1, \A k \in i + 1..m - 1 : Inside(raw, k)
      PROVE  upto[m - 1] = upto[i]
  <2> DEFINE R == {k \in 1..N : k \in i..m - 1 => upto[k] = upto[i]}
  <2>1. ASSUME NEW k \in 1..N, \A h \in 1..N : h < k => h \in R
        PROVE  k \in R
    <3> SUFFICES ASSUME k \in i + 1..m - 1 PROVE upto[k] = upto[i]
      BY <1>0
    <3>1. k - 1 \in 1..N /\ k - 1 < k /\ k - 1 \in i..m - 1
      BY <1>0
    <3>2. upto[k - 1] = upto[i] /\ upto[k - 1] \in Seq(STRING)
      <4>1. k - 1 \in 0..N
        BY <1>0, <3>1
      <4> QED
        BY <1>4, <2>1, <3>1, <4>1
    <3>3. upto[k] = upto[k - 1] \o <<>>
      BY <1>2, <1>4, <1>5
    <3> QED
      BY <3>2, <3>3, ConcatEmptySeq
  <2>2. 1..N \subseteq R
    <3> HIDE DEF R, N
    <3> QED
      BY <1>0, <2>1, PositionsUp
  <2>3. m - 1 \in 1..N /\ m - 1 \in i..m - 1
    BY <1>0
  <2> QED
    BY <2>2, <2>3
<1> DEFINE Done(i) == /\ from[i].ok => from[i].text \in Seq(STRING)
                      /\ from[i].ok => upto[i - 1] \o from[i].text = upto[N]
           S == {i \in 1..N + 1 : ~Inside(raw, i) => Done(i)}
<1>6. ASSUME NEW i \in 1..N + 1, \A m \in 1..N + 1 : i < m => m \in S
      PROVE  i \in S
  <2> SUFFICES ASSUME ~Inside(raw, i) PROVE Done(i)
    OBVIOUS
  <2>1. CASE i = N + 1
    <3>1. from[i] = [ok |-> TRUE, text |-> <<>>]
      BY <2>1, EndOfText DEF from
    <3>2. upto[i - 1] = upto[N] /\ upto[N] \in Seq(STRING)
      BY <1>0, <1>4, <2>1
    <3> QED
      BY <3>1, <3>2, ConcatEmptySeq
  <2>2. CASE i \in 1..N
    <3>1. raw[i] = "open" => \E n \in DOMAIN Env : RefersTo(raw, i, n)
      BY <1>0, <2>2 DEF Expandable
    <3>2. PICK m \in i + 1..N + 1 :
                  /\ ~Inside(raw, m)
                  /\ \A k \in i + 1..m - 1 : Inside(raw, k)
                  /\ ExpandAt(raw, from, i) = Prefixed(c[i], from[m])
      BY <2>2, <3>1, ScanStep DEF c
    <3> SUFFICES ASSUME from[i].ok
                 PROVE  from[i].text \in Seq(STRING) /\ upto[i - 1] \o from[i].text = upto[N]
      OBVIOUS
    <3>3. from[m].ok /\ from[i].text = c[i] \o from[m].text
      <4>1. from[i] = Prefixed(c[i], from[m])
        BY <1>1, <3>2
      <4> QED
        BY <4>1, PrefixedFacts, ZenonT(60)
    <3>4. from[m].text \in Seq(STRING) /\ upto[m - 1] \o from[m].text = upto[N]
      <4>1. m \in 1..N + 1 /\ i < m
        BY <1>0
      <4> QED
        BY <1>6, <3>2, <3>3, <4>1
    <3>5. upto[m - 1] = upto[i - 1] \o c[i]
      BY <1>4, <1>5, <2>2, <3>2
    <3>6. upto[i - 1] \in Seq(STRING) /\ c[i] \in Seq(STRING)
      <4>1. i - 1 \in 0..N
        BY <1>0, <2>2
      <4> QED
        BY <1>2, <1>4, <2>2, <4>1
    <3>7. from[i].text \in Seq(STRING)
      BY <3>3, <3>4, <3>6, ConcatProperties
    <3>8. (upto[i - 1] \o c[i]) \o from[m].text = upto[i - 1] \o (c[i] \o from[m].text)
      BY <3>4, <3>6, TextsAssociate, ZenonT(60)
    <3> HIDE DEF N
    <3> QED
      BY <3>3, <3>4, <3>5, <3>7, <3>8
  <2>3. i = N + 1 \/ i \in 1..N
    BY <1>0
  <2> HIDE DEF N, Done
  <2> QED
    BY <2>1, <2>2, <2>3
<1>7. 1 \in S
  <2>1. 1 \in 1..N + 1 /\ N + 1 \in Nat
    BY <1>0
  <2> HIDE DEF S, N
  <2> QED
    BY <1>6, <2>1, PositionsDown
<1>8. ~Inside(raw, 1) /\ from[1].ok
  BY ExpandSucceeds DEF Inside, Expand, from
<1>9. from[1].text \in Seq(STRING) /\ <<>> \o from[1].text = upto[N]
  <2>1. Done(1)
    <3> HIDE DEF Done, N
    <3> QED
      BY <1>7, <1>8
  <2>2. 1 - 1 = 0
    OBVIOUS
  <2> HIDE DEF N
  <2> QED
    BY <1>4, <1>8, <2>1, <2>2
<1> QED
  BY <1>4, <1>9, ConcatEmptySeq DEF Expand, Expansion, from, c

(***************************************************************************)
(* Lifecycle: the inductive invariant.                                     *)
(***************************************************************************)

Early == {"start", "loaded", "built"}

\* Nothing happens before the process serves, and nothing is cut off, lost or
\* reported before it stops.
PhasesInOrder ==
    /\ phase \in Early => \A r \in Requests : conn[r] = "none" /\ sql[r] = "none"
    /\ phase \in Early \cup Running =>
          code = None /\ \A r \in Requests : conn[r] # "aborted"
    /\ phase = "stopping" => \A r \in Requests : conn[r] \notin Open
    /\ code # "killed" => \A r \in Requests : sql[r] # "cut"
    /\ code = "ok" => \A r \in Requests : conn[r] \notin Open \cup {"aborted"}
    /\ phase = "exited" /\ code # "killed" => \A r \in Requests : sql[r] # "local"

\* A process that came past loading runs on a configuration that was accepted.
LoadedIsAccepted ==
    /\ phase \in {"loaded", "built", "stopping"} \cup Running \/ code = "panic" => Accepts(config)
    /\ \A r \in Requests :
          conn[r] # "none" => Accepts(config) /\ target[r] \in DOMAIN config.endpoints

\* SQL of PostgreSQL runs only while the process serves, and once its handler has ended
\* it is one of those that may.
SqlIsWaitedFor ==
    \A r \in Requests :
        /\ conn[r] \in {"none", "reading"} => sql[r] = "none"
        /\ sql[r] = "remote" => phase \in Running
        /\ sql[r] = "unheard" => phase \notin Running
        /\ sql[r] \in {"remote", "unheard"} =>
              \/ MayOutliveHandler(r) \/ conn[r] \in Open
              \/ conn[r] = "aborted" /\ code # "ok"

Inv == TypeOK /\ PhasesInOrder /\ LoadedIsAccepted /\ AbortIsReported /\ SqlIsWaitedFor

LEMMA InitInv == Init => Inv
<1> SUFFICES ASSUME Init PROVE Inv
  OBVIOUS
<1> USE NoneAssumption DEF Init
<1>1. TypeOK
  BY DEF TypeOK, Open
<1>2. PhasesInOrder
  BY DEF PhasesInOrder, Early, Running, Open
<1>3. LoadedIsAccepted
  BY DEF LoadedIsAccepted, Running
<1>4. AbortIsReported
  BY DEF AbortIsReported
<1>5. SqlIsWaitedFor
  BY DEF SqlIsWaitedFor
<1> QED
  BY <1>1, <1>2, <1>3, <1>4, <1>5 DEF Inv

\* Starting up: requests are not touched, and there are none.
LEMMA StartInv ==
    ASSUME Inv, Load \/ Build \/ Bind
    PROVE  Inv'
<1>1. /\ UNCHANGED <<source, command, conn, target, sql, job>>
      /\ phase \in Early
      /\ \/ phase' \in {"loaded", "built", "serving"} /\ code' = code /\ Accepts(config)
         \/ phase' = "exited" /\ code' \in {"ok", "error"}
         \/ phase' = "exited" /\ code' = "panic" /\ Accepts(config)
  BY DEF Load, Build, Bind, ExitWith, Inv, LoadedIsAccepted, Early
<1>2. TypeOK'
  BY <1>1 DEF Inv, TypeOK, PhasesInOrder, Early, Running
<1>3. PhasesInOrder'
  BY <1>1 DEF Inv, PhasesInOrder, Early, Running, Open
<1>4. LoadedIsAccepted'
  BY <1>1, NoneAssumption DEF Inv, LoadedIsAccepted, PhasesInOrder, config, Early, Running
<1>5. AbortIsReported'
  BY <1>1 DEF Inv, AbortIsReported, PhasesInOrder
<1>6. SqlIsWaitedFor'
  BY <1>1 DEF Inv, SqlIsWaitedFor, PhasesInOrder
<1> QED
  BY <1>2, <1>3, <1>4, <1>5, <1>6 DEF Inv

\* Serving: what one request does changes nothing but its own row.
LEMMA RequestInv ==
    ASSUME Inv, NEW r \in Requests,
           \/ Connect(r) \/ Receive(r) \/ StartSql(r) \/ SqlEnds(r) \/ Answer(r)
           \/ DeadlinePasses(r) \/ Leave(r) \/ JobEnds(r)
    PROVE  Inv'
<1> USE DEF Becomes, Running, Open
<1>1. /\ UNCHANGED <<source, command, phase, code>>
      /\ phase \notin Early \cup {"exited"}
      /\ \/ phase = "stopping" /\ UNCHANGED conn
         \/ phase \in Running /\ \E c \in Open \cup {"answered", "misconfigured", "gone"} :
               conn' = [conn EXCEPT ![r] = c]
         \/ UNCHANGED conn
  <2>1. CASE SqlEnds(r)
    BY <2>1 DEF SqlEnds, Inv, TypeOK, PhasesInOrder, Early
  <2> QED
    BY <2>1 DEF Connect, Receive, StartSql, Answer, DeadlinePasses, Leave, JobEnds, Early
<1>2. \/ UNCHANGED target
      \/ /\ phase = "serving" /\ conn[r] = "none"
         /\ \E i \in DOMAIN config.endpoints : target' = [target EXCEPT ![r] = i]
  BY DEF Connect, Receive, StartSql, SqlEnds, Answer, DeadlinePasses, Leave, JobEnds
<1>3. conn[r] = "none" /\ conn' # conn => \E i \in DOMAIN config.endpoints : target' = [target EXCEPT ![r] = i]
  BY DEF Connect, Receive, StartSql, SqlEnds, Answer, DeadlinePasses, Leave, JobEnds
<1>4. /\ sql' \in [Requests -> {"none", "local", "remote", "done", "cut", "unheard"}]
      /\ job' \in [Requests -> {"none", "running", "done", "lost"}]
      /\ \A q \in Requests : sql'[q] = "cut" => sql[q] = "cut"
  BY DEF Connect, Receive, StartSql, SqlEnds, Answer, DeadlinePasses, Leave, JobEnds, Inv, TypeOK
<1>5. TypeOK'
  <2>1. DOMAIN config.endpoints \subseteq Nat
    BY SourcesAssumption DEF Inv, TypeOK, config
  <2> QED
    BY <1>1, <1>2, <1>4, <2>1 DEF Inv, TypeOK
<1>6. PhasesInOrder'
  BY <1>1, <1>4, NoneAssumption DEF Inv, PhasesInOrder, Early, TypeOK
<1>7. LoadedIsAccepted'
  <2>1. phase \in Running \/ phase = "stopping"
    BY <1>1 DEF Early, Inv, TypeOK
  <2>2. Accepts(config)
    BY <2>1 DEF Inv, LoadedIsAccepted
  <2>3. ASSUME NEW q \in Requests, conn'[q] # "none"
        PROVE  target'[q] \in DOMAIN config.endpoints
    BY <1>1, <1>2, <1>3, <2>3 DEF Inv, TypeOK, LoadedIsAccepted
  <2> QED
    BY <1>1, <2>2, <2>3 DEF LoadedIsAccepted, config
<1>8. AbortIsReported'
  BY <1>1 DEF Inv, AbortIsReported, TypeOK, config
<1>9. SqlIsWaitedFor'
  <2> USE DEF Inv, TypeOK, SqlIsWaitedFor
  <2>1. CASE Connect(r) \/ Receive(r)
    BY <2>1 DEF Connect, Receive, MayOutliveHandler, endpoint, config
  <2>2. CASE StartSql(r) \/ SqlEnds(r) \/ JobEnds(r)
    BY <2>2 DEF StartSql, SqlEnds, JobEnds, MayOutliveHandler, endpoint, config
  <2>3. CASE Answer(r)
    <3>1. \E c \in {"answered", "misconfigured"} : conn' = [conn EXCEPT ![r] = c]
      BY <2>3 DEF Answer
    <3>2. /\ UNCHANGED <<source, phase, code, target, sql>> /\ phase \in Running
          /\ sql[r] \in {"local", "remote"} => endpoint(r).action = "workflow.run"
          /\ conn[r] = "handling"
      BY <2>3 DEF Answer
    <3>3. sql[r] # "unheard"
      BY <3>2
    <3> QED
      BY <3>1, <3>2, <3>3 DEF MayOutliveHandler, endpoint, config
  <2>4. CASE DeadlinePasses(r) \/ Leave(r)
    BY <2>4 DEF DeadlinePasses, Leave, MayOutliveHandler, endpoint, config
  <2> QED
    BY <2>1, <2>2, <2>3, <2>4
<1> QED
  BY <1>5, <1>6, <1>7, <1>8, <1>9 DEF Inv

\* Stopping: the drain ends in success only when no connection is open.
LEMMA StopInv ==
    ASSUME Inv, Signal \/ Drained \/ DrainTimesOut \/ Exit \/ Kill
    PROVE  Inv'
<1> USE DEF Running, Open, Early
<1>1. CASE Signal
  BY <1>1 DEF Signal, Inv, TypeOK, PhasesInOrder, LoadedIsAccepted, AbortIsReported, config,
                SqlIsWaitedFor, MayOutliveHandler, endpoint
<1>2. CASE Drained \/ DrainTimesOut
  <2>1. /\ phase = "draining" /\ phase' = "stopping"
        /\ UNCHANGED <<source, command, target>>
        /\ sql' = [r \in Requests |-> Unheard(r)]
        /\ conn' = [r \in Requests |-> IF conn[r] \in Open THEN "aborted" ELSE conn[r]]
        /\ job' = [r \in Requests |-> IF job[r] = "running" THEN "lost" ELSE job[r]]
        /\ \/ code' = "ok" /\ \A r \in Requests : conn[r] \notin Open
           \/ code' = "error" /\ config.shutdown_timeout # None
    BY <1>2 DEF Drained, DrainTimesOut, Stop
  <2>2. TypeOK'
    BY <2>1 DEF Inv, TypeOK, Unheard
  <2>3. PhasesInOrder'
    BY <2>1, NoneAssumption DEF Inv, PhasesInOrder, TypeOK, Unheard
  <2>4. LoadedIsAccepted'
    BY <2>1 DEF Inv, LoadedIsAccepted, config
  <2>5. AbortIsReported'
    BY <2>1 DEF Inv, AbortIsReported, PhasesInOrder, config
  <2>6. SqlIsWaitedFor'
    BY <2>1 DEF Inv, TypeOK, SqlIsWaitedFor, PhasesInOrder, MayOutliveHandler, Unheard, endpoint, config
  <2> QED
    BY <2>2, <2>3, <2>4, <2>5, <2>6 DEF Inv
<1>3. CASE Exit
  BY <1>3 DEF Exit, Inv, TypeOK, PhasesInOrder, LoadedIsAccepted, AbortIsReported, config,
                SqlIsWaitedFor, MayOutliveHandler, endpoint
<1>4. CASE Kill
  <2>1. /\ phase' = "exited" /\ code' = "killed"
        /\ UNCHANGED <<source, command, target>>
        /\ conn' = [r \in Requests |-> IF conn[r] \in Open THEN "aborted" ELSE conn[r]]
        /\ job' = [r \in Requests |-> IF job[r] = "running" THEN "lost" ELSE job[r]]
        /\ sql' = [r \in Requests |-> IF sql[r] = "local" THEN "cut" ELSE Unheard(r)]
    BY <1>4 DEF Kill, ExitWith
  <2>2. TypeOK'
    BY <2>1 DEF Inv, TypeOK, Unheard
  <2>3. PhasesInOrder'
    BY <2>1 DEF PhasesInOrder
  <2>4. LoadedIsAccepted'
    BY <2>1 DEF Inv, LoadedIsAccepted, config
  <2>5. AbortIsReported'
    BY <2>1 DEF AbortIsReported
  <2>6. SqlIsWaitedFor'
    BY <2>1 DEF Inv, TypeOK, SqlIsWaitedFor, MayOutliveHandler, Unheard, endpoint, config
  <2> QED
    BY <2>2, <2>3, <2>4, <2>5, <2>6 DEF Inv
<1> QED
  BY <1>1, <1>2, <1>3, <1>4

\* Inv is inductive.
THEOREM Invariance == Spec => []Inv
<1>1. Inv /\ [Next]_vars => Inv'
  <2> SUFFICES ASSUME Inv, [Next]_vars PROVE Inv'
    OBVIOUS
  <2>1. CASE Next
    BY <2>1, StartInv, RequestInv, StopInv DEF Next
  <2>2. CASE UNCHANGED vars
    BY <2>2 DEF vars, Inv, TypeOK, PhasesInOrder, LoadedIsAccepted, AbortIsReported, config,
                SqlIsWaitedFor, MayOutliveHandler, endpoint
  <2> QED
    BY <2>1, <2>2
<1> QED
  BY <1>1, InitInv, PTL DEF Spec

\* The variables keep their types.
THEOREM TypeCorrect == Spec => []TypeOK
<1>1. Inv => TypeOK
  BY DEF Inv
<1> QED
  BY <1>1, Invariance, PTL

\* Whatever was accepted, what a request looks up is there.
THEOREM ReferencesTheorem == Spec => []AcceptedReferencesResolve
<1>1. Inv => AcceptedReferencesResolve
  <2> SUFFICES ASSUME Inv, NEW r \in Requests, conn[r] # "none"
               PROVE  ReferencesResolve(config, endpoint(r))
    BY DEF AcceptedReferencesResolve
  <2>1. Accepts(config) /\ target[r] \in DOMAIN config.endpoints
    BY DEF Inv, LoadedIsAccepted
  <2>2. EnumsKnown(config)
    BY SourcesAssumption DEF Inv, TypeOK, config
  <2> QED
    BY <2>1, <2>2, AcceptedResolve DEF endpoint
<1> QED
  BY <1>1, Invariance, PTL

\* Connections are cut off only by a timeout that is reported, or by SIGKILL.
THEOREM AbortTheorem == Spec => []AbortIsReported
<1>1. Inv => AbortIsReported
  BY DEF Inv
<1> QED
  BY <1>1, Invariance, PTL

\* The process leaves no SQLite half done and, in success, no PostgreSQL that a
\* handler awaits.
THEOREM ExitTheorem == Spec => []CleanExit
<1>1. Inv => CleanExit
  BY DEF Inv, TypeOK, PhasesInOrder, SqlIsWaitedFor, CleanExit
<1> QED
  BY <1>1, Invariance, PTL

\* What a process runs on is what the scanner made of its text, and the check of a
\* configuration that is otherwise accepted fails only on the scanner's word.
LoadedIsExpanded ==
    /\ phase \in {"loaded", "built", "stopping"} \cup Running =>
          Expand(source.raw).ok /\ text = Expand(source.raw).text
    /\ command = "check" => phase \in {"start", "exited"}
    /\ command = "check" /\ code = "error" /\ source.parses /\ Accepts(config) =>
          ~Expand(source.raw).ok

THEOREM LoadedInvariance == Spec => []LoadedIsExpanded
<1>1. Init => LoadedIsExpanded
  BY NoneAssumption DEF Init, LoadedIsExpanded, Running
<1>2. LoadedIsExpanded /\ [Next]_vars => LoadedIsExpanded'
  <2> SUFFICES ASSUME LoadedIsExpanded, [Next]_vars PROVE LoadedIsExpanded'
    OBVIOUS
  <2> USE DEF LoadedIsExpanded, Running, config
  <2>1. CASE Load
    BY <2>1, NoneAssumption DEF Load, ExitWith
  <2>2. CASE Build \/ Bind \/ Kill
    BY <2>2 DEF Build, Bind, Kill, ExitWith
  <2>3. ASSUME NEW r \in Requests,
               \/ Connect(r) \/ Receive(r) \/ StartSql(r) \/ SqlEnds(r) \/ Answer(r)
               \/ DeadlinePasses(r) \/ Leave(r) \/ JobEnds(r)
        PROVE  LoadedIsExpanded'
    <3>1. UNCHANGED <<source, command, phase, text, code>>
      BY <2>3 DEF Connect, Receive, StartSql, SqlEnds, Answer, DeadlinePasses, Leave, JobEnds
    <3> QED
      BY <3>1
  <2>4. CASE Signal \/ Drained \/ DrainTimesOut \/ Exit
    BY <2>4 DEF Signal, Drained, DrainTimesOut, Stop, Exit
  <2>5. CASE UNCHANGED vars
    BY <2>5 DEF vars
  <2> QED
    BY <2>1, <2>2, <2>3, <2>4, <2>5 DEF Next
<1> QED
  BY <1>1, <1>2, PTL DEF Spec

\* Expansion replaces every reference once and leaves the rest as it is, and fails
\* on nothing but a reference that is malformed or names a variable that is not set.
THEOREM ExpansionTheorem == Spec => []ExpansionIsExact
<1>1. TypeOK /\ LoadedIsExpanded => ExpansionIsExact
  <2> SUFFICES ASSUME TypeOK, LoadedIsExpanded PROVE ExpansionIsExact
    OBVIOUS
  <2>1. source.raw \in Seq(STRING)
    BY SourcesAssumption DEF TypeOK
  <2>2. Expand(source.raw).ok <=> Expandable(source.raw)
    BY <2>1, ExpandSucceeds
  <2>3. Expandable(source.raw) => Expand(source.raw).text = Expansion(source.raw)
    BY <2>1, ExpandIsExpansion
  <2> QED
    BY <2>2, <2>3 DEF LoadedIsExpanded, ExpansionIsExact
<1> QED
  BY <1>1, TypeCorrect, LoadedInvariance, PTL

(***************************************************************************)
(* The workflows of an accepted configuration are what WorkflowRun takes   *)
(* for granted.  Configuration speaks of positions in the list of steps,   *)
(* WorkflowRun of their ids.                                               *)
(***************************************************************************)
DependsOn(e) ==
    [id \in StepIds(e) |->
        UNION {e.steps[i].depends_on : i \in {n \in DOMAIN e.steps : e.steps[n].id = id}}]

\* A workflow that a request runs has steps, depends on steps it has, and has no set
\* of steps that each wait for another of the set.
WorkflowsAreGraphs ==
    \A r \in Requests :
        conn[r] # "none" /\ endpoint(r).action = "workflow.run" =>
            LET ids  == StepIds(endpoint(r))
                deps == DependsOn(endpoint(r))
            IN /\ IsFiniteSet(ids) /\ ids # {} /\ deps \in [ids -> SUBSET ids]
               /\ \A S \in (SUBSET ids) \ {{}} : \E s \in S : deps[s] \cap S = {}

LEMMA StepOfId ==
    ASSUME NEW c, NEW e, WorkflowValid(c, e), NEW i \in DOMAIN e.steps
    PROVE  DependsOn(e)[e.steps[i].id] = e.steps[i].depends_on
<1> DEFINE id == e.steps[i].id
           named == {n \in DOMAIN e.steps : e.steps[n].id = id}
<1>1. named = {i}
  <2> DEFINE idOf == [n \in DOMAIN e.steps |-> e.steps[n].id]
  <2>1. \A n, m \in DOMAIN idOf : idOf[n] = idOf[m] => n = m
    BY DEF WorkflowValid, Distinct
  <2> QED
    BY <2>1
<1>2. {e.steps[n].depends_on : n \in named} = {e.steps[i].depends_on}
  BY <1>1
<1>3. DependsOn(e)[id] = UNION {e.steps[n].depends_on : n \in named}
  BY DEF DependsOn, StepIds
<1> QED
  BY <1>2, <1>3

LEMMA ValidGraph ==
    ASSUME NEW c, NEW e, WorkflowValid(c, e), e.steps \in Seq(Range(e.steps))
    PROVE  /\ IsFiniteSet(StepIds(e)) /\ StepIds(e) # {}
           /\ DependsOn(e) \in [StepIds(e) -> SUBSET StepIds(e)]
           /\ \A S \in (SUBSET StepIds(e)) \ {{}} : \E s \in S : DependsOn(e)[s] \cap S = {}
<1>0. Len(e.steps) \in Nat /\ DOMAIN e.steps = 1..Len(e.steps) /\ Len(e.steps) # 0
  <2>1. e.steps # <<>>
    BY DEF WorkflowValid
  <2> DEFINE R == Range(e.steps)
  <2>2. e.steps \in Seq(R)
    OBVIOUS
  <2> HIDE DEF R
  <2> QED
    BY <2>1, <2>2, EmptySeq, LenProperties
<1>1. IsFiniteSet(StepIds(e)) /\ StepIds(e) # {}
  <2> DEFINE idOf == [n \in DOMAIN e.steps |-> e.steps[n].id]
  <2>1. IsFiniteSet(DOMAIN e.steps)
    <3> DEFINE L == Len(e.steps)
    <3>1. L \in Nat /\ DOMAIN e.steps = 1..L
      BY <1>0
    <3> HIDE DEF L
    <3>2. 1 \in Int /\ L \in Int
      BY <3>1
    <3>3. IsFiniteSet(1..L)
      BY <3>2, FS_Interval
    <3> QED
      BY <3>1, <3>3
  <2>2. idOf \in Surjection(DOMAIN e.steps, StepIds(e))
    BY DEF StepIds, Surjection
  <2>3. 1 \in DOMAIN e.steps
    BY <1>0
  <2> HIDE DEF idOf
  <2> QED
    BY <2>1, <2>2, <2>3, FS_Surjection DEF StepIds
<1>2. DependsOn(e) \in [StepIds(e) -> SUBSET StepIds(e)]
  BY DEF DependsOn, WorkflowValid
<1>3. ASSUME NEW S \in (SUBSET StepIds(e)) \ {{}}
      PROVE  \E s \in S : DependsOn(e)[s] \cap S = {}
  <2> DEFINE T == {i \in DOMAIN e.steps : e.steps[i].id \in S}
  <2>1. T \in (SUBSET (DOMAIN e.steps)) \ {{}}
    BY <1>3 DEF StepIds
  <2>2. PICK i \in T : \A j \in T : e.steps[j].id \notin e.steps[i].depends_on
    BY <2>1 DEF WorkflowValid, Acyclic
  <2>3. DependsOn(e)[e.steps[i].id] = e.steps[i].depends_on
    BY <2>2, StepOfId
  <2>4. \A id \in S : \E j \in T : id = e.steps[j].id
    BY <1>3 DEF StepIds
  <2>5. e.steps[i].id \in S /\ e.steps[i].depends_on \cap S = {}
    BY <2>2, <2>4
  <2> HIDE DEF T
  <2> QED
    BY <2>3, <2>5
<1> QED
  BY <1>1, <1>2, <1>3

\* What validation accepts as a workflow is what WorkflowRun runs.
THEOREM GraphsTheorem == Spec => []WorkflowsAreGraphs
<1>1. Inv => WorkflowsAreGraphs
  <2> SUFFICES ASSUME Inv, NEW r \in Requests, conn[r] # "none",
                      endpoint(r).action = "workflow.run"
               PROVE  LET ids  == StepIds(endpoint(r))
                          deps == DependsOn(endpoint(r))
                      IN /\ IsFiniteSet(ids) /\ ids # {} /\ deps \in [ids -> SUBSET ids]
                         /\ \A S \in (SUBSET ids) \ {{}} : \E s \in S : deps[s] \cap S = {}
    BY DEF WorkflowsAreGraphs
  <2>1. Accepts(config) /\ target[r] \in DOMAIN config.endpoints
    BY DEF Inv, LoadedIsAccepted
  <2>2. WorkflowValid(config, endpoint(r))
    BY <2>1 DEF Accepts, ActionValid, endpoint
  <2>3. endpoint(r).steps \in Seq(Range(endpoint(r).steps))
    BY <2>1, SourcesAssumption DEF Inv, TypeOK, config, endpoint
  <2> DEFINE e == endpoint(r)
  <2> HIDE DEF e
  <2>4. WorkflowValid(config, e) /\ e.steps \in Seq(Range(e.steps))
    BY <2>2, <2>3 DEF e
  <2>5. /\ IsFiniteSet(StepIds(e)) /\ StepIds(e) # {}
        /\ DependsOn(e) \in [StepIds(e) -> SUBSET StepIds(e)]
        /\ \A S \in (SUBSET StepIds(e)) \ {{}} : \E s \in S : DependsOn(e)[s] \cap S = {}
    BY <2>4, ValidGraph
  <2> QED
    BY <2>5 DEF e
<1> QED
  BY <1>1, Invariance, PTL

(***************************************************************************)
(* What ShutdownEnds rests on, fairness apart: from the signal on, the     *)
(* process has finitely many things to do, and does nothing else.          *)
(***************************************************************************)
Ending == {"draining", "stopping"}

Reading == {r \in Requests : conn[r] = "reading"}
OpenOnes == {r \in Requests : conn[r] \in Open}
SqlToStart == {r \in Requests : sql[r] = "none"}
SqlToEnd == {r \in Requests : sql[r] \in {"none", "local", "remote"}}
JobsToEnd == {r \in Requests : job[r] \in {"none", "running"}}

\* A request enqueues its job with its answer.
JobsFollowAnswers == \A r \in Requests : conn[r] \in {"none"} \cup Open => job[r] = "none"

Duties == {"receive", "close", "start", "end", "job"}

\* What is left to do for the requests, and for the process.
Todo ==
    (Reading \X {"receive"}) \cup (OpenOnes \X {"close"}) \cup (SqlToStart \X {"start"})
        \cup (SqlToEnd \X {"end"}) \cup (JobsToEnd \X {"job"})

PhasesLeft == IF phase = "draining" THEN 2 ELSE IF phase = "stopping" THEN 1 ELSE 0

StepsLeft == Cardinality(Todo) + PhasesLeft

\* Whatever clients, handlers, databases and jobs do while the process shuts down, less
\* is left after it.
ShutdownIsFinite == [][(phase \in Ending) => StepsLeft' < StepsLeft]_vars

LEMMA JobsFollow == Spec => []JobsFollowAnswers
<1> USE DEF JobsFollowAnswers, Open
<1>1. Init => JobsFollowAnswers
  BY DEF Init
<1>2. TypeOK /\ JobsFollowAnswers /\ [Next]_vars => JobsFollowAnswers'
  <2> SUFFICES ASSUME TypeOK, JobsFollowAnswers, [Next]_vars PROVE JobsFollowAnswers'
    OBVIOUS
  <2>1. CASE Load \/ Build \/ Bind \/ Signal \/ Exit \/ UNCHANGED vars
    BY <2>1 DEF Load, Build, Bind, Signal, Exit, vars
  <2>2. ASSUME NEW r \in Requests,
               \/ Connect(r) \/ Receive(r) \/ StartSql(r) \/ SqlEnds(r) \/ Answer(r)
               \/ DeadlinePasses(r) \/ Leave(r) \/ JobEnds(r)
        PROVE  JobsFollowAnswers'
    BY <2>2 DEF TypeOK, Becomes, Connect, Receive, StartSql, SqlEnds, Answer, DeadlinePasses,
                Leave, JobEnds
  <2>3. CASE Drained \/ DrainTimesOut \/ Kill
    BY <2>3 DEF TypeOK, Drained, DrainTimesOut, Stop, Kill
  <2> QED
    BY <2>1, <2>2, <2>3 DEF Next
<1> QED
  BY <1>1, <1>2, TypeCorrect, PTL DEF Spec

LEMMA TodoIsFinite == IsFiniteSet(Todo) /\ Cardinality(Todo) \in Nat
<1>1. IsFiniteSet(Duties)
  <2>0. IsFiniteSet({"receive"} \cup {"close"} \cup {"start"})
    BY FS_Singleton, FS_AddElement
  <2>1. IsFiniteSet({"receive"} \cup {"close"} \cup {"start"} \cup {"end"} \cup {"job"})
    BY <2>0, FS_AddElement
  <2>2. {"receive"} \cup {"close"} \cup {"start"} \cup {"end"} \cup {"job"} = Duties
    BY DEF Duties
  <2> QED
    BY <2>1, <2>2
<1>2. IsFiniteSet(Requests \X Duties)
  BY <1>1, RequestsAssumption, FS_Product
<1>3. Todo \in SUBSET (Requests \X Duties)
  BY DEF Todo, Duties, Reading, OpenOnes, SqlToStart, SqlToEnd, JobsToEnd
<1> QED
  BY <1>2, <1>3, FS_Subset, FS_CardinalityType

\* To take something off one of the lists is to take something off Todo.
LEMMA ShorterLists ==
    ASSUME Reading' \subseteq Reading, OpenOnes' \subseteq OpenOnes,
           SqlToStart' \subseteq SqlToStart, SqlToEnd' \subseteq SqlToEnd,
           JobsToEnd' \subseteq JobsToEnd
    PROVE  /\ Todo' \subseteq Todo
           /\ \/ Reading' # Reading \/ OpenOnes' # OpenOnes \/ SqlToStart' # SqlToStart
              \/ SqlToEnd' # SqlToEnd \/ JobsToEnd' # JobsToEnd
              => Todo' # Todo
<1>1. /\ \A r : <<r, "receive">> \in Todo <=> r \in Reading
      /\ \A r : <<r, "close">> \in Todo <=> r \in OpenOnes
      /\ \A r : <<r, "start">> \in Todo <=> r \in SqlToStart
      /\ \A r : <<r, "end">> \in Todo <=> r \in SqlToEnd
      /\ \A r : <<r, "job">> \in Todo <=> r \in JobsToEnd
  BY DEF Todo
<1>2. /\ \A r : <<r, "receive">> \in Todo' <=> r \in Reading'
      /\ \A r : <<r, "close">> \in Todo' <=> r \in OpenOnes'
      /\ \A r : <<r, "start">> \in Todo' <=> r \in SqlToStart'
      /\ \A r : <<r, "end">> \in Todo' <=> r \in SqlToEnd'
      /\ \A r : <<r, "job">> \in Todo' <=> r \in JobsToEnd'
  BY DEF Todo
<1>3. Todo' \subseteq Todo
  BY DEF Todo
<1> QED
  BY <1>1, <1>2, <1>3

\* While the process shuts down, no request begins, and what one does is done.
LEMMA RequestsShrink ==
    ASSUME TypeOK, JobsFollowAnswers, phase \in Ending, NEW r \in Requests,
           \/ Connect(r) \/ Receive(r) \/ StartSql(r) \/ SqlEnds(r) \/ Answer(r)
           \/ DeadlinePasses(r) \/ Leave(r) \/ JobEnds(r)
    PROVE  phase' = phase /\ Todo' \subseteq Todo /\ Todo' # Todo
<1> USE DEF Open, TypeOK, Becomes
<1>1. CASE Receive(r)
  <2>1. /\ r \in Reading /\ Reading' = Reading \ {r} /\ OpenOnes' = OpenOnes
        /\ SqlToStart' = SqlToStart /\ SqlToEnd' = SqlToEnd /\ JobsToEnd' = JobsToEnd
    BY <1>1 DEF Receive, Reading, OpenOnes, SqlToStart, SqlToEnd, JobsToEnd
  <2> QED
    BY <1>1, <2>1, ShorterLists DEF Receive
<1>2. CASE StartSql(r)
  <2>1. /\ r \in SqlToStart /\ SqlToStart' = SqlToStart \ {r} /\ SqlToEnd' = SqlToEnd
        /\ Reading' = Reading /\ OpenOnes' = OpenOnes /\ JobsToEnd' = JobsToEnd
    BY <1>2 DEF StartSql, Reading, OpenOnes, SqlToStart, SqlToEnd, JobsToEnd
  <2> QED
    BY <1>2, <2>1, ShorterLists DEF StartSql
<1>3. CASE SqlEnds(r)
  <2>1. /\ r \in SqlToEnd /\ SqlToEnd' = SqlToEnd \ {r} /\ SqlToStart' = SqlToStart
        /\ Reading' = Reading /\ OpenOnes' = OpenOnes /\ JobsToEnd' = JobsToEnd
    BY <1>3 DEF SqlEnds, Reading, OpenOnes, SqlToStart, SqlToEnd, JobsToEnd
  <2> QED
    BY <1>3, <2>1, ShorterLists DEF SqlEnds
<1>4. CASE Answer(r) \/ DeadlinePasses(r) \/ Leave(r)
  <2>1. /\ conn[r] \in Open /\ \E c \in {"answered", "misconfigured", "gone"} : conn' = [conn EXCEPT ![r] = c]
        /\ job' \in {job, [job EXCEPT ![r] = "running"]}
        /\ UNCHANGED <<phase, sql>>
    BY <1>4 DEF Answer, DeadlinePasses, Leave
  <2>2. r \in OpenOnes /\ OpenOnes' = OpenOnes \ {r} /\ Reading' = Reading \ {r}
    BY <2>1 DEF Reading, OpenOnes
  <2>4. JobsToEnd' = JobsToEnd
    BY <2>1 DEF JobsFollowAnswers, JobsToEnd
  <2>3. SqlToStart' = SqlToStart /\ SqlToEnd' = SqlToEnd
    BY <2>1 DEF SqlToStart, SqlToEnd
  <2> QED
    BY <2>1, <2>2, <2>3, <2>4, ShorterLists
<1>5. CASE JobEnds(r)
  <2>1. phase = "draining" /\ job[r] = "running" /\ job' = [job EXCEPT ![r] = "done"]
        /\ UNCHANGED <<phase, conn, sql>>
    BY <1>5 DEF JobEnds, Ending, Running
  <2>2. /\ r \in JobsToEnd /\ JobsToEnd' = JobsToEnd \ {r}
        /\ Reading' = Reading /\ OpenOnes' = OpenOnes
        /\ SqlToStart' = SqlToStart /\ SqlToEnd' = SqlToEnd
    BY <2>1 DEF Reading, OpenOnes, SqlToStart, SqlToEnd, JobsToEnd
  <2> QED
    BY <2>1, <2>2, ShorterLists
<1>6. CASE Connect(r)
  BY <1>6 DEF Connect, Ending
<1> QED
  BY <1>1, <1>2, <1>3, <1>4, <1>5, <1>6

\* Dropping the runtime, or the process, drops what is left.
LEMMA StopsShrink ==
    ASSUME TypeOK, phase \in Ending, Signal \/ Drained \/ DrainTimesOut \/ Exit \/ Kill
    PROVE  /\ Todo' \subseteq Todo
           /\ \/ phase = "draining" /\ phase' \in {"stopping", "exited"}
              \/ phase = "stopping" /\ phase' = "exited"
<1>1. /\ conn' \in {conn, [r \in Requests |-> IF conn[r] \in Open THEN "aborted" ELSE conn[r]]}
      /\ job' \in {job, [r \in Requests |-> IF job[r] = "running" THEN "lost" ELSE job[r]]}
      /\ sql' \in {sql, [r \in Requests |-> Unheard(r)],
                   [r \in Requests |-> IF sql[r] = "local" THEN "cut" ELSE Unheard(r)]}
  BY DEF Signal, Drained, DrainTimesOut, Stop, Exit, Kill, Ending
<1>2. /\ Reading' \subseteq Reading /\ OpenOnes' \subseteq OpenOnes
      /\ SqlToStart' \subseteq SqlToStart /\ SqlToEnd' \subseteq SqlToEnd
      /\ JobsToEnd' \subseteq JobsToEnd
  BY <1>1 DEF TypeOK, Open, Reading, OpenOnes, SqlToStart, SqlToEnd, JobsToEnd, Unheard
<1>3. \/ phase = "draining" /\ phase' \in {"stopping", "exited"}
      \/ phase = "stopping" /\ phase' = "exited"
  BY DEF Signal, Drained, DrainTimesOut, Stop, Exit, Kill, ExitWith, Ending
<1> QED
  BY <1>2, <1>3, ShorterLists

\* From the signal on the process takes at most as many steps as it and its requests
\* have duties left: what is left to fairness in ShutdownEnds is that it takes them.
THEOREM FiniteTheorem == Spec => ShutdownIsFinite
<1>1. TypeOK /\ JobsFollowAnswers /\ [Next]_vars => [(phase \in Ending) => StepsLeft' < StepsLeft]_vars
  <2> SUFFICES ASSUME TypeOK, JobsFollowAnswers, Next, phase \in Ending PROVE StepsLeft' < StepsLeft
    OBVIOUS
  <2>1. /\ Todo' \subseteq Todo
        /\ \/ Todo' # Todo /\ phase' = phase
           \/ phase = "draining" /\ phase' \in {"stopping", "exited"}
           \/ phase = "stopping" /\ phase' = "exited"
    <3>1. CASE Load \/ Build \/ Bind
      BY <3>1 DEF Load, Build, Bind, Ending
    <3> QED
      BY <3>1, RequestsShrink, StopsShrink DEF Next
  <2>2. IsFiniteSet(Todo) /\ Cardinality(Todo) \in Nat
    BY TodoIsFinite
  <2>3. /\ IsFiniteSet(Todo') /\ Cardinality(Todo') \in Nat /\ Cardinality(Todo') <= Cardinality(Todo)
        /\ Cardinality(Todo') = Cardinality(Todo) => Todo' = Todo
    BY <2>1, <2>2, FS_Subset, FS_CardinalityType
  <2>4. StepsLeft' = Cardinality(Todo') + PhasesLeft'
    BY DEF StepsLeft
  <2>5. /\ PhasesLeft \in Nat /\ PhasesLeft' \in Nat
        /\ PhasesLeft' <= PhasesLeft /\ (phase' # phase => PhasesLeft' < PhasesLeft)
    BY <2>1 DEF PhasesLeft
  <2> QED
    BY <2>1, <2>2, <2>3, <2>4, <2>5 DEF StepsLeft, Ending
<1> QED
  BY <1>1, TypeCorrect, JobsFollow, PTL DEF Spec, ShutdownIsFinite

=============================================================================
