--------------------------- MODULE Retention_proof ---------------------------
(* Theorems about Retention, for every value of its constants. *)
EXTENDS Retention, FunctionTheorems, FiniteSetTheorems, TLAPS

-----------------------------------------------------------------------------
(* Sums.                                                                   *)

\* A bijection keeps the number of elements.
LEMMA SameNumber ==
  ASSUME NEW S, NEW T, NEW F \in [S -> T], IsFiniteSet(S),
         \A a, b \in S : F[a] = F[b] => a = b,
         \A t \in T : \E s \in S : F[s] = t
  PROVE  IsFiniteSet(T) /\ Cardinality(T) = Cardinality(S)
<1>1. F \in Bijection(S, T)
  BY DEF Bijection, Injection, Surjection, IsInjective
<1> QED BY <1>1, FS_Bijection DEF ExistsBijection

LEMMA Constants ==
  /\ HourLength \in Nat \ {0} /\ DayLength \in Nat \ {0} /\ RawKeep \in Nat \ {0}
  /\ HourKeep \in Nat \ {0} /\ LogKeep \in Nat \ {0} /\ BatchSize \in Nat \ {0}
  /\ MaxBatches \in Nat \ {0} /\ MaxTime \in Nat /\ MaxResults \in Nat
  /\ MaxFailures \in Nat /\ Periods \subseteq Nat
BY RetentionAssumption DEF RetentionAssumption

LEMMA TimesFinite == IsFiniteSet(Times) /\ Times \subseteq Nat
<1> USE Constants DEF Times
<1>1. IsFiniteSet(0..MaxTime)
  BY FS_Interval
<1> QED BY <1>1

\* The units of a table are its ticks, each as often as it counts.
LEMMA InUnits ==
  ASSUME NEW f, NEW S, NEW u
  PROVE  u \in Units(f, S) <=> \E t \in S : \E i \in 1..f[t] : u = <<t, i>>
BY DEF Units

LEMMA TotalCounts ==
  ASSUME NEW f \in Counts, NEW S \in SUBSET Times
  PROVE  IsFiniteSet(Units(f, S)) /\ Total(f, S) \in Nat
<1> DEFINE Row(t) == {t} \X (1..f[t])
           Rows == {Row(t) : t \in S}
           g == [t \in S |-> Row(t)]
<1>1. ASSUME NEW t \in S
      PROVE  IsFiniteSet(Row(t))
  <2> DEFINE I == 1..f[t]
             T == Row(t)
             F == [i \in I |-> <<t, i>>]
  <2>1. f[t] \in Nat
    BY DEF Counts
  <2>2. IsFiniteSet(I)
    BY <2>1, FS_Interval
  <2>3. F \in [I -> T]
    OBVIOUS
  <2>4. \A i, j \in I : F[i] = F[j] => i = j
    OBVIOUS
  <2>5. \A u \in T : \E i \in I : F[i] = u
    OBVIOUS
  <2>6. IsFiniteSet(T)
    <3> HIDE DEF F, I, T
    <3> QED BY <2>2, <2>3, <2>4, <2>5, SameNumber
  <2> QED BY <2>6
<1>2. IsFiniteSet(S)
  BY TimesFinite, FS_Subset
<1>3. g \in Surjection(S, Rows)
  BY DEF Surjection
<1>4. IsFiniteSet(Rows)
  BY <1>2, <1>3, FS_Surjection
<1>5. Units(f, S) = UNION Rows
  BY DEF Units
<1>6. IsFiniteSet(UNION Rows)
  <2> HIDE DEF Row
  <2>1. \A R \in Rows : IsFiniteSet(R)
    BY <1>1
  <2> HIDE DEF Rows
  <2> QED BY <1>4, <2>1, FS_UNION
<1> QED BY <1>5, <1>6, FS_CardinalityType DEF Total

LEMMA TotalOfMore ==
  ASSUME NEW f \in Counts, NEW S \in SUBSET Times, NEW R \in SUBSET S
  PROVE  Total(f, R) <= Total(f, S)
<1>1. Units(f, R) \subseteq Units(f, S)
  BY DEF Units
<1> QED BY <1>1, TotalCounts, FS_Subset DEF Total

LEMMA TotalOfNothing ==
  /\ \A f : Total(f, {}) = 0
  /\ \A S \in SUBSET Times : Total(None, S) = 0
<1>1. \A f : Units(f, {}) = {}
  BY DEF Units
<1>2. ASSUME NEW S \in SUBSET Times
      PROVE  Units(None, S) = {}
  <2>1. \A t \in S : None[t] = 0
    BY DEF None
  <2> QED BY <2>1, InUnits
<1> QED BY <1>1, <1>2, FS_EmptySet DEF Total

\* Sums add tick by tick.
LEMMA TotalAdds ==
  ASSUME NEW f \in Counts, NEW g \in Counts, NEW h \in Counts,
         NEW S \in SUBSET Times, \A t \in S : h[t] = f[t] + g[t]
  PROVE  Total(h, S) = Total(f, S) + Total(g, S)
<1> DEFINE Rest == Units(h, S) \ Units(f, S)
           F == [u \in Units(g, S) |-> <<u[1], f[u[1]] + u[2]>>]
<1>1. \A t \in S : f[t] \in Nat /\ g[t] \in Nat /\ h[t] \in Nat
  BY DEF Counts
<1>2. Units(f, S) \subseteq Units(h, S)
  <2> SUFFICES ASSUME NEW t \in S, NEW i \in 1..f[t]
               PROVE  <<t, i>> \in Units(h, S)
    BY InUnits
  <2>1. i \in 1..h[t]
    BY <1>1
  <2> QED BY <2>1, InUnits
<1>3. F \in [Units(g, S) -> Rest]
  <2> SUFFICES ASSUME NEW t \in S, NEW i \in 1..g[t]
               PROVE  <<t, f[t] + i>> \in Rest
    BY InUnits
  <2>1. f[t] + i \in 1..h[t] /\ ~(f[t] + i \in 1..f[t])
    BY <1>1
  <2>2. <<t, f[t] + i>> \in Units(h, S)
    BY <2>1, InUnits
  <2>3. <<t, f[t] + i>> \notin Units(f, S)
    BY <2>1, InUnits
  <2> QED BY <2>2, <2>3
<1>4. ASSUME NEW a \in Units(g, S), NEW b \in Units(g, S), F[a] = F[b]
      PROVE  a = b
  <2>1. PICK t \in S, i \in Nat : i \in 1..g[t] /\ a = <<t, i>>
    BY InUnits
  <2>2. PICK s \in S, j \in Nat : j \in 1..g[s] /\ b = <<s, j>>
    BY InUnits
  <2>3. <<t, f[t] + i>> = <<s, f[s] + j>>
    BY <1>4, <2>1, <2>2
  <2>4. t = s /\ f[t] + i = f[t] + j
    BY <2>3
  <2> QED BY <1>1, <2>1, <2>2, <2>4
<1>5. ASSUME NEW u \in Rest
      PROVE  \E v \in Units(g, S) : F[v] = u
  <2>1. PICK t \in S, i \in Nat : i \in 1..h[t] /\ u = <<t, i>>
    BY InUnits
  <2>2. i \notin 1..f[t]
    BY <2>1, InUnits
  <2>3. i - f[t] \in 1..g[t] /\ f[t] + (i - f[t]) = i
    BY <1>1, <2>1, <2>2
  <2>4. <<t, i - f[t]>> \in Units(g, S)
    BY <2>3, InUnits
  <2>5. F[<<t, i - f[t]>>] = u
    BY <2>1, <2>3, <2>4
  <2> QED BY <2>4, <2>5
<1>6. IsFiniteSet(Units(g, S)) /\ IsFiniteSet(Units(h, S)) /\ IsFiniteSet(Units(f, S))
  BY TotalCounts
<1>7. Cardinality(Rest) = Total(g, S)
  <2> HIDE DEF F, Rest
  <2> QED BY <1>3, <1>4, <1>5, <1>6, SameNumber DEF Total
<1>8. Cardinality(Rest) = Cardinality(Units(h, S)) - Cardinality(Units(f, S))
  <2>1. Units(h, S) \cap Units(f, S) = Units(f, S)
    BY <1>2
  <2>2. Cardinality(Rest) = Cardinality(Units(h, S)) - Cardinality(Units(h, S) \cap Units(f, S))
    BY <1>6, FS_Difference
  <2> QED BY <2>1, <2>2
<1>9. Total(f, S) \in Nat /\ Total(g, S) \in Nat /\ Total(h, S) \in Nat
  BY TotalCounts
<1> HIDE DEF Rest, F
<1> QED BY <1>7, <1>8, <1>9 DEF Total

\* What is summed by bucket, and then over buckets, is summed once over their ticks.
ByBucket(f, bucket) == [b \in Times |-> Total(f, {t \in Times : bucket[t] = b})]

\* The ticks whose bucket is in S.
Into(bucket, S) == {t \in Times : bucket[t] \in S}

LEMMA TotalByBucket ==
  ASSUME NEW f \in Counts, NEW bucket \in [Times -> Times], NEW S \in SUBSET Times
  PROVE  /\ ByBucket(f, bucket) \in Counts
         /\ Total(ByBucket(f, bucket), S) = Total(f, Into(bucket, S))
<1> DEFINE g == ByBucket(f, bucket)
           At(b) == Units(f, {t \in Times : bucket[t] = b})
           Of == [b \in Times |-> CHOOSE m : m \in Bijection(1..g[b], At(b))]
           R == {t \in Times : bucket[t] \in S}
           F == [u \in Units(g, S) |-> Of[u[1]][u[2]]]
<1>1. ASSUME NEW b \in Times
      PROVE  IsFiniteSet(At(b)) /\ g[b] = Cardinality(At(b)) /\ g[b] \in Nat
  <2>1. {t \in Times : bucket[t] = b} \in SUBSET Times
    OBVIOUS
  <2>2. g[b] = Total(f, {t \in Times : bucket[t] = b})
    BY DEF ByBucket
  <2> QED BY <2>1, <2>2, TotalCounts DEF Total
<1>2. g \in Counts
  <2>1. g \in [Times -> Nat]
    BY <1>1 DEF ByBucket
  <2> QED BY <2>1 DEF Counts
<1> HIDE DEF g
<1>3. ASSUME NEW b \in Times
      PROVE  Of[b] \in Bijection(1..g[b], At(b))
  <2> HIDE DEF At
  <2>1. ExistsBijection(1..g[b], At(b))
    BY <1>1, FS_CardinalityType
  <2>2. Of[b] = CHOOSE m : m \in Bijection(1..g[b], At(b))
    OBVIOUS
  <2> HIDE DEF Of
  <2> QED BY <2>1, <2>2 DEF ExistsBijection
<1> HIDE DEF Of
<1>4. ASSUME NEW b \in Times
      PROVE  /\ \A i \in 1..g[b] : Of[b][i] \in At(b)
             /\ \A i, j \in 1..g[b] : Of[b][i] = Of[b][j] => i = j
             /\ \A u \in At(b) : \E i \in 1..g[b] : Of[b][i] = u
  <2> HIDE DEF At
  <2>1. Of[b] \in Injection(1..g[b], At(b)) /\ Of[b] \in Surjection(1..g[b], At(b))
    BY <1>3 DEF Bijection
  <2> QED BY <2>1 DEF Injection, Surjection, IsInjective
<1>5. ASSUME NEW b \in Times, NEW u
      PROVE  u \in At(b) <=> \E t \in Times : bucket[t] = b /\ \E i \in 1..f[t] : u = <<t, i>>
  BY InUnits
<1> HIDE DEF At
<1>6. F \in [Units(g, S) -> Units(f, R)]
  <2> HIDE DEF R
  <2> SUFFICES ASSUME NEW u \in Units(g, S)
               PROVE  Of[u[1]][u[2]] \in Units(f, R)
    OBVIOUS
  <2>1. PICK b \in S : \E i \in 1..g[b] : u = <<b, i>>
    BY InUnits
  <2>2. u[1] = b /\ u[2] \in 1..g[b]
    BY <2>1
  <2>3. Of[b][u[2]] \in At(b)
    BY <2>2, <1>4
  <2>4. PICK t \in Times : bucket[t] = b /\ \E k \in 1..f[t] : Of[b][u[2]] = <<t, k>>
    BY <2>3, <1>5
  <2>5. t \in R
    BY <2>4 DEF R
  <2> QED BY <2>2, <2>4, <2>5, InUnits
<1>7. ASSUME NEW a \in Units(g, S), NEW c \in Units(g, S), F[a] = F[c]
      PROVE  a = c
  <2>1. PICK b \in S, i \in Nat : i \in 1..g[b] /\ a = <<b, i>>
    BY InUnits
  <2>2. PICK d \in S, j \in Nat : j \in 1..g[d] /\ c = <<d, j>>
    BY InUnits
  <2>3. Of[b][i] = Of[d][j]
    BY <1>7, <2>1, <2>2
  <2>4. Of[b][i] \in At(b) /\ Of[d][j] \in At(d)
    BY <2>1, <2>2, <1>4
  <2>5. b = d
    BY <2>3, <2>4, <1>5
  <2> QED BY <2>1, <2>2, <2>3, <2>5, <1>4
<1>8. ASSUME NEW v \in Units(f, R)
      PROVE  \E u \in Units(g, S) : F[u] = v
  <2>1. PICK t \in R, k \in Nat : k \in 1..f[t] /\ v = <<t, k>>
    BY InUnits
  <2>2. bucket[t] \in S /\ t \in Times
    OBVIOUS
  <2>3. v \in At(bucket[t])
    BY <2>1, <2>2, <1>5
  <2>4. PICK i \in 1..g[bucket[t]] : Of[bucket[t]][i] = v
    BY <2>2, <2>3, <1>4
  <2>5. <<bucket[t], i>> \in Units(g, S)
    BY <2>2, InUnits
  <2> QED BY <2>4, <2>5
<1>9. IsFiniteSet(Units(g, S))
  BY <1>2, TotalCounts
<1>10. Cardinality(Units(f, R)) = Cardinality(Units(g, S))
  <2> HIDE DEF F, R
  <2> QED BY <1>6, <1>7, <1>8, <1>9, SameNumber
<1> QED BY <1>2, <1>10 DEF g, Total, Into

-----------------------------------------------------------------------------
(* Hours and days.                                                         *)

\* What x \div d is.
LEMMA Quotient ==
  ASSUME NEW x \in Nat, NEW d \in Nat \ {0}
  PROVE  /\ x \div d \in Nat
         /\ (x \div d) * d \in Nat
         /\ (x \div d) * d <= x
         /\ x < ((x \div d) + 1) * d
<1>1. x = d * (x \div d) + (x % d) /\ x % d \in 0..(d - 1) /\ x \div d \in Int
  BY SMTT(30)
<1> DEFINE q == x \div d
<1> HIDE DEF q
<1>2. q \in Int /\ d * q <= x /\ x < d * q + d
  BY <1>1 DEF q
<1>3. q >= 0
  <2> SUFFICES ASSUME q <= -1
               PROVE  FALSE
    BY <1>2
  <2>1. d * (q + 1) <= 0
    BY <1>2
  <2>2. d * (q + 1) = d * q + d
    BY <1>2
  <2> QED BY <1>2, <2>1, <2>2
<1>4. q * d = d * q /\ (q + 1) * d = d * q + d
  BY <1>2
<1>5. q * d >= 0
  BY <1>2, <1>3
<1> QED BY <1>2, <1>3, <1>4, <1>5 DEF q

\* It is the only number with that property.
LEMMA QuotientUnique ==
  ASSUME NEW x \in Nat, NEW d \in Nat \ {0}, NEW q \in Nat, q * d <= x, x < (q + 1) * d
  PROVE  x \div d = q
<1> DEFINE p == x \div d
<1>1. p \in Nat /\ p * d <= x /\ x < (p + 1) * d
  BY Quotient
<1> HIDE DEF p
<1>2. ASSUME p + 1 <= q
      PROVE  FALSE
  <2>1. (p + 1) * d <= q * d
    BY <1>1, <1>2, SMTT(30)
  <2> QED BY <1>1, <2>1
<1>3. ASSUME q + 1 <= p
      PROVE  FALSE
  <2>1. (q + 1) * d <= p * d
    BY <1>1, <1>3, SMTT(30)
  <2> QED BY <1>1, <2>1
<1>4. p = q
  BY <1>1, <1>2, <1>3
<1> QED BY <1>4 DEF p

\* A bucket starts no later than what it holds, and the start of an hour lies in the
\* same hour, and in the same day, as the hour's other ticks.
LEMMA Buckets ==
  /\ Hour \in [Times -> Times] /\ Day \in [Times -> Times]
  /\ \A t \in Times : /\ Hour[t] <= t /\ Day[t] <= t
                      /\ Hour[Hour[t]] = Hour[t] /\ Day[Day[t]] = Day[t]
                      /\ Day[Hour[t]] = Day[t]
<1>1. ASSUME NEW t \in Times, NEW d \in Nat \ {0}
      PROVE  /\ (t \div d) * d \in Times /\ (t \div d) * d <= t
             /\ ((t \div d) * d) \div d = t \div d
  <2> DEFINE q == t \div d
  <2>1. t \in Nat /\ t <= MaxTime
    BY Constants DEF Times
  <2>2. q \in Nat /\ q * d \in Nat /\ q * d <= t
    BY <2>1, Quotient
  <2> HIDE DEF q
  <2>3. (q + 1) * d = q * d + d
    BY <2>2
  <2>4. (q * d) \div d = q
    BY <2>2, <2>3, QuotientUnique
  <2>5. q * d \in Times
    BY <2>1, <2>2, Constants DEF Times
  <2> QED BY <2>2, <2>4, <2>5 DEF q
<1>2. ASSUME NEW t \in Times
      PROVE  ((t \div HourLength) * HourLength) \div DayLength = t \div DayLength
  <2> DEFINE q == t \div DayLength
             h == t \div HourLength
  <2>1. PICK k \in Nat : DayLength = k * HourLength
    BY RetentionAssumption, Constants DEF RetentionAssumption
  <2>2. t \in Nat
    BY TimesFinite
  <2>3. q \in Nat /\ q * DayLength \in Nat /\ q * DayLength <= t /\ t < (q + 1) * DayLength
    BY <2>2, Constants, Quotient
  <2>4. h \in Nat /\ h * HourLength \in Nat /\ h * HourLength <= t /\ t < (h + 1) * HourLength
    BY <2>2, Constants, Quotient
  <2> HIDE DEF q, h
  <2>5. q * DayLength = (q * k) * HourLength /\ q * k \in Nat
    BY <2>1, <2>3, Constants, SMTT(30)
  <2>6. (q + 1) * DayLength \in Nat /\ (h + 1) * HourLength \in Nat
    BY <2>3, <2>4, Constants
  <2>7. ASSUME h + 1 <= q * k
        PROVE  FALSE
    <3>1. (h + 1) * HourLength <= (q * k) * HourLength
      BY <2>4, <2>5, <2>7, Constants, SMTT(30)
    <3> QED BY <2>2, <2>3, <2>4, <2>5, <2>6, <3>1
  <2>8. q * k <= h
    BY <2>4, <2>5, <2>7
  <2>9. q * DayLength <= h * HourLength
    <3>1. (q * k) * HourLength <= h * HourLength
      BY <2>4, <2>5, <2>8, Constants, SMTT(30)
    <3> QED BY <2>5, <3>1
  <2>10. h * HourLength < (q + 1) * DayLength
    BY <2>2, <2>3, <2>4, <2>6
  <2>11. (h * HourLength) \div DayLength = q
    BY <2>3, <2>4, <2>9, <2>10, Constants, QuotientUnique
  <2> QED BY <2>11 DEF q, h
<1>3. ASSUME NEW t \in Times
      PROVE  /\ Hour[t] = (t \div HourLength) * HourLength
             /\ Day[t] = (t \div DayLength) * DayLength
  BY DEF Hour, Day
<1>4. ASSUME NEW t \in Times
      PROVE  /\ Hour[t] \in Times /\ Hour[t] <= t /\ Hour[t] \div HourLength = t \div HourLength
             /\ Day[t] \in Times /\ Day[t] <= t /\ Day[t] \div DayLength = t \div DayLength
             /\ Hour[t] \div DayLength = t \div DayLength
  BY <1>1, <1>2, <1>3, Constants
<1>5. Hour \in [Times -> Times] /\ Day \in [Times -> Times]
  BY <1>3, <1>4 DEF Hour, Day
<1>6. ASSUME NEW t \in Times
      PROVE  Hour[Hour[t]] = Hour[t] /\ Day[Day[t]] = Day[t] /\ Day[Hour[t]] = Day[t]
  BY <1>3, <1>4
<1> QED BY <1>4, <1>5, <1>6

-----------------------------------------------------------------------------
(* Types.                                                                  *)

\* The run keeps its buckets under their start, too.
RunBuckets ==
    \A t \in Times : /\ run.hourly[t] > 0 => t = Hour[t]
                     /\ run.daily[t] > 0 => t = Day[t]

Typed == TypeOK /\ RunBuckets

LEMMA NoRunTyped ==
  /\ None \in Counts /\ NoRun \in Run
  /\ NoRun.pc = "idle" /\ NoRun.gone = None /\ NoRun.hourly = None
  /\ NoRun.daily = None /\ NoRun.old = {}
  /\ \A t \in Times : None[t] = 0
<1>1. None \in Counts /\ \A t \in Times : None[t] = 0
  BY DEF None, Counts
<1>2. 0 \in Times /\ 0 \in 0..(MaxBatches - 1)
  BY Constants DEF Times
<1> HIDE DEF None, Counts
<1> QED BY <1>1, <1>2 DEF NoRun, Run

LEMMA LeftCounts ==
  ASSUME TypeOK
  PROVE  /\ Left \in Counts
         /\ \A t \in Times : Left[t] + run.gone[t] = raw[t]
<1>1. \A t \in Times : raw[t] \in Nat /\ run.gone[t] \in Nat /\ run.gone[t] <= raw[t]
  BY DEF TypeOK, Counts, Run
<1> QED BY <1>1 DEF Left, Counts

\* A batch takes no more than there is left.
LEMMA DoomedCounts ==
  ASSUME TypeOK, NEW cutoff \in Int
  PROVE  /\ Doomed(cutoff) \in Counts
         /\ \A t \in Times : Doomed(cutoff)[t] <= Left[t]
<1> DEFINE room(t) == BatchSize - Total(Left, 0..(t - 1))
<1>1. ASSUME NEW t \in Times
      PROVE  Left[t] \in Nat /\ room(t) \in Int
  <2>1. Left \in Counts /\ 0..(t - 1) \in SUBSET Times
    BY LeftCounts, Constants DEF Times
  <2>2. Total(Left, 0..(t - 1)) \in Nat
    BY <2>1, TotalCounts
  <2> QED BY <2>1, <2>2, Constants DEF Counts
<1>2. \A t \in Times :
        Doomed(cutoff)[t] = IF t >= cutoff \/ room(t) < 0 THEN 0
                            ELSE IF Left[t] < room(t) THEN Left[t] ELSE room(t)
  BY DEF Doomed
<1> HIDE DEF room
<1>3. \A t \in Times : Doomed(cutoff)[t] \in Nat /\ Doomed(cutoff)[t] <= Left[t]
  BY <1>1, <1>2
<1>4. Doomed(cutoff) = [t \in Times |-> Doomed(cutoff)[t]]
  BY DEF Doomed
<1> QED BY <1>3, <1>4 DEF Counts

\* What is moved into buckets is added to them.
LEMMA MovedCounts ==
  ASSUME NEW from \in Counts, NEW to \in Counts, NEW bucket \in [Times -> Times]
  PROVE  /\ Moved(from, to, bucket) \in Counts
         /\ \A b \in Times : Moved(from, to, bucket)[b] > 0
              => to[b] > 0 \/ \E t \in Times : bucket[t] = b
         /\ \A S \in SUBSET Times :
              Total(Moved(from, to, bucket), S)
                = Total(to, S) + Total(from, Into(bucket, S))
<1> DEFINE sums == ByBucket(from, bucket)
           m == Moved(from, to, bucket)
<1>1. sums \in Counts /\ \A S \in SUBSET Times :
                           Total(sums, S) = Total(from, Into(bucket, S))
  BY TotalByBucket
<1>2. m = [b \in Times |-> to[b] + sums[b]]
  BY DEF Moved, ByBucket
<1>3. ASSUME NEW b \in Times, sums[b] > 0
      PROVE  \E t \in Times : bucket[t] = b
  <2>1. Total(from, {}) = 0
    BY TotalOfNothing
  <2>2. sums[b] = Total(from, {t \in Times : bucket[t] = b})
    BY DEF ByBucket
  <2>3. {t \in Times : bucket[t] = b} # {}
    BY <1>3, <2>1, <2>2
  <2> QED BY <2>3
<1> HIDE DEF sums, m
<1>4. \A b \in Times : to[b] \in Nat /\ sums[b] \in Nat
  BY <1>1 DEF Counts
<1>5. m \in Counts
  BY <1>2, <1>4 DEF Counts
<1>6. \A b \in Times : m[b] = to[b] + sums[b]
  BY <1>2
<1>7. \A b \in Times : m[b] > 0 => to[b] > 0 \/ \E t \in Times : bucket[t] = b
  BY <1>3, <1>4, <1>6
<1>8. ASSUME NEW S \in SUBSET Times
      PROVE  Total(m, S) = Total(to, S) + Total(from, Into(bucket, S))
  BY <1>1, <1>5, <1>6, TotalAdds
<1> QED BY <1>5, <1>7, <1>8 DEF m

LEMMA ContinueTyped ==
  ASSUME TypeOK, NEW count, NEW pc \in {"hourly", "logs", "commit"}
  PROVE  /\ Continue(count, pc) \in Run
         /\ Continue(count, pc).pc \in {run.pc, pc}
         /\ Continue(count, pc).gone = run.gone
         /\ Continue(count, pc).hourly = run.hourly
         /\ Continue(count, pc).daily = run.daily
         /\ Continue(count, pc).old = run.old
<1>1. run \in Run
  BY DEF TypeOK
<1>2. run.round \in 0..(MaxBatches - 1) /\ MaxBatches \in Nat
  BY <1>1, Constants DEF Run
<1>3. CASE count < BatchSize \/ run.round + 1 = MaxBatches
  <2>1. Continue(count, pc) = [run EXCEPT !.pc = pc, !.round = 0]
    BY <1>3 DEF Continue
  <2>2. 0 \in 0..(MaxBatches - 1)
    BY Constants
  <2> QED BY <1>1, <2>1, <2>2 DEF Run
<1>4. CASE ~(count < BatchSize \/ run.round + 1 = MaxBatches)
  <2>1. Continue(count, pc) = [run EXCEPT !.round = @ + 1]
    BY <1>4 DEF Continue
  <2>2. run.round + 1 \in 0..(MaxBatches - 1)
    BY <1>2, <1>4
  <2> QED BY <1>1, <2>1, <2>2 DEF Run
<1> QED BY <1>3, <1>4

\* What a batch of results does to the run.
LEMMA RawBatchDoes ==
  ASSUME TypeOK, RawBatch,
         NEW doomed, doomed = Doomed(run.at - RawKeep)
  PROVE  /\ doomed \in Counts /\ \A t \in Times : doomed[t] <= Left[t]
         /\ run.pc # "idle" /\ UNCHANGED Tables
         /\ run' \in Run /\ run'.pc # "idle"
         /\ \A t \in Times : run'.gone[t] = run.gone[t] + doomed[t]
         /\ run'.hourly = Moved(doomed, run.hourly, Hour)
         /\ run'.daily = run.daily /\ run'.old = run.old
<1>1. run \in Run /\ run.at \in Int /\ run.gone \in Counts /\ run.hourly \in Counts
  BY DEF TypeOK, Run, Times
<1>2. doomed \in Counts /\ \A t \in Times : doomed[t] <= Left[t]
  BY <1>1, Constants, DoomedCounts
<1> DEFINE C == Continue(Total(doomed, Times), "hourly")
           more == [t \in Times |-> run.gone[t] + doomed[t]]
           sums == Moved(doomed, run.hourly, Hour)
<1>3. /\ C \in Run /\ C.pc \in {run.pc, "hourly"} /\ C.gone = run.gone
      /\ C.daily = run.daily /\ C.old = run.old
  BY ContinueTyped
<1>4. more \in Counts
  BY <1>1, <1>2 DEF Counts
<1>5. sums \in Counts
  BY <1>1, <1>2, Buckets, MovedCounts
<1>6. run.pc = "raw" /\ UNCHANGED Tables
  BY DEF RawBatch
<1>7. run' = [C EXCEPT !.gone = more, !.hourly = sums]
  BY <1>3 DEF RawBatch, AddedHourly
<1> HIDE DEF C, more, sums
<1>8. /\ run' \in Run /\ run'.pc = C.pc /\ run'.gone = more /\ run'.hourly = sums
      /\ run'.daily = C.daily /\ run'.old = C.old
  BY <1>3, <1>4, <1>5, <1>7 DEF Run
<1>9. \A t \in Times : more[t] = run.gone[t] + doomed[t]
  BY DEF more
<1> QED BY <1>2, <1>3, <1>6, <1>8, <1>9 DEF sums

\* What a batch of hours does to it.
LEMMA HourlyBatchDoes ==
  ASSUME TypeOK, HourlyBatch,
         NEW doomed, doomed = OldBuckets(run.hourly, run.at - HourKeep),
         NEW sums, sums = [b \in Times |-> IF b \in doomed THEN run.hourly[b] ELSE 0]
  PROVE  /\ sums \in Counts
         /\ run.pc # "idle" /\ UNCHANGED Tables
         /\ run' \in Run /\ run'.pc # "idle"
         /\ run'.gone = run.gone /\ run'.old = run.old
         /\ \A b \in Times : run.hourly[b] = run'.hourly[b] + sums[b]
         /\ run'.daily = Moved(sums, run.daily, Day)
<1>1. run \in Run /\ run.hourly \in Counts /\ run.daily \in Counts
  BY DEF TypeOK, Run
<1>2. \A b \in Times : run.hourly[b] \in Nat
  BY <1>1 DEF Counts
<1>3. sums \in Counts
  BY <1>2 DEF Counts
<1> DEFINE C == Continue(Cardinality(doomed), "logs")
           kept == [b \in Times |-> IF b \in doomed THEN 0 ELSE run.hourly[b]]
           days == Moved(sums, run.daily, Day)
<1>4. /\ C \in Run /\ C.pc \in {run.pc, "logs"} /\ C.gone = run.gone
      /\ C.hourly = run.hourly /\ C.daily = run.daily /\ C.old = run.old
  BY ContinueTyped
<1>5. kept \in Counts
  BY <1>2 DEF Counts
<1>6. days \in Counts
  BY <1>1, <1>3, Buckets, MovedCounts
<1>7. run.pc = "hourly" /\ UNCHANGED Tables
  BY DEF HourlyBatch
<1>8. run' = [C EXCEPT !.hourly = kept, !.daily = days]
  BY <1>4 DEF HourlyBatch
<1>9. \A b \in Times : run.hourly[b] = kept[b] + sums[b]
  BY <1>2
<1> HIDE DEF C, kept, days
<1>10. /\ run' \in Run /\ run'.pc = C.pc /\ run'.gone = C.gone /\ run'.hourly = kept
       /\ run'.daily = days /\ run'.old = C.old
  BY <1>4, <1>5, <1>6, <1>8 DEF Run
<1> QED BY <1>3, <1>4, <1>7, <1>9, <1>10 DEF days

\* And a batch of log rows.
LEMMA LogBatchDoes ==
  ASSUME TypeOK, LogBatch
  PROVE  /\ run.pc # "idle" /\ UNCHANGED Tables
         /\ run' \in Run /\ run'.pc # "idle"
         /\ run'.gone = run.gone /\ run'.hourly = run.hourly /\ run'.daily = run.daily
         /\ run'.old \subseteq logs
<1> DEFINE seen == logs \ run.old
           doomed == {t \in seen : /\ t < LogCutoff
                                   /\ Cardinality({s \in seen : s < t}) < BatchSize}
           C == Continue(Cardinality(doomed), "commit")
<1>1. run \in Run /\ run.old \subseteq logs /\ logs \subseteq Times
  BY DEF TypeOK
<1>2. doomed \subseteq logs
  OBVIOUS
<1>3. /\ C \in Run /\ C.pc \in {run.pc, "commit"} /\ C.gone = run.gone
      /\ C.hourly = run.hourly /\ C.daily = run.daily /\ C.old = run.old
  BY ContinueTyped
<1>4. run.pc = "logs" /\ UNCHANGED Tables
  BY DEF LogBatch
<1>5. run' = [C EXCEPT !.old = run.old \cup doomed]
  BY <1>3 DEF LogBatch
<1> HIDE DEF C, doomed
<1>6. /\ run' \in Run /\ run'.pc = C.pc /\ run'.gone = C.gone /\ run'.hourly = C.hourly
      /\ run'.daily = C.daily /\ run'.old = run.old \cup doomed
  BY <1>1, <1>2, <1>3, <1>5 DEF Run
<1> QED BY <1>1, <1>2, <1>3, <1>4, <1>6

\* And its first and its last step.
LEMMA BeginDoes ==
  ASSUME TypeOK, Begin
  PROVE  /\ UNCHANGED Tables
         /\ run' \in Run /\ run'.pc # "idle"
         /\ run'.gone = None /\ run'.old = {}
         /\ run'.hourly = hourly /\ run'.daily = daily
<1>1. /\ NoRun \in Run /\ NoRun.gone = None /\ NoRun.old = {}
      /\ now \in Times /\ hourly \in Counts /\ daily \in Counts
  BY NoRunTyped DEF TypeOK
<1>2. run' = [NoRun EXCEPT !.pc = "raw", !.at = now, !.hourly = hourly, !.daily = daily]
      /\ UNCHANGED Tables
  BY DEF Begin
<1> HIDE DEF NoRun
<1> QED BY <1>1, <1>2 DEF Run

LEMMA RunEnds ==
  ASSUME run' = NoRun
  PROVE  /\ run' \in Run /\ run'.pc = "idle" /\ run'.old = {}
         /\ \A t \in Times : run'.gone[t] = 0 /\ run'.hourly[t] = 0 /\ run'.daily[t] = 0
<1> HIDE DEF NoRun
<1> QED BY NoRunTyped

LEMMA InitTyped == Init => Typed
<1> SUFFICES ASSUME Init
             PROVE  Typed
  OBVIOUS
<1>1. /\ run = NoRun /\ now = 0 /\ failures = 0 /\ logs = {} /\ logged = {}
      /\ raw = None /\ hourly = None /\ daily = None /\ taken = None
  BY DEF Init
<1>2. 0 \in Times /\ 0 \in 0..MaxFailures
  BY Constants DEF Times
<1>3. TypeOK
  <2> HIDE DEF None, NoRun
  <2> QED BY <1>1, <1>2, NoRunTyped DEF TypeOK
<1>4. RunBuckets
  <2> HIDE DEF None, NoRun
  <2> QED BY <1>1, NoRunTyped DEF RunBuckets
<1> QED BY <1>3, <1>4 DEF Typed

LEMMA StoreTyped ==
  ASSUME Typed, Store
  PROVE  Typed'
<1>1. /\ now \in Times /\ raw \in Counts /\ taken \in Counts /\ run \in Run
      /\ \A t \in Times : run.gone[t] <= raw[t]
  BY DEF Typed, TypeOK
<1>2. /\ raw' = [raw EXCEPT ![now] = @ + 1] /\ taken' = [taken EXCEPT ![now] = @ + 1]
      /\ UNCHANGED <<now, hourly, daily, logs, run, logged, failures>>
  BY DEF Store
<1>3. raw' \in Counts /\ taken' \in Counts
  BY <1>1, <1>2 DEF Counts
<1>4. \A t \in Times : run.gone[t] \in Nat /\ raw[t] \in Nat /\ raw'[t] >= raw[t]
  BY <1>1, <1>2 DEF Counts, Run
<1>5. \A t \in Times : run'.gone[t] <= raw'[t]
  BY <1>1, <1>2, <1>3, <1>4 DEF Counts
<1>6. TypeOK'
  BY <1>2, <1>3, <1>5 DEF Typed, TypeOK
<1>7. RunBuckets'
  BY <1>2 DEF Typed, RunBuckets
<1> QED BY <1>6, <1>7 DEF Typed

LEMMA LogTyped ==
  ASSUME Typed, Log
  PROVE  Typed'
<1>1. /\ logs' = logs \cup {now} /\ logged' = logged \cup {now}
      /\ UNCHANGED <<now, raw, hourly, daily, run, taken, failures>>
  BY DEF Log
<1>2. TypeOK'
  BY <1>1 DEF Typed, TypeOK
<1>3. RunBuckets'
  BY <1>1 DEF Typed, RunBuckets
<1> QED BY <1>2, <1>3 DEF Typed

LEMMA TickTyped ==
  ASSUME Typed, Tick
  PROVE  Typed'
<1>1. /\ now' = now + 1 /\ now < MaxTime
      /\ UNCHANGED <<raw, hourly, daily, logs, run, taken, logged, failures>>
  BY DEF Tick
<1>2. now' \in Times
  BY <1>1, Constants DEF Typed, TypeOK, Times
<1>3. TypeOK'
  BY <1>1, <1>2 DEF Typed, TypeOK
<1>4. RunBuckets'
  BY <1>1 DEF Typed, RunBuckets
<1> QED BY <1>3, <1>4 DEF Typed

LEMMA BeginTyped ==
  ASSUME Typed, Begin
  PROVE  Typed'
<1>1. /\ UNCHANGED <<now, raw, hourly, daily, logs, taken, logged, failures>>
      /\ run' \in Run /\ run'.old = {} /\ run'.gone = None
      /\ run'.hourly = hourly /\ run'.daily = daily
  BY BeginDoes DEF Typed, Tables
<1>2. \A t \in Times : run'.gone[t] = 0
  BY <1>1, NoRunTyped
<1>3. \A t \in Times : run'.gone[t] <= raw'[t]
  BY <1>1, <1>2 DEF Typed, TypeOK, Counts
<1>4. TypeOK'
  BY <1>1, <1>3 DEF Typed, TypeOK
<1>5. RunBuckets'
  BY <1>1 DEF Typed, TypeOK, RunBuckets
<1> QED BY <1>4, <1>5 DEF Typed

LEMMA RawBatchTyped ==
  ASSUME Typed, RawBatch
  PROVE  Typed'
<1> DEFINE doomed == Doomed(run.at - RawKeep)
<1>1. TypeOK /\ RunBuckets
  BY DEF Typed
<1>2. /\ doomed \in Counts /\ \A t \in Times : doomed[t] <= Left[t]
      /\ UNCHANGED Tables
      /\ run' \in Run
      /\ \A t \in Times : run'.gone[t] = run.gone[t] + doomed[t]
      /\ run'.hourly = Moved(doomed, run.hourly, Hour)
      /\ run'.daily = run.daily /\ run'.old = run.old
  BY <1>1, RawBatchDoes
<1>3. UNCHANGED <<now, raw, hourly, daily, logs, taken, logged, failures>>
  BY <1>2 DEF Tables
<1> HIDE DEF doomed
<1>4. ASSUME NEW t \in Times
      PROVE  run'.gone[t] <= raw'[t]
  <2>1. Left[t] + run.gone[t] = raw[t] /\ Left[t] \in Nat
    BY <1>1, LeftCounts DEF Counts
  <2>2. doomed[t] \in Nat /\ run.gone[t] \in Nat /\ raw[t] \in Nat
    BY <1>1, <1>2 DEF TypeOK, Run, Counts
  <2> QED BY <1>2, <1>3, <2>1, <2>2
<1>5. TypeOK'
  BY <1>1, <1>2, <1>3, <1>4 DEF TypeOK
<1>6. ASSUME NEW b \in Times, run'.hourly[b] > 0
      PROVE  b = Hour[b]
  <2>1. run.hourly \in Counts
    BY <1>1 DEF TypeOK, Run
  <2>2. run.hourly[b] > 0 \/ \E t \in Times : Hour[t] = b
    BY <1>2, <1>6, <2>1, Buckets, MovedCounts
  <2> QED BY <1>1, <2>2, Buckets DEF RunBuckets
<1>7. RunBuckets'
  BY <1>1, <1>2, <1>6 DEF RunBuckets
<1> QED BY <1>5, <1>7 DEF Typed

LEMMA HourlyBatchTyped ==
  ASSUME Typed, HourlyBatch
  PROVE  Typed'
<1> DEFINE doomed == OldBuckets(run.hourly, run.at - HourKeep)
           sums == [b \in Times |-> IF b \in doomed THEN run.hourly[b] ELSE 0]
<1>1. TypeOK /\ RunBuckets
  BY DEF Typed
<1>2. /\ sums \in Counts
      /\ UNCHANGED Tables
      /\ run' \in Run
      /\ run'.gone = run.gone /\ run'.old = run.old
      /\ \A b \in Times : run.hourly[b] = run'.hourly[b] + sums[b]
      /\ run'.daily = Moved(sums, run.daily, Day)
  BY <1>1, HourlyBatchDoes
<1>3. UNCHANGED <<now, raw, hourly, daily, logs, taken, logged, failures>>
  BY <1>2 DEF Tables
<1> HIDE DEF sums
<1>4. TypeOK'
  BY <1>1, <1>2, <1>3 DEF TypeOK
<1>5. ASSUME NEW b \in Times, run'.hourly[b] > 0
      PROVE  b = Hour[b]
  <2>1. run.hourly[b] > 0
    BY <1>2, <1>5 DEF Run, Counts
  <2> QED BY <1>1, <2>1 DEF RunBuckets
<1>6. ASSUME NEW b \in Times, run'.daily[b] > 0
      PROVE  b = Day[b]
  <2>1. run.daily \in Counts
    BY <1>1 DEF TypeOK, Run
  <2>2. run.daily[b] > 0 \/ \E t \in Times : Day[t] = b
    BY <1>2, <1>6, <2>1, Buckets, MovedCounts
  <2> QED BY <1>1, <2>2, Buckets DEF RunBuckets
<1>7. RunBuckets'
  BY <1>5, <1>6 DEF RunBuckets
<1> QED BY <1>4, <1>7 DEF Typed

LEMMA LogBatchTyped ==
  ASSUME Typed, LogBatch
  PROVE  Typed'
<1>1. TypeOK /\ RunBuckets
  BY DEF Typed
<1>2. /\ UNCHANGED Tables /\ run' \in Run /\ run'.old \subseteq logs
      /\ run'.gone = run.gone /\ run'.hourly = run.hourly /\ run'.daily = run.daily
  BY <1>1, LogBatchDoes
<1>3. UNCHANGED <<now, raw, hourly, daily, logs, taken, logged, failures>>
  BY <1>2 DEF Tables
<1>4. TypeOK'
  BY <1>1, <1>2, <1>3 DEF TypeOK
<1>5. RunBuckets'
  BY <1>1, <1>2 DEF RunBuckets
<1> QED BY <1>4, <1>5 DEF Typed

LEMMA CommitTyped ==
  ASSUME Typed, Commit
  PROVE  Typed'
<1>1. TypeOK /\ RunBuckets /\ run \in Run
  BY DEF Typed, TypeOK
<1>2. /\ raw' = Left /\ hourly' = run.hourly /\ daily' = run.daily
      /\ logs' = logs \ run.old /\ run' = NoRun
      /\ UNCHANGED <<now, taken, logged, failures>>
  BY DEF Commit
<1>3. Left \in Counts /\ run.hourly \in Counts /\ run.daily \in Counts
  BY <1>1, LeftCounts DEF Run
<1>4. /\ run' \in Run /\ run'.old = {}
      /\ \A t \in Times : run'.gone[t] = 0 /\ run'.hourly[t] = 0 /\ run'.daily[t] = 0
  BY <1>2, RunEnds
<1>5. \A t \in Times : run'.gone[t] <= raw'[t]
  BY <1>2, <1>3, <1>4 DEF Counts
<1>6. TypeOK'
  <2> HIDE DEF Left
  <2> QED BY <1>1, <1>2, <1>3, <1>4, <1>5 DEF TypeOK, RunBuckets
<1>7. RunBuckets'
  BY <1>4 DEF RunBuckets
<1> QED BY <1>6, <1>7 DEF Typed

LEMMA FailTyped ==
  ASSUME Typed, Fail
  PROVE  Typed'
<1>1. /\ failures < MaxFailures /\ failures' = failures + 1 /\ run' = NoRun
      /\ UNCHANGED <<now, raw, hourly, daily, logs, taken, logged>>
  BY DEF Fail
<1>2. /\ run' \in Run /\ run'.old = {}
      /\ \A t \in Times : run'.gone[t] = 0 /\ run'.hourly[t] = 0 /\ run'.daily[t] = 0
  BY <1>1, RunEnds
<1>3. \A t \in Times : run'.gone[t] <= raw'[t]
  BY <1>1, <1>2 DEF Typed, TypeOK, Counts
<1>4. failures' \in 0..MaxFailures
  BY <1>1, Constants DEF Typed, TypeOK
<1>5. TypeOK'
  BY <1>1, <1>2, <1>3, <1>4 DEF Typed, TypeOK
<1>6. RunBuckets'
  BY <1>2 DEF RunBuckets
<1> QED BY <1>5, <1>6 DEF Typed

LEMMA NextTyped == Typed /\ [Next]_vars => Typed'
<1> SUFFICES ASSUME Typed, [Next]_vars
             PROVE  Typed'
  OBVIOUS
<1>1. CASE UNCHANGED vars
  BY <1>1 DEF vars, Typed, TypeOK, RunBuckets
<1> QED BY <1>1, StoreTyped, LogTyped, TickTyped, BeginTyped, RawBatchTyped,
           HourlyBatchTyped, LogBatchTyped, CommitTyped, FailTyped DEF Next, RunStep

\* Every row of the hourly and the daily sums stands under the start of its bucket, in
\* the tables and in the transaction of a run, and a run deletes only rows that are
\* there: ON CONFLICT finds the row of a bucket whatever moved into it before.
THEOREM TypeCorrect == Spec => []TypeOK
<1>1. Spec => []Typed
  BY InitTyped, NextTyped, PTL DEF Spec
<1>2. Typed => TypeOK
  BY DEF Typed
<1> QED BY <1>1, <1>2, PTL

-----------------------------------------------------------------------------
(* The history.                                                            *)

Since(c) == {t \in Times : t >= c}
DaySince(c) == {t \in Times : Day[t] >= c}

Sum(f, g, h, S) == Total(f, S) + Total(g, S) + Total(h, S)

\* The rows f, g and h count what was stored, all: no more since any time, and the same
\* since the start of any day.  Only whole days can agree, for a bucket stands under
\* its start: what was stored later in it counts earlier than it was.
Accounts(f, g, h, all) ==
    \A c \in Int : /\ Sum(f, g, h, Since(c)) <= Total(all, Since(c))
                   /\ Sum(f, g, h, DaySince(c)) = Total(all, DaySince(c))

TablesAccount == Accounts(raw, hourly, daily, taken)

\* The transaction of a run must account for everything as well, before it commits.
RunAccounts == run.pc # "idle" => Accounts(Left, run.hourly, run.daily, taken)

HistoryInv == TablesAccount /\ RunAccounts

LEMMA SinceTimes ==
  ASSUME NEW c \in Int
  PROVE  /\ Since(c) \in SUBSET Times /\ DaySince(c) \in SUBSET Since(c)
         /\ DaySince(c) \in SUBSET Times
<1>1. \A t \in Times : t \in Nat /\ Day[t] \in Nat /\ Day[t] <= t
  BY Buckets, TimesFinite
<1>2. \A t \in Times : Day[t] >= c => t >= c
  BY <1>1
<1> HIDE DEF Day
<1> QED BY <1>2 DEF Since, DaySince

\* What moves from one table to buckets of the next counts no later than before, and
\* on the same day.
LEMMA Shift ==
  ASSUME NEW f \in Counts, NEW g \in Counts, NEW kept \in Counts, NEW part \in Counts,
         NEW bucket \in {Hour, Day}, NEW c \in Int,
         \A t \in Times : f[t] = kept[t] + part[t]
  PROVE  LET to == Moved(part, g, bucket) IN
         /\ Total(kept, Since(c)) + Total(to, Since(c)) <= Total(f, Since(c)) + Total(g, Since(c))
         /\ Total(kept, DaySince(c)) + Total(to, DaySince(c))
              = Total(f, DaySince(c)) + Total(g, DaySince(c))
<1> DEFINE to == Moved(part, g, bucket)
<1>1. /\ bucket \in [Times -> Times]
      /\ \A t \in Times : bucket[t] <= t /\ Day[bucket[t]] = Day[t] /\ t \in Nat /\ bucket[t] \in Nat
  BY Buckets, TimesFinite
<1>2. Since(c) \in SUBSET Times /\ DaySince(c) \in SUBSET Times
  BY SinceTimes
<1>3. to \in Counts /\ \A S \in SUBSET Times : Total(to, S) = Total(g, S) + Total(part, Into(bucket, S))
  BY <1>1, MovedCounts
<1>4. \A S \in SUBSET Times : Total(f, S) = Total(kept, S) + Total(part, S)
  BY TotalAdds
<1>5. Into(bucket, Since(c)) \in SUBSET Since(c)
  BY <1>1 DEF Since, Into
<1>6. Into(bucket, DaySince(c)) = DaySince(c)
  <2> HIDE DEF Day
  <2> QED BY <1>1 DEF DaySince, Into
<1> HIDE DEF to
<1>7. Total(part, Into(bucket, Since(c))) <= Total(part, Since(c))
  BY <1>2, <1>5, TotalOfMore
<1>8. \A S \in SUBSET Times : /\ Total(f, S) \in Nat /\ Total(g, S) \in Nat
                              /\ Total(kept, S) \in Nat /\ Total(part, S) \in Nat
                              /\ Total(to, S) \in Nat
  BY <1>3, TotalCounts
<1>9. Total(part, Into(bucket, Since(c))) \in Nat
  BY <1>2, <1>5, TotalCounts
<1>10. Total(kept, Since(c)) + Total(to, Since(c)) <= Total(f, Since(c)) + Total(g, Since(c))
  BY <1>2, <1>3, <1>4, <1>7, <1>8, <1>9
<1>11. Total(kept, DaySince(c)) + Total(to, DaySince(c)) = Total(f, DaySince(c)) + Total(g, DaySince(c))
  BY <1>2, <1>3, <1>4, <1>6, <1>8
<1> QED BY <1>10, <1>11 DEF to

LEMMA RawShift ==
  ASSUME NEW f \in Counts, NEW g \in Counts, NEW h \in Counts, NEW all \in Counts,
         Accounts(f, g, h, all), NEW kept \in Counts, NEW part \in Counts,
         \A t \in Times : f[t] = kept[t] + part[t]
  PROVE  Accounts(kept, Moved(part, g, Hour), h, all)
<1> DEFINE to == Moved(part, g, Hour)
<1>1. to \in Counts
  BY Buckets, MovedCounts
<1>2. ASSUME NEW c \in Int
      PROVE  /\ Sum(kept, to, h, Since(c)) <= Total(all, Since(c))
             /\ Sum(kept, to, h, DaySince(c)) = Total(all, DaySince(c))
  <2>1. /\ Total(kept, Since(c)) + Total(to, Since(c)) <= Total(f, Since(c)) + Total(g, Since(c))
        /\ Total(kept, DaySince(c)) + Total(to, DaySince(c))
             = Total(f, DaySince(c)) + Total(g, DaySince(c))
    <3> HIDE DEF Hour, Day
    <3> QED BY Shift
  <2>2. \A S \in {Since(c), DaySince(c)} :
           /\ Total(f, S) \in Nat /\ Total(g, S) \in Nat /\ Total(h, S) \in Nat
           /\ Total(all, S) \in Nat /\ Total(kept, S) \in Nat /\ Total(to, S) \in Nat
    <3> HIDE DEF to
    <3> QED BY <1>1, SinceTimes, TotalCounts
  <2>3. /\ Sum(f, g, h, Since(c)) <= Total(all, Since(c))
        /\ Sum(f, g, h, DaySince(c)) = Total(all, DaySince(c))
    BY DEF Accounts
  <2> HIDE DEF to
  <2> QED BY <2>1, <2>2, <2>3 DEF Sum
<1> QED BY <1>2 DEF Accounts

LEMMA HourShift ==
  ASSUME NEW f \in Counts, NEW g \in Counts, NEW h \in Counts, NEW all \in Counts,
         Accounts(f, g, h, all), NEW kept \in Counts, NEW part \in Counts,
         \A t \in Times : g[t] = kept[t] + part[t]
  PROVE  Accounts(f, kept, Moved(part, h, Day), all)
<1> DEFINE to == Moved(part, h, Day)
<1>1. to \in Counts
  BY Buckets, MovedCounts
<1>2. ASSUME NEW c \in Int
      PROVE  /\ Sum(f, kept, to, Since(c)) <= Total(all, Since(c))
             /\ Sum(f, kept, to, DaySince(c)) = Total(all, DaySince(c))
  <2>1. /\ Total(kept, Since(c)) + Total(to, Since(c)) <= Total(g, Since(c)) + Total(h, Since(c))
        /\ Total(kept, DaySince(c)) + Total(to, DaySince(c))
             = Total(g, DaySince(c)) + Total(h, DaySince(c))
    <3> HIDE DEF Hour, Day
    <3> QED BY Shift
  <2>2. \A S \in {Since(c), DaySince(c)} :
           /\ Total(f, S) \in Nat /\ Total(g, S) \in Nat /\ Total(h, S) \in Nat
           /\ Total(all, S) \in Nat /\ Total(kept, S) \in Nat /\ Total(to, S) \in Nat
    <3> HIDE DEF to
    <3> QED BY <1>1, SinceTimes, TotalCounts
  <2>3. /\ Sum(f, g, h, Since(c)) <= Total(all, Since(c))
        /\ Sum(f, g, h, DaySince(c)) = Total(all, DaySince(c))
    BY DEF Accounts
  <2> HIDE DEF to
  <2> QED BY <2>1, <2>2, <2>3 DEF Sum
<1> QED BY <1>2 DEF Accounts

\* g counts one more at n than f does.
OneMore(f, g, n) == \A t \in Times : g[t] = IF t = n THEN f[t] + 1 ELSE f[t]

\* A result that is stored counts at once.
LEMMA StoredAccounts ==
  ASSUME NEW f \in Counts, NEW g \in Counts, NEW h \in Counts, NEW all \in Counts,
         Accounts(f, g, h, all), NEW n \in Times,
         NEW more \in Counts, NEW stored \in Counts,
         OneMore(f, more, n), OneMore(all, stored, n)
  PROVE  Accounts(more, g, h, stored)
<1> DEFINE one == [t \in Times |-> IF t = n THEN 1 ELSE 0]
<1>1. one \in Counts
  BY DEF Counts
<1>2. /\ \A t \in Times : more[t] = f[t] + one[t]
      /\ \A t \in Times : stored[t] = all[t] + one[t]
  BY DEF OneMore, Counts
<1> HIDE DEF one
<1>3. \A S \in SUBSET Times : /\ Total(more, S) = Total(f, S) + Total(one, S)
                              /\ Total(stored, S) = Total(all, S) + Total(one, S)
  BY <1>1, <1>2, TotalAdds
<1>4. ASSUME NEW c \in Int
      PROVE  /\ Sum(more, g, h, Since(c)) <= Total(stored, Since(c))
             /\ Sum(more, g, h, DaySince(c)) = Total(stored, DaySince(c))
  <2>1. \A S \in {Since(c), DaySince(c)} :
           /\ Total(f, S) \in Nat /\ Total(g, S) \in Nat /\ Total(h, S) \in Nat
           /\ Total(all, S) \in Nat /\ Total(one, S) \in Nat
           /\ Total(more, S) = Total(f, S) + Total(one, S)
           /\ Total(stored, S) = Total(all, S) + Total(one, S)
    BY <1>1, <1>3, SinceTimes, TotalCounts
  <2>2. /\ Sum(f, g, h, Since(c)) <= Total(all, Since(c))
        /\ Sum(f, g, h, DaySince(c)) = Total(all, DaySince(c))
    BY DEF Accounts
  <2> QED BY <2>1, <2>2 DEF Sum
<1> QED BY <1>4 DEF Accounts

LEMMA AccountsType ==
  ASSUME TypeOK
  PROVE  /\ raw \in Counts /\ hourly \in Counts /\ daily \in Counts /\ taken \in Counts
         /\ run.hourly \in Counts /\ run.daily \in Counts /\ Left \in Counts
BY LeftCounts DEF TypeOK, Run

LEMMA InitAccounts == Init => HistoryInv
<1> SUFFICES ASSUME Init
             PROVE  HistoryInv
  OBVIOUS
<1>1. /\ run.pc = "idle"
      /\ raw = None /\ hourly = None /\ daily = None /\ taken = None
  BY NoRunTyped DEF Init
<1>2. ASSUME NEW c \in Int
      PROVE  /\ Sum(None, None, None, Since(c)) = 0 /\ Total(None, Since(c)) = 0
             /\ Sum(None, None, None, DaySince(c)) = 0 /\ Total(None, DaySince(c)) = 0
  BY SinceTimes, TotalOfNothing DEF Sum
<1> HIDE DEF None
<1>3. Accounts(None, None, None, None)
  BY <1>2 DEF Accounts
<1> QED BY <1>1, <1>3 DEF HistoryInv, TablesAccount, RunAccounts

LEMMA StoreAccounts ==
  ASSUME Typed, HistoryInv, Store
  PROVE  HistoryInv'
<1>1. TypeOK /\ now \in Times /\ run \in Run
  BY DEF Typed, TypeOK
<1>2. /\ raw' = [raw EXCEPT ![now] = @ + 1] /\ taken' = [taken EXCEPT ![now] = @ + 1]
      /\ UNCHANGED <<hourly, daily, run>>
  BY DEF Store
<1>3. /\ raw \in Counts /\ hourly \in Counts /\ daily \in Counts /\ taken \in Counts
      /\ run.hourly \in Counts /\ run.daily \in Counts /\ Left \in Counts
  BY <1>1, AccountsType
<1>4. raw' \in Counts /\ taken' \in Counts
  BY <1>1, <1>2, <1>3 DEF Counts
<1>5. OneMore(raw, raw', now) /\ OneMore(taken, taken', now)
  BY <1>1, <1>2, <1>3 DEF OneMore, Counts
<1>6. TablesAccount'
  <2>1. Accounts(raw, hourly, daily, taken)
    BY DEF HistoryInv, TablesAccount
  <2>2. Accounts(raw', hourly, daily, taken')
    BY <1>1, <1>3, <1>4, <1>5, <2>1, StoredAccounts
  <2> QED BY <1>2, <2>2 DEF TablesAccount
<1>7. ASSUME run.pc # "idle"
      PROVE  Accounts(Left', run.hourly, run.daily, taken')
  <2>1. \A t \in Times : Left[t] = raw[t] - run.gone[t] /\ Left'[t] = raw'[t] - run.gone[t]
    BY <1>2 DEF Left
  <2>2. \A t \in Times : raw[t] \in Nat /\ run.gone[t] \in Nat /\ Left[t] \in Nat
    BY <1>1, <1>3 DEF Run, Counts
  <2>3. OneMore(Left, Left', now)
    <3> HIDE DEF Left
    <3> QED BY <1>5, <2>1, <2>2 DEF OneMore
  <2>4. Left' = [t \in Times |-> Left'[t]]
    BY DEF Left
  <2>5. Left' \in Counts
    <3>1. \A t \in Times : Left'[t] \in Nat
      BY <2>2, <2>3 DEF OneMore
    <3> QED BY <2>4, <3>1 DEF Counts
  <2>6. Accounts(Left, run.hourly, run.daily, taken)
    BY <1>7 DEF HistoryInv, RunAccounts
  <2> HIDE DEF Left
  <2> QED BY <1>1, <1>3, <1>4, <1>5, <2>3, <2>5, <2>6, StoredAccounts
<1>8. RunAccounts'
  <2>1. run' = run
    BY <1>2
  <2> HIDE DEF Left
  <2> QED BY <1>7, <2>1 DEF RunAccounts
<1> QED BY <1>6, <1>8 DEF HistoryInv

LEMMA BeginAccounts ==
  ASSUME Typed, HistoryInv, Begin
  PROVE  HistoryInv'
<1>1. TypeOK
  BY DEF Typed
<1>2. /\ UNCHANGED <<now, raw, hourly, daily, logs, taken, logged, failures>>
      /\ run'.gone = None /\ run'.hourly = hourly /\ run'.daily = daily
  BY <1>1, BeginDoes DEF Tables
<1>3. TablesAccount'
  BY <1>2 DEF HistoryInv, TablesAccount
<1>4. Left' = raw
  <2>1. \A t \in Times : run'.gone[t] = 0 /\ raw[t] \in Nat
    BY <1>1, <1>2, NoRunTyped, AccountsType DEF Counts
  <2>2. raw = [t \in Times |-> raw[t]]
    BY <1>1, AccountsType DEF Counts
  <2>3. Left' = [t \in Times |-> raw[t] - run'.gone[t]]
    BY <1>2 DEF Left
  <2>4. \A t \in Times : raw[t] - run'.gone[t] = raw[t]
    BY <2>1
  <2> QED BY <2>2, <2>3, <2>4
<1>5. RunAccounts'
  <2> HIDE DEF Left
  <2> QED BY <1>2, <1>4 DEF HistoryInv, TablesAccount, RunAccounts
<1> QED BY <1>3, <1>5 DEF HistoryInv

LEMMA RawBatchAccounts ==
  ASSUME Typed, HistoryInv, RawBatch
  PROVE  HistoryInv'
<1> DEFINE doomed == Doomed(run.at - RawKeep)
<1>1. TypeOK
  BY DEF Typed
<1>2. /\ doomed \in Counts /\ \A t \in Times : doomed[t] <= Left[t]
      /\ run.pc # "idle" /\ UNCHANGED Tables
      /\ \A t \in Times : run'.gone[t] = run.gone[t] + doomed[t]
      /\ run'.hourly = Moved(doomed, run.hourly, Hour)
      /\ run'.daily = run.daily
  BY <1>1, RawBatchDoes
<1>3. UNCHANGED <<now, raw, hourly, daily, logs, taken, logged, failures>>
  BY <1>2 DEF Tables
<1> HIDE DEF doomed
<1>4. TablesAccount'
  BY <1>3 DEF HistoryInv, TablesAccount
<1>5. /\ run.hourly \in Counts /\ run.daily \in Counts /\ Left \in Counts
      /\ taken \in Counts /\ raw \in Counts /\ run.gone \in Counts
  BY <1>1, AccountsType DEF TypeOK, Run
<1>6. \A t \in Times : Left[t] = Left'[t] + doomed[t] /\ Left'[t] \in Nat
  <2>1. \A t \in Times : /\ Left[t] = raw[t] - run.gone[t]
                         /\ Left'[t] = raw[t] - (run.gone[t] + doomed[t])
    BY <1>2, <1>3 DEF Left
  <2>2. \A t \in Times : /\ Left[t] \in Nat /\ doomed[t] \in Nat
                         /\ raw[t] \in Nat /\ run.gone[t] \in Nat
    BY <1>2, <1>5 DEF Counts
  <2> QED BY <1>2, <2>1, <2>2
<1>7. Left' \in Counts
  <2>1. Left' = [t \in Times |-> Left'[t]]
    BY DEF Left
  <2> QED BY <1>6, <2>1 DEF Counts
<1>8. Accounts(Left, run.hourly, run.daily, taken)
  BY <1>2 DEF HistoryInv, RunAccounts
<1> HIDE DEF Left
<1>9. Accounts(Left', Moved(doomed, run.hourly, Hour), run.daily, taken)
  <2> HIDE DEF Accounts, Moved, Hour
  <2> QED BY <1>2, <1>5, <1>6, <1>7, <1>8, RawShift
<1>10. RunAccounts'
  BY <1>2, <1>3, <1>9 DEF RunAccounts
<1> QED BY <1>4, <1>10 DEF HistoryInv

LEMMA HourlyBatchAccounts ==
  ASSUME Typed, HistoryInv, HourlyBatch
  PROVE  HistoryInv'
<1> DEFINE doomed == OldBuckets(run.hourly, run.at - HourKeep)
           sums == [b \in Times |-> IF b \in doomed THEN run.hourly[b] ELSE 0]
<1>1. TypeOK
  BY DEF Typed
<1>2. /\ sums \in Counts
      /\ run.pc # "idle" /\ UNCHANGED Tables
      /\ run' \in Run
      /\ run'.gone = run.gone
      /\ \A b \in Times : run.hourly[b] = run'.hourly[b] + sums[b]
      /\ run'.daily = Moved(sums, run.daily, Day)
  BY <1>1, HourlyBatchDoes
<1>3. UNCHANGED <<now, raw, hourly, daily, logs, taken, logged, failures>>
  BY <1>2 DEF Tables
<1> HIDE DEF sums
<1>4. TablesAccount'
  BY <1>3 DEF HistoryInv, TablesAccount
<1>5. /\ run.hourly \in Counts /\ run.daily \in Counts /\ Left \in Counts
      /\ taken \in Counts /\ run'.hourly \in Counts
  BY <1>1, <1>2, AccountsType DEF Run
<1>6. Left' = Left
  BY <1>2, <1>3 DEF Left
<1>7. Accounts(Left, run.hourly, run.daily, taken)
  BY <1>2 DEF HistoryInv, RunAccounts
<1> HIDE DEF Left
<1>8. Accounts(Left, run'.hourly, Moved(sums, run.daily, Day), taken)
  <2> HIDE DEF Accounts, Moved, Day
  <2> QED BY <1>2, <1>5, <1>7, HourShift
<1>9. RunAccounts'
  BY <1>2, <1>3, <1>6, <1>8 DEF RunAccounts
<1> QED BY <1>4, <1>9 DEF HistoryInv

LEMMA LogBatchAccounts ==
  ASSUME Typed, HistoryInv, LogBatch
  PROVE  HistoryInv'
<1>1. TypeOK
  BY DEF Typed
<1>2. /\ UNCHANGED Tables /\ run.pc # "idle"
      /\ run'.gone = run.gone /\ run'.hourly = run.hourly /\ run'.daily = run.daily
  BY <1>1, LogBatchDoes
<1>3. UNCHANGED <<now, raw, hourly, daily, logs, taken, logged, failures>>
  BY <1>2 DEF Tables
<1>4. Left' = Left
  BY <1>2, <1>3 DEF Left
<1> HIDE DEF Left
<1> QED BY <1>2, <1>3, <1>4 DEF HistoryInv, TablesAccount, RunAccounts

LEMMA CommitAccounts ==
  ASSUME Typed, HistoryInv, Commit
  PROVE  HistoryInv'
<1>1. /\ raw' = Left /\ hourly' = run.hourly /\ daily' = run.daily
      /\ run.pc = "commit" /\ run' = NoRun /\ taken' = taken
  BY DEF Commit
<1>2. run'.pc = "idle"
  BY <1>1, RunEnds
<1>3. TablesAccount'
  <2> HIDE DEF Left
  <2> QED BY <1>1 DEF HistoryInv, RunAccounts, TablesAccount
<1> QED BY <1>2, <1>3 DEF HistoryInv, RunAccounts

LEMMA NextAccounts == Typed /\ HistoryInv /\ [Next]_vars => HistoryInv'
<1> SUFFICES ASSUME Typed, HistoryInv, [Next]_vars
             PROVE  HistoryInv'
  OBVIOUS
<1>1. CASE Log \/ Tick \/ UNCHANGED vars
  <2>1. UNCHANGED <<raw, hourly, daily, taken, run>>
    BY <1>1 DEF Log, Tick, vars
  <2>2. Left' = Left
    BY <2>1 DEF Left
  <2> HIDE DEF Left
  <2> QED BY <2>1, <2>2 DEF HistoryInv, TablesAccount, RunAccounts
<1>2. CASE Fail
  <2>1. UNCHANGED <<raw, hourly, daily, taken>> /\ run'.pc = "idle"
    BY <1>2, RunEnds DEF Fail
  <2> QED BY <2>1 DEF HistoryInv, TablesAccount, RunAccounts
<1> QED BY <1>1, <1>2, StoreAccounts, BeginAccounts, RawBatchAccounts,
           HourlyBatchAccounts, LogBatchAccounts, CommitAccounts DEF Next, RunStep

\* The Mini App's history is exact: at any moment, between any two batches, failures and
\* commits, get_site_history_for_user() counts no result twice and none that is older
\* than was asked for, and misses none whose day lies within the period.  It holds
\* because the transaction of a run accounts for every result before it is committed.
THEOREM HistoryCounts == Spec => []HistoryExact
<1>1. Spec => [](Typed /\ HistoryInv)
  BY InitTyped, NextTyped, InitAccounts, NextAccounts, PTL DEF Spec
<1>2. Typed /\ HistoryInv => HistoryExact
  <2> SUFFICES ASSUME Typed, HistoryInv, NEW p \in Periods
               PROVE  /\ History(now - p) <= Total(taken, Since(now - p))
                      /\ History(now - p) >= Total(taken, DaySince(now - p))
    BY DEF HistoryExact, Since, DaySince
  <2> DEFINE c == now - p
  <2>1. c \in Int
    BY Constants DEF Typed, TypeOK, Times
  <2>2. History(c) = Sum(raw, hourly, daily, Since(c))
    BY DEF History, Sum, Since
  <2> HIDE DEF c
  <2>3. /\ Sum(raw, hourly, daily, Since(c)) <= Total(taken, Since(c))
        /\ Sum(raw, hourly, daily, DaySince(c)) = Total(taken, DaySince(c))
    BY <2>1 DEF HistoryInv, TablesAccount, Accounts
  <2>4. /\ raw \in Counts /\ hourly \in Counts /\ daily \in Counts
        /\ Since(c) \in SUBSET Times /\ DaySince(c) \in SUBSET Since(c)
        /\ DaySince(c) \in SUBSET Times
    BY <2>1, AccountsType, SinceTimes DEF Typed
  <2>5. \A f \in Counts : /\ Total(f, DaySince(c)) <= Total(f, Since(c))
                          /\ Total(f, DaySince(c)) \in Nat /\ Total(f, Since(c)) \in Nat
    BY <2>4, TotalOfMore, TotalCounts
  <2>6. Sum(raw, hourly, daily, DaySince(c)) <= Sum(raw, hourly, daily, Since(c))
    BY <2>4, <2>5 DEF Sum
  <2>7. /\ Sum(raw, hourly, daily, Since(c)) \in Nat
        /\ Sum(raw, hourly, daily, DaySince(c)) \in Nat
    BY <2>4, <2>5 DEF Sum
  <2> QED BY <2>2, <2>3, <2>6, <2>7 DEF c
<1> QED BY <1>1, <1>2, PTL

=============================================================================
