---------------------------- MODULE ServeProofs -----------------------------
(***************************************************************************)
(* What holds of the server commands for every set of servers, requests,   *)
(* environments and every length of the grace period of Shutdown.          *)
(***************************************************************************)
EXTENDS ServeCommands, FiniteSetTheorems, TLAPS

-----------------------------------------------------------------------------
(* Loops that append.  The library's induction theorems take a predicate,  *)
(* which no prover here can give them; that finite subsets of Nat are well *)
(* ordered by inclusion is a fact about sets, and enough.                  *)

LEMMA Least ==
    ASSUME NEW T, T \subseteq Nat, T # {}
    PROVE  \E n \in T : \A m \in T : n <= m
<1> DEFINE Below == {0 .. n : n \in T}
<1>1. Below \subseteq FiniteSubsetsOf(Nat)
  <2>1. ASSUME NEW n \in T
        PROVE  IsFiniteSet(0 .. n) /\ 0 .. n \subseteq Nat
    BY FS_Interval
  <2>2. QED
    BY <2>1 DEF FiniteSubsetsOf
<1>2. PICK X \in Below : \A Y \in Below : ~ (<<Y, X>> \in StrictSubsetOrdering(Nat))
  <2>1. Below # {}
    OBVIOUS
  <2>2. QED
    BY <1>1, <2>1, FS_StrictSubsetOrderingWellFounded, WFMin
<1>3. PICK n \in T : X = 0 .. n
  OBVIOUS
<1>4. ASSUME NEW m \in T, ~ (n <= m)
      PROVE  FALSE
  <2> DEFINE pair == <<0 .. m, 0 .. n>>
  <2>1. 0 .. m \subseteq 0 .. n /\ n \in 0 .. n /\ n \notin 0 .. m /\ 0 .. n \subseteq Nat
    BY <1>4
  <2>2. /\ pair \in (SUBSET Nat) \X (SUBSET Nat)
        /\ pair[1] \subseteq pair[2] /\ pair[1] # pair[2]
    BY <2>1
  <2> HIDE DEF pair
  <2>3. pair \in StrictSubsetOrdering(Nat)
    BY <2>2 DEF StrictSubsetOrdering
  <2>4. QED
    BY <1>2, <1>3, <2>3 DEF pair
<1>5. QED
  BY <1>4

LEMMA EveryNumber ==
    ASSUME NEW G, 0 \in G, \A n \in Nat : n \in G => n + 1 \in G
    PROVE  Nat \subseteq G
<1>1. SUFFICES ASSUME Nat \ G # {} PROVE FALSE
  OBVIOUS
<1>2. PICK n \in Nat \ G : \A m \in Nat \ G : n <= m
  BY <1>1, Least
<1>3. n # 0
  OBVIOUS
<1>4. n - 1 \in G
  BY <1>2, <1>3
<1>5. QED
  BY <1>2, <1>3, <1>4

\* f[n] is what the loop of Kept has appended after n elements.
Loop(f, s, J, last) ==
    f = [n \in 0 .. last |->
            IF n = 0 THEN << >> ELSE IF n \in J THEN Append(f[n - 1], s[n]) ELSE f[n - 1]]

LEMMA KeptIsALoop ==
    ASSUME NEW s, NEW J, Len(s) \in Nat
    PROVE  \E f : Loop(f, s, J, Len(s)) /\ Kept(s, J) = f[Len(s)]
<1> DEFINE G == {n \in Nat : \E f : Loop(f, s, J, n)}
<1>1. 0 \in G
  <2> DEFINE f == [n \in 0 .. 0 |-> << >>]
  <2>1. Loop(f, s, J, 0)
    BY DEF Loop
  <2>2. QED
    BY <2>1
<1>2. ASSUME NEW m \in Nat, m \in G
      PROVE  m + 1 \in G
  <2>1. PICK f : Loop(f, s, J, m)
    BY <1>2
  <2> DEFINE g == [n \in 0 .. m + 1 |->
                      IF n <= m THEN f[n]
                      ELSE IF n \in J THEN Append(f[m], s[n]) ELSE f[m]]
  <2>2. \A n \in 0 .. m + 1 : n - 1 \in 0 .. m \/ n = 0
    OBVIOUS
  <2>3. ASSUME NEW n \in 0 .. m + 1
        PROVE  g[n] = IF n = 0 THEN << >> ELSE IF n \in J THEN Append(g[n - 1], s[n]) ELSE g[n - 1]
    <3>1. CASE n <= m
      <4>1. n \in 0 .. m /\ g[n] = f[n] /\ (n # 0 => g[n - 1] = f[n - 1])
        BY <3>1
      <4>2. f[n] = IF n = 0 THEN << >> ELSE IF n \in J THEN Append(f[n - 1], s[n]) ELSE f[n - 1]
        BY <2>1, <4>1 DEF Loop
      <4>3. QED
        BY <4>1, <4>2
    <3>2. CASE n = m + 1
      BY <3>2
    <3>3. QED
      BY <3>1, <3>2
  <2>4. g = [n \in 0 .. m + 1 |-> g[n]]
    OBVIOUS
  <2> HIDE DEF g
  <2>5. Loop(g, s, J, m + 1)
    BY <2>3, <2>4 DEF Loop
  <2>6. QED
    BY <2>5
<1>3. Len(s) \in G
  BY <1>1, <1>2, EveryNumber
<1>4. QED
  BY <1>3 DEF Kept, Loop

\* t holds the elements of s at the places in J, in the order of s.
Picks(t, s, J) ==
    /\ \A j \in J : \E i \in 1 .. Len(t) : t[i] = s[j]
    /\ \A i \in 1 .. Len(t) : \E j \in J : t[i] = s[j]
    /\ \A i, k \in 1 .. Len(t) : i < k => \E a, b \in J : a < b /\ t[i] = s[a] /\ t[k] = s[b]

LEMMA KeptElements ==
    ASSUME NEW S, NEW s \in Seq(S), NEW J, J \subseteq 1 .. Len(s)
    PROVE  Kept(s, J) \in Seq(S) /\ Picks(Kept(s, J), s, J)
<1> DEFINE Fits(t, K) == t \in Seq(S) /\ Picks(t, s, K)
<1> HIDE DEF Fits, Picks
<1>1. PICK f : Loop(f, s, J, Len(s)) /\ Kept(s, J) = f[Len(s)]
  BY KeptIsALoop
<1> DEFINE G == {n \in Nat : n <= Len(s) => Fits(f[n], J \cap (1 .. n))}
<1>2. 0 \in G
  <2>1. f[0] = << >>
    BY <1>1 DEF Loop
  <2>2. Fits(<< >>, J \cap (1 .. 0))
    BY DEF Fits, Picks
  <2>3. QED
    BY <2>1, <2>2
<1>3. ASSUME NEW m \in Nat, m \in G, m + 1 <= Len(s)
      PROVE  Fits(f[m + 1], J \cap (1 .. m + 1))
  <2> DEFINE t == f[m]
             n == m + 1
  <2>1. Fits(t, J \cap (1 .. m)) /\ n \in 1 .. Len(s) /\ s[n] \in S
    BY <1>3
  <2>2. f[n] = IF n \in J THEN Append(t, s[n]) ELSE t
    <3>1. n \in 0 .. Len(s) /\ n # 0 /\ n - 1 = m
      BY <1>3
    <3> HIDE DEF n
    <3>2. f[n] = IF n = 0 THEN << >> ELSE IF n \in J THEN Append(f[n - 1], s[n]) ELSE f[n - 1]
      BY <1>1, <3>1 DEF Loop
    <3>3. QED
      BY <3>1, <3>2
  <2> HIDE DEF t
  <2>3. t \in Seq(S) /\ Len(t) \in Nat
    BY <2>1 DEF Fits, Picks
  <2>4. \A j \in J \cap (1 .. m) : j \in J \cap (1 .. n) /\ j < n
    OBVIOUS
  <2>5. CASE n \notin J
    <3>1. J \cap (1 .. n) = J \cap (1 .. m)
      BY <2>5
    <3>2. f[n] = t
      BY <2>2, <2>5
    <3>3. QED
      BY <2>1, <3>1, <3>2
  <2>6. CASE n \in J
    <3> DEFINE u == Append(t, s[n])
               last == Len(t) + 1
    <3>1. /\ u \in Seq(S) /\ Len(u) = last /\ u[last] = s[n]
          /\ \A i \in 1 .. Len(t) : i \in 1 .. Len(u) /\ u[i] = t[i]
          /\ \A i \in 1 .. Len(u) : i \in 1 .. Len(t) \/ i = last
          /\ last \in 1 .. Len(u)
      BY <2>1, <2>3
    <3>2. n \in J \cap (1 .. n)
      BY <2>6
    <3>3. \A j \in J \cap (1 .. n) : j \in J \cap (1 .. m) \/ j = n
      OBVIOUS
    <3>4. f[n] = u
      BY <2>2, <2>6
    <3> HIDE DEF u, last, n
    <3>5. ASSUME NEW j \in J \cap (1 .. n)
          PROVE  \E i \in 1 .. Len(u) : u[i] = s[j]
      <4>1. CASE j = n
        BY <3>1, <4>1
      <4>2. CASE j \in J \cap (1 .. m)
        <5>1. PICK i \in 1 .. Len(t) : t[i] = s[j]
          BY <2>1, <4>2 DEF Fits, Picks
        <5>2. QED
          BY <3>1, <5>1
      <4>3. QED
        BY <3>3, <4>1, <4>2
    <3>6. ASSUME NEW i \in 1 .. Len(u)
          PROVE  \E j \in J \cap (1 .. n) : u[i] = s[j]
      <4>1. CASE i = last
        BY <3>1, <3>2, <4>1
      <4>2. CASE i \in 1 .. Len(t)
        <5>1. PICK j \in J \cap (1 .. m) : t[i] = s[j]
          BY <2>1, <4>2 DEF Fits, Picks
        <5>2. QED
          BY <2>4, <3>1, <4>2, <5>1
      <4>3. QED
        BY <3>1, <4>1, <4>2
    <3>7. ASSUME NEW i \in 1 .. Len(u), NEW k \in 1 .. Len(u), i < k
          PROVE  \E a, b \in J \cap (1 .. n) : a < b /\ u[i] = s[a] /\ u[k] = s[b]
      <4>1. i \in 1 .. Len(t)
        BY <2>3, <3>1, <3>7 DEF last
      <4>2. CASE k = last
        <5>1. PICK a \in J \cap (1 .. m) : t[i] = s[a]
          BY <2>1, <4>1 DEF Fits, Picks
        <5>2. a \in J \cap (1 .. n) /\ a < n /\ u[i] = s[a]
          BY <2>4, <3>1, <4>1, <5>1
        <5>3. QED
          BY <3>1, <3>2, <4>2, <5>2
      <4>3. CASE k \in 1 .. Len(t)
        <5>1. PICK a, b \in J \cap (1 .. m) : a < b /\ t[i] = s[a] /\ t[k] = s[b]
          BY <2>1, <3>7, <4>1, <4>3 DEF Fits, Picks
        <5>2. u[i] = s[a] /\ u[k] = s[b] /\ a \in J \cap (1 .. n) /\ b \in J \cap (1 .. n)
          BY <2>4, <3>1, <4>1, <4>3, <5>1
        <5>3. QED
          BY <5>1, <5>2
      <4>4. QED
        BY <3>1, <4>2, <4>3
    <3>8. Fits(u, J \cap (1 .. n))
      BY <3>1, <3>5, <3>6, <3>7 DEF Fits, Picks
    <3>9. QED
      BY <3>4, <3>8 DEF n
  <2>7. QED
    BY <2>5, <2>6
<1>4. ASSUME NEW m \in Nat, m \in G
      PROVE  m + 1 \in G
  <2>1. m + 1 <= Len(s) => Fits(f[m + 1], J \cap (1 .. m + 1))
    BY <1>3, <1>4
  <2>2. QED
    BY <2>1
<1>5. Fits(Kept(s, J), J \cap (1 .. Len(s)))
  <2>1. Len(s) \in Nat
    OBVIOUS
  <2>2. Len(s) \in G
    BY <1>2, <1>4, <2>1, EveryNumber
  <2>3. QED
    BY <1>1, <2>2
<1>6. J \cap (1 .. Len(s)) = J
  OBVIOUS
<1>7. Fits(Kept(s, J), J)
  BY <1>5, <1>6
<1>8. QED
  BY <1>7 DEF Fits

-----------------------------------------------------------------------------
(* The zones and the answers of the DNS server, as lists of records that   *)
(* come in the order of the environment, a record of addDefaultZone last.  *)

Record == [name : DnsNames, type : RecordTypes, origin : Nat]

Found(t) == {t[i] : i \in 1 .. Len(t)}

Sorted(t) == \A i, k \in 1 .. Len(t) : i < k =>
    /\ t[i].origin # Own
    /\ t[k].origin = Own \/ t[i].origin < t[k].origin

Accepted == {i \in DOMAIN environ : environ[i].parses /\ environ[i].type \in RecordTypes}
RecordOf(i) == [name |-> Canonical[environ[i].key], type |-> environ[i].type, origin |-> i]
DefaultOf(n) == [name |-> n, type |-> Address, origin |-> Own]
Defaults(n) == IF n \in {Apex, Wildcard} THEN {DefaultOf(n)} ELSE {}

\* Keeping some of the records leaves them in their order.
LEMMA KeptStaysSorted ==
    ASSUME NEW S, NEW s \in Seq(S), Sorted(s), NEW J, J \subseteq 1 .. Len(s)
    PROVE  /\ Kept(s, J) \in Seq(S) /\ Sorted(Kept(s, J))
           /\ Found(Kept(s, J)) = {s[j] : j \in J}
<1> DEFINE t == Kept(s, J)
<1>1. t \in Seq(S) /\ Picks(t, s, J)
  BY KeptElements
<1> HIDE DEF t
<1>2. Sorted(t)
  <2>1. SUFFICES ASSUME NEW i \in 1 .. Len(t), NEW k \in 1 .. Len(t), i < k
                 PROVE  t[i].origin # Own /\ (t[k].origin = Own \/ t[i].origin < t[k].origin)
    BY DEF Sorted
  <2>2. PICK a, b \in J : a < b /\ t[i] = s[a] /\ t[k] = s[b]
    BY <1>1, <2>1 DEF Picks
  <2>3. a \in 1 .. Len(s) /\ b \in 1 .. Len(s)
    OBVIOUS
  <2>4. QED
    BY <2>2, <2>3 DEF Sorted
<1>3. Found(t) = {s[j] : j \in J}
  <2>1. ASSUME NEW i \in 1 .. Len(t)
        PROVE  t[i] \in {s[j] : j \in J}
    <3>1. PICK j \in J : t[i] = s[j]
      BY <1>1 DEF Picks
    <3>2. QED
      BY <3>1
  <2>2. ASSUME NEW j \in J
        PROVE  s[j] \in Found(t)
    <3>1. PICK i \in 1 .. Len(t) : t[i] = s[j]
      BY <1>1 DEF Picks
    <3>2. QED
      BY <3>1 DEF Found
  <2>3. QED
    BY <2>1, <2>2 DEF Found
<1>4. QED
  BY <1>1, <1>2, <1>3 DEF t

\* Sorted records have different origins.
LEMMA SortedCount ==
    ASSUME NEW t \in Seq(Record), Sorted(t)
    PROVE  Len(t) = Cardinality({t[i].origin : i \in 1 .. Len(t)})
<1> DEFINE n == Len(t)
           O == {t[i].origin : i \in 1 .. n}
           f == [i \in 1 .. n |-> t[i].origin]
<1>0. n \in Nat
  OBVIOUS
<1> HIDE DEF n
<1>1. n \in Nat /\ IsFiniteSet(1 .. n) /\ Cardinality(1 .. n) = n
  BY <1>0, FS_Interval
<1> USE DEF n
<1>2. \A i \in 1 .. n : t[i].origin \in Nat
  <2>1. ASSUME NEW i \in 1 .. n
        PROVE  t[i].origin \in Nat
    <3>1. t[i] \in Record
      OBVIOUS
    <3>2. QED
      BY <3>1 DEF Record
  <2>2. QED
    BY <2>1
<1>3. \A i, k \in 1 .. n : i < k => t[i].origin # t[k].origin
  BY <1>2 DEF Sorted, Own
<1>4. \A i, k \in 1 .. n : f[i] = f[k] => i = k
  <2>1. SUFFICES ASSUME NEW i \in 1 .. n, NEW k \in 1 .. n, f[i] = f[k], i # k
                 PROVE  FALSE
    OBVIOUS
  <2>2. i < k \/ k < i
    BY <1>1, <2>1
  <2>3. t[i].origin = t[k].origin
    BY <2>1
  <2>4. QED
    BY <1>3, <2>2, <2>3
<1>5. f \in [1 .. n -> O] /\ \A o \in O : \E i \in 1 .. n : f[i] = o
  OBVIOUS
<1> HIDE DEF f, O, n
<1>6. f \in Bijection(1 .. n, O)
  BY <1>4, <1>5 DEF Bijection, Injection, IsInjective, Surjection
<1>7. Cardinality(O) = n
  BY <1>1, <1>6, FS_Bijection DEF ExistsBijection
<1>8. QED
  BY <1>7 DEF O, n

\* What loadZonesFromEnv reads: the entries that NewRR accepts.
LEMMA ParsedRecords ==
    ASSUME environ \in Seq(Entry)
    PROVE  /\ Parsed(environ) \in Seq(Record) /\ Sorted(Parsed(environ))
           /\ Found(Parsed(environ)) = {RecordOf(i) : i \in Accepted}
<1> DEFINE n == Len(environ)
           all == [i \in DOMAIN environ |-> RecordOf(i)]
           Any == [name : DnsNames, type : RecordTypes \union {OtherType}, origin : Nat]
<1>1. n \in Nat /\ DOMAIN environ = 1 .. n
  OBVIOUS
<1>2. ASSUME NEW i \in 1 .. n
      PROVE  RecordOf(i) \in Any
  <2>1. environ[i] \in Entry
    BY <1>1
  <2>2. environ[i].key \in Spellings /\ environ[i].type \in RecordTypes \union {OtherType}
    BY <2>1 DEF Entry
  <2>3. i \in Nat
    BY <1>1
  <2>4. QED
    BY <2>2, <2>3 DEF RecordOf, DnsNames
<1>3. all \in Seq(Any) /\ Len(all) = n /\ \A i \in 1 .. n : all[i] = RecordOf(i)
  BY <1>1, <1>2
<1>4. Accepted \subseteq 1 .. n
  BY <1>1 DEF Accepted
<1>5. Parsed(environ) = Kept(all, Accepted)
  BY DEF Parsed, RecordOf, Accepted
<1> HIDE DEF all, Any
<1>6. Sorted(all)
  <2>1. \A i \in 1 .. n : all[i].origin = i /\ i \in Nat /\ i # 0
    <3>1. \A i \in 1 .. n : i \in Nat /\ i # 0
      BY <1>1
    <3>2. \A i : RecordOf(i).origin = i
      BY DEF RecordOf
    <3>3. QED
      BY <1>3, <3>1, <3>2
  <2>2. QED
    BY <1>3, <2>1 DEF Sorted, Own
<1>7. /\ Parsed(environ) \in Seq(Any) /\ Sorted(Parsed(environ))
      /\ Found(Parsed(environ)) = {all[i] : i \in Accepted}
  <2>1. Accepted \subseteq 1 .. Len(all)
    BY <1>3, <1>4
  <2>2. /\ Kept(all, Accepted) \in Seq(Any) /\ Sorted(Kept(all, Accepted))
        /\ Found(Kept(all, Accepted)) = {all[j] : j \in Accepted}
    BY <1>3, <1>6, <2>1, KeptStaysSorted, Zenon
  <2>3. QED
    BY <1>5, <2>2
<1>8. {all[i] : i \in Accepted} = {RecordOf(i) : i \in Accepted}
  BY <1>3, <1>4
<1>9. Parsed(environ) \in Seq(Record)
  <2> DEFINE t == Parsed(environ)
  <2>1. \A i \in Accepted : RecordOf(i) \in Record
    BY <1>1, <1>2, <1>4 DEF Accepted, Record, RecordOf, Any
  <2>2. \A k \in 1 .. Len(t) : t[k] \in Record
    BY <1>7, <1>8, <2>1 DEF Found
  <2>3. t \in [1 .. Len(t) -> Record] /\ Len(t) \in Nat
    BY <1>7, <2>2
  <2> HIDE DEF t
  <2>4. t \in Seq(Record)
    BY <2>3
  <2>5. QED
    BY <2>4 DEF t
<1>10. QED
  BY <1>7, <1>8, <1>9

\* The records of a name: those of the entries that spell it, and the server's
\* own address at the end of the two names of the default zone.
LEMMA ZoneRecords ==
    ASSUME environ \in Seq(Entry), NEW n \in DnsNames
    PROVE  /\ NewZones(environ)[n] \in Seq(Record) /\ Sorted(NewZones(environ)[n])
           /\ Found(NewZones(environ)[n]) =
                 {RecordOf(i) : i \in {j \in Accepted : RecordOf(j).name = n}} \union Defaults(n)
<1> DEFINE p == Parsed(environ)
           J == Named(p, n)
           t == Kept(p, J)
           zone == NewZones(environ)[n]
           mine == {RecordOf(i) : i \in {j \in Accepted : RecordOf(j).name = n}}
<1>1. p \in Seq(Record) /\ Sorted(p) /\ Found(p) = {RecordOf(i) : i \in Accepted}
  BY ParsedRecords
<1>2. zone = IF n \in {Apex, Wildcard} THEN Append(t, DefaultOf(n)) ELSE t
  BY DEF NewZones, addDefaultZone, loadZonesFromEnv, DefaultOf
<1> HIDE DEF p, zone
<1>3. J \subseteq 1 .. Len(p) /\ DOMAIN p = 1 .. Len(p)
  BY <1>1 DEF Named
<1>4. t \in Seq(Record) /\ Sorted(t) /\ Found(t) = {p[j] : j \in J}
  BY <1>1, <1>3, KeptStaysSorted
<1>5. {p[j] : j \in J} = mine
  <2>1. ASSUME NEW j \in J
        PROVE  p[j] \in mine
    <3>1. j \in 1 .. Len(p) /\ p[j].name = n
      BY <1>3 DEF Named
    <3>2. PICK i \in Accepted : p[j] = RecordOf(i)
      BY <1>1, <3>1 DEF Found
    <3>3. QED
      BY <3>1, <3>2
  <2>2. ASSUME NEW i \in Accepted, RecordOf(i).name = n
        PROVE  RecordOf(i) \in {p[j] : j \in J}
    <3>1. PICK j \in 1 .. Len(p) : p[j] = RecordOf(i)
      BY <1>1 DEF Found
    <3>2. j \in J
      BY <1>3, <2>2, <3>1 DEF Named
    <3>3. QED
      BY <3>1, <3>2
  <2>3. QED
    BY <2>1, <2>2
<1> HIDE DEF t, J, mine
<1>6. CASE n \notin {Apex, Wildcard}
  BY <1>2, <1>4, <1>5, <1>6 DEF Defaults, zone, mine
<1>7. CASE n \in {Apex, Wildcard}
  <2> DEFINE r == DefaultOf(n)
  <2>1. r \in Record /\ r.origin = Own
    BY DnsAssumption DEF DefaultOf, Record, Own
  <2> HIDE DEF r
  <2>2. /\ Append(t, r) \in Seq(Record) /\ Len(Append(t, r)) = Len(t) + 1
        /\ Append(t, r)[Len(t) + 1] = r
        /\ \A i \in 1 .. Len(t) : Append(t, r)[i] = t[i]
        /\ Len(t) \in Nat
    BY <1>4, <2>1
  <2>3. zone = Append(t, r)
    BY <1>2, <1>7 DEF r
  <2>4. \A i \in 1 .. Len(zone) : i \in 1 .. Len(t) \/ i = Len(t) + 1
    BY <2>2, <2>3
  <2>5. \A i \in 1 .. Len(t) : t[i] \in mine
    BY <1>4, <1>5 DEF Found
  <2>6. \A x \in mine : x.origin # Own
    <3>1. \A i \in Accepted : i # Own
      BY DEF Accepted, Own
    <3>2. QED
      BY <3>1 DEF mine, RecordOf
  <2>7. Sorted(zone)
    <3>1. SUFFICES ASSUME NEW i \in 1 .. Len(zone), NEW k \in 1 .. Len(zone), i < k
                   PROVE  /\ zone[i].origin # Own
                          /\ zone[k].origin = Own \/ zone[i].origin < zone[k].origin
      BY DEF Sorted
    <3>2. i \in 1 .. Len(t) /\ zone[i] = t[i] /\ zone[i].origin # Own
      BY <2>2, <2>3, <2>5, <2>6, <3>1
    <3>3. CASE k = Len(t) + 1
      BY <2>1, <2>2, <2>3, <3>2, <3>3
    <3>4. CASE k \in 1 .. Len(t)
      <4>1. zone[k] = t[k]
        BY <2>2, <2>3, <3>4
      <4>2. QED
        BY <1>4, <3>1, <3>2, <3>4, <4>1 DEF Sorted
    <3>5. QED
      BY <2>4, <3>3, <3>4
  <2>8. Found(zone) = Found(t) \union {r}
    <3>1. ASSUME NEW i \in 1 .. Len(zone)
          PROVE  zone[i] \in Found(t) \union {r}
      BY <2>2, <2>3, <2>4 DEF Found
    <3>2. ASSUME NEW i \in 1 .. Len(t)
          PROVE  t[i] \in Found(zone)
      <4>1. i \in 1 .. Len(zone) /\ zone[i] = t[i]
        BY <2>2, <2>3
      <4>2. QED
        BY <4>1 DEF Found
    <3>3. r \in Found(zone)
      <4>1. Len(t) + 1 \in 1 .. Len(zone) /\ zone[Len(t) + 1] = r
        BY <2>2, <2>3
      <4>2. QED
        BY <4>1 DEF Found
    <3>4. QED
      BY <3>1, <3>2, <3>3 DEF Found
  <2>9. QED
    BY <1>4, <1>5, <1>7, <2>2, <2>3, <2>7, <2>8 DEF Defaults, zone, mine, r
<1>8. QED
  BY <1>6, <1>7

\* The answer to a question is the one the environment asks for, however its
\* entries spell the name and whatever capitals the question uses.
LEMMA DnsAnswers ==
    ASSUME environ \in Seq(Entry), NEW q \in Questions, NEW upstreamAnswers \in BOOLEAN
    PROVE  AnswersQuestion(q, handleDNS(NewZones(environ), q, upstreamAnswers))
<1> DEFINE n == Lower[q.name]
           zone == IF n \in DnsNames THEN NewZones(environ)[n] ELSE << >>
           J == {i \in DOMAIN zone : q.type \in {zone[i].type, AnyType}}
           own == LocalAnswer(NewZones(environ), q)
           origins == AnsweringEntries(q) \union (IF DefaultAnswers(q) THEN {Own} ELSE {})
<1>1. \A i \in Accepted : RecordOf(i).name \in DnsNames
  <2>1. \A i \in Accepted : environ[i] \in Entry
    BY DEF Accepted
  <2>2. QED
    BY <2>1 DEF Entry, RecordOf, DnsNames
<1>2. /\ zone \in Seq(Record) /\ Sorted(zone)
      /\ Found(zone) =
            {RecordOf(i) : i \in {j \in Accepted : RecordOf(j).name = n}} \union Defaults(n)
  <2>1. CASE n \in DnsNames
    BY <2>1, ZoneRecords
  <2>2. CASE n \notin DnsNames
    <3>1. zone = << >> /\ Defaults(n) = {}
      BY <2>2, DnsAssumption DEF Defaults
    <3>2. {j \in Accepted : RecordOf(j).name = n} = {}
      BY <1>1, <2>2
    <3> HIDE DEF zone, n
    <3>3. zone \in Seq(Record) /\ Sorted(zone) /\ Found(zone) = {}
      BY <3>1 DEF Sorted, Found
    <3>4. QED
      BY <3>1, <3>2, <3>3
  <2>3. QED
    BY <2>1, <2>2
<1>3. own = Kept(zone, J)
  BY DEF LocalAnswer
<1> HIDE DEF zone, own
<1>4. J \subseteq 1 .. Len(zone) /\ DOMAIN zone = 1 .. Len(zone)
  BY <1>2
<1>5. own \in Seq(Record) /\ Sorted(own) /\ Found(own) = {zone[j] : j \in J}
  BY <1>2, <1>3, <1>4, KeptStaysSorted
<1>6. {zone[j] : j \in J} = {r \in Found(zone) : q.type \in {r.type, AnyType}}
  BY <1>4 DEF Found
<1>7. {r.origin : r \in Found(own)} = origins
  <2>1. ASSUME NEW r \in Found(own)
        PROVE  r.origin \in origins
    <3>1. r \in Found(zone) /\ q.type \in {r.type, AnyType}
      BY <1>5, <1>6
    <3>2. CASE r \in Defaults(n)
      BY <3>1, <3>2 DEF Defaults, DefaultOf, DefaultAnswers
    <3>3. ASSUME NEW i \in Accepted, RecordOf(i).name = n, r = RecordOf(i)
          PROVE  r.origin \in origins
      BY <3>1, <3>3 DEF RecordOf, Accepted, AnsweringEntries
    <3>4. QED
      BY <1>2, <3>1, <3>2, <3>3
  <2>2. ASSUME NEW i \in AnsweringEntries(q)
        PROVE  i \in {r.origin : r \in Found(own)}
    <3>1. /\ i \in Accepted /\ RecordOf(i).name = n /\ q.type \in {RecordOf(i).type, AnyType}
          /\ RecordOf(i).origin = i
      BY DEF AnsweringEntries, Accepted, RecordOf
    <3>2. RecordOf(i) \in Found(own)
      BY <1>2, <1>5, <1>6, <3>1
    <3>3. QED
      BY <3>1, <3>2
  <2>3. ASSUME DefaultAnswers(q)
        PROVE  Own \in {r.origin : r \in Found(own)}
    <3>1. /\ DefaultOf(n) \in Defaults(n) /\ q.type \in {DefaultOf(n).type, AnyType}
          /\ DefaultOf(n).origin = Own
      BY <2>3 DEF DefaultAnswers, Defaults, DefaultOf
    <3>2. DefaultOf(n) \in Found(own)
      BY <1>2, <1>5, <1>6, <3>1
    <3>3. QED
      BY <3>1, <3>2
  <2>4. QED
    BY <2>1, <2>2, <2>3
<1>8. {own[i].origin : i \in 1 .. Len(own)} = origins
  BY <1>7 DEF Found
<1>9. Len(own) = Cardinality(origins)
  BY <1>5, <1>8, SortedCount
<1> DEFINE reply == handleDNS(NewZones(environ), q, upstreamAnswers)
<1>10. CASE own = << >> /\ upstreamAnswers
  <2>1. reply.records = << >> /\ reply.from = "upstream"
    BY <1>10 DEF handleDNS, own
  <2>2. own = << >> /\ origins = {}
    BY <1>8, <1>10
  <2> HIDE DEF reply, origins
  <2>3. Len(own) = Cardinality(origins) /\ {own[i].origin : i \in 1 .. Len(own)} = origins
    BY <1>8, <1>9
  <2>4. DOMAIN reply.records = 1 .. Len(own) /\ Len(own) = 0 /\ reply.records = own
    BY <2>1, <2>2
  <2>5. QED
    BY <2>2, <2>3, <2>4 DEF AnswersQuestion, reply, origins
<1>11. CASE ~ (own = << >> /\ upstreamAnswers)
  <2>1. reply = [from |-> "local", records |-> own]
    BY <1>11 DEF handleDNS, own
  <2>2. reply.records = own /\ reply.from = "local"
    BY <2>1
  <2> HIDE DEF reply, origins
  <2>3. DOMAIN own = 1 .. Len(own)
    BY <1>5
  <2>4. {own[i].origin : i \in DOMAIN own} = origins /\ Len(own) = Cardinality(origins)
    BY <1>8, <1>9, <2>3
  <2>5. \A i, j \in DOMAIN own : i < j =>
            own[j].origin = Own \/ (own[i].origin < own[j].origin /\ own[i].origin # Own)
    BY <1>5, <2>3 DEF Sorted
  <2>6. QED
    BY <2>2, <2>4, <2>5 DEF AnswersQuestion, reply, origins
<1>12. QED
  BY <1>10, <1>11

-----------------------------------------------------------------------------
(* Requests and the time they need.                                        *)

\* Every request a server can be asked for takes a number of seconds.
LEMMA NeedsType ==
    ASSUME NEW s \in Servers, NEW request \in Requests(s)
    PROVE  Needs(request) \in Nat
<1>1. ASSUME NEW arg \in Arguments
      PROVE  handleDelay(arg).wait \in Nat
  BY CommandAssumption, EchoAssumption DEF handleDelay, Refused
<1>2. CASE request.path = "body"
  BY <1>2, CommandAssumption DEF Requests, Needs
<1>3. CASE request.path = "/delay"
  BY <1>1, <1>3 DEF Requests, Needs
<1>4. CASE request.path \notin {"body", "/delay"}
  BY <1>4 DEF Needs
<1>5. QED
  BY <1>2, <1>3, <1>4

-----------------------------------------------------------------------------
(* The state of the process, its servers and its requests.                 *)

\* What is being handled is being handled by a server that listened; one whose
\* error is reported is down, and a gRPC server that is down is idle.
ServersInv == \A s \in Servers :
    /\ srv[s] = "off" => ~ busy[s] /\ ~ stream[s]
    /\ srv[s] = "spawned" /\ s \notin DnsServers => ~ busy[s] /\ ~ stream[s]
    /\ srv[s] = "down" /\ s \in GrpcServers => ~ busy[s] /\ ~ stream[s]
    /\ s \in errs => srv[s] = "down" /\ (s \notin DnsServers => ~ busy[s] /\ ~ stream[s])

\* A DNS server is never serving in the sense of the other kinds: its sockets
\* are.  A question is handled on a socket that has come up and not ended, and
\* Shutdown deals with UDP at once.
DnsInv == \A s \in DnsServers :
    /\ srv[s] \in {"off", "spawned", "down"}
    /\ srv[s] = "off" => \A k \in Sockets : sock[s][k] \in {"off", "late"}
    /\ busy[s] => sock[s][via[s]] \in {"up", "missed", "closing"}
    /\ asked[s] => sock[s]["udp"] \notin {"off", "up"}

\* How far the main goroutine of `serve` has come.
ServeInv == command = "serve" =>
    /\ main \in {"waiting", "draining"} => Launched = Servers
    /\ main = "exited" /\ result # "aborted" =>
          \A s \in GrpcServers : ~ busy[s] /\ ~ stream[s]

\* A single command: only its own server is ever used, and past its select that
\* server has been asked to shut down or has failed.
AloneInv == command # "serve" =>
    /\ busy[command] => asking \in Requests(command) /\ left <= Needs(asking)
    /\ \A s \in Servers \ {command} : ~ busy[s] /\ ~ stream[s] /\ s \notin errs
    /\ main = "draining" => asked[command] /\ result = "ok"
    /\ main = "exited" =>
          /\ command \in GrpcServers => ~ busy[command] /\ ~ stream[command]
          /\ command \in DnsServers /\ busy[command] /\ result = "ok" => MissedIt(command)

\* While Shutdown waits, a request has taken as long as Shutdown has waited.
GraceInv == command \in HttpServers =>
    /\ main = "draining" =>
          /\ srv[command] # "serving"
          /\ busy[command] => Needs(asking) + grace >= Grace + left
    /\ main = "exited" /\ busy[command] => Needs(asking) >= Grace

IInv == CommandTypeOK /\ ServersInv /\ DnsInv /\ ServeInv /\ AloneInv /\ GraceInv

\* The states of a socket.
States == {"off", "up", "late", "missed", "closing", "ended"}

LEMMA Initially == CommandInit => IInv
<1>1. SUFFICES ASSUME CommandInit PROVE IInv
  OBVIOUS
<1>2. Fresh /\ command \in {"serve"} \union Servers
  BY <1>1 DEF CommandInit
<1>3. TypeOK /\ ServersInv /\ DnsInv
  <2>1. TypeOK
    <3>1. handled \in BOOLEAN
      BY <1>1 DEF CommandInit
    <3>2. sock \in [DnsServers -> [Sockets -> States]]
      BY <1>2 DEF Fresh, States
    <3>3. via \in [DnsServers -> Sockets]
      BY <1>2 DEF Fresh, Sockets
    <3>4. QED
      BY <1>2, <3>1, <3>2, <3>3 DEF Fresh, TypeOK, States
  <2>2. ServersInv
    BY <1>2 DEF Fresh, ServersInv
  <2>3. DnsInv
    BY <1>2 DEF Fresh, DnsInv, Servers, Sockets
  <2>4. QED
    BY <2>1, <2>2, <2>3
<1>4. CommandTypeOK
  <2>1. environ \in Environs \union {<<>>} /\ left = 0 /\ grace = 0
    BY <1>1 DEF CommandInit
  <2>2. asking = NoRequest /\ \A s \in Servers : busy[s] = FALSE
    BY <1>1, <1>2 DEF CommandInit, Fresh
  <2>3. DOMAIN zones = DnsNames
    BY <1>1 DEF CommandInit
  <2>4. 0 \in 0 .. Grace
    BY CommandAssumption
  <2>5. QED
    BY <1>2, <1>3, <2>1, <2>2, <2>3, <2>4 DEF CommandTypeOK
<1>5. ServeInv /\ AloneInv /\ GraceInv
  BY <1>2 DEF Fresh, ServeInv, AloneInv, GraceInv
<1>6. QED
  BY <1>3, <1>4, <1>5 DEF IInv

-----------------------------------------------------------------------------
(* The steps that `serve` and the single commands share.                   *)

\* What a call of Shutdown does to the servers.
LEMMA ShutdownEffect ==
    ASSUME TypeOK, ServersInv, DnsInv, NEW s \in Servers, CallShutdown(s),
           UNCHANGED <<errs, clients>>
    PROVE  /\ srv' \in [Servers -> {"off", "spawned", "serving", "closing", "down"}]
           /\ sock' \in [DnsServers -> [Sockets -> States]]
           /\ asked' = [asked EXCEPT ![s] = TRUE]
           /\ \A t \in Servers : srv'[t] = srv[t] \/ (srv[t] = "serving" /\ srv'[t] = "closing")
           /\ srv'[s] # "serving"
           /\ ServersInv' /\ DnsInv'
<1> USE DEF TypeOK
<1>1. /\ srv' \in [Servers -> {"off", "spawned", "serving", "closing", "down"}]
      /\ asked' = [asked EXCEPT ![s] = TRUE]
      /\ \A t \in Servers : srv'[t] = srv[t] \/ (srv[t] = "serving" /\ srv'[t] = "closing")
      /\ srv'[s] # "serving"
  BY DEF CallShutdown
<1>2. ASSUME NEW t \in DnsServers
      PROVE  /\ sock'[t] \in [Sockets -> States]
             /\ \A k \in Sockets : sock'[t][k] \in {sock[t][k], Shut(sock[t][k])}
             /\ t = s => sock'[t]["udp"] = Shut(sock[t]["udp"])
             /\ t # s => sock'[t] = sock[t]
  BY <1>2 DEF CallShutdown, Shut, States, Sockets
<1>3. sock' \in [DnsServers -> [Sockets -> States]]
  <2>1. sock' = [t \in DnsServers |-> sock'[t]]
    BY DEF CallShutdown
  <2>2. QED
    BY <1>2, <2>1
<1>4. ServersInv'
  BY <1>1, CommandAssumption DEF ServersInv, clients
<1>5. DnsInv'
  <2>1. ASSUME NEW t \in DnsServers
        PROVE  /\ srv'[t] = srv[t] /\ srv[t] \in {"off", "spawned", "down"}
               /\ via[t] \in Sockets /\ asked[t] \in BOOLEAN
    BY <1>1 DEF DnsInv, Servers
  <2>2. ASSUME NEW t \in DnsServers, srv[t] = "off", NEW k \in Sockets
        PROVE  sock'[t][k] \in {"off", "late"}
    BY <1>2, <2>2 DEF DnsInv, Shut
  <2>3. ASSUME NEW t \in DnsServers, busy[t]
        PROVE  sock'[t][via[t]] \in {"up", "missed", "closing"}
    BY <1>2, <2>1, <2>3 DEF DnsInv, Shut
  <2>4. ASSUME NEW t \in DnsServers, asked'[t]
        PROVE  sock'[t]["udp"] \notin {"off", "up"}
    <3>1. CASE t = s
      <4>1. sock[t]["udp"] \in States
        BY DEF Sockets, States
      <4>2. QED
        BY <1>2, <3>1, <4>1 DEF Shut, States
    <3>2. CASE t # s
      BY <1>1, <1>2, <2>4, <3>2 DEF DnsInv, Servers
    <3>3. QED
      BY <3>1, <3>2
  <2>5. QED
    BY <2>1, <2>2, <2>3, <2>4 DEF DnsInv, clients
<1>6. QED
  BY <1>1, <1>3, <1>4, <1>5

\* What happens to a socket of its own accord.
LEMMA SocketStep ==
    ASSUME TypeOK, ServersInv, DnsInv, NEW s \in Servers,
           SocketRuns(s) \/ \E k \in Sockets : SocketFails(s, k)
    PROVE  TypeOK' /\ ServersInv' /\ DnsInv'
<1> USE DEF TypeOK
<1>0. s \in DnsServers /\ s \notin GrpcServers /\ "udp" \in Sockets /\ "tcp" \in Sockets
  BY CommandAssumption DEF SocketRuns, ShutTcp, SocketOpens, SocketEnds, SocketFails, Sockets
\* One socket goes from one state to another; the server may be down with it.
<1>1. ASSUME NEW k \in Sockets, NEW state \in States,
             sock' = [sock EXCEPT ![s][k] = state],
             \/ srv' = srv
             \/ srv' = [srv EXCEPT ![s] = "down"] /\ srv[s] # "off",
             errs' = errs \/ (errs' = errs \union {s} /\ srv'[s] = "down"),
             srv'[s] = "off" => state \in {"off", "late"},
             busy[s] /\ via[s] = k => state \in {"up", "missed", "closing"},
             asked[s] /\ k = "udp" => state \notin {"off", "up"},
             UNCHANGED <<main, result, done, handled, asked, clients>>
      PROVE  TypeOK' /\ ServersInv' /\ DnsInv'
  <2>1. /\ sock' \in [DnsServers -> [Sockets -> States]]
        /\ sock'[s][k] = state /\ \A l \in Sockets \ {k} : sock'[s][l] = sock[s][l]
        /\ \A t \in DnsServers \ {s} : sock'[t] = sock[t]
    BY <1>0, <1>1 DEF States
  <2>2. /\ srv' \in [Servers -> {"off", "spawned", "serving", "closing", "down"}]
        /\ srv'[s] \in {srv[s], "down"} /\ (srv'[s] = "off" <=> srv[s] = "off")
        /\ \A t \in Servers \ {s} : srv'[t] = srv[t]
    BY <1>1
  <2>3. TypeOK'
    BY <1>1, <2>1, <2>2 DEF clients, States
  <2>4. ServersInv'
    BY <1>0, <1>1, <2>2 DEF ServersInv, clients
  <2>5. DnsInv'
    <3>1. ASSUME NEW t \in DnsServers, t # s
          PROVE  /\ srv'[t] = srv[t] /\ sock'[t] = sock[t]
                 /\ busy'[t] = busy[t] /\ via'[t] = via[t] /\ asked'[t] = asked[t]
      BY <1>1, <2>1, <2>2, <3>1 DEF clients, Servers
    <3>2. srv'[s] \in {"off", "spawned", "down"}
      BY <1>0, <2>2 DEF DnsInv
    <3>3. srv'[s] = "off" => \A l \in Sockets : sock'[s][l] \in {"off", "late"}
      BY <1>0, <1>1, <2>1, <2>2 DEF DnsInv
    <3>4. busy[s] => sock'[s][via[s]] \in {"up", "missed", "closing"}
      BY <1>0, <1>1, <2>1 DEF DnsInv
    <3>5. asked[s] => sock'[s]["udp"] \notin {"off", "up"}
      BY <1>0, <1>1, <2>1 DEF DnsInv
    <3>6. QED
      BY <1>1, <3>1, <3>2, <3>3, <3>4, <3>5 DEF DnsInv, clients
  <2>6. QED
    BY <2>3, <2>4, <2>5
<1>2. CASE ShutTcp(s)
  <2>1. sock[s]["tcp"] \in {"off", "up"}
    BY <1>2 DEF ShutTcp
  <2> DEFINE state == IF sock[s]["tcp"] = "off" THEN "late" ELSE "closing"
  <2>2. sock' = [sock EXCEPT ![s]["tcp"] = state]
    BY <1>0, <1>2, <2>1 DEF ShutTcp, Shut
  <2>3. /\ state \in States
        /\ busy[s] /\ via[s] = "tcp" => state \in {"up", "missed", "closing"}
        /\ srv'[s] = "off" => state \in {"off", "late"}
    BY <1>0, <1>2, <2>1 DEF States, DnsInv, ShutTcp
  <2> HIDE DEF state
  <2>4. UNCHANGED <<main, result, done, handled, srv, asked, errs, clients>>
    BY <1>2 DEF ShutTcp
  <2>5. QED
    BY <1>0, <1>1, <2>2, <2>3, <2>4
<1>3. ASSUME NEW k \in Sockets, SocketOpens(s, k)
      PROVE  TypeOK' /\ ServersInv' /\ DnsInv'
  <2> DEFINE state == IF sock[s][k] = "off" THEN "up" ELSE "missed"
  <2>1. sock' = [sock EXCEPT ![s][k] = state]
    BY <1>0, <1>3 DEF SocketOpens
  <2>2. /\ state \in {"up", "missed"} /\ srv[s] # "off"
        /\ asked[s] /\ k = "udp" => state # "up"
    BY <1>0, <1>3 DEF SocketOpens, DnsInv
  <2> HIDE DEF state
  <2>3. state \in States /\ (asked[s] /\ k = "udp" => state \notin {"off", "up"})
    BY <2>2 DEF States
  <2>4. UNCHANGED <<main, result, done, handled, srv, asked, errs, clients>>
    BY <1>3 DEF SocketOpens
  <2>5. QED
    BY <1>0, <1>1, <2>1, <2>2, <2>3, <2>4
<1>4. ASSUME NEW k \in Sockets, SocketEnds(s, k) \/ SocketFails(s, k)
      PROVE  TypeOK' /\ ServersInv' /\ DnsInv'
  <2>1. /\ sock' = [sock EXCEPT ![s][k] = "ended"] /\ "ended" \in States
        /\ UNCHANGED <<main, result, done, handled, asked, clients>>
    BY <1>4 DEF SocketEnds, SocketFails, States
  <2>2. srv' = [srv EXCEPT ![s] = "down"] /\ srv[s] # "off" /\ srv'[s] = "down"
    BY <1>0, <1>4 DEF SocketEnds, SocketFails, DnsInv
  <2>3. errs' = errs \/ errs' = errs \union {s}
    BY <1>4 DEF SocketEnds, SocketFails
  <2>4. ~ (busy[s] /\ via[s] = k)
    BY <1>0, <1>4 DEF SocketEnds, SocketFails, Held, DnsInv
  <2>5. QED
    BY <1>1, <2>1, <2>2, <2>3, <2>4
<1>5. QED
  BY <1>2, <1>3, <1>4 DEF SocketRuns

LEMMA SharedStep ==
    ASSUME TypeOK, ServersInv, DnsInv, [Next]_vars
    PROVE  TypeOK' /\ ServersInv' /\ DnsInv'
<1> DEFINE Goal == TypeOK' /\ ServersInv' /\ DnsInv'
<1> USE DEF TypeOK, ServersInv, clients
\* A step that leaves the sockets and what DnsInv says of them alone.
<1>1. ASSUME UNCHANGED <<sock, asked>>,
             \A s \in DnsServers :
                 /\ srv'[s] = srv[s] \/ (srv'[s] = "spawned" /\ srv[s] = "off")
                 /\ busy'[s] /\ via'[s] \in Sockets =>
                       sock[s][via'[s]] \in {"up", "missed", "closing"}
                 /\ via'[s] \in Sockets
      PROVE  DnsInv'
  BY <1>1 DEF DnsInv
<1>2. ASSUME UNCHANGED <<sock, asked, busy, via>>,
             \A s \in DnsServers : srv'[s] = srv[s] \/ (srv'[s] = "spawned" /\ srv[s] = "off")
      PROVE  DnsInv'
  BY <1>2 DEF DnsInv
<1>3. ASSUME NEW s \in Servers, Launch(s) \/ NewFails(s)
      PROVE  Goal
  <2>1. TypeOK' /\ ServersInv'
    BY <1>3 DEF Launch, NewFails
  <2>2. DnsInv'
    BY <1>2, <1>3 DEF Launch, NewFails, Servers
  <2>3. QED
    BY <2>1, <2>2
<1>4. CASE AllLaunched \/ TakeError \/ TakeDone \/ Exit \/ Interrupt
  <2>1. UNCHANGED <<sock, asked, busy, via, srv>>
    BY <1>4 DEF AllLaunched, TakeError, TakeDone, Exit, Interrupt
  <2>2. DnsInv'
    BY <1>2, <2>1
  <2>3. QED
    BY <1>4, <2>2 DEF AllLaunched, TakeError, TakeDone, Exit, Interrupt
<1>5. ASSUME NEW s \in Servers, ListenFails(s) \/ Listen(s) \/ StartTooLate(s)
      PROVE  Goal
  <2>1. /\ s \notin DnsServers /\ errs' \in {errs, errs \union {s}}
        /\ UNCHANGED <<main, result, done, handled, asked, sock, busy, via, stream>>
        /\ \/ srv' = [srv EXCEPT ![s] = "down"]
           \/ srv' = [srv EXCEPT ![s] = "serving"] /\ errs' = errs
        /\ srv[s] = "spawned"
    BY <1>5 DEF ListenFails, Listen, StartTooLate
  <2>2. TypeOK' /\ ServersInv'
    BY <2>1
  <2>3. DnsInv'
    BY <1>2, <2>1 DEF Servers
  <2>4. QED
    BY <2>2, <2>3
<1>6. ASSUME NEW s \in Servers, AskShutdown(s)
      PROVE  Goal
  <2>1. /\ CallShutdown(s) /\ UNCHANGED <<main, result, done, handled, errs, clients>>
    BY <1>6 DEF AskShutdown
  <2>2. /\ srv' \in [Servers -> {"off", "spawned", "serving", "closing", "down"}]
        /\ sock' \in [DnsServers -> [Sockets -> States]]
        /\ asked' = [asked EXCEPT ![s] = TRUE] /\ ServersInv' /\ DnsInv'
    BY <2>1, ShutdownEffect
  <2>3. TypeOK'
    BY <2>1, <2>2 DEF States
  <2>4. QED
    BY <2>2, <2>3
<1>7. ASSUME NEW s \in Servers, StartReturns(s)
      PROVE  Goal
  <2>1. s \notin DnsServers
    BY <1>7 DEF StartReturns, DnsInv
  <2>2. DnsInv'
    BY <1>2, <1>7, <2>1 DEF StartReturns, Servers
  <2>3. QED
    BY <1>7, <2>1, <2>2 DEF StartReturns, Drained
<1>8. ASSUME NEW s \in Servers, Arrive(s)
      PROVE  Goal
  <2>1. TypeOK' /\ ServersInv'
    BY <1>8, CommandAssumption DEF Arrive, DnsInv
  <2>2. DnsInv'
    BY <1>1, <1>8 DEF Arrive, DnsInv, Servers
  <2>3. QED
    BY <2>1, <2>2
<1>9. ASSUME NEW s \in Servers, Answer(s)
      PROVE  Goal
  <2>1. TypeOK' /\ ServersInv'
    BY <1>9 DEF Answer, Sockets
  <2>2. \A t \in DnsServers : t # s => busy'[t] = busy[t] /\ via'[t] = via[t]
    BY <1>9 DEF Answer, Servers
  <2>3. ~ busy'[s]
    BY <1>9 DEF Answer
  <2>4. DnsInv'
    BY <1>9, <2>2, <2>3 DEF Answer, DnsInv
  <2>5. QED
    BY <2>1, <2>4
<1>10. ASSUME NEW s \in Servers, OpenStream(s) \/ CloseStream(s)
       PROVE  Goal
  <2>1. TypeOK' /\ ServersInv'
    BY <1>10 DEF OpenStream, CloseStream
  <2>2. DnsInv'
    BY <1>2, <1>10 DEF OpenStream, CloseStream
  <2>3. QED
    BY <2>1, <2>2
<1>11. CASE UNCHANGED vars
  BY <1>2, <1>11 DEF vars
<1>12. QED
  BY <1>3, <1>4, <1>5, <1>6, <1>7, <1>8, <1>9, <1>10, <1>11, SocketStep
     DEF Next, Main, Run, Starts, Fails

-----------------------------------------------------------------------------
(* serve.                                                                  *)

LEMMA ServeStepKeeps ==
    ASSUME IInv, ServeStep
    PROVE  IInv'
<1>1. TypeOK' /\ ServersInv' /\ DnsInv'
  BY SharedStep DEF IInv, CommandTypeOK, ServeStep
<1>2. command = "serve" /\ command' = "serve"
  BY DEF ServeStep, alone
<1>3. CommandTypeOK'
  BY <1>1, <1>2 DEF IInv, CommandTypeOK, ServeStep, alone
<1>4. AloneInv' /\ GraceInv'
  BY <1>2, CommandAssumption DEF AloneInv, GraceInv, Servers
<1>5. ServeInv'
  <2>0. srv \in [Servers -> {"off", "spawned", "serving", "closing", "down"}]
    BY DEF IInv, CommandTypeOK, TypeOK
  <2>1. ASSUME NEW s \in Servers, Launch(s) \/ NewFails(s)
        PROVE  ServeInv'
    BY <2>1 DEF Launch, NewFails, ServeInv
  <2>2. CASE AllLaunched \/ TakeError \/ TakeDone
    BY <1>2, <2>2 DEF AllLaunched, TakeError, TakeDone, IInv, ServeInv, Launched
  <2>3. CASE Exit
    <3>1. \A s \in GrpcServers : s \in Servers /\ srv[s] = "down"
      BY <1>2, <2>3 DEF Exit, IInv, ServeInv, Servers
    <3>2. \A s \in GrpcServers : ~ busy[s] /\ ~ stream[s]
      BY <3>1 DEF IInv, ServersInv
    <3>3. QED
      BY <2>3, <3>2 DEF Exit, ServeInv, clients
  <2>4. CASE Interrupt
    BY <1>2, <2>4 DEF Interrupt, IInv, ServeInv, Launched, Alive
  <2>5. ASSUME NEW s \in Servers, Alive, UNCHANGED main, {t \in Servers : srv[t] # "off"}
               \subseteq {t \in Servers : srv'[t] # "off"}
        PROVE  ServeInv'
    BY <1>2, <2>5 DEF IInv, ServeInv, Launched, Alive
  <2>6. ASSUME NEW s \in Servers,
               ListenFails(s) \/ Listen(s) \/ StartTooLate(s) \/ AskShutdown(s) \/ StartReturns(s)
        PROVE  ServeInv'
    BY <2>0, <2>5, <2>6 DEF ListenFails, Listen, StartTooLate, AskShutdown, CallShutdown,
                                StartReturns
  <2>7. ASSUME NEW s \in Servers, Arrive(s) \/ Answer(s) \/ OpenStream(s) \/ CloseStream(s)
        PROVE  ServeInv'
    BY <2>5, <2>7 DEF Arrive, Answer, OpenStream, CloseStream
  <2>8. ASSUME NEW s \in Servers, SocketRuns(s) \/ \E k \in Sockets : SocketFails(s, k)
        PROVE  ServeInv'
    BY <2>0, <2>5, <2>8 DEF SocketRuns, ShutTcp, SocketOpens, SocketEnds, SocketFails
  <2>9. QED
    BY <2>1, <2>2, <2>3, <2>4, <2>6, <2>7, <2>8 DEF ServeStep, Next, Main, Run, Starts, Fails
<1>6. QED
  BY <1>1, <1>3, <1>4, <1>5 DEF IInv

-----------------------------------------------------------------------------
(* The single commands.                                                    *)

LEMMA StartAloneKeeps ==
    ASSUME IInv, NEW s \in Servers, command = s, StartAlone(s)
    PROVE  IInv'
<1> USE DEF StartAlone
<1>1. /\ TypeOK /\ command # "serve" /\ command' = command
  BY CommandAssumption DEF IInv, CommandTypeOK
<1>2. TypeOK' /\ ServersInv' /\ DnsInv'
  <2>1. TypeOK' /\ ServersInv'
    BY <1>1 DEF TypeOK, IInv, ServersInv, clients
  <2>2. DnsInv'
    BY <1>1 DEF TypeOK, IInv, DnsInv, clients
  <2>3. QED
    BY <2>1, <2>2
<1>3. DOMAIN zones' = DnsNames
  BY DEF IInv, CommandTypeOK, NewZones, addDefaultZone
<1>4. CommandTypeOK'
  BY <1>1, <1>2, <1>3 DEF IInv, CommandTypeOK, clients
<1>5. ServeInv' /\ AloneInv' /\ GraceInv'
  BY <1>1 DEF IInv, ServeInv, AloneInv, GraceInv, Requests, clients
<1>6. QED
  BY <1>2, <1>4, <1>5 DEF IInv

LEMMA TakeErrorKeeps ==
    ASSUME IInv, NEW s \in Servers, command = s, TakeErrorAlone
    PROVE  IInv'
<1> USE DEF TakeErrorAlone
<1>1. TypeOK /\ command # "serve" /\ UNCHANGED alone
  BY CommandAssumption DEF IInv, CommandTypeOK
<1>2. TypeOK' /\ ServersInv' /\ DnsInv'
  BY <1>1 DEF TypeOK, IInv, ServersInv, DnsInv, clients
<1>3. CommandTypeOK'
  BY <1>1, <1>2 DEF IInv, CommandTypeOK, alone, clients
<1>4. command \notin DnsServers => ~ busy[command] /\ ~ stream[command]
  BY <1>1 DEF IInv, ServersInv, AloneInv, TypeOK
<1>5. ServeInv' /\ AloneInv' /\ GraceInv'
  BY <1>1, <1>4, CommandAssumption DEF IInv, ServeInv, AloneInv, GraceInv, alone, clients, Requests
<1>6. QED
  BY <1>2, <1>3, <1>5 DEF IInv

LEMMA TakeDoneKeeps ==
    ASSUME IInv, NEW s \in Servers, command = s, TakeDoneAlone(s)
    PROVE  IInv'
<1> USE DEF TakeDoneAlone
<1>1. TypeOK /\ command # "serve" /\ command' = command
  BY CommandAssumption DEF IInv, CommandTypeOK
<1>2. TypeOK' /\ ServersInv' /\ DnsInv'
  <2>1. /\ srv' \in [Servers -> {"off", "spawned", "serving", "closing", "down"}]
        /\ sock' \in [DnsServers -> [Sockets -> States]]
        /\ asked' = [asked EXCEPT ![s] = TRUE] /\ srv'[s] # "serving"
        /\ ServersInv' /\ DnsInv'
    BY <1>1, ShutdownEffect DEF IInv
  <2>2. TypeOK'
    BY <1>1, <2>1 DEF TypeOK, States, clients
  <2>3. QED
    BY <2>1, <2>2
<1>3. grace' \in 0 .. Grace
  BY CommandAssumption
<1>4. CommandTypeOK'
  BY <1>1, <1>2, <1>3 DEF IInv, CommandTypeOK, clients
<1>5. ServeInv' /\ AloneInv'
  BY <1>1 DEF IInv, ServeInv, AloneInv, Requests, TypeOK, CallShutdown, clients
<1>6. GraceInv'
  <2>1. SUFFICES ASSUME s \in HttpServers
                 PROVE  /\ srv'[s] # "serving"
                        /\ busy[s] => Needs(asking) + Grace >= Grace + left
    BY <1>1 DEF GraceInv, clients
  <2>2. srv'[s] # "serving"
    BY <1>1, ShutdownEffect DEF IInv
  <2>3. ASSUME busy[s]
        PROVE  Needs(asking) + Grace >= Grace + left
    <3>1. asking \in Requests(s) /\ left <= Needs(asking) /\ left \in Nat
      BY <1>1, <2>3 DEF IInv, AloneInv, CommandTypeOK
    <3>2. Needs(asking) \in Nat /\ Grace \in Nat
      BY <3>1, NeedsType, CommandAssumption
    <3>3. QED
      BY <3>1, <3>2
  <2>4. QED
    BY <2>2, <2>3
<1>7. QED
  BY <1>2, <1>4, <1>5, <1>6 DEF IInv

LEMMA ExitKeeps ==
    ASSUME IInv, NEW s \in Servers, command = s, ExitAlone(s)
    PROVE  IInv'
<1> USE DEF ExitAlone
<1>1. TypeOK /\ command # "serve" /\ UNCHANGED alone
  BY CommandAssumption DEF IInv, CommandTypeOK
<1>2. TypeOK' /\ ServersInv' /\ DnsInv'
  BY <1>1 DEF TypeOK, IInv, ServersInv, DnsInv, clients
<1>3. CommandTypeOK'
  BY <1>1, <1>2 DEF IInv, CommandTypeOK, alone, clients
<1>4. asked[s] /\ result = "ok"
  BY <1>1 DEF IInv, AloneInv
<1>5. /\ s \in GrpcServers => ~ busy[s] /\ ~ stream[s]
      /\ s \in DnsServers /\ busy[s] => MissedIt(s)
  <2>1. s \in GrpcServers => ~ busy[s] /\ ~ stream[s]
    BY CommandAssumption DEF ShutdownReturns
  <2>2. ASSUME s \in DnsServers, busy[s]
        PROVE  MissedIt(s)
    <3>1. /\ sock[s]["tcp"] \notin {"off", "up"} /\ \A k \in Sockets : ~ Held(s, k)
          /\ sock[s]["udp"] \notin {"off", "up"}
          /\ sock[s][via[s]] \in {"up", "missed", "closing"} /\ via[s] \in Sockets
      BY <1>1, <1>4, <2>2, CommandAssumption DEF ShutdownReturns, IInv, DnsInv, TypeOK
    <3>2. sock[s][via[s]] = "missed"
      BY <2>2, <3>1 DEF Held, Sockets
    <3>3. QED
      BY <1>4, <2>2, <3>2 DEF MissedIt
  <2>3. QED
    BY <2>1, <2>2
<1>6. ServeInv' /\ AloneInv'
  BY <1>1, <1>4, <1>5 DEF IInv, ServeInv, AloneInv, alone, clients, Requests, MissedIt
<1>7. ASSUME s \in HttpServers, busy[s]
      PROVE  Needs(asking) >= Grace
  <2>1. grace = 0
    BY <1>7, CommandAssumption DEF ShutdownReturns
  <2>2. Needs(asking) \in Nat /\ left \in Nat /\ Grace \in Nat
    BY <1>1, <1>7, NeedsType, CommandAssumption DEF IInv, AloneInv, CommandTypeOK
  <2>3. Needs(asking) + grace >= Grace + left
    BY <1>7 DEF IInv, GraceInv
  <2>4. QED
    BY <2>1, <2>2, <2>3
<1>8. GraceInv'
  BY <1>1, <1>7 DEF GraceInv, alone, clients
<1>9. QED
  BY <1>2, <1>3, <1>6, <1>8 DEF IInv

LEMMA AskKeeps ==
    ASSUME IInv, NEW s \in Servers, command = s, Ask(s)
    PROVE  IInv'
<1>1. /\ TypeOK /\ command # "serve" /\ UNCHANGED <<command, environ, zones, grace>>
      /\ Arrive(s)
  BY CommandAssumption DEF IInv, CommandTypeOK, Ask
<1>2. TypeOK' /\ ServersInv' /\ DnsInv'
  BY <1>1, SharedStep DEF IInv, Next
<1>3. asking' \in Requests(s) /\ left' = Needs(asking')
  BY DEF Ask
<1>4. left' \in Nat /\ left' <= Needs(asking')
  BY <1>3, NeedsType
<1>5. asking' # NoRequest
  BY <1>3, NoRequestAssumption
<1>6. busy'[s]
  BY <1>1 DEF Arrive, TypeOK
<1>7. CommandTypeOK'
  BY <1>1, <1>2, <1>4, <1>5, <1>6 DEF IInv, CommandTypeOK
<1>8. ServeInv' /\ AloneInv' /\ GraceInv'
  <2>1. /\ Alive /\ UNCHANGED <<main, result, srv, asked, errs, stream>>
        /\ \A t \in Servers \ {s} : busy'[t] = busy[t]
    BY <1>1 DEF Arrive, TypeOK
  <2>2. ServeInv' /\ AloneInv'
    BY <1>1, <1>3, <1>4, <2>1 DEF IInv, ServeInv, AloneInv, Alive
  <2>3. GraceInv'
    <3>1. command \in HttpServers /\ main = "draining" => FALSE
      BY <1>1, <2>1, CommandAssumption DEF IInv, GraceInv, Arrive
    <3>2. QED
      BY <1>1, <2>1, <3>1 DEF GraceInv, Alive
  <2>4. QED
    BY <2>2, <2>3
<1>9. QED
  BY <1>2, <1>7, <1>8 DEF IInv

LEMMA AnswerKeeps ==
    ASSUME IInv, NEW s \in Servers, command = s, AnswerAlone(s)
    PROVE  IInv'
<1>1. /\ TypeOK /\ command # "serve" /\ UNCHANGED <<command, environ, zones, left, grace>>
      /\ Answer(s) /\ left = 0 /\ asking' = NoRequest
  BY CommandAssumption DEF IInv, CommandTypeOK, AnswerAlone
<1>2. TypeOK' /\ ServersInv' /\ DnsInv'
  BY <1>1, SharedStep DEF IInv, Next
<1>3. ~ busy'[s]
  BY <1>1 DEF Answer, TypeOK
<1>4. CommandTypeOK'
  BY <1>1, <1>2, <1>3 DEF IInv, CommandTypeOK, clients
<1>5. ServeInv' /\ AloneInv' /\ GraceInv'
  BY <1>1, <1>3 DEF IInv, ServeInv, AloneInv, GraceInv, Answer, Alive, TypeOK, MissedIt
<1>6. QED
  BY <1>2, <1>4, <1>5 DEF IInv

LEMMA TickKeeps ==
    ASSUME IInv, NEW s \in Servers, command = s, Tick
    PROVE  IInv'
<1>1. /\ TypeOK /\ command # "serve"
      /\ UNCHANGED <<vars, command, environ, zones, asking, got>>
      /\ left' = left - 1 /\ left > 0 /\ left \in Nat /\ Grace \in Nat
      /\ grace \in 0 .. Grace /\ grace' = IF grace > 0 THEN grace - 1 ELSE 0
  BY CommandAssumption DEF IInv, CommandTypeOK, Tick
<1>2. TypeOK' /\ ServersInv' /\ DnsInv'
  BY <1>1, SharedStep DEF IInv
<1>3. left' \in Nat /\ grace' \in 0 .. Grace
  BY <1>1
<1>4. busy[s] /\ asking \in Requests(s) /\ left <= Needs(asking)
  BY <1>1 DEF IInv, CommandTypeOK, AloneInv
<1>5. Needs(asking) \in Nat
  BY <1>4, NeedsType
<1>6. CommandTypeOK'
  BY <1>1, <1>2, <1>3, <1>4, <1>5 DEF IInv, CommandTypeOK, vars, clients
<1>7. ServeInv' /\ AloneInv'
  BY <1>1, <1>4, <1>5 DEF IInv, ServeInv, AloneInv, MissedIt, vars, clients
<1>8. GraceInv'
  BY <1>1, <1>4, <1>5 DEF IInv, GraceInv, vars, clients
<1>9. QED
  BY <1>2, <1>6, <1>7, <1>8 DEF IInv

\* The steps of the server itself, and what may befall it.
LEMMA ServerStepKeeps ==
    ASSUME IInv, NEW s \in Servers, command = s, RunAlone(s) \/ MayHappen(s)
    PROVE  IInv'
<1>1. TypeOK /\ command # "serve" /\ UNCHANGED alone
  BY CommandAssumption DEF IInv, CommandTypeOK, RunAlone, MayHappen
<1>2. Next
  BY DEF RunAlone, MayHappen, Next, Run, Main
<1>3. TypeOK' /\ ServersInv' /\ DnsInv'
  BY <1>1, <1>2, SharedStep DEF IInv
<1>4. UNCHANGED busy
  BY DEF RunAlone, MayHappen, NewFails, Fails, ListenFails, SocketFails, Interrupt, OpenStream,
         CloseStream, Starts, Listen, StartTooLate, StartReturns, SocketRuns, ShutTcp, SocketOpens,
         SocketEnds, clients
<1>5. CommandTypeOK'
  BY <1>1, <1>3, <1>4 DEF IInv, CommandTypeOK, alone
<1>6. ASSUME NewFails(s) \/ Interrupt
      PROVE  ServeInv' /\ AloneInv' /\ GraceInv'
  BY <1>1, <1>6 DEF IInv, ServersInv, ServeInv, AloneInv, GraceInv, alone, clients, NewFails,
                    Interrupt, Alive
<1>7. ASSUME Alive, UNCHANGED <<main, result, asked>>, s \in HttpServers /\ asked[s] =>
                 (srv[s] # "serving" => srv'[s] # "serving"),
             \A t \in Servers \ {s} : stream'[t] = stream[t] /\ (t \in errs' => t \in errs)
      PROVE  ServeInv' /\ AloneInv' /\ GraceInv'
  BY <1>1, <1>4, <1>7 DEF IInv, ServeInv, AloneInv, GraceInv, alone, Alive
<1>8. ASSUME ListenFails(s) \/ StartTooLate(s) \/ Listen(s)
      PROVE  ServeInv' /\ AloneInv' /\ GraceInv'
  BY <1>1, <1>7, <1>8, CommandAssumption DEF ListenFails, StartTooLate, Listen, clients,
                                              TypeOK
<1>9. ASSUME OpenStream(s) \/ CloseStream(s) \/ StartReturns(s)
      PROVE  ServeInv' /\ AloneInv' /\ GraceInv'
  BY <1>1, <1>7, <1>9 DEF OpenStream, CloseStream, StartReturns, clients, TypeOK
<1>10. ASSUME SocketRuns(s) \/ \E k \in Sockets : SocketFails(s, k)
       PROVE  ServeInv' /\ AloneInv' /\ GraceInv'
  <2>1. s \notin HttpServers
    BY <1>10, CommandAssumption DEF SocketRuns, ShutTcp, SocketOpens, SocketEnds, SocketFails
  <2>2. /\ Alive /\ UNCHANGED <<main, result, asked, stream>>
        /\ \A t \in Servers \ {s} : t \in errs' => t \in errs
    BY <1>10 DEF SocketRuns, ShutTcp, SocketOpens, SocketEnds, SocketFails, clients
  <2>3. QED
    BY <1>7, <2>1, <2>2
<1>11. QED
  BY <1>3, <1>5, <1>6, <1>8, <1>9, <1>10 DEF IInv, RunAlone, MayHappen, Starts, Fails

LEMMA EveryStepKeeps ==
    ASSUME IInv, [CommandNext]_allVars
    PROVE  IInv'
<1>1. ASSUME NEW s \in Servers, AloneStep(s)
      PROVE  IInv'
  BY <1>1, StartAloneKeeps, TakeErrorKeeps, TakeDoneKeeps, ExitKeeps, AskKeeps, AnswerKeeps,
     TickKeeps, ServerStepKeeps DEF AloneStep, MainAlone, Progress
<1>2. CASE UNCHANGED allVars
  <2>1. UNCHANGED vars /\ UNCHANGED alone
    BY <1>2 DEF allVars
  <2>2. TypeOK' /\ ServersInv' /\ DnsInv'
    BY <2>1, SharedStep DEF IInv, CommandTypeOK
  <2>3. QED
    BY <2>1, <2>2 DEF IInv, CommandTypeOK, ServeInv, AloneInv, GraceInv, MissedIt, Launched,
                      vars, clients, alone
<1>3. QED
  BY <1>1, <1>2, ServeStepKeeps DEF CommandNext

LEMMA CommandInvariant == CommandSpec => []IInv
BY Initially, EveryStepKeeps, PTL DEF CommandSpec

-----------------------------------------------------------------------------
(* The answers.                                                            *)

\* A DNS server that was started has its zones, and they stay.
ZonesInv == command \in DnsServers /\ srv[command] # "off" => zones = NewZones(environ)

\* A final status that is asked for is the status of the answer.
LEMMA StatusIsAsked ==
    ASSUME NEW arg \in {Switching} \union 200 .. 599
    PROVE  Final(handle("/status", arg).status) = arg
<1>1. arg \in Int /\ arg \in 100 .. 599 /\ arg \notin 100 .. 199 \ {Switching}
  <2>1. CASE arg = Switching
    BY <2>1 DEF Switching
  <2>2. CASE arg \in 200 .. 599
    <3>1. arg \in Int /\ arg >= 200 /\ arg \in 100 .. 599
      BY <2>2
    <3>2. arg \notin 100 .. 199
      <4>1. \A n \in 100 .. 199 : n <= 199
        OBVIOUS
      <4>2. ~ (arg <= 199)
        BY <3>1
      <4>3. QED
        BY <4>1, <4>2
    <3>3. QED
      BY <3>1, <3>2
  <2>3. QED
    BY <2>1, <2>2
<1>2. IsNumber(arg)
  BY <1>1, EchoAssumption DEF IsNumber
<1>3. handle("/status", arg).status = arg
  BY <1>1, <1>2 DEF handle, handleStatus
<1>4. QED
  BY <1>1, <1>3 DEF Final

LEMMA ReplyFits ==
    ASSUME IInv, ZonesInv, NEW s \in Servers, command = s, busy[s], NEW upstreamAnswers \in BOOLEAN
    PROVE  LET reply == Reply(asking, upstreamAnswers)
           IN  /\ asking.path = "question" => AnswersQuestion(asking.arg, reply)
               /\ asking.path = "/status" /\ asking.arg \in {Switching} \union 200 .. 599 =>
                     reply.status = asking.arg
<1>1. command # "serve" /\ asking \in Requests(s) /\ environ \in Environs \union {<<>>}
  BY CommandAssumption DEF IInv, CommandTypeOK, AloneInv
<1>2. environ \in Seq(Entry)
  <2>1. << >> \in Seq(Entry)
    OBVIOUS
  <2>2. QED
    BY <1>1, <2>1, CommandAssumption
<1>3. ASSUME asking.path = "question"
      PROVE  AnswersQuestion(asking.arg, Reply(asking, upstreamAnswers))
  <2>1. s \in DnsServers /\ asking.arg \in Questions
    BY <1>1, <1>3 DEF Requests
  <2>2. srv[s] # "off"
    BY DEF IInv, ServersInv
  <2>3. zones = NewZones(environ)
    BY <2>1, <2>2 DEF ZonesInv
  <2>4. Reply(asking, upstreamAnswers) = handleDNS(NewZones(environ), asking.arg, upstreamAnswers)
    BY <1>3, <2>3 DEF Reply
  <2>5. QED
    BY <1>2, <2>1, <2>4, DnsAnswers
<1>4. ASSUME asking.path = "/status", asking.arg \in {Switching} \union 200 .. 599
      PROVE  Reply(asking, upstreamAnswers).status = asking.arg
  <2> DEFINE arg == asking.arg
  <2>1. Reply(asking, upstreamAnswers) = [status |-> Final(handle("/status", arg).status)]
    BY <1>4 DEF Reply
  <2>2. arg \in {Switching} \union 200 .. 599
    BY <1>4
  <2> HIDE DEF arg
  <2>3. Final(handle("/status", arg).status) = arg
    BY <2>2, StatusIsAsked
  <2>4. Reply(asking, upstreamAnswers).status = arg
    BY <2>1, <2>3
  <2>5. QED
    BY <2>4 DEF arg
<1>5. QED
  BY <1>3, <1>4

LEMMA AnswersInitially == CommandInit => ZonesInv /\ AnswersFitQuestions
<1>1. ASSUME CommandInit
      PROVE  ZonesInv /\ AnswersFitQuestions
  <2>1. got = NoAnswer /\ (command \in DnsServers => srv[command] = "off")
    BY <1>1 DEF CommandInit, Fresh, Servers
  <2>2. QED
    BY <2>1 DEF ZonesInv, AnswersFitQuestions
<1>2. QED
  BY <1>1

\* The steps that leave the server started or not started, and its zones alone.
LEMMA ZonesStay ==
    ASSUME ZonesInv, UNCHANGED <<command, environ, zones>>,
           command \in DnsServers /\ srv'[command] # "off" => srv[command] # "off"
    PROVE  ZonesInv'
BY DEF ZonesInv

LEMMA AnswersStay ==
    ASSUME AnswersFitQuestions, UNCHANGED environ, got' = got \/ got' = NoAnswer
    PROVE  AnswersFitQuestions'
<1>1. CASE got' = NoAnswer
  BY <1>1 DEF AnswersFitQuestions
<1>2. CASE got' = got
  <2>1. \A q, reply : AnswersQuestion(q, reply)' = AnswersQuestion(q, reply)
    BY DEF AnswersQuestion, AnsweringEntries, DefaultAnswers
  <2>2. QED
    BY <1>2, <2>1 DEF AnswersFitQuestions
<1>3. QED
  BY <1>1, <1>2

LEMMA AnswersStep ==
    ASSUME IInv, ZonesInv, AnswersFitQuestions, [CommandNext]_allVars
    PROVE  ZonesInv' /\ AnswersFitQuestions'
<1>0. srv \in [Servers -> {"off", "spawned", "serving", "closing", "down"}]
  BY DEF IInv, CommandTypeOK, TypeOK
<1>1. CASE ServeStep
  <2>1. UNCHANGED alone /\ command \notin DnsServers
    BY <1>1, CommandAssumption DEF ServeStep, Servers
  <2>2. QED
    BY <2>1, ZonesStay, AnswersStay DEF alone
<1>2. ASSUME NEW s \in Servers, command = s, StartAlone(s)
      PROVE  ZonesInv' /\ AnswersFitQuestions'
  <2>1. ZonesInv'
    BY <1>2 DEF StartAlone, ZonesInv
  <2>2. QED
    BY <1>2, <2>1, AnswersStay DEF StartAlone
<1>3. ASSUME NEW s \in Servers, command = s, TakeErrorAlone \/ ExitAlone(s) \/ Tick
      PROVE  ZonesInv' /\ AnswersFitQuestions'
  <2>1. UNCHANGED <<srv, command, environ, zones, got>>
    BY <1>3 DEF TakeErrorAlone, ExitAlone, Tick, vars, alone
  <2>2. QED
    BY <2>1, ZonesStay, AnswersStay
<1>4. ASSUME NEW s \in Servers, command = s, TakeDoneAlone(s)
      PROVE  ZonesInv' /\ AnswersFitQuestions'
  <2>1. UNCHANGED <<command, environ, zones, got>> /\ (srv'[s] # "off" => srv[s] # "off")
    BY <1>0, <1>4 DEF TakeDoneAlone, CallShutdown
  <2>2. QED
    BY <1>4, <2>1, ZonesStay, AnswersStay
<1>5. ASSUME NEW s \in Servers, command = s, RunAlone(s) \/ MayHappen(s)
      PROVE  ZonesInv' /\ AnswersFitQuestions'
  <2>1. UNCHANGED alone
    BY <1>5 DEF RunAlone, MayHappen
  <2>2. srv'[s] # "off" => srv[s] # "off"
    <3>1. CASE RunAlone(s)
      BY <1>0, <3>1 DEF RunAlone, Starts, Listen, StartTooLate, StartReturns, SocketRuns, ShutTcp,
                        SocketOpens, SocketEnds, DnsInv, IInv
    <3>2. CASE MayHappen(s)
      BY <1>0, <3>2 DEF MayHappen, NewFails, Fails, ListenFails, SocketFails, Interrupt, OpenStream,
                        CloseStream
    <3>3. QED
      BY <1>5, <3>1, <3>2
  <2>3. QED
    BY <1>5, <2>1, <2>2, ZonesStay, AnswersStay DEF alone
<1>6. ASSUME NEW s \in Servers, command = s, Ask(s)
      PROVE  ZonesInv' /\ AnswersFitQuestions'
  <2>1. UNCHANGED <<srv, command, environ, zones>> /\ got' = NoAnswer
    BY <1>6 DEF Ask, Arrive
  <2>2. QED
    BY <2>1, ZonesStay, AnswersStay
<1>7. ASSUME NEW s \in Servers, command = s, AnswerAlone(s)
      PROVE  ZonesInv' /\ AnswersFitQuestions'
  <2>1. UNCHANGED <<srv, command, environ, zones>> /\ busy[s]
    BY <1>7 DEF AnswerAlone, Answer
  <2>2. PICK upstreamAnswers \in BOOLEAN :
            got' = [request |-> asking, reply |-> Reply(asking, upstreamAnswers)]
    BY <1>7 DEF AnswerAlone
  <2>3. /\ asking.path = "question" => AnswersQuestion(asking.arg, Reply(asking, upstreamAnswers))
        /\ asking.path = "/status" /\ asking.arg \in {Switching} \union 200 .. 599 =>
              Reply(asking, upstreamAnswers).status = asking.arg
    BY <1>7, <2>1, ReplyFits
  <2>4. got'.request = asking /\ got'.reply = Reply(asking, upstreamAnswers)
    BY <2>2
  <2>5. \A q, reply : AnswersQuestion(q, reply)' = AnswersQuestion(q, reply)
    BY <2>1 DEF AnswersQuestion, AnsweringEntries, DefaultAnswers
  <2>6. AnswersFitQuestions'
    BY <2>3, <2>4, <2>5 DEF AnswersFitQuestions
  <2>7. QED
    BY <2>1, <2>6, ZonesStay
<1>8. CASE UNCHANGED allVars
  <2>1. UNCHANGED <<srv, command, environ, zones, got>>
    BY <1>8 DEF allVars, vars, alone
  <2>2. QED
    BY <2>1, ZonesStay, AnswersStay
<1>9. QED
  BY <1>1, <1>2, <1>3, <1>4, <1>5, <1>6, <1>7, <1>8
     DEF CommandNext, AloneStep, MainAlone, Progress

-----------------------------------------------------------------------------
\* A single server works on a request exactly while it is busy, nothing but an
\* HTTP handler takes time, and the grace period never runs below zero.
THEOREM CommandTypes == CommandSpec => []CommandTypeOK
<1>1. IInv => CommandTypeOK
  BY DEF IInv
<1>2. QED
  BY <1>1, CommandInvariant, PTL

\* Whatever the set of servers, no gRPC call or stream is left when the process
\* exits in order, be it `serve` or the single command.
THEOREM NoRpcIsCut == CommandSpec => []RpcsAreFinished
<1>1. IInv => RpcsAreFinished
  <2>1. SUFFICES ASSUME IInv, main = "exited", result # "aborted", NEW s \in GrpcServers
                 PROVE  ~ busy[s] /\ ~ stream[s]
    BY DEF RpcsAreFinished
  <2>2. s \in Servers
    BY DEF Servers
  <2>3. QED
    BY <2>1, <2>2 DEF IInv, ServeInv, AloneInv
<1>2. QED
  BY <1>1, CommandInvariant, PTL

\* However long Shutdown waits: a single command that ends in order cuts only a
\* request that needs that long, or one at a DNS server that missed Shutdown.
THEOREM OnlyTheSlowAreCut == CommandSpec => []SlowOnlyIsCut
<1>1. IInv => SlowOnlyIsCut
  <2>1. SUFFICES ASSUME IInv, main = "exited", result = "ok", command # "serve", busy[command]
                 PROVE  \/ command \in HttpServers /\ Needs(asking) >= Grace
                        \/ MissedIt(command)
    BY DEF SlowOnlyIsCut
  <2>2. command \in Servers
    BY <2>1 DEF IInv, CommandTypeOK
  <2>3. QED
    BY <2>1, <2>2 DEF IInv, AloneInv, GraceInv, Servers
<1>2. QED
  BY <1>1, CommandInvariant, PTL

\* For every environment, however its entries and the questions spell the names
\* and whichever of them parse: a DNS server answers with every record set for
\* the name, once, in order, its own address last, and asks upstream only when
\* it has none; the echo server's final status is the one asked for.
THEOREM AnswersFit == CommandSpec => []AnswersFitQuestions
<1>1. CommandInit => ZonesInv /\ AnswersFitQuestions
  BY AnswersInitially
<1>2. IInv /\ (ZonesInv /\ AnswersFitQuestions) /\ [CommandNext]_allVars =>
          (ZonesInv /\ AnswersFitQuestions)'
  BY AnswersStep
<1>3. QED
  BY <1>1, <1>2, CommandInvariant, PTL DEF CommandSpec
=============================================================================
