----------------------------- MODULE ListProofs -----------------------------
(***************************************************************************)
(* What holds of List and of the clients that page through it, for every   *)
(* number of items, every page size and every width of int.                *)
(***************************************************************************)
EXTENDS ListItems, FiniteSetTheorems, TLAPS

-----------------------------------------------------------------------------
(* The machine's integers, and which window of a sequence a page is.       *)

LEMMA PowerOfSum ==
    ASSUME NEW n \in Nat
    PROVE  2 ^ n \in Nat /\ 2 ^ (n + 1) = 2 * 2 ^ n
<1> DEFINE S == SUBSET (1 .. n)
<1> DEFINE T == {x \union {n + 1} : x \in S}
<1>1. /\ IsFiniteSet(1 .. n) /\ Cardinality(1 .. n) = n
      /\ IsFiniteSet(1 .. n + 1) /\ Cardinality(1 .. n + 1) = n + 1
  BY FS_Interval
<1>2. /\ IsFiniteSet(S) /\ Cardinality(S) = 2 ^ n
      /\ Cardinality(SUBSET (1 .. n + 1)) = 2 ^ (n + 1)
  BY <1>1, FS_SUBSET
<1>3. IsFiniteSet(T) /\ Cardinality(T) = Cardinality(S)
  <2> DEFINE f == [x \in S |-> x \union {n + 1}]
  <2>1. \A x, y \in S : f[x] = f[y] => x = y
    OBVIOUS
  <2>2. f \in [S -> T] /\ \A y \in T : \E x \in S : f[x] = y
    OBVIOUS
  <2> HIDE DEF f, S, T
  <2>3. f \in Bijection(S, T)
    BY <2>1, <2>2 DEF Bijection, Injection, IsInjective, Surjection
  <2>4. QED BY <1>2, <2>3, FS_Bijection DEF ExistsBijection
<1>4. SUBSET (1 .. n + 1) = S \union T
  <2>1. ASSUME NEW x \in SUBSET (1 .. n + 1), x \notin S PROVE x \in T
    <3>1. n + 1 \in x
      BY <2>1
    <3>2. x \ {n + 1} \in S
      OBVIOUS
    <3>3. x = (x \ {n + 1}) \union {n + 1}
      BY <3>1
    <3>4. QED BY <3>2, <3>3
  <2>2. ASSUME NEW x \in S \union T PROVE x \in SUBSET (1 .. n + 1)
    OBVIOUS
  <2>3. QED BY <2>1, <2>2
<1>5. S \cap T = {}
  OBVIOUS
<1> HIDE DEF S, T
<1>6. Cardinality(S) \in Nat /\ Cardinality(S \cap T) = 0
  BY <1>2, <1>5, FS_CardinalityType, FS_EmptySet
<1>7. Cardinality(S \union T) = Cardinality(S) + Cardinality(T) - Cardinality(S \cap T)
  BY <1>2, <1>3, FS_Union
<1>8. Cardinality(S \union T) = Cardinality(S) + Cardinality(S)
  <2>1. Cardinality(T) = Cardinality(S)
    BY <1>3
  <2>2. QED BY <1>6, <1>7, <2>1
<1>9. 2 ^ (n + 1) = Cardinality(S) + Cardinality(S)
  BY <1>2, <1>4, <1>8
<1>10. QED
  BY <1>2, <1>6, <1>9

Half == 2 ^ (Width - 1) \* one more than the greatest int

LEMMA WrapKeeps ==
    ASSUME NEW n \in Nat, n < Half
    PROVE  Wrap(n) = n
<1>1. Half \in Nat /\ 2 ^ Width = 2 * Half
  BY PowerOfSum, ListAssumption DEF Half
<1>2. (n + Half) % (2 * Half) = n + Half
  BY <1>1
<1>3. QED
  BY <1>1, <1>2 DEF Wrap, Half

LEMMA ClampedType ==
    ASSUME NEW limit \in Int
    PROVE  Clamped(limit) \in 1 .. MaxLimit /\ Clamped(limit) \in Nat \ {0}
BY ListAssumption DEF Clamped

\* The number of pages is the least that shows all.
LEMMA PageCountIsLeast ==
    ASSUME NEW total \in Nat, NEW limit \in Nat \ {0}
    PROVE  LET pages == PageCount(total, limit)
           IN  /\ pages \in Nat \ {0}
               /\ pages * limit >= total
               /\ pages = 1 \/ (pages - 1) * limit < total
<1> DEFINE pages == PageCount(total, limit)
<1>1. CASE total = 0
  BY <1>1 DEF PageCount
<1>2. CASE total # 0
  <2> DEFINE q == (total + limit - 1) \div limit
  <2>1. q \in Nat /\ q * limit <= total + limit - 1 /\ total + limit - 1 < (q + 1) * limit
    OBVIOUS
  <2>2. pages = q
    BY <1>2 DEF PageCount
  <2> HIDE DEF q
  <2>3. (q + 1) * limit = q * limit + limit
    BY <2>1
  <2>4. q * limit >= total
    <3>1. q * limit \in Nat
      BY <2>1
    <3>2. QED BY <2>1, <2>3, <3>1
  <2>5. q # 0
    BY <1>2, <2>4
  <2>6. (q - 1) * limit = q * limit - limit
    BY <2>1
  <2>7. (q - 1) * limit < total
    <3>1. q * limit \in Nat
      BY <2>1
    <3>2. QED BY <2>1, <2>6, <3>1
  <2> HIDE DEF pages
  <2>8. QED
    BY <2>1, <2>2, <2>4, <2>5, <2>7 DEF pages
<1>3. QED
  BY <1>1, <1>2

\* If the offset is an int, the slice is the window that begins there, as
\* long as the limit or up to the end.
LEMMA SliceIsWindow ==
    ASSUME NEW V, NEW s \in Seq(V), NEW page \in Nat \ {0}, NEW limit \in 1 .. MaxLimit,
           Len(s) + MaxLimit < Half, (page - 1) * limit < Half
    PROVE  LET offset == (page - 1) * limit
               t == Slice(s, page, limit)
           IN  /\ t \in Seq(V)
               /\ Len(t) <= limit
               /\ Len(t) = limit \/ offset + Len(t) >= Len(s)
               /\ \A i \in 1 .. Len(t) : offset + i \in 1 .. Len(s) /\ t[i] = s[offset + i]
<1> DEFINE offset == (page - 1) * limit
<1> DEFINE start == Lesser(offset, Len(s))
<1> DEFINE end == Lesser(start + limit, Len(s))
<1>0. Len(s) \in Nat /\ limit \in Nat \ {0} /\ MaxLimit \in Nat /\ Half \in Nat
  BY ListAssumption, PowerOfSum DEF Half
<1>1. offset \in Nat /\ page - 1 \in Nat /\ page - 1 <= offset
  BY <1>0
<1>2. Wrap(page - 1) = page - 1 /\ Wrap(offset) = offset
  BY <1>0, <1>1, WrapKeeps
<1> HIDE DEF offset
<1>3. start \in 0 .. Len(s) /\ Wrap(start + limit) = start + limit
  <2>1. start \in 0 .. Len(s)
    BY <1>0, <1>1 DEF Lesser
  <2> HIDE DEF start
  <2>2. start + limit \in Nat /\ start + limit < Half
    BY <1>0, <2>1
  <2>3. QED BY <2>1, <2>2, WrapKeeps
<1>4. end \in start .. Len(s) /\ (end = start + limit \/ end = Len(s)) /\ end <= start + limit
  <2> HIDE DEF start
  <2>1. QED BY <1>0, <1>3 DEF Lesser
<1>5. Slice(s, page, limit) = SubSeq(s, start + 1, end)
  <2>1. Wrap(Wrap(page - 1) * limit) = offset
    BY <1>2 DEF offset
  <2>2. ~ (start < 0 \/ end < start)
    BY <1>0, <1>3, <1>4
  <2>3. Wrap(start + limit) = start + limit
    BY <1>3
  <2>4. QED BY <2>1, <2>2, <2>3 DEF Slice
<1>6. start = offset \/ (start = Len(s) /\ start <= offset)
  BY <1>0, <1>1 DEF Lesser
<1> HIDE DEF start, end
<1> DEFINE t == SubSeq(s, start + 1, end)
<1>7. t \in Seq(V) /\ Len(t) = end - start /\ \A i \in 1 .. Len(t) : t[i] = s[start + i]
  BY <1>0, <1>3, <1>4
<1>8. /\ Len(t) <= limit
      /\ Len(t) = limit \/ offset + Len(t) >= Len(s)
      /\ \A i \in 1 .. Len(t) : offset + i \in 1 .. Len(s) /\ t[i] = s[offset + i]
  BY <1>0, <1>1, <1>3, <1>4, <1>6, <1>7
<1>9. QED
  BY <1>5, <1>7, <1>8 DEF offset

-----------------------------------------------------------------------------
(* Keys, and what holds of every sorting of a set of items.                *)

Strings == Ids \union Names \union {NoName}

\* There is an order of the strings, so Rank is one.
LEMMA RankOrders ==
    Rank \in [Strings -> Nat] /\ \A x, y \in Strings : Rank[x] = Rank[y] => x = y
<1> DEFINE N == Cardinality(Ids \union Names)
<1> DEFINE C == Cardinality(Strings)
<1>1. IsFiniteSet(Strings) /\ N \in Nat /\ C <= N + 1
  <2>1. IsFiniteSet(Ids \union Names)
    BY ListAssumption
  <2>2. N \in Nat
    BY <2>1, FS_CardinalityType
  <2>3. /\ IsFiniteSet((Ids \union Names) \union {NoName})
        /\ Cardinality((Ids \union Names) \union {NoName}) = IF NoName \in Ids \union Names THEN N ELSE N + 1
    BY <2>1, FS_AddElement
  <2>4. QED BY <2>2, <2>3 DEF Strings
<1>2. C \in Nat
  BY <1>1, FS_CardinalityType
<1>3. PICK b \in [1 .. C -> Strings] :
        (\A i, j \in 1 .. C : b[i] = b[j] => i = j) /\ \A x \in Strings : \E i \in 1 .. C : b[i] = x
  <2>1. Bijection(1 .. C, Strings) # {}
    BY <1>1, FS_CardinalityType DEF ExistsBijection
  <2> HIDE DEF C
  <2>2. QED BY <2>1 DEF Bijection, Injection, IsInjective, Surjection
<1> HIDE DEF C, N
<1> DEFINE place(x) == CHOOSE i \in 1 .. C : b[i] = x
<1>4. \A x \in Strings : place(x) \in 1 .. C /\ b[place(x)] = x
  BY <1>3
<1> HIDE DEF place
<1> DEFINE r == [x \in Strings |-> place(x) - 1]
<1>5. r \in [Strings -> 0 .. N] /\ \A x, y \in Strings : r[x] = r[y] => x = y
  <2>1. \A x \in Strings : place(x) - 1 \in 0 .. N
    BY <1>1, <1>2, <1>4
  <2>2. ASSUME NEW x \in Strings, NEW y \in Strings, r[x] = r[y] PROVE x = y
    <3>1. place(x) = place(y)
      BY <1>2, <1>4, <2>2
    <3>2. QED BY <1>4, <3>1
  <2>3. QED BY <2>1, <2>2
<1> HIDE DEF r
<1>6. Rank \in [Strings -> 0 .. N] /\ \A x, y \in Strings : Rank[x] = Rank[y] => x = y
  BY <1>5 DEF Rank, Strings, N
<1>7. QED
  BY <1>1, <1>6

LEMMA KeyType ==
    ASSUME NEW item \in Item, NEW field \in Fields
    PROVE  Key(item, field) \in Nat
<1>1. item.id \in Strings /\ item.name \in Strings /\ item.created \in Nat /\ item.updated \in Nat
  BY DEF Item, Strings
<1>2. Rank[item.id] \in Nat /\ Rank[item.name] \in Nat
  BY <1>1, RankOrders
<1>3. QED
  BY <1>1, <1>2 DEF Key, Fields

NoLater(S, item, order) == {x \in S : InOrder(x, item, order)}
NotBefore(S, item, order) == {x \in S : InOrder(item, x, order)}

LEMMA SortingType ==
    ASSUME NEW S, S \subseteq Item, IsFiniteSet(S), NEW order, NEW s \in Sortings(S, order)
    PROVE  /\ s \in Seq(S) /\ s \in Seq(Item) /\ Len(s) = Cardinality(S) /\ Cardinality(S) \in Nat
           /\ \A x \in S : \E k \in 1 .. Len(s) : s[k] = x
<1> DEFINE n == Cardinality(S)
<1>1. n \in Nat
  BY FS_CardinalityType
<1>2. IsFiniteSet(1 .. n) /\ Cardinality(1 .. n) = n
  BY <1>1, FS_Interval
<1> HIDE DEF n
<1>3. s \in [1 .. n -> S] /\ \A i, j \in 1 .. n : s[i] = s[j] => i = j
  BY DEF Sortings, n
<1>4. s \in Injection(1 .. n, S)
  BY <1>3 DEF Injection, IsInjective
<1>5. s \in Surjection(1 .. n, S)
  <2>1. Cardinality(1 .. n) = Cardinality(S)
    BY <1>2 DEF n
  <2>2. QED BY <1>4, <2>1, FS_Injection
<1>6. \A x \in S : \E k \in 1 .. n : s[k] = x
  BY <1>5 DEF Surjection
<1>7. s \in Seq(S) /\ Len(s) = n
  BY <1>1, <1>3
<1>8. s \in Seq(Item)
  BY <1>1, <1>3
<1>9. QED
  BY <1>1, <1>6, <1>7, <1>8 DEF n

\* An item's place in a sorting is one that its key allows.
LEMMA PlaceFitsKey ==
    ASSUME NEW S, S \subseteq Item, IsFiniteSet(S), NEW order \in Orders,
           NEW s \in Sortings(S, order), NEW k \in 1 .. Len(s)
    PROVE  /\ Cardinality(S \ NotBefore(S, s[k], order)) < k
           /\ k <= Cardinality(NoLater(S, s[k], order))
<1> DEFINE n == Cardinality(S)
<1>1. n \in Nat /\ s \in Seq(S) /\ Len(s) = n /\ \A x \in S : \E i \in 1 .. n : s[i] = x
  BY SortingType
<1> HIDE DEF n
<1>2. /\ \A i, j \in 1 .. n : s[i] = s[j] => i = j
      /\ \A i, j \in 1 .. n : i < j => InOrder(s[i], s[j], order)
  BY DEF Sortings, n
<1>3. InOrder(s[k], s[k], order)
  <2>1. s[k] \in Item /\ order.field \in Fields
    BY <1>1 DEF Orders
  <2>2. QED BY <2>1, KeyType DEF InOrder
<1>4. k <= Cardinality(NoLater(S, s[k], order))
  <2> DEFINE f == [i \in 1 .. k |-> s[i]]
  <2>1. IsFiniteSet(NoLater(S, s[k], order))
    <3>1. NoLater(S, s[k], order) \in SUBSET S
      BY DEF NoLater
    <3>2. QED BY <3>1, FS_Subset
  <2>2. f \in Injection(1 .. k, NoLater(S, s[k], order))
    <3>1. \A i \in 1 .. k : s[i] \in S /\ InOrder(s[i], s[k], order)
      BY <1>1, <1>2, <1>3
    <3>2. f \in [1 .. k -> NoLater(S, s[k], order)]
      BY <3>1 DEF NoLater
    <3>3. \A i, j \in 1 .. k : f[i] = f[j] => i = j
      BY <1>1, <1>2
    <3> HIDE DEF f
    <3>4. QED BY <3>2, <3>3 DEF Injection, IsInjective
  <2> HIDE DEF f
  <2>3. Cardinality(1 .. k) = k
    BY <1>1, FS_Interval
  <2>4. Cardinality(1 .. k) <= Cardinality(NoLater(S, s[k], order))
    BY <2>1, <2>2, FS_Injection
  <2>5. QED BY <2>3, <2>4
<1>5. Cardinality(S \ NotBefore(S, s[k], order)) < k
  <2> DEFINE T == {s[i] : i \in 1 .. k - 1}
  <2> DEFINE f == [i \in 1 .. k - 1 |-> s[i]]
  <2>1. S \ NotBefore(S, s[k], order) \in SUBSET T
    <3>1. ASSUME NEW x \in S, ~ InOrder(s[k], x, order) PROVE x \in T
      <4>1. PICK i \in 1 .. n : s[i] = x
        BY <1>1
      <4>2. ~ (k < i) /\ i # k
        BY <1>1, <1>2, <1>3, <3>1, <4>1
      <4>3. i \in 1 .. k - 1
        BY <1>1, <4>2
      <4>4. QED BY <4>1, <4>3
    <3>2. QED BY <3>1 DEF NotBefore
  <2>2. f \in Surjection(1 .. k - 1, T)
    BY DEF Surjection
  <2>3. IsFiniteSet(1 .. k - 1) /\ Cardinality(1 .. k - 1) = k - 1
    BY <1>1, FS_Interval
  <2> HIDE DEF f, T
  <2>4. IsFiniteSet(T) /\ Cardinality(T) <= Cardinality(1 .. k - 1)
    BY <2>2, <2>3, FS_Surjection
  <2>5. Cardinality(S \ NotBefore(S, s[k], order)) <= Cardinality(T)
    BY <2>1, <2>4, FS_Subset
  <2>6. Cardinality(S \ NotBefore(S, s[k], order)) \in Nat /\ Cardinality(T) \in Nat
    <3>1. IsFiniteSet(S \ NotBefore(S, s[k], order))
      BY <2>1, <2>4, FS_Subset
    <3>2. QED BY <2>4, <3>1, FS_CardinalityType
  <2>7. QED BY <1>1, <2>3, <2>4, <2>5, <2>6
<1>6. QED
  BY <1>4, <1>5

-----------------------------------------------------------------------------
(* The items stored, and the answers that List may give about them.        *)

Lives == [id : Ids, created : Nat]

\* Every stored item is under its identifier and was created in a commit of
\* its own.
ItemsInv ==
    /\ commits \in Nat
    /\ items \in [Ids -> Item \union {NoItem}]
    /\ \A id \in Ids : items[id] # NoItem => items[id].id = id /\ items[id].created <= commits
    /\ \A id, other \in Ids :
          items[id] # NoItem /\ items[other] # NoItem /\ items[id].created = items[other].created
          => id = other

LEMMA StoredIsFinite ==
    ASSUME ItemsInv
    PROVE  /\ StoredItems \subseteq Item /\ IsFiniteSet(StoredItems)
           /\ Cardinality(StoredItems) <= Cardinality(Ids)
           /\ IsFiniteSet(Ids) /\ Cardinality(Ids) \in Nat /\ Cardinality(StoredItems) \in Nat
<1> DEFINE used == {id \in Ids : items[id] # NoItem}
<1> DEFINE f == [id \in used |-> items[id]]
<1>1. StoredItems \subseteq Item
  BY DEF ItemsInv, StoredItems
<1>2. IsFiniteSet(Ids)
  BY ListAssumption, FS_Subset
<1>3. IsFiniteSet(used) /\ Cardinality(used) <= Cardinality(Ids)
  BY <1>2, FS_Subset
<1>4. f \in Surjection(used, StoredItems)
  BY DEF StoredItems, Surjection
<1> HIDE DEF f, used
<1>5. IsFiniteSet(StoredItems) /\ Cardinality(StoredItems) <= Cardinality(used)
  BY <1>3, <1>4, FS_Surjection
<1>6. Cardinality(StoredItems) \in Nat /\ Cardinality(used) \in Nat /\ Cardinality(Ids) \in Nat
  BY <1>2, <1>3, <1>5, FS_CardinalityType
<1>7. QED
  BY <1>1, <1>2, <1>3, <1>5, <1>6

LEMMA FilteredIsFinite ==
    ASSUME ItemsInv, NEW selector
    PROVE  /\ Filtered(selector) \subseteq Item /\ IsFiniteSet(Filtered(selector))
           /\ Cardinality(Filtered(selector)) \in Nat
           /\ Cardinality(Filtered(selector)) + MaxLimit < Half
<1>1. Filtered(selector) \in SUBSET StoredItems
  BY DEF Filtered
<1>2. /\ IsFiniteSet(Filtered(selector))
      /\ Cardinality(Filtered(selector)) <= Cardinality(StoredItems)
  BY <1>1, StoredIsFinite, FS_Subset
<1>3. Cardinality(Filtered(selector)) \in Nat
  BY <1>2, FS_CardinalityType
<1>4. MaxLimit \in Nat /\ Half \in Nat /\ Cardinality(Ids) + MaxLimit < Half
  BY ListAssumption, PowerOfSum DEF Half
<1>5. QED
  BY <1>1, <1>2, <1>3, <1>4, StoredIsFinite

Asked(page) == IF page < 1 THEN 1 ELSE page

\* An answer whose offset is an int is a window of a sorting of the matching
\* items.
LEMMA AnswerIsWindow ==
    ASSUME ItemsInv, NEW page \in Int, NEW limit \in Int, NEW order \in Orders, NEW selector,
           (Asked(page) - 1) * Clamped(limit) < Half,
           NEW a \in List(page, limit, order, selector)
    PROVE  LET S == Filtered(selector)
               offset == (a.page - 1) * a.limit
           IN  /\ a \in Answers
               /\ a.page = Asked(page) /\ a.limit = Clamped(limit)
               /\ a.total = Cardinality(S) /\ a.pages = PageCount(a.total, a.limit)
               /\ Len(a.items) <= a.limit
               /\ Len(a.items) = a.limit \/ offset + Len(a.items) >= a.total
               /\ \E s \in Sortings(S, order) : \A i \in 1 .. Len(a.items) :
                     offset + i \in 1 .. Len(s) /\ a.items[i] = s[offset + i]
<1> DEFINE S == Filtered(selector)
<1> DEFINE p == Asked(page)
<1> DEFINE n == Clamped(limit)
<1>1. p \in Nat \ {0} /\ n \in 1 .. MaxLimit /\ MaxLimit \in Nat
  BY ClampedType, ListAssumption DEF Asked
<1>2. PICK s \in Sortings(S, order) :
        a = IF Slice(s, p, n) = Panicked THEN Panicked
            ELSE [items |-> Slice(s, p, n), total |-> Cardinality(S), page |-> p, limit |-> n,
                  pages |-> PageCount(Cardinality(S), n)]
  BY DEF List, Asked
<1> HIDE DEF S, p, n
<1>3. S \subseteq Item /\ IsFiniteSet(S) /\ Cardinality(S) \in Nat /\ Cardinality(S) + MaxLimit < Half
  BY FilteredIsFinite DEF S
<1>4. s \in Seq(Item) /\ Len(s) = Cardinality(S)
  BY <1>3, SortingType
<1>5. (p - 1) * n < Half
  BY DEF p, n
<1> DEFINE offset == (p - 1) * n
<1> DEFINE t == Slice(s, p, n)
<1>6. /\ t \in Seq(Item)
      /\ Len(t) <= n
      /\ Len(t) = n \/ offset + Len(t) >= Len(s)
      /\ \A i \in 1 .. Len(t) : offset + i \in 1 .. Len(s) /\ t[i] = s[offset + i]
  <2>1. Len(s) + MaxLimit < Half
    BY <1>3, <1>4
  <2>2. QED BY <1>1, <1>4, <1>5, <2>1, SliceIsWindow
<1> HIDE DEF t
<1>7. t # Panicked
  BY <1>6, NoAnswerAssumption
<1>8. a = [items |-> t, total |-> Cardinality(S), page |-> p, limit |-> n,
           pages |-> PageCount(Cardinality(S), n)]
  BY <1>2, <1>7 DEF t
<1>9. PageCount(Cardinality(S), n) \in Nat
  BY <1>1, <1>3, PageCountIsLeast
<1>10. a \in Answers
  BY <1>1, <1>3, <1>6, <1>8, <1>9 DEF Answers
<1>11. QED
  BY <1>4, <1>6, <1>8, <1>10 DEF S, p, n

-----------------------------------------------------------------------------
(* One request.                                                            *)

QueryType == query \in [page : Int, limit : Int, order : Orders, selector : LabelMaps]

\* An answer that is remembered is one about the items as they are.
AnswerInv ==
    answer # Forgotten =>
        /\ walk = "idle"
        /\ answer \in List(query.page, query.limit, query.order, query.selector)

LEMMA PageFollows == ItemsInv /\ QueryType /\ AnswerInv => AnswerIsThePage
<1>1. SUFFICES ASSUME ItemsInv, QueryType, AnswerInv, answer # Forgotten, Representable
               PROVE  LET S == Filtered(query.selector)
                          shown == answer.items
                          offset == (answer.page - 1) * answer.limit
                      IN  /\ answer # Panicked
                          /\ answer.total = Cardinality(S)
                          /\ answer.pages * answer.limit >= answer.total
                          /\ answer.pages = 1 \/ (answer.pages - 1) * answer.limit < answer.total
                          /\ Len(shown) = answer.limit \/ offset + Len(shown) >= answer.total
                          /\ \A i, j \in DOMAIN shown : shown[i] = shown[j] => i = j
                          /\ \A i \in DOMAIN shown :
                                /\ shown[i] \in S
                                /\ Cardinality(S \ NotBefore(S, shown[i], query.order)) < offset + i
                                /\ offset + i <= Cardinality(NoLater(S, shown[i], query.order))
  BY DEF AnswerIsThePage, NoLater, NotBefore
<1> DEFINE S == Filtered(query.selector)
<1> DEFINE shown == answer.items
<1> DEFINE offset == (answer.page - 1) * answer.limit
<1>2. /\ query.page \in Int /\ query.limit \in Int /\ query.order \in Orders
      /\ answer \in List(query.page, query.limit, query.order, query.selector)
      /\ (Asked(query.page) - 1) * Clamped(query.limit) < Half
  BY <1>1 DEF QueryType, AnswerInv, Representable, Asked, Half
<1>3. /\ answer \in Answers
      /\ answer.page = Asked(query.page) /\ answer.limit = Clamped(query.limit)
      /\ answer.total = Cardinality(S) /\ answer.pages = PageCount(answer.total, answer.limit)
      /\ Len(shown) = answer.limit \/ offset + Len(shown) >= answer.total
      /\ \E s \in Sortings(S, query.order) : \A i \in 1 .. Len(shown) :
            offset + i \in 1 .. Len(s) /\ shown[i] = s[offset + i]
  BY <1>1, <1>2, AnswerIsWindow
<1>4. answer # Panicked
  BY <1>3, NoAnswerAssumption
<1>5. /\ answer.limit \in Nat \ {0} /\ answer.total \in Nat /\ answer.page \in Nat /\ shown \in Seq(Item)
  <2>1. Clamped(query.limit) \in 1 .. MaxLimit /\ MaxLimit \in Nat
    BY <1>2, ClampedType, ListAssumption
  <2>2. answer.total \in Nat /\ answer.page \in Nat /\ answer.items \in Seq(Item)
    BY <1>3 DEF Answers
  <2>3. QED BY <1>3, <2>1, <2>2
<1>6. /\ answer.pages * answer.limit >= answer.total
      /\ answer.pages = 1 \/ (answer.pages - 1) * answer.limit < answer.total
  BY <1>3, <1>5, PageCountIsLeast
<1>7. offset \in Int /\ DOMAIN shown = 1 .. Len(shown) /\ Len(shown) \in Nat
  BY <1>5
<1>8. S \subseteq Item /\ IsFiniteSet(S)
  BY <1>1, FilteredIsFinite
<1> HIDE DEF S, shown, offset
<1>9. PICK s \in Sortings(S, query.order) : \A i \in 1 .. Len(shown) :
        offset + i \in 1 .. Len(s) /\ shown[i] = s[offset + i]
  BY <1>3
<1>10. /\ s \in Seq(S) /\ DOMAIN s = 1 .. Len(s)
       /\ \A i, j \in 1 .. Len(s) : s[i] = s[j] => i = j
  <2>1. s \in Seq(S)
    BY <1>8, SortingType
  <2>2. DOMAIN s = 1 .. Len(s)
    BY <2>1
  <2>3. \A i, j \in DOMAIN s : s[i] = s[j] => i = j
    BY DEF Sortings
  <2>4. QED BY <2>1, <2>2, <2>3
<1>11. \A i, j \in DOMAIN shown : shown[i] = shown[j] => i = j
  BY <1>7, <1>9, <1>10
<1>12. ASSUME NEW i \in DOMAIN shown
       PROVE  /\ shown[i] \in S
              /\ Cardinality(S \ NotBefore(S, shown[i], query.order)) < offset + i
              /\ offset + i <= Cardinality(NoLater(S, shown[i], query.order))
  <2>1. offset + i \in 1 .. Len(s) /\ shown[i] = s[offset + i]
    BY <1>7, <1>9
  <2>2. s[offset + i] \in S
    BY <1>10, <2>1
  <2>3. QED BY <1>2, <1>8, <2>1, <2>2, PlaceFitsKey
<1>13. QED
  BY <1>3, <1>4, <1>6, <1>11, <1>12 DEF S, shown, offset

-----------------------------------------------------------------------------
(* Places.  In an order by creation or by identifier no two items are tied *)
(* and no change moves an item: its place is the number of stored items up *)
(* to it, which only grows while nothing is deleted.                       *)

Stable(order) == order \in Orders /\ order.field \in {"created_at", "id"}

Ahead(life, order) == {id \in Ids : items[id] # NoItem /\ InOrder(items[id], life, order)}
Place(life, order) == Cardinality(Ahead(life, order))

LEMMA PlaceType ==
    ASSUME NEW life, NEW order
    PROVE  IsFiniteSet(Ahead(life, order)) /\ Place(life, order) \in Nat
<1>1. IsFiniteSet(Ids) /\ Ahead(life, order) \in SUBSET Ids
  BY ListAssumption, FS_Subset DEF Ahead
<1>2. IsFiniteSet(Ahead(life, order))
  BY <1>1, FS_Subset
<1>3. QED
  BY <1>2, FS_CardinalityType DEF Place

\* The key of an item is that of its life.
LEMMA KeyOfLife ==
    ASSUME NEW item \in Item, NEW order, Stable(order)
    PROVE  Life(item) \in Lives /\ Key(Life(item), order.field) = Key(item, order.field)
BY DEF Life, Lives, Key, Stable, Item

LEMMA NoTies ==
    ASSUME ItemsInv, NEW order, Stable(order), NEW x \in StoredItems, NEW y \in StoredItems,
           Key(x, order.field) = Key(y, order.field)
    PROVE  x = y
<1>1. PICK i \in Ids, j \in Ids : items[i] # NoItem /\ x = items[i] /\ items[j] # NoItem /\ y = items[j]
  BY DEF StoredItems
<1>2. i = j
  <2>1. CASE order.field = "created_at"
    <3>1. x.created = y.created
      BY <2>1 DEF Key
    <3>2. QED BY <1>1, <3>1 DEF ItemsInv
  <2>2. CASE order.field = "id"
    <3>1. Rank[x.id] = Rank[y.id] /\ x.id = i /\ y.id = j
      BY <1>1, <2>2 DEF Key, ItemsInv
    <3>2. i \in Strings /\ j \in Strings
      BY DEF Strings
    <3>3. QED BY <3>1, <3>2, RankOrders
  <2>3. QED BY <2>1, <2>2 DEF Stable
<1>3. QED
  BY <1>1, <1>2

LEMMA PlaceInSorting ==
    ASSUME ItemsInv, NEW order, Stable(order),
           NEW s \in Sortings(StoredItems, order), NEW k \in 1 .. Len(s)
    PROVE  s[k] \in StoredItems /\ Place(Life(s[k]), order) = k
<1> DEFINE S == StoredItems
<1> DEFINE x == s[k]
<1> DEFINE low == S \ NotBefore(S, x, order)
<1>1. S \subseteq Item /\ IsFiniteSet(S) /\ order \in Orders /\ order.field \in Fields
  BY StoredIsFinite DEF Stable, Orders
<1>2. x \in S /\ k \in Nat
  <2>1. s \in Seq(S)
    BY <1>1, SortingType
  <2>2. QED BY <2>1
<1>3. Cardinality(low) < k /\ k <= Cardinality(NoLater(S, x, order))
  BY <1>1, PlaceFitsKey
<1> HIDE DEF x
<1>4. \A y \in S : Key(y, order.field) \in Nat
  BY <1>1, KeyType
<1>5. NoLater(S, x, order) = low \union {x} /\ x \notin low
  <2>1. InOrder(x, x, order)
    BY <1>2, <1>4 DEF InOrder
  <2>2. ASSUME NEW y \in S
        PROVE  InOrder(y, x, order) <=> ~ InOrder(x, y, order) \/ y = x
    <3>1. Key(x, order.field) = Key(y, order.field) => y = x
      BY <1>2, NoTies
    <3>2. QED BY <1>2, <1>4, <3>1 DEF InOrder
  <2>3. QED BY <1>2, <2>1, <2>2 DEF NoLater, NotBefore
<1>6. IsFiniteSet(low) /\ Cardinality(low) \in Nat
  <2>1. low \in SUBSET S
    OBVIOUS
  <2>2. IsFiniteSet(low)
    BY <1>1, <2>1, FS_Subset
  <2>3. QED BY <2>2, FS_CardinalityType
<1> HIDE DEF low
<1>7. Cardinality(NoLater(S, x, order)) = Cardinality(low) + 1
  BY <1>5, <1>6, FS_AddElement
<1>8. Place(Life(x), order) = Cardinality(NoLater(S, x, order))
  <2> DEFINE f == [id \in Ahead(Life(x), order) |-> items[id]]
  <2>1. ASSUME NEW id \in Ids, items[id] # NoItem
        PROVE  InOrder(items[id], Life(x), order) <=> InOrder(items[id], x, order)
    BY <1>1, <1>2, KeyOfLife DEF InOrder
  <2>2. f \in [Ahead(Life(x), order) -> NoLater(S, x, order)]
    BY <2>1 DEF Ahead, NoLater, StoredItems
  <2>3. \A i, j \in Ahead(Life(x), order) : f[i] = f[j] => i = j
    BY DEF Ahead, ItemsInv
  <2>4. \A y \in NoLater(S, x, order) : \E id \in Ahead(Life(x), order) : f[id] = y
    BY <2>1 DEF Ahead, NoLater, StoredItems
  <2> HIDE DEF f
  <2>5. f \in Bijection(Ahead(Life(x), order), NoLater(S, x, order))
    BY <2>2, <2>3, <2>4 DEF Bijection, Injection, Surjection, IsInjective
  <2>6. QED BY <2>5, PlaceType, FS_Bijection DEF Place, ExistsBijection
<1>9. Cardinality(NoLater(S, x, order)) = k
  BY <1>2, <1>3, <1>6, <1>7
<1>10. QED
  BY <1>2, <1>8, <1>9 DEF x

\* Every stored item has a place in every sorting.
LEMMA EachHasAPlace ==
    ASSUME ItemsInv, NEW order, Stable(order),
           NEW s \in Sortings(StoredItems, order), NEW x \in StoredItems
    PROVE  Place(Life(x), order) \in 1 .. Len(s) /\ s[Place(Life(x), order)] = x
<1>1. PICK k \in 1 .. Len(s) : s[k] = x
  BY StoredIsFinite, SortingType DEF Stable
<1>2. QED
  BY <1>1, PlaceInSorting

-----------------------------------------------------------------------------
(* The walk over all pages.                                                *)

\* How many items the pages asked for so far have shown.
Offset == (query.page - 1) * Clamped(query.limit)

WalkType ==
    /\ walk \in {"idle", "on", "over"}
    /\ seen \in Seq(Lives) /\ base \subseteq Lives
    /\ \A i \in 1 .. Len(seen) : seen[i].created <= commits
    /\ walk = "idle" => seen = << >>
    /\ walk # "idle" => query.page \in Nat \ {0}
    /\ walk = "on" => Offset <= Cardinality(Ids)

\* Oldest first, what was shown is in the pages that are done with, and stays
\* there: what is created later comes behind it.
ShownIsPast ==
    walk # "idle" /\ query.order = Default =>
        /\ \A i \in 1 .. Len(seen) : Place(seen[i], Default) <= Offset
        /\ \A i, j \in 1 .. Len(seen) : seen[i] = seen[j] => i = j

\* While nothing is deleted, what is still to be shown is in a page to come.
UnshownIsToCome ==
    walk # "idle" /\ Stable(query.order) /\ ~ removed =>
        \A life \in base :
            \/ \E i \in 1 .. Len(seen) : seen[i] = life
            \/ /\ walk = "on"
               /\ items[life.id] # NoItem /\ Life(items[life.id]) = life
               /\ Place(life, query.order) > Offset

ListInv ==
    ItemsInv /\ QueryType /\ AnswerInv /\ WalkType /\ ShownIsPast /\ UnshownIsToCome

LEMMA DefaultOrder == Stable(Default) /\ Default \in Orders
BY DEF Stable, Default, Orders, Fields

LEMMA FirstPageType ==
    ASSUME NEW limit \in Int, NEW order \in Orders
    PROVE  FirstPage(limit, order) \in [page : Int, limit : Int, order : Orders, selector : LabelMaps]
BY DEF FirstPage, NoLabels, LabelMaps

LEMMA ListInitially == Init => ListInv
<1>1. SUFFICES ASSUME Init PROVE ListInv
  OBVIOUS
<1>2. ItemsInv
  BY <1>1 DEF Init, ItemsInv
<1>3. QueryType
  BY <1>1, DefaultOrder, FirstPageType, ListAssumption DEF Init, QueryType, NoQuery
<1>4. WalkType /\ AnswerInv /\ ShownIsPast /\ UnshownIsToCome
  BY <1>1 DEF Init, WalkType, AnswerInv, ShownIsPast, UnshownIsToCome
<1>5. QED
  BY <1>2, <1>3, <1>4 DEF ListInv

\* What a writer stores under an identifier.
LEMMA WrittenItem ==
    ASSUME ItemsInv, NEW id \in Ids, NEW body \in Bodies,
           NEW new \in Written(id, body)
    PROVE  /\ new \in Item /\ new # NoItem /\ new.id = id
           /\ new.created = IF items[id] = NoItem THEN Now ELSE items[id].created
<1>1. /\ body \in Body /\ Now \in Nat \ {0} /\ OrEmpty(body.labels) \in LabelMaps
  <2>1. body \in Body
    BY ListAssumption
  <2>2. QED BY <2>1 DEF ItemsInv, Now, Body, OrEmpty, NoLabels, LabelMaps
<1>2. CASE items[id] = NoItem
  BY <1>1, <1>2, NoItemAssumption DEF Written, Created, Item, Body
<1>3. CASE items[id] # NoItem
  <2>1. items[id] \in Item /\ items[id].id = id
    BY <1>3 DEF ItemsInv
  <2>2. Overlay(OrEmpty(body.labels), items[id].labels) \in LabelMaps
    BY <1>1, <2>1 DEF Overlay, LabelMaps, Item
  <2>3. CASE new = Merged(items[id], body, Now)
    BY <1>1, <1>3, <2>1, <2>2, <2>3, NoItemAssumption DEF Merged, Item, Body
  <2>4. CASE new = Replaced(items[id], body, Now)
    BY <1>1, <1>3, <2>1, <2>4, NoItemAssumption DEF Replaced, Item, Body
  <2>5. QED BY <1>3, <2>3, <2>4 DEF Written
<1>4. QED
  BY <1>2, <1>3

\* A change that deletes nothing leaves the order of the others as it was.
LEMMA WriteKeepsPlaces ==
    ASSUME ItemsInv, NEW id \in Ids, NEW body \in Bodies, Write(id, body),
           NEW order, Stable(order), NEW life \in Lives
    PROVE  /\ Place(life, order)' \in Nat /\ Place(life, order) <= Place(life, order)'
           /\ order = Default /\ life.created <= commits => Place(life, order)' = Place(life, order)
<1>1. PICK new \in Written(id, body) : items' = [items EXCEPT ![id] = new]
  BY DEF Write, Store
<1>2. /\ new \in Item /\ new # NoItem /\ new.id = id
      /\ new.created = IF items[id] = NoItem THEN Now ELSE items[id].created
  BY <1>1, WrittenItem
<1>3. \A other \in Ids : items'[other] = IF other = id THEN new ELSE items[other]
  BY <1>1 DEF ItemsInv
<1>4. items[id] # NoItem => Key(new, order.field) = Key(items[id], order.field)
  BY <1>2 DEF Key, Stable, ItemsInv
<1>5. Ahead(life, order) \subseteq Ahead(life, order)'
  BY <1>2, <1>3, <1>4 DEF Ahead, InOrder
<1>6. ASSUME order = Default, life.created <= commits
      PROVE  Ahead(life, order)' = Ahead(life, order)
  <2>1. items[id] = NoItem => ~ InOrder(new, life, order)
    <3>1. items[id] = NoItem => new.created = commits + 1
      BY <1>2 DEF Now
    <3>2. Key(new, order.field) = new.created /\ Key(life, order.field) = life.created /\ ~ order.desc
      BY <1>6 DEF Default, Key
    <3>3. commits \in Nat /\ life.created \in Nat
      BY DEF ItemsInv, Lives
    <3>4. QED BY <1>6, <3>1, <3>2, <3>3 DEF InOrder
  <2>2. QED BY <1>2, <1>3, <1>4, <1>5, <2>1 DEF Ahead, InOrder
<1>7. IsFiniteSet(Ahead(life, order)') /\ Place(life, order) = Cardinality(Ahead(life, order))
      /\ Place(life, order)' = Cardinality(Ahead(life, order)')
  <2>1. Ahead(life, order)' \in SUBSET Ids /\ IsFiniteSet(Ids)
    BY StoredIsFinite DEF Ahead
  <2>2. IsFiniteSet(Ahead(life, order)')
    BY <2>1, FS_Subset
  <2>3. QED BY <2>2 DEF Place
<1>8. Place(life, order)' \in Nat /\ Place(life, order) <= Place(life, order)'
  <2>1. Ahead(life, order) \in SUBSET (Ahead(life, order)')
    BY <1>5
  <2>2. Cardinality(Ahead(life, order)) <= Cardinality(Ahead(life, order)')
    BY <1>7, <2>1, FS_Subset
  <2>3. QED BY <1>7, <2>2, FS_CardinalityType
<1>9. QED
  BY <1>6, <1>7, <1>8

LEMMA RemoveLowersPlaces ==
    ASSUME ItemsInv, NEW id \in Ids, Remove(id), NEW life, NEW order
    PROVE  Place(life, order)' \in Nat /\ Place(life, order)' <= Place(life, order)
<1>1. \A other \in Ids : items'[other] = IF other = id THEN NoItem ELSE items[other]
  BY DEF Remove, Store, ItemsInv
<1>2. Ahead(life, order)' \in SUBSET Ahead(life, order)
  BY <1>1 DEF Ahead, InOrder
<1>3. IsFiniteSet(Ahead(life, order)') /\ Cardinality(Ahead(life, order)') <= Cardinality(Ahead(life, order))
  BY <1>2, PlaceType, FS_Subset
<1>4. QED
  BY <1>3, FS_CardinalityType DEF Place

\* A change: the request and the walk stay as they are.
LEMMA StoreLeaves ==
    ASSUME ListInv, NEW id \in Ids, NEW new, Store(id, new)
    PROVE  /\ walk # "over" /\ commits' = commits + 1 /\ commits \in Nat
           /\ items' = [items EXCEPT ![id] = new]
           /\ QueryType' /\ AnswerInv' /\ WalkType' /\ Offset' = Offset
           /\ UNCHANGED <<query, walk, seen, base>>
<1>1. /\ commits' = commits + 1 /\ commits \in Nat /\ walk # "over"
      /\ UNCHANGED <<query, answer, walk, seen, base>> /\ answer = Forgotten
      /\ items' = [items EXCEPT ![id] = new]
  BY DEF Store, Now, ListInv, ItemsInv
<1>2. QueryType' /\ AnswerInv' /\ Offset' = Offset
  BY <1>1 DEF ListInv, QueryType, AnswerInv, Offset
<1>3. WalkType'
  <2>1. ASSUME NEW i \in 1 .. Len(seen) PROVE seen[i].created \in Nat
    <3>1. seen[i] \in Lives
      BY DEF ListInv, WalkType
    <3>2. QED BY <3>1 DEF Lives
  <2>2. QED BY <1>1, <1>2, <2>1 DEF ListInv, WalkType
<1>4. QED
  BY <1>1, <1>2, <1>3

LEMMA WriteKeeps ==
    ASSUME ListInv, NEW id \in Ids, NEW body \in Bodies, Write(id, body)
    PROVE  ListInv'
<1>1. PICK new \in Written(id, body) : Store(id, new)
  BY DEF Write
<1>2. /\ new \in Item /\ new # NoItem /\ new.id = id
      /\ new.created = IF items[id] = NoItem THEN Now ELSE items[id].created
  BY <1>1, WrittenItem DEF ListInv
<1>3. /\ walk # "over" /\ commits' = commits + 1 /\ commits \in Nat
      /\ QueryType' /\ AnswerInv' /\ WalkType' /\ Offset' = Offset
      /\ UNCHANGED <<query, walk, seen, base, removed>>
  BY <1>1, StoreLeaves DEF Write
<1>4. \A other \in Ids : items'[other] = IF other = id THEN new ELSE items[other]
  BY <1>1, StoreLeaves DEF ListInv, ItemsInv
<1>5. ItemsInv'
  <2>1. items' \in [Ids -> Item \union {NoItem}]
    BY <1>1, <1>2, StoreLeaves DEF ListInv, ItemsInv
  <2>2. \A other \in Ids : items[other] # NoItem => items[other].created \in Nat
    BY DEF ListInv, ItemsInv, Item
  <2>3. \A other \in Ids : items'[other] # NoItem => items'[other].id = other /\ items'[other].created <= commits'
    BY <1>2, <1>3, <1>4, <2>2 DEF ListInv, ItemsInv, Now
  <2>4. ASSUME NEW i \in Ids, NEW j \in Ids, items'[i] # NoItem, items'[j] # NoItem,
               items'[i].created = items'[j].created
        PROVE  i = j
    BY <1>2, <1>3, <1>4, <2>2, <2>4 DEF ListInv, ItemsInv, Now
  <2>5. QED BY <1>3, <2>1, <2>3, <2>4 DEF ItemsInv
<1>6. ShownIsPast'
  <2>1. SUFFICES ASSUME walk # "idle", query.order = Default, NEW i \in 1 .. Len(seen)
                 PROVE  Place(seen[i], Default)' <= Offset
    BY <1>3 DEF ListInv, ShownIsPast
  <2>2. PICK life \in Lives : life = seen[i] /\ Place(life, Default) <= Offset /\ life.created <= commits
    BY <2>1 DEF ListInv, ShownIsPast, WalkType
  <2>3. Place(life, Default)' = Place(life, Default)
    BY <2>2, DefaultOrder, WriteKeepsPlaces DEF ListInv
  <2>4. Place(seen[i], Default)' = Place(life, Default)'
    BY <1>3, <2>2 DEF Place, Ahead
  <2>5. QED BY <2>2, <2>3, <2>4
<1>7. UnshownIsToCome'
  <2>1. SUFFICES ASSUME walk # "idle", Stable(query.order), ~ removed, NEW life \in base,
                        ~ \E i \in 1 .. Len(seen) : seen[i] = life
                 PROVE  /\ walk = "on"
                        /\ items'[life.id] # NoItem /\ Life(items'[life.id]) = life
                        /\ Place(life, query.order)' > Offset
    BY <1>3 DEF UnshownIsToCome, Stable
  <2>2. /\ walk = "on" /\ life \in Lives
        /\ items[life.id] # NoItem /\ Life(items[life.id]) = life
        /\ Place(life, query.order) > Offset
    BY <2>1 DEF ListInv, UnshownIsToCome, WalkType
  <2>3. life.id \in Ids
    BY <2>2 DEF Lives
  <2>4. items'[life.id] # NoItem /\ Life(items'[life.id]) = life
    BY <1>2, <1>4, <2>2, <2>3 DEF Life
  <2>5. PICK order : order = query.order /\ Stable(order)
    BY <2>1
  <2>6. Place(life, order)' \in Nat /\ Place(life, order) <= Place(life, order)'
    BY <2>2, <2>5, WriteKeepsPlaces DEF ListInv
  <2>7. Place(life, query.order)' = Place(life, order)' /\ Place(life, query.order) = Place(life, order)
    BY <1>3, <2>5 DEF Place, Ahead
  <2>8. Place(life, order) \in Nat /\ Offset \in Int
    <3>1. query.page \in Nat \ {0} /\ query.limit \in Int
      BY <2>1 DEF ListInv, QueryType, WalkType
    <3>2. QED BY <3>1, ClampedType, PlaceType, ListAssumption DEF Offset
  <2>9. QED BY <2>2, <2>4, <2>6, <2>7, <2>8
<1>8. QED
  BY <1>3, <1>5, <1>6, <1>7 DEF ListInv

LEMMA RemoveKeeps ==
    ASSUME ListInv, NEW id \in Ids, Remove(id)
    PROVE  ListInv'
<1>1. /\ walk # "over" /\ commits' = commits + 1 /\ commits \in Nat
      /\ items' = [items EXCEPT ![id] = NoItem]
      /\ QueryType' /\ AnswerInv' /\ WalkType' /\ Offset' = Offset
      /\ UNCHANGED <<query, walk, seen, base>>
      /\ removed' = (removed \/ walk = "on")
  BY StoreLeaves DEF Remove
<1>2. ItemsInv'
  <2>1. \A other \in Ids : items'[other] = IF other = id THEN NoItem ELSE items[other]
    BY <1>1 DEF ListInv, ItemsInv
  <2>2. \A other \in Ids : items[other] # NoItem => items[other].created \in Nat
    BY DEF ListInv, ItemsInv, Item
  <2>3. QED BY <1>1, <2>1, <2>2 DEF ListInv, ItemsInv
<1>3. ShownIsPast'
  <2>1. SUFFICES ASSUME walk # "idle", query.order = Default, NEW i \in 1 .. Len(seen)
                 PROVE  Place(seen[i], Default)' <= Offset
    BY <1>1 DEF ListInv, ShownIsPast
  <2>2. PICK life \in Lives : life = seen[i] /\ Place(life, Default) <= Offset
    BY <2>1 DEF ListInv, ShownIsPast, WalkType
  <2>3. Place(life, Default)' \in Nat /\ Place(life, Default)' <= Place(life, Default)
    BY RemoveLowersPlaces DEF ListInv
  <2>4. Place(seen[i], Default)' = Place(life, Default)'
    BY <1>1, <2>2 DEF Place, Ahead
  <2>5. Place(life, Default) \in Nat /\ Offset \in Int
    <3>1. query.page \in Nat \ {0} /\ query.limit \in Int
      BY <2>1 DEF ListInv, QueryType, WalkType
    <3>2. Clamped(query.limit) \in Nat
      BY <3>1, ClampedType
    <3>3. QED BY <3>1, <3>2, PlaceType DEF Offset
  <2>6. QED BY <2>2, <2>3, <2>4, <2>5
<1>4. UnshownIsToCome'
  BY <1>1 DEF ListInv, UnshownIsToCome, WalkType
<1>5. QED
  BY <1>1, <1>2, <1>3, <1>4 DEF ListInv

LEMMA AskKeeps ==
    ASSUME ListInv, NEW page \in Int, NEW limit \in Int, NEW order \in Orders,
           NEW selector \in LabelMaps, Ask(page, limit, order, selector)
    PROVE  ListInv'
<1>1. /\ walk = "idle" /\ answer' \in List(page, limit, order, selector)
      /\ query' = [page |-> page, limit |-> limit, order |-> order, selector |-> selector]
      /\ UNCHANGED <<items, commits, walk, seen, base, removed>>
  BY DEF Ask
<1>2. ItemsInv' /\ QueryType'
  BY <1>1 DEF ListInv, ItemsInv, QueryType
<1>3. AnswerInv'
  <2>1. List(page, limit, order, selector)' = List(page, limit, order, selector)
    BY <1>1 DEF List, Filtered, StoredItems
  <2>2. List(query.page, query.limit, query.order, query.selector)' = List(page, limit, order, selector)
    BY <1>1 DEF List, Filtered, StoredItems
  <2>3. QED BY <1>1, <2>2 DEF AnswerInv
<1>4. WalkType' /\ ShownIsPast' /\ UnshownIsToCome'
  BY <1>1 DEF ListInv, WalkType, ShownIsPast, UnshownIsToCome
<1>5. QED
  BY <1>2, <1>3, <1>4 DEF ListInv

LEMMA BeginKeeps ==
    ASSUME ListInv, NEW limit \in Int, NEW order \in Orders, Begin(limit, order)
    PROVE  ListInv'
<1>1. /\ walk = "idle" /\ walk' = "on" /\ answer = Forgotten /\ seen = << >>
      /\ base' = {Life(item) : item \in StoredItems}
      /\ query' = FirstPage(limit, order)
      /\ UNCHANGED <<items, commits, answer, seen, removed>>
  BY DEF Begin, ListInv, WalkType
<1>2. ItemsInv' /\ QueryType' /\ AnswerInv'
  BY <1>1, FirstPageType DEF ListInv, ItemsInv, QueryType, AnswerInv
<1>3. Offset' = 0
  <2>1. query'.page = 1 /\ query'.limit = limit
    BY <1>1 DEF FirstPage
  <2>2. Clamped(limit) \in Nat
    BY ClampedType, ListAssumption
  <2>3. QED BY <2>1, <2>2 DEF Offset
<1>4. /\ \A item \in StoredItems :
            /\ Life(item) \in Lives /\ item.id \in Ids /\ Life(item).id = item.id
            /\ items[item.id] = item /\ item # NoItem
  BY DefaultOrder, KeyOfLife DEF ListInv, ItemsInv, StoredItems, Life
<1>5. WalkType'
  BY <1>1, <1>3, <1>4, StoredIsFinite DEF ListInv, WalkType, FirstPage
<1>6. ShownIsPast'
  BY <1>1 DEF ShownIsPast
<1>7. UnshownIsToCome'
  <2>1. SUFFICES ASSUME Stable(order), NEW item \in StoredItems
                 PROVE  Place(Life(item), order) > 0
    BY <1>1, <1>3, <1>4 DEF UnshownIsToCome, FirstPage, Place, Ahead
  <2>2. item.id \in Ahead(Life(item), order)
    <3>1. item \in Item
      BY StoredIsFinite DEF ListInv
    <3>2. Key(item, order.field) \in Nat /\ Key(Life(item), order.field) = Key(item, order.field)
      BY <2>1, <3>1, KeyType, KeyOfLife DEF Stable, Orders
    <3>3. QED BY <1>4, <3>2 DEF Ahead, InOrder
  <2>3. QED BY <2>2, PlaceType, FS_EmptySet DEF Place
<1>8. QED
  BY <1>2, <1>5, <1>6, <1>7 DEF ListInv

LEMMA FinishKeeps ==
    ASSUME ListInv, Finish
    PROVE  ListInv'
<1>1. /\ walk' = "idle" /\ seen' = << >> /\ base' = {} /\ answer' = Forgotten
      /\ query' = NoQuery /\ UNCHANGED <<items, commits>>
  BY DEF Finish
<1>2. ItemsInv'
  BY <1>1 DEF ListInv, ItemsInv
<1>3. QueryType'
  BY <1>1, DefaultOrder, FirstPageType, ListAssumption DEF QueryType, NoQuery
<1>4. WalkType' /\ AnswerInv' /\ ShownIsPast' /\ UnshownIsToCome'
  BY <1>1 DEF WalkType, AnswerInv, ShownIsPast, UnshownIsToCome
<1>5. QED
  BY <1>2, <1>3, <1>4 DEF ListInv

\* One page more of the walk.
LEMMA TurnKeeps ==
    ASSUME ListInv, Turn
    PROVE  ListInv'
<1> DEFINE n == Clamped(query.limit)
<1>1. PICK a \in List(query.page, query.limit, query.order, NoLabels) :
        /\ seen' = seen \o [i \in DOMAIN a.items |-> Life(a.items[i])]
        /\ walk' = IF query.page >= a.pages THEN "over" ELSE "on"
  BY DEF Turn
<1>2. /\ walk = "on" /\ query' = [query EXCEPT !.page = @ + 1]
      /\ UNCHANGED <<items, commits, answer, base, removed>>
  BY DEF Turn
<1>3. /\ query.page \in Nat \ {0} /\ query.limit \in Int /\ query.order \in Orders
      /\ Offset <= Cardinality(Ids)
  BY <1>2 DEF ListInv, WalkType, QueryType
<1>4. n \in Nat \ {0} /\ Offset \in Nat
  <2>1. n \in Nat \ {0}
    BY <1>3, ClampedType, ListAssumption
  <2> HIDE DEF n
  <2>2. QED BY <1>3, <2>1 DEF Offset, n
<1>5. Offset' = Offset + n
  <2>1. query'.page = query.page + 1 /\ query'.limit = query.limit
    BY <1>2 DEF ListInv, QueryType
  <2>2. query.page * n = (query.page - 1) * n + n
    BY <1>3, <1>4
  <2>3. query'.page - 1 = query.page /\ Clamped(query'.limit) = n
    BY <1>3, <2>1
  <2>4. Offset' = query.page * n
    BY <2>3 DEF Offset
  <2>5. QED BY <2>2, <2>4 DEF Offset
<1>6. Filtered(NoLabels) = StoredItems
  BY DEF Filtered, MatchLabels, NoLabels
<1>7. (Asked(query.page) - 1) * n < Half /\ Asked(query.page) = query.page
  <2>1. Asked(query.page) = query.page
    BY <1>3 DEF Asked
  <2>2. Offset < Half
    BY <1>3, <1>4, StoredIsFinite, ListAssumption, PowerOfSum DEF ListInv, Half
  <2>3. QED BY <2>1, <2>2 DEF Offset
<1> DEFINE total == Cardinality(StoredItems)
<1> DEFINE shown == a.items
<1>8. /\ a \in Answers /\ a.page = query.page /\ a.limit = n
      /\ a.total = total /\ a.pages = PageCount(total, n)
      /\ Len(shown) <= n
      /\ Len(shown) = n \/ Offset + Len(shown) >= total
      /\ \E s \in Sortings(StoredItems, query.order) : \A i \in 1 .. Len(shown) :
            Offset + i \in 1 .. Len(s) /\ shown[i] = s[Offset + i]
  <2>1. ItemsInv
    BY DEF ListInv
  <2> DEFINE offset == (a.page - 1) * a.limit
  <2>2. /\ a \in Answers /\ a.page = Asked(query.page) /\ a.limit = n
        /\ a.total = Cardinality(Filtered(NoLabels)) /\ a.pages = PageCount(a.total, a.limit)
        /\ Len(shown) <= a.limit
        /\ Len(shown) = a.limit \/ offset + Len(shown) >= a.total
        /\ \E s \in Sortings(Filtered(NoLabels), query.order) : \A i \in 1 .. Len(shown) :
              offset + i \in 1 .. Len(s) /\ shown[i] = s[offset + i]
    BY <1>1, <1>3, <1>7, <2>1, AnswerIsWindow
  <2>3. offset = Offset
    BY <1>7, <2>2 DEF Offset
  <2> HIDE DEF offset
  <2>4. QED BY <1>6, <1>7, <2>2, <2>3
<1>9. shown \in Seq(Item) /\ Len(shown) \in Nat /\ DOMAIN shown = 1 .. Len(shown) /\ total \in Nat
  <2>1. shown \in Seq(Item)
    BY <1>8 DEF Answers
  <2>2. QED BY <2>1, StoredIsFinite DEF ListInv
<1>10. a.pages \in Nat \ {0} /\ a.pages * n >= total /\ (a.pages = 1 \/ (a.pages - 1) * n < total)
  BY <1>4, <1>8, <1>9, PageCountIsLeast
<1> DEFINE lives == [i \in 1 .. Len(shown) |-> Life(shown[i])]
<1>11. /\ lives \in Seq(Lives) /\ Len(lives) = Len(shown) /\ seen' = seen \o lives /\ seen \in Seq(Lives)
       /\ Len(seen') = Len(seen) + Len(shown) /\ Len(seen) \in Nat
       /\ \A i \in 1 .. Len(seen') : seen'[i] = IF i <= Len(seen) THEN seen[i] ELSE Life(shown[i - Len(seen)])
  <2>1. \A i \in 1 .. Len(shown) : Life(shown[i]) \in Lives
    BY <1>9, DefaultOrder, KeyOfLife
  <2>2. lives \in Seq(Lives) /\ Len(lives) = Len(shown)
    BY <1>9, <2>1
  <2>3. seen' = seen \o lives
    BY <1>1, <1>9
  <2>4. seen \in Seq(Lives)
    BY DEF ListInv, WalkType
  <2>5. \A i \in 1 .. Len(shown) : lives[i] = Life(shown[i])
    OBVIOUS
  <2> HIDE DEF lives
  <2>6. Len(seen) \in Nat /\ Len(seen') = Len(seen) + Len(shown)
    <3>1. Len(seen \o lives) = Len(seen) + Len(lives) /\ Len(seen) \in Nat
      BY <2>2, <2>4
    <3>2. QED BY <2>2, <2>3, <3>1
  <2>7. ASSUME NEW i \in 1 .. Len(seen')
        PROVE  seen'[i] = IF i <= Len(seen) THEN seen[i] ELSE Life(shown[i - Len(seen)])
    <3>1. seen'[i] = IF i <= Len(seen) THEN seen[i] ELSE lives[i - Len(seen)]
      BY <1>9, <2>2, <2>3, <2>4, <2>6
    <3>2. i > Len(seen) => i - Len(seen) \in 1 .. Len(shown)
      BY <1>9, <2>6
    <3>3. QED BY <2>5, <2>6, <3>1, <3>2
  <2>8. QED BY <2>2, <2>3, <2>4, <2>6, <2>7
<1> HIDE DEF n, total, shown, lives
<1>12. WalkType'
  <2>1. walk' = "on" => Offset + n <= Cardinality(Ids)
    <3>1. SUFFICES ASSUME query.page < a.pages PROVE Offset + n <= Cardinality(Ids)
      BY <1>1, <1>3, <1>10
    <3>2. a.pages # 1 /\ query.page <= a.pages - 1
      BY <1>3, <1>10, <3>1
    <3>3. query.page * n <= (a.pages - 1) * n
      BY <1>3, <1>4, <1>10, <3>2
    <3>4. Offset + n = query.page * n
      BY <1>3, <1>4 DEF Offset, n
    <3>5. (a.pages - 1) * n \in Nat /\ query.page * n \in Nat
      <4>1. a.pages - 1 \in Nat /\ query.page \in Nat /\ n \in Nat
        BY <1>3, <1>4, <1>10
      <4> HIDE DEF n
      <4>2. QED BY <4>1
    <3>6. total <= Cardinality(Ids) /\ Cardinality(Ids) \in Nat
      BY StoredIsFinite DEF ListInv, total
    <3>7. QED BY <1>9, <1>10, <3>2, <3>3, <3>4, <3>5, <3>6
  <2>2. ASSUME NEW i \in 1 .. Len(seen') PROVE seen'[i].created <= commits
    <3>1. CASE i <= Len(seen)
      BY <1>11, <3>1 DEF ListInv, WalkType
    <3>2. CASE i > Len(seen)
      <4>1. i - Len(seen) \in 1 .. Len(shown)
        BY <1>9, <1>11, <3>2
      <4>2. PICK s \in Sortings(StoredItems, query.order) : \A j \in 1 .. Len(shown) :
               Offset + j \in 1 .. Len(s) /\ shown[j] = s[Offset + j]
        BY <1>8
      <4>3. s \in Seq(StoredItems)
        BY StoredIsFinite, SortingType DEF ListInv
      <4>4. shown[i - Len(seen)] \in StoredItems
        BY <4>1, <4>2, <4>3
      <4>5. shown[i - Len(seen)].created <= commits
        BY <4>4 DEF ListInv, ItemsInv, StoredItems
      <4>6. seen'[i] = Life(shown[i - Len(seen)])
        BY <1>11, <3>2
      <4>7. QED BY <4>5, <4>6 DEF Life
    <3>3. QED BY <1>11, <3>1, <3>2
  <2>3. seen' \in Seq(Lives)
    BY <1>11
  <2>4. query'.page = query.page + 1
    BY <1>2 DEF ListInv, QueryType
  <2>5. walk' \in {"on", "over"}
    BY <1>1
  <2>6. QED BY <1>2, <1>3, <1>5, <2>1, <2>2, <2>3, <2>4, <2>5 DEF ListInv, WalkType
<1>13. QueryType' /\ AnswerInv' /\ ItemsInv' /\ query'.order = query.order
  BY <1>2, <1>3 DEF ListInv, QueryType, AnswerInv, ItemsInv
\* Where what is shown stands, when the order is stable.
<1>14. ASSUME Stable(query.order)
       PROVE  /\ \A i \in 1 .. Len(shown) : Place(Life(shown[i]), query.order) = Offset + i
              /\ \A x \in StoredItems :
                    /\ Place(Life(x), query.order) \in 1 .. total
                    /\ \A i \in 1 .. Len(shown) : Place(Life(x), query.order) = Offset + i => shown[i] = x
  <2>1. PICK s \in Sortings(StoredItems, query.order) : \A i \in 1 .. Len(shown) :
           Offset + i \in 1 .. Len(s) /\ shown[i] = s[Offset + i]
    BY <1>8
  <2>2. ItemsInv
    BY DEF ListInv
  <2>3. Len(s) = total
    BY <2>2, StoredIsFinite, SortingType DEF total
  <2>4. \A i \in 1 .. Len(shown) : Place(Life(shown[i]), query.order) = Offset + i
    BY <1>14, <2>1, <2>2, PlaceInSorting
  <2>5. ASSUME NEW x \in StoredItems
        PROVE  Place(Life(x), query.order) \in 1 .. Len(s) /\ s[Place(Life(x), query.order)] = x
    BY <1>14, <2>2, EachHasAPlace
  <2>6. QED BY <2>1, <2>3, <2>4, <2>5
\* The lives shown, when the walk goes on.
<1>15. \A life : Place(life, query.order)' = Place(life, query.order)
  BY <1>2, <1>13 DEF Place, Ahead
<1>16. ShownIsPast'
  <2>1. SUFFICES ASSUME query.order = Default
                 PROVE  /\ \A i \in 1 .. Len(seen') : Place(seen[i], Default)' <= Offset + n
                        /\ \A i, j \in 1 .. Len(seen') : seen'[i] = seen'[j] => i = j
    BY <1>5, <1>13 DEF ShownIsPast
  <2>2. Stable(query.order)
    BY <2>1, DefaultOrder
  <2>3. \A i \in 1 .. Len(seen) : Place(seen[i], Default) <= Offset /\ Place(seen[i], Default) \in Nat
    BY <1>2, <2>1, PlaceType DEF ListInv, ShownIsPast
  <2>4. \A i, j \in 1 .. Len(seen) : seen[i] = seen[j] => i = j
    BY <1>2, <2>1 DEF ListInv, ShownIsPast
  <2>5. \A i \in 1 .. Len(seen') : i > Len(seen) => i - Len(seen) \in 1 .. Len(shown)
    BY <1>9, <1>11
  <2>6. \A i \in 1 .. Len(seen') : i > Len(seen) => Place(seen'[i], Default) = Offset + (i - Len(seen))
    BY <1>11, <1>14, <2>1, <2>2, <2>5
  <2>7. ASSUME NEW i \in 1 .. Len(seen') PROVE Place(seen'[i], Default) <= Offset + n
    <3>1. CASE i <= Len(seen)
      <4>1. i \in 1 .. Len(seen) /\ seen'[i] = seen[i]
        BY <1>11, <3>1
      <4>2. QED BY <1>4, <2>3, <4>1
    <3>2. CASE i > Len(seen)
      <4>1. i - Len(seen) \in 1 .. Len(shown) /\ Place(seen'[i], Default) = Offset + (i - Len(seen))
        BY <2>5, <2>6, <3>2
      <4>2. Len(shown) <= n
        BY <1>8
      <4>3. QED BY <1>4, <1>9, <4>1, <4>2
    <3>3. QED BY <1>11, <3>1, <3>2
  <2>8. \A i \in 1 .. Len(seen') : Place(seen[i], Default)' = Place(seen'[i], Default)
    BY <1>2 DEF Place, Ahead
  <2>9. ASSUME NEW i \in 1 .. Len(seen'), NEW j \in 1 .. Len(seen'), seen'[i] = seen'[j]
        PROVE  i = j
    <3>1. CASE i <= Len(seen) /\ j <= Len(seen)
      BY <1>11, <2>4, <2>9, <3>1
    <3>2. CASE i > Len(seen) /\ j > Len(seen)
      BY <1>4, <1>11, <2>6, <2>9, <3>2
    <3>3. CASE i <= Len(seen) /\ j > Len(seen)
      BY <1>4, <1>11, <2>3, <2>5, <2>6, <2>9, <3>3
    <3>4. CASE i > Len(seen) /\ j <= Len(seen)
      BY <1>4, <1>11, <2>3, <2>5, <2>6, <2>9, <3>4
    <3>5. QED BY <1>11, <3>1, <3>2, <3>3, <3>4
  <2>10. QED BY <2>7, <2>8, <2>9
<1>17. UnshownIsToCome'
  <2>1. SUFFICES ASSUME Stable(query.order), ~ removed, NEW life \in base,
                        ~ \E i \in 1 .. Len(seen') : seen'[i] = life
                 PROVE  /\ walk' = "on"
                        /\ items[life.id] # NoItem /\ Life(items[life.id]) = life
                        /\ Place(life, query.order) > Offset + n
    BY <1>2, <1>5, <1>13, <1>15 DEF UnshownIsToCome
  <2>2. \A i \in 1 .. Len(seen) : seen[i] # life
    BY <1>11, <2>1
  <2>3. \A i \in 1 .. Len(shown) : Life(shown[i]) # life
    <3>1. ASSUME NEW i \in 1 .. Len(shown) PROVE Life(shown[i]) # life
      <4>1. PICK j \in 1 .. Len(seen') : ~ (j <= Len(seen)) /\ j - Len(seen) = i
        <5>1. Len(seen) + i \in 1 .. Len(seen')
          BY <1>9, <1>11
        <5>2. Len(seen) \in Nat /\ i \in Nat \ {0}
          BY <1>9, <1>11
        <5>3. ~ (Len(seen) + i <= Len(seen)) /\ Len(seen) + i - Len(seen) = i
          BY <5>2
        <5>4. QED BY <5>1, <5>3
      <4>2. seen'[j] = Life(shown[i])
        BY <1>11, <4>1
      <4>3. QED BY <2>1, <4>1, <4>2
    <3>2. QED BY <3>1
  <2>4. /\ items[life.id] # NoItem /\ Life(items[life.id]) = life
        /\ Place(life, query.order) > Offset
    BY <1>2, <2>1, <2>2 DEF ListInv, UnshownIsToCome
  <2>5. life.id \in Ids
    BY <2>1 DEF ListInv, WalkType, Lives
  <2>6. items[life.id] \in StoredItems
    BY <2>4, <2>5 DEF StoredItems
  <2> DEFINE k == Place(life, query.order)
  <2>7. k \in 1 .. total /\ \A i \in 1 .. Len(shown) : k # Offset + i
    BY <1>14, <2>1, <2>3, <2>4, <2>6
  <2>8. k > Offset
    BY <2>4
  <2> HIDE DEF k
  <2>9. k > Offset + Len(shown)
    <3>1. SUFFICES ASSUME k <= Offset + Len(shown) PROVE FALSE
      BY <1>4, <1>9, <2>7
    <3>2. k - Offset \in 1 .. Len(shown)
      BY <1>4, <1>9, <2>7, <2>8, <3>1
    <3>3. QED BY <1>4, <1>9, <2>7, <3>2
  <2>10. Len(shown) = n /\ k > Offset + n
    <3>1. Len(shown) = n \/ Offset + Len(shown) >= total
      BY <1>8
    <3>2. k \in Nat /\ k <= total
      BY <1>9, <2>7
    <3>3. ~ (Offset + Len(shown) >= total)
      <4>1. Offset \in Nat /\ Len(shown) \in Nat /\ total \in Nat
        BY <1>4, <1>9
      <4>2. QED BY <2>9, <3>2, <4>1
    <3>4. QED BY <2>9, <3>1, <3>3
  <2>11. query.page < a.pages
    <3>1. Offset + n = query.page * n
      BY <1>3, <1>4 DEF Offset, n
    <3>2. query.page * n < a.pages * n
      BY <1>3, <1>4, <1>9, <1>10, <2>7, <2>10, <3>1
    <3>3. QED BY <1>3, <1>4, <1>10, <3>2
  <2>12. walk' = "on"
    BY <1>1, <1>3, <1>10, <2>11
  <2>13. QED BY <2>4, <2>10, <2>12 DEF k
<1>18. QED
  BY <1>12, <1>13, <1>16, <1>17 DEF ListInv

LEMMA ListStep == ListInv /\ [Next]_vars => ListInv'
<1>1. SUFFICES ASSUME ListInv, [Next]_vars PROVE ListInv'
  OBVIOUS
<1>2. ASSUME NEW id \in Ids, Remove(id) PROVE ListInv'
  BY <1>1, <1>2, RemoveKeeps
<1>3. ASSUME NEW id \in Ids, NEW body \in Bodies, Write(id, body) PROVE ListInv'
  BY <1>1, <1>3, WriteKeeps
<1>4. ASSUME NEW limit \in Limits, NEW order \in Orders, Begin(limit, order) PROVE ListInv'
  BY <1>1, <1>4, BeginKeeps, ListAssumption
<1>5. ASSUME NEW limit \in Limits, NEW order \in Orders, NEW page \in Pages,
             AskGraphQL(page, limit, order) \/ \E selector \in Selectors : Ask(page, limit, order, selector)
      PROVE  ListInv'
  <2>1. NoLabels \in LabelMaps /\ Selectors \subseteq LabelMaps /\ page \in Int /\ limit \in Int
    BY ListAssumption DEF NoLabels, LabelMaps
  <2>2. PICK selector \in LabelMaps : Ask(page, limit, order, selector)
    BY <1>5, <2>1 DEF AskGraphQL
  <2>3. QED BY <1>1, <2>1, <2>2, AskKeeps
<1>6. CASE UNCHANGED vars
  <2>1. UNCHANGED <<items, commits, query, answer, walk, seen, base, removed>>
    BY <1>6 DEF vars
  <2>2. ItemsInv' /\ QueryType'
    BY <1>1, <2>1 DEF ListInv, ItemsInv, QueryType
  <2>3. AnswerInv'
    BY <1>1, <2>1 DEF ListInv, AnswerInv, List, Filtered, StoredItems
  <2>4. WalkType'
    BY <1>1, <2>1 DEF ListInv, WalkType, Offset
  <2>5. ShownIsPast'
    BY <1>1, <2>1 DEF ListInv, ShownIsPast, Offset, Place, Ahead
  <2>6. UnshownIsToCome'
    BY <1>1, <2>1 DEF ListInv, UnshownIsToCome, Offset, Place, Ahead
  <2>7. QED BY <2>2, <2>3, <2>4, <2>5, <2>6 DEF ListInv
<1>7. QED
  BY <1>1, <1>2, <1>3, <1>4, <1>5, <1>6, TurnKeeps, FinishKeeps DEF Next

LEMMA ListInvariant == Spec => []ListInv
BY ListInitially, ListStep, PTL DEF Spec

\* For every number of items, every page, limit, order and label filter, and
\* every width of int: the answer is the page that was asked for.
THEOREM AnswersArePages == Spec => []AnswerIsThePage
<1>1. ListInv => AnswerIsThePage
  BY PageFollows DEF ListInv
<1>2. QED
  BY <1>1, ListInvariant, PTL

\* A client that pages by creation or identifier has been shown all that was
\* there when it began, whatever is written meanwhile, if nothing is deleted.
THEOREM WalksMissNothing == Spec => []WalkMissesNothing
<1>1. ListInv => WalkMissesNothing
  <2>1. SUFFICES ASSUME ListInv, walk = "over", query.order.field \in {"created_at", "id"}, ~ removed
                 PROVE  base \subseteq Shown
    BY DEF WalkMissesNothing
  <2>2. Stable(query.order)
    BY <2>1 DEF Stable, ListInv, QueryType
  <2>3. \A life \in base : \E i \in 1 .. Len(seen) : seen[i] = life
    BY <2>1, <2>2 DEF ListInv, UnshownIsToCome
  <2>4. seen \in Seq(Lives)
    BY <2>1 DEF ListInv, WalkType
  <2>5. DOMAIN seen = 1 .. Len(seen)
    BY <2>4
  <2>6. QED BY <2>3, <2>5 DEF Shown
<1>2. QED
  BY <1>1, ListInvariant, PTL

\* In the default order it is shown nothing twice, even across deletions.
THEOREM WalksNeverRepeat == Spec => []WalkNeverRepeats
<1>1. ListInv => WalkNeverRepeats
  <2>1. SUFFICES ASSUME ListInv, query.order = Default
                 PROVE  \A i, j \in DOMAIN seen : seen[i] = seen[j] => i = j
    BY DEF WalkNeverRepeats
  <2>2. seen \in Seq(Lives) /\ (walk = "idle" => seen = << >>)
    BY <2>1 DEF ListInv, WalkType
  <2>3. DOMAIN seen = 1 .. Len(seen)
    BY <2>2
  <2>4. CASE walk = "idle"
    BY <2>2, <2>4
  <2>5. CASE walk # "idle"
    BY <2>1, <2>3, <2>5 DEF ListInv, ShownIsPast
  <2>6. QED BY <2>4, <2>5
<1>2. QED
  BY <1>1, ListInvariant, PTL
-----------------------------------------------------------------------------
(* The writers next to the walks.                                          *)

Atomic == INSTANCE AtomicItems

LEMMA SameData ==
    /\ Atomic!Body = Body /\ Atomic!Now = Now
    /\ \A id, old, body, now :
          /\ Atomic!Created(id, body, now) = Created(id, body, now)
          /\ Atomic!Replaced(old, body, now) = Replaced(old, body, now)
          /\ Atomic!Merged(old, body, now) = Merged(old, body, now)
BY DEF Atomic!Body, Body, Atomic!LabelMaps, LabelMaps, Atomic!Now, Now,
       Atomic!Created, Created, Atomic!Replaced, Replaced, Atomic!Merged, Merged,
       Atomic!OrEmpty, OrEmpty, Atomic!NoLabels, NoLabels, Atomic!Overlay, Overlay

\* A change by a body is one of the calls of the atomic store, as a deletion is.
LEMMA ChangeIsAtomic ==
    ASSUME NEW id \in Ids, NEW body \in Body, NEW new,
           commits' = Now, items' = [items EXCEPT ![id] = new],
           \/ items[id] = NoItem /\ new = Created(id, body, Now)
           \/ items[id] # NoItem /\ new = Replaced(items[id], body, Now)
           \/ items[id] # NoItem /\ new = Merged(items[id], body, Now)
    PROVE  Atomic!Next
<1>1. Atomic!Store(id, new)
  BY SameData DEF Atomic!Store
<1>2. Atomic!Create(id, body) \/ Atomic!Update(id, body) \/ Atomic!Upsert(id, body)
  BY <1>1, SameData DEF Atomic!Create, Atomic!Update, Atomic!Upsert
<1>3. QED
  BY <1>2, SameData DEF Atomic!Next

LEMMA DeletionIsAtomic ==
    ASSUME NEW id \in Ids, items[id] # NoItem,
           commits' = Now, items' = [items EXCEPT ![id] = NoItem]
    PROVE  Atomic!Next
<1>1. Atomic!Delete(id)
  BY SameData DEF Atomic!Delete, Atomic!Store
<1>2. QED
  BY <1>1 DEF Atomic!Next

\* Between pages the items change by the calls of the store alone: what holds
\* of walks holds of any client of the store.
THEOREM WritersUseTheStore == Spec => Atomic!Spec
<1>1. Init => Atomic!Init
  BY DEF Init, Atomic!Init
<1>2. [Next]_vars => [Atomic!Next]_(Atomic!vars)
  <2>1. SUFFICES ASSUME [Next]_vars PROVE Atomic!Next \/ UNCHANGED <<items, commits>>
    BY DEF Atomic!vars
  <2>2. ASSUME NEW id \in Ids, NEW body \in Bodies, Write(id, body) PROVE Atomic!Next
    <3>1. body \in Body
      BY ListAssumption
    <3>2. PICK new \in Written(id, body) : commits' = Now /\ items' = [items EXCEPT ![id] = new]
      BY <2>2 DEF Write, Store
    <3>3. QED
      BY <3>1, <3>2, ChangeIsAtomic DEF Written
  <2>3. ASSUME NEW id \in Ids, Remove(id) PROVE Atomic!Next
    BY <2>3, DeletionIsAtomic DEF Remove, Store
  <2>4. ASSUME \/ Turn \/ Finish \/ UNCHANGED vars
               \/ \E limit \in Limits, order \in Orders : Begin(limit, order)
               \/ \E limit \in Limits, order \in Orders, page \in Pages :
                     \/ AskGraphQL(page, limit, order)
                     \/ \E selector \in Selectors : Ask(page, limit, order, selector)
        PROVE  UNCHANGED <<items, commits>>
    BY <2>4 DEF Turn, Finish, Begin, Ask, AskGraphQL, vars
  <2>5. QED
    BY <2>1, <2>2, <2>3, <2>4 DEF Next
<1>3. QED
  BY <1>1, <1>2, PTL DEF Spec, Atomic!Spec
=============================================================================
