--------------------------- MODULE IndexOrderProofs ---------------------------
(***************************************************************************)
(* What the order of an index is after appends and removals, and what the  *)
(* search by halves finds in it, for orders, keys and rows of any number.  *)
(* Both Statements and TableFiles keep indexes, so the lemmas about them   *)
(* are here.                                                               *)
(*                                                                         *)
(* The search is a recursive function: that it is the function its equation*)
(* says is shown by the least place where a function made for the purpose  *)
(* and it would differ (LeastNat).                                         *)
(***************************************************************************)
EXTENDS IndexOrder, FiniteSetTheorems, FunctionTheorems, WellFoundedInduction, TLAPS

(* A set of numbers has a least one.                                       *)
LEMMA LeastNat ==
  ASSUME NEW S, S \subseteq Nat, S # {}
  PROVE  Min(S) \in S /\ \A y \in S : Min(S) <= y
<1> DEFINE R == {ss \in Nat \X Nat : ss[1] < ss[2]}
<1>1. IsWellFoundedOn(R, Nat)
  BY NatLessThanWellFounded DEF OpToRel
<1>2. \A x, y \in Nat : <<y, x>> \in R <=> y < x
  OBVIOUS
<1> HIDE DEF R
<1>3. PICK x \in S : \A y \in S : ~(<<y, x>> \in R)
  BY <1>1, WFMin
<1>4. \A y \in S : x <= y
  <2> TAKE y \in S
  <2>1. x \in Nat /\ y \in Nat
    OBVIOUS
  <2>2. ~(y < x)
    BY <2>1, <1>2, <1>3, Zenon
  <2> QED BY <2>1, <2>2
<1> QED BY <1>4 DEF Min

-------------------------------------------------------------------------------
(* The sorted order of a secondary index.                                  *)

(* Every row is at some position.                                          *)
LEMMA RowIsListed ==
  ASSUME NEW n \in Nat, NEW order \in Seq(Nat), IsOrder(order, n), NEW r \in 1 .. n
  PROVE  \E p \in 1 .. n : order[p] = r
<1> DEFINE f == [i \in 1 .. n |-> order[i]]
<1>1. f \in Injection(1 .. n, 1 .. n)
  BY DEF IsOrder, Injection, IsInjective
<1>2. IsFiniteSet(1 .. n)
  BY FS_Interval
<1>3. f \in Surjection(1 .. n, 1 .. n)
  BY <1>1, <1>2, FS_Injection
<1> QED BY <1>3 DEF Surjection

LEMMA OrderFacts ==
  ASSUME NEW n \in Nat, NEW order \in Seq(Nat), NEW keys, IsOrder(order, n), Ascending(order, keys)
  PROVE  /\ Len(order) = n /\ DOMAIN order = 1 .. n
         /\ \A i \in 1 .. n : order[i] \in 1 .. n
         /\ \A i, j \in 1 .. n : order[i] = order[j] => i = j
         /\ \A i, j \in 1 .. n : i <= j => keys[order[i]] <= keys[order[j]]
<1>1. /\ DOMAIN order = 1 .. n
      /\ \A i \in 1 .. n : order[i] \in 1 .. n
      /\ \A i, j \in 1 .. n : order[i] = order[j] => i = j
  BY DEF IsOrder
<1>2. Len(order) = n
  <2> DEFINE l == Len(order)
  <2>1. l \in Nat /\ DOMAIN order = 1 .. l
    OBVIOUS
  <2> HIDE DEF l
  <2>2. 1 .. l = 1 .. n
    BY <1>1, <2>1
  <2>3. n < l => l \in 1 .. l /\ l \notin 1 .. n
    BY <2>1
  <2>4. l < n => n \in 1 .. n /\ n \notin 1 .. l
    BY <2>1
  <2>5. ~(n < l) /\ ~(l < n)
    BY <2>2, <2>3, <2>4, Zenon
  <2>6. l = n
    BY <2>1, <2>5
  <2> QED BY <2>6 DEF l
<1>3. \A i, j \in 1 .. n : i <= j => keys[order[i]] <= keys[order[j]]
  BY <1>1 DEF Ascending
<1> QED BY <1>1, <1>2, <1>3

LEMMA OrderLength ==
  ASSUME NEW n \in Nat, NEW S, NEW order \in Seq(S), DOMAIN order = 1 .. n
  PROVE  Len(order) = n
<1> DEFINE l == Len(order)
<1>1. l \in Nat /\ DOMAIN order = 1 .. l
  OBVIOUS
<1> HIDE DEF l
<1>2. 1 .. l = 1 .. n
  BY <1>1
<1>3. n < l => l \in 1 .. l /\ l \notin 1 .. n
  BY <1>1
<1>4. l < n => n \in 1 .. n /\ n \notin 1 .. l
  BY <1>1
<1>5. ~(n < l) /\ ~(l < n)
  BY <1>2, <1>3, <1>4, Zenon
<1>6. l = n
  BY <1>1, <1>5
<1> QED BY <1>6 DEF l

(* cql_index_insert_row: the new row, the last one, goes to a position      *)
(* before which no key is above its own and behind which none is below.     *)
THEOREM InsertKeepsOrder ==
  ASSUME NEW n \in Nat, NEW keys \in Seq(Int), Len(keys) = n + 1,
         NEW order \in Seq(Nat), IsOrder(order, n), Ascending(order, keys),
         NEW p \in 0 .. n,
         \A i \in 1 .. p : keys[order[i]] <= keys[n + 1],
         \A i \in p + 1 .. n : keys[n + 1] <= keys[order[i]]
  PROVE  Inserted(order, p, n + 1) \in Seq(Nat) /\ Sorted(Inserted(order, p, n + 1), keys)
<1> DEFINE new == Inserted(order, p, n + 1)
           Old(i) == IF i <= p THEN i ELSE i - 1
<1>1. /\ Len(order) = n /\ DOMAIN order = 1 .. n
      /\ \A i \in 1 .. n : order[i] \in 1 .. n
      /\ \A i, j \in 1 .. n : order[i] = order[j] => i = j
      /\ \A i, j \in 1 .. n : i <= j => keys[order[i]] <= keys[order[j]]
  BY OrderFacts
<1>2. /\ new = [i \in 1 .. n + 1 |-> IF i <= p THEN order[i] ELSE IF i = p + 1 THEN n + 1 ELSE order[i - 1]]
      /\ DOMAIN new = 1 .. n + 1
  BY <1>1 DEF Inserted
<1>3. /\ new[p + 1] = n + 1
      /\ \A i \in 1 .. n + 1 : i # p + 1 => new[i] = order[Old(i)] /\ Old(i) \in 1 .. n
  BY <1>2
<1>4. \A i, j \in 1 .. n + 1 : i < j /\ i # p + 1 /\ j # p + 1 => Old(i) < Old(j)
  OBVIOUS
<1>5. \A i \in 1 .. n + 1 : i < p + 1 => Old(i) \in 1 .. p
  OBVIOUS
<1>6. \A i \in 1 .. n + 1 : p + 1 < i => Old(i) \in p + 1 .. n
  OBVIOUS
<1> HIDE DEF new, Old
<1>7. ASSUME NEW i \in 1 .. n + 1 PROVE new[i] \in 1 .. n + 1
  <2>1. CASE i = p + 1
    BY <2>1, <1>3
  <2>2. CASE i # p + 1
    <3>1. new[i] \in 1 .. n
      BY <2>2, <1>1, <1>3
    <3> QED BY <3>1
  <2> QED BY <2>1, <2>2
<1>8. new \in Seq(Nat)
  <2>1. new = [i \in 1 .. n + 1 |-> new[i]]
    BY <1>2
  <2>2. \A i \in 1 .. n + 1 : new[i] \in Nat
    <3> TAKE i \in 1 .. n + 1
    <3>1. new[i] \in 1 .. n + 1
      BY <1>7
    <3> QED BY <3>1
  <2>3. [i \in 1 .. n + 1 |-> new[i]] \in Seq(Nat)
    BY <2>2
  <2> QED BY <2>1, <2>3
<1>9. ASSUME NEW i \in 1 .. n + 1, NEW j \in 1 .. n + 1, i < j
      PROVE  new[i] # new[j] /\ keys[new[i]] <= keys[new[j]]
  <2>1. CASE i = p + 1
    <3>1. new[i] = n + 1 /\ new[j] = order[Old(j)] /\ Old(j) \in 1 .. n /\ Old(j) \in p + 1 .. n
      BY <1>3, <1>6, <1>9, <2>1
    <3>2. order[Old(j)] \in 1 .. n
      BY <1>1, <3>1
    <3>3. keys[n + 1] <= keys[order[Old(j)]]
      BY <3>1
    <3>4. order[Old(j)] # n + 1
      BY <3>2
    <3> QED BY <3>1, <3>3, <3>4, Zenon
  <2>2. CASE j = p + 1
    <3>1. new[j] = n + 1 /\ new[i] = order[Old(i)] /\ Old(i) \in 1 .. n /\ Old(i) \in 1 .. p
      BY <1>3, <1>5, <1>9, <2>2
    <3>2. order[Old(i)] \in 1 .. n
      BY <1>1, <3>1
    <3>3. keys[order[Old(i)]] <= keys[n + 1]
      BY <3>1
    <3>4. order[Old(i)] # n + 1
      BY <3>2
    <3> QED BY <3>1, <3>3, <3>4, Zenon
  <2>3. CASE i # p + 1 /\ j # p + 1
    <3>1. /\ new[i] = order[Old(i)] /\ new[j] = order[Old(j)]
          /\ Old(i) \in 1 .. n /\ Old(j) \in 1 .. n /\ Old(i) < Old(j)
      BY <1>3, <1>4, <1>9, <2>3
    <3>2. Old(i) <= Old(j) /\ Old(i) # Old(j)
      BY <3>1, SMTT(60)
    <3>3. keys[order[Old(i)]] <= keys[order[Old(j)]]
      BY <1>1, <3>1, <3>2, Zenon
    <3>4. order[Old(i)] # order[Old(j)]
      BY <1>1, <3>1, <3>2, Zenon
    <3> QED BY <3>1, <3>3, <3>4, Zenon
  <2> QED BY <2>1, <2>2, <2>3
<1>10. \A i, j \in 1 .. n + 1 : new[i] = new[j] => i = j
  <2> TAKE i \in 1 .. n + 1, j \in 1 .. n + 1
  <2>1. i < j \/ j < i \/ i = j
    OBVIOUS
  <2> QED BY <2>1, <1>9
<1>11. \A i, j \in 1 .. n + 1 : i <= j => keys[new[i]] <= keys[new[j]]
  <2> TAKE i \in 1 .. n + 1, j \in 1 .. n + 1
  <2>1. keys[new[i]] \in Int
    BY <1>7
  <2>2. i <= j => i < j \/ i = j
    OBVIOUS
  <2> QED BY <2>1, <2>2, <1>9
<1>12. IsOrder(new, Len(keys)) /\ Ascending(new, keys)
  BY <1>2, <1>7, <1>10, <1>11 DEF IsOrder, Ascending
<1> QED BY <1>8, <1>12 DEF Sorted, new

(* The keys when row r is gone.                                            *)
KeysWithout(keys, r) == [i \in 1 .. Len(keys) - 1 |-> IF i < r THEN keys[i] ELSE keys[i + 1]]

(* cql_index_remove_row: the row leaves the order and the rows behind it in *)
(* the table get the number before theirs.                                 *)
THEOREM RemoveKeepsOrder ==
  ASSUME NEW n \in Nat, NEW keys \in Seq(Int), Len(keys) = n,
         NEW order \in Seq(Nat), Sorted(order, keys), NEW r \in 1 .. n
  PROVE  RemoveRow(order, r) \in Seq(Nat) /\ Sorted(RemoveRow(order, r), KeysWithout(keys, r))
<1>1. /\ Len(order) = n /\ DOMAIN order = 1 .. n
      /\ \A i \in 1 .. n : order[i] \in 1 .. n
      /\ \A i, j \in 1 .. n : order[i] = order[j] => i = j
      /\ \A i, j \in 1 .. n : i <= j => keys[order[i]] <= keys[order[j]]
  <2>1. IsOrder(order, n) /\ Ascending(order, keys)
    BY Zenon DEF Sorted
  <2> QED BY <2>1, OrderFacts, Zenon
<1>2. PICK p \in 1 .. n : /\ order[p] = r
                          /\ RemoveRow(order, r) = Renumbered(Without(order, p), r)
  <2>1. \E p \in DOMAIN order : order[p] = r
    BY <1>1, RowIsListed, ZenonT(60) DEF Sorted
  <2> QED BY <1>1, <2>1 DEF RemoveRow
<1> DEFINE new == RemoveRow(order, r)
           Old(i) == IF i < p THEN i ELSE i + 1
           Down(x) == IF x > r THEN x - 1 ELSE x
           rest == KeysWithout(keys, r)
<1>3. /\ \A i \in 1 .. n - 1 : Old(i) \in 1 .. n /\ Old(i) # p
      /\ \A i, j \in 1 .. n - 1 : i < j => Old(i) < Old(j)
  OBVIOUS
<1>4. new = [i \in 1 .. n - 1 |-> Down(order[Old(i)])]
  <2> DEFINE w == Without(order, p)
  <2>1. w = [i \in 1 .. n - 1 |-> order[Old(i)]]
    BY <1>1 DEF Without
  <2>2. DOMAIN w = 1 .. n - 1 /\ \A i \in 1 .. n - 1 : w[i] = order[Old(i)]
    BY <2>1
  <2> HIDE DEF w, Old
  <2>3. Renumbered(w, r) = [i \in 1 .. n - 1 |-> Down(order[Old(i)])]
    BY <2>2 DEF Renumbered
  <2> QED BY <1>2, <2>3 DEF w
<1>5. /\ \A x \in 1 .. n : x # r => Down(x) \in 1 .. n - 1
      /\ \A x, y \in 1 .. n : x # r /\ y # r /\ Down(x) = Down(y) => x = y
  OBVIOUS
<1>6. DOMAIN rest = 1 .. n - 1 /\ Len(rest) = n - 1
      /\ \A x \in 1 .. n : x # r => rest[Down(x)] = keys[x]
  <2>1. rest = [i \in 1 .. n - 1 |-> IF i < r THEN keys[i] ELSE keys[i + 1]]
    BY DEF KeysWithout
  <2>2. n - 1 \in Nat
    OBVIOUS
  <2>3. \A x \in 1 .. n : x # r => rest[Down(x)] = keys[x]
    BY <2>1, <1>5
  <2> QED BY <2>1, <2>2, <2>3
<1> HIDE DEF new, Old, Down, rest
<1>7. ASSUME NEW i \in 1 .. n - 1
      PROVE  new[i] = Down(order[Old(i)]) /\ order[Old(i)] \in 1 .. n /\ order[Old(i)] # r
             /\ new[i] \in 1 .. n - 1 /\ rest[new[i]] = keys[order[Old(i)]]
  <2>1. Old(i) \in 1 .. n /\ Old(i) # p
    BY <1>3
  <2>2. order[Old(i)] \in 1 .. n /\ order[Old(i)] # r
    BY <1>1, <1>2, <2>1
  <2> QED BY <2>2, <1>4, <1>5, <1>6
<1>8. new \in Seq(Nat) /\ DOMAIN new = 1 .. n - 1
  <2>1. \A i \in 1 .. n - 1 : new[i] \in Nat
    <3> TAKE i \in 1 .. n - 1
    <3>1. new[i] \in 1 .. n - 1
      BY <1>7
    <3> QED BY <3>1
  <2>2. n - 1 \in Nat /\ new = [i \in 1 .. n - 1 |-> new[i]] /\ DOMAIN new = 1 .. n - 1
    BY <1>4
  <2>3. [i \in 1 .. n - 1 |-> new[i]] \in Seq(Nat)
    <3> DEFINE m == n - 1
    <3>1. m \in Nat /\ \A i \in 1 .. m : new[i] \in Nat
      BY <2>1, <2>2
    <3> HIDE DEF m
    <3>2. [i \in 1 .. m |-> new[i]] \in Seq(Nat)
      BY <3>1
    <3> QED BY <3>2 DEF m
  <2> QED BY <2>2, <2>3
<1>9. ASSUME NEW i \in 1 .. n - 1, NEW j \in 1 .. n - 1, i < j
      PROVE  new[i] # new[j] /\ rest[new[i]] <= rest[new[j]]
  <2>1. Old(i) \in 1 .. n /\ Old(j) \in 1 .. n /\ Old(i) <= Old(j) /\ Old(i) # Old(j)
    <3>1. Old(i) \in 1 .. n /\ Old(j) \in 1 .. n /\ Old(i) < Old(j)
      BY <1>3, <1>9
    <3> QED BY <3>1
  <2>2. order[Old(i)] # order[Old(j)] /\ keys[order[Old(i)]] <= keys[order[Old(j)]]
    BY <1>1, <2>1
  <2>3. new[i] # new[j]
    <3>1. \A x, y \in 1 .. n : x # r /\ y # r /\ Down(x) = Down(y) => x = y
      BY <1>5
    <3>2. /\ new[i] = Down(order[Old(i)]) /\ order[Old(i)] \in 1 .. n /\ order[Old(i)] # r
          /\ new[j] = Down(order[Old(j)]) /\ order[Old(j)] \in 1 .. n /\ order[Old(j)] # r
      BY <1>7
    <3> QED BY <2>2, <3>1, <3>2, Zenon
  <2> QED BY <1>7, <2>2, <2>3
<1>10. \A i, j \in 1 .. n - 1 : new[i] = new[j] => i = j
  <2> TAKE i \in 1 .. n - 1, j \in 1 .. n - 1
  <2>1. i < j \/ j < i \/ i = j
    OBVIOUS
  <2> QED BY <2>1, <1>9
<1>11. \A i, j \in 1 .. n - 1 : i <= j => rest[new[i]] <= rest[new[j]]
  <2> TAKE i \in 1 .. n - 1, j \in 1 .. n - 1
  <2>1. rest[new[i]] \in Int
    <3>1. rest[new[i]] = keys[order[Old(i)]] /\ order[Old(i)] \in 1 .. n
      BY <1>7
    <3> QED BY <3>1
  <2>2. i <= j => i < j \/ i = j
    OBVIOUS
  <2> QED BY <2>1, <2>2, <1>9
<1>12. IsOrder(new, Len(rest)) /\ Ascending(new, rest)
  BY <1>6, <1>7, <1>8, <1>10, <1>11 DEF IsOrder, Ascending
<1> QED BY <1>8, <1>12 DEF Sorted, new, rest

(* An order stays one when a row is inserted at any place, or removed.      *)
LEMMA InsertedIsOrder ==
  ASSUME NEW n \in Nat, NEW order \in Seq(Nat), IsOrder(order, n), NEW p \in 0 .. n
  PROVE  Inserted(order, p, n + 1) \in Seq(Nat) /\ IsOrder(Inserted(order, p, n + 1), n + 1)
<1> DEFINE keys == [i \in 1 .. n + 1 |-> 0]
<1>1. keys \in Seq(Int) /\ Len(keys) = n + 1 /\ \A i \in 1 .. n + 1 : keys[i] = 0
  OBVIOUS
<1>2. DOMAIN order = 1 .. n /\ \A i \in 1 .. n : order[i] \in 1 .. n + 1
  BY DEF IsOrder
<1> HIDE DEF keys
<1>3. Ascending(order, keys)
  BY <1>1, <1>2 DEF Ascending
<1>4. /\ \A i \in 1 .. p : keys[order[i]] <= keys[n + 1]
      /\ \A i \in p + 1 .. n : keys[n + 1] <= keys[order[i]]
  BY <1>1, <1>2
<1>5. Inserted(order, p, n + 1) \in Seq(Nat) /\ Sorted(Inserted(order, p, n + 1), keys)
  BY <1>1, <1>3, <1>4, InsertKeepsOrder
<1> QED BY <1>1, <1>5 DEF Sorted

LEMMA RemovedIsOrder ==
  ASSUME NEW n \in Nat, NEW order \in Seq(Nat), IsOrder(order, n), NEW r \in 1 .. n
  PROVE  RemoveRow(order, r) \in Seq(Nat) /\ IsOrder(RemoveRow(order, r), n - 1)
<1> DEFINE keys == [i \in 1 .. n |-> 0]
<1>1. keys \in Seq(Int) /\ Len(keys) = n /\ \A i \in 1 .. n : keys[i] = 0
  OBVIOUS
<1>2. DOMAIN order = 1 .. n /\ \A i \in 1 .. n : order[i] \in 1 .. n
  BY DEF IsOrder
<1> HIDE DEF keys
<1>3. Sorted(order, keys)
  BY <1>1, <1>2 DEF Ascending, Sorted
<1>4. RemoveRow(order, r) \in Seq(Nat) /\ Sorted(RemoveRow(order, r), KeysWithout(keys, r))
  BY <1>1, <1>3, RemoveKeepsOrder
<1>5. Len(KeysWithout(keys, r)) = n - 1
  BY <1>1 DEF KeysWithout
<1> QED BY <1>4, <1>5 DEF Sorted

-------------------------------------------------------------------------------
(* The halving search.  A function that is defined by recursion is CHOOSEn   *)
(* among those that satisfy its equation, so the proof shows one that does. *)

IsSearch(f, before, n) ==
  f = [s \in (0 .. n) \X (0 .. n) |->
        IF s[1] >= s[2] THEN s[1]
        ELSE LET mid == s[1] + (s[2] - s[1]) \div 2
             IN  IF before[mid + 1] THEN f[<<mid + 1, s[2]>>] ELSE f[<<s[1], mid>>]]

LEMMA BisectIsSearch ==
  ASSUME NEW before, NEW n
  PROVE  Bisect(before, n) = (CHOOSE f : IsSearch(f, before, n))[<<0, n>>]
BY DEF Bisect, IsSearch

Middle(lo, hi) == lo + (hi - lo) \div 2

LEMMA MiddleBetween ==
  ASSUME NEW lo \in Nat, NEW hi \in Nat, lo < hi
  PROVE  Middle(lo, hi) \in Nat /\ lo <= Middle(lo, hi) /\ Middle(lo, hi) < hi
BY DEF Middle

LEMMA SearchStep ==
  ASSUME NEW before, NEW n \in Nat, NEW f, IsSearch(f, before, n),
         NEW lo \in 0 .. n, NEW hi \in 0 .. n
  PROVE  f[<<lo, hi>>] = IF lo >= hi THEN lo
                         ELSE IF before[Middle(lo, hi) + 1] THEN f[<<Middle(lo, hi) + 1, hi>>]
                         ELSE f[<<lo, Middle(lo, hi)>>]
BY DEF IsSearch, Middle

LEMMA SearchExists ==
  ASSUME NEW before, NEW n \in Nat
  PROVE  \E f : IsSearch(f, before, n)
<1> DEFINE P == (0 .. n) \X (0 .. n)
           Step(f, s) == IF s[1] >= s[2] THEN s[1]
                         ELSE IF before[Middle(s[1], s[2]) + 1]
                              THEN f[<<Middle(s[1], s[2]) + 1, s[2]>>]
                              ELSE f[<<s[1], Middle(s[1], s[2])>>]
           Upto(f, d) == \A s \in P : s[2] - s[1] <= d => f[s] = Step(f, s)
           Bad == {d \in Nat : ~ \E f : Upto(f, d)}
<1>1. Bad = {}
  <2> SUFFICES ASSUME Bad # {} PROVE FALSE
    OBVIOUS
  <2>1. PICK d \in Bad : \A e \in Bad : d <= e
    <3>1. Bad \subseteq Nat
      OBVIOUS
    <3> HIDE DEF Bad
    <3> QED BY <3>1, LeastNat
  <2>2. d \in Nat /\ ~ \E f : Upto(f, d)
    OBVIOUS
  <2>10. d \in Nat
    OBVIOUS
  <2>3. d # 0
    <3> DEFINE f == [s \in P |-> s[1]]
    <3>1. \A s \in P : f[s] = s[1] /\ (s[2] - s[1] <= 0 => s[1] >= s[2])
      OBVIOUS
    <3> HIDE DEF f
    <3>2. Upto(f, 0)
      BY <3>1
    <3> QED BY <2>2, <3>2
  <2>4. PICK f : Upto(f, d - 1)
    <3>1. d - 1 \in Nat /\ ~(d <= d - 1)
      BY <2>2, <2>3
    <3>2. d - 1 \notin Bad
      BY <2>1, <3>1
    <3> HIDE DEF Upto
    <3> QED BY <3>1, <3>2
  <2> HIDE DEF Bad, P
  <2> DEFINE g == [s \in P |-> IF s[2] - s[1] = d THEN Step(f, s) ELSE f[s]]
  <2>5. \A s \in P : /\ s[2] - s[1] = d => g[s] = Step(f, s)
                     /\ s[2] - s[1] # d => g[s] = f[s]
    OBVIOUS
  <2>6. ASSUME NEW s \in P, s[1] < s[2], s[2] - s[1] <= d
        PROVE  /\ g[<<Middle(s[1], s[2]) + 1, s[2]>>] = f[<<Middle(s[1], s[2]) + 1, s[2]>>]
               /\ g[<<s[1], Middle(s[1], s[2])>>] = f[<<s[1], Middle(s[1], s[2])>>]
    <3> DEFINE mid == Middle(s[1], s[2])
    <3>1. s[1] \in 0 .. n /\ s[2] \in 0 .. n
      BY DEF P
    <3>2. mid \in Nat /\ s[1] <= mid /\ mid < s[2]
      BY <2>6, <3>1, MiddleBetween
    <3> HIDE DEF mid, g
    <3>3. <<mid + 1, s[2]>> \in P /\ <<s[1], mid>> \in P
      BY <3>1, <3>2 DEF P
    <3>4. s[2] - (mid + 1) # d /\ mid - s[1] # d
      <4>1. d \in Nat /\ s[1] \in Nat /\ s[2] \in Nat
        BY <2>10, <3>1
      <4>2. \A a, b, m \in Nat : a <= m /\ m < b /\ b - a <= d => b - (m + 1) # d /\ m - a # d
        BY <4>1
      <4> QED BY <2>6, <3>2, <4>1, <4>2
    <3> QED BY <2>5, <3>3, <3>4 DEF mid
  <2>7. ASSUME NEW s \in P, s[2] - s[1] <= d PROVE g[s] = Step(f, s)
    <3>1. CASE s[2] - s[1] = d
      BY <2>5, <3>1
    <3>2. CASE s[2] - s[1] # d
      <4>1. s[1] \in 0 .. n /\ s[2] \in 0 .. n
        BY DEF P
      <4>2. s[2] - s[1] <= d - 1
        <5>2. \A a, b \in Nat : b - a <= d /\ b - a # d => b - a <= d - 1
          BY <2>10
        <5>3. s[1] \in Nat /\ s[2] \in Nat
          BY <4>1
        <5> QED BY <2>7, <3>2, <5>2, <5>3
      <4> HIDE DEF g, Step
      <4> QED BY <2>4, <2>5, <3>2, <4>2
    <3> QED BY <3>1, <3>2
  <2>8. ASSUME NEW s \in P, s[2] - s[1] <= d PROVE Step(f, s) = Step(g, s)
    <3>1. CASE s[1] >= s[2]
      BY <3>1
    <3>2. CASE ~(s[1] >= s[2])
      <4>1. s[1] \in 0 .. n /\ s[2] \in 0 .. n
        BY DEF P
      <4>2. s[1] < s[2]
        BY <3>2, <4>1
      <4> HIDE DEF g
      <4> QED BY <2>6, <2>8, <3>2, <4>2
    <3> QED BY <3>1, <3>2
  <2>9. Upto(g, d)
    <3> HIDE DEF g, Step
    <3> QED BY <2>7, <2>8
  <2> HIDE DEF Upto, g
  <2> QED BY <2>2, <2>9
<1>2. PICK f : Upto(f, n)
  <2> HIDE DEF Upto
  <2> QED BY <1>1
<1> DEFINE h == [s \in P |-> f[s]]
<1>3. ASSUME NEW s \in P
      PROVE  f[s] = IF s[1] >= s[2] THEN s[1]
                    ELSE LET mid == s[1] + (s[2] - s[1]) \div 2
                         IN  IF before[mid + 1] THEN h[<<mid + 1, s[2]>>] ELSE h[<<s[1], mid>>]
  <2>1. s[1] \in 0 .. n /\ s[2] \in 0 .. n /\ s[2] - s[1] <= n
    OBVIOUS
  <2>2. f[s] = Step(f, s)
    BY <1>2, <2>1
  <2>3. CASE s[1] >= s[2]
    BY <2>2, <2>3
  <2>4. CASE ~(s[1] >= s[2])
    <3> DEFINE mid == Middle(s[1], s[2])
    <3>1. mid \in Nat /\ s[1] <= mid /\ mid < s[2]
      BY <2>1, <2>4, MiddleBetween
    <3> HIDE DEF mid
    <3>2. <<mid + 1, s[2]>> \in P /\ <<s[1], mid>> \in P
      BY <2>1, <3>1
    <3>3. h[<<mid + 1, s[2]>>] = f[<<mid + 1, s[2]>>] /\ h[<<s[1], mid>>] = f[<<s[1], mid>>]
      BY <3>2
    <3> HIDE DEF h, P
    <3>4. f[s] = IF before[mid + 1] THEN f[<<mid + 1, s[2]>>] ELSE f[<<s[1], mid>>]
      BY <2>2, <2>4 DEF mid
    <3> QED BY <2>4, <3>3, <3>4 DEF mid, Middle
  <2> QED BY <2>3, <2>4
<1>4. IsSearch(h, before, n)
  BY <1>3 DEF IsSearch
<1> QED BY <1>4

(* Wherever the search ends, it is one of the places there are.             *)
LEMMA BisectBetween ==
  ASSUME NEW n \in Nat, NEW before
  PROVE  Bisect(before, n) \in 0 .. n
<1> DEFINE f == CHOOSE g : IsSearch(g, before, n)
<1>1. IsSearch(f, before, n)
  BY SearchExists
<1>2. Bisect(before, n) = f[<<0, n>>]
  BY BisectIsSearch
<1> HIDE DEF f
<1> DEFINE Wrong == {d \in Nat : \E lo, hi \in 0 .. n :
                       lo <= hi /\ d = hi - lo /\ f[<<lo, hi>>] \notin 0 .. n}
<1>3. Wrong = {}
  <2> SUFFICES ASSUME Wrong # {} PROVE FALSE
    OBVIOUS
  <2>1. PICK d \in Wrong : \A e \in Wrong : d <= e
    <3>1. Wrong \subseteq Nat
      OBVIOUS
    <3> HIDE DEF Wrong
    <3> QED BY <3>1, LeastNat
  <2>2. PICK lo, hi \in 0 .. n : lo <= hi /\ d = hi - lo /\ f[<<lo, hi>>] \notin 0 .. n
    OBVIOUS
  <2>3. \A l, h \in 0 .. n : l <= h /\ h - l < d => f[<<l, h>>] \in 0 .. n
    <3> SUFFICES ASSUME NEW l \in 0 .. n, NEW h \in 0 .. n, l <= h, h - l < d,
                        f[<<l, h>>] \notin 0 .. n
                 PROVE  FALSE
      OBVIOUS
    <3>1. h - l \in Wrong
      <4>1. h - l \in Nat
        OBVIOUS
      <4> QED BY <4>1
    <3>2. d <= h - l /\ d \in Nat
      BY <2>1, <3>1
    <3> QED BY <3>2
  <2> HIDE DEF Wrong
  <2>4. f[<<lo, hi>>] = IF lo >= hi THEN lo
                        ELSE IF before[Middle(lo, hi) + 1] THEN f[<<Middle(lo, hi) + 1, hi>>]
                        ELSE f[<<lo, Middle(lo, hi)>>]
    BY <1>1, SearchStep, ZenonT(60)
  <2>5. lo < hi
    BY <2>2, <2>4
  <2> DEFINE mid == Middle(lo, hi)
  <2>6. mid \in Nat /\ lo <= mid /\ mid < hi
    BY <2>5, MiddleBetween
  <2>7. f[<<lo, hi>>] = IF before[mid + 1] THEN f[<<mid + 1, hi>>] ELSE f[<<lo, mid>>]
    BY <2>4, <2>5
  <2> HIDE DEF mid
  <2>8. mid \in 0 .. n /\ mid + 1 \in 0 .. n /\ mid + 1 <= hi /\ hi - (mid + 1) < d /\ mid - lo < d
    BY <2>2, <2>6
  <2>9. f[<<mid + 1, hi>>] \in 0 .. n /\ f[<<lo, mid>>] \in 0 .. n
    BY <2>3, <2>6, <2>8
  <2> QED BY <2>2, <2>7, <2>9
<1>4. 0 \in 0 .. n /\ n \in 0 .. n /\ 0 <= n /\ n - 0 \in Nat
  OBVIOUS
<1>5. f[<<0, n>>] \in 0 .. n
  BY <1>3, <1>4
<1> QED BY <1>2, <1>5

(* The halving search finds the number of positions that come before, when  *)
(* they are the first ones (qe_index_lower_bound, qe_index_upper_bound).    *)
THEOREM BisectFinds ==
  ASSUME NEW n \in Nat, NEW before, NEW p \in 0 .. n, \A i \in 1 .. n : before[i] <=> i <= p
  PROVE  Bisect(before, n) = p
<1> DEFINE f == CHOOSE g : IsSearch(g, before, n)
<1>1. IsSearch(f, before, n)
  BY SearchExists
<1>2. Bisect(before, n) = f[<<0, n>>]
  BY BisectIsSearch
<1> HIDE DEF f
<1> DEFINE Wrong == {d \in Nat : \E lo, hi \in 0 .. n :
                       lo <= p /\ p <= hi /\ d = hi - lo /\ f[<<lo, hi>>] # p}
<1>3. Wrong = {}
  <2> SUFFICES ASSUME Wrong # {} PROVE FALSE
    OBVIOUS
  <2>1. PICK d \in Wrong : \A e \in Wrong : d <= e
    <3>1. Wrong \subseteq Nat
      OBVIOUS
    <3> HIDE DEF Wrong
    <3> QED BY <3>1, LeastNat
  <2>2. PICK lo, hi \in 0 .. n : lo <= p /\ p <= hi /\ d = hi - lo /\ f[<<lo, hi>>] # p
    OBVIOUS
  <2>3. \A l, h \in 0 .. n : l <= p /\ p <= h /\ h - l < d => f[<<l, h>>] = p
    <3> SUFFICES ASSUME NEW l \in 0 .. n, NEW h \in 0 .. n, l <= p, p <= h, h - l < d,
                        f[<<l, h>>] # p
                 PROVE  FALSE
      OBVIOUS
    <3>1. h - l \in Wrong
      <4>1. h - l \in Nat
        OBVIOUS
      <4> QED BY <4>1
    <3>2. d <= h - l /\ d \in Nat
      BY <2>1, <3>1
    <3> QED BY <3>2
  <2> HIDE DEF Wrong
  <2>4. f[<<lo, hi>>] = IF lo >= hi THEN lo
                        ELSE IF before[Middle(lo, hi) + 1] THEN f[<<Middle(lo, hi) + 1, hi>>]
                        ELSE f[<<lo, Middle(lo, hi)>>]
    BY <1>1, SearchStep
  <2>5. lo < hi
    BY <2>2, <2>4
  <2> DEFINE mid == Middle(lo, hi)
  <2>6. mid \in 0 .. n /\ mid + 1 \in 0 .. n /\ lo <= mid /\ mid < hi
    BY <2>5, MiddleBetween
  <2>7. before[mid + 1] <=> mid + 1 <= p
    BY <2>6
  <2>8. f[<<lo, hi>>] = IF before[mid + 1] THEN f[<<mid + 1, hi>>] ELSE f[<<lo, mid>>]
    BY <2>4, <2>5
  <2> HIDE DEF mid
  <2>9. CASE mid + 1 <= p
    <3>1. f[<<mid + 1, hi>>] = p
      BY <2>2, <2>3, <2>6, <2>9
    <3> QED BY <2>2, <2>7, <2>8, <2>9, <3>1
  <2>10. CASE ~(mid + 1 <= p)
    <3>1. f[<<lo, mid>>] = p
      BY <2>2, <2>3, <2>6, <2>10
    <3> QED BY <2>2, <2>7, <2>8, <2>10, <3>1
  <2> QED BY <2>9, <2>10
<1>4. 0 \in 0 .. n /\ n \in 0 .. n /\ 0 <= p /\ p <= n /\ n - 0 \in Nat
  OBVIOUS
<1>5. f[<<0, n>>] = p
  BY <1>3, <1>4
<1> QED BY <1>2, <1>5

-------------------------------------------------------------------------------
(* Searching an index.                                                     *)

(* Positions that come before are the first ones, up to some position.      *)
LEMMA Threshold ==
  ASSUME NEW n \in Nat, NEW before,
         \A i, j \in 1 .. n : i <= j /\ before[j] => before[i]
  PROVE  \E p \in 0 .. n : \A i \in 1 .. n : before[i] <=> i <= p
<1> DEFINE Behind == {i \in 1 .. n : ~before[i]}
<1>1. CASE Behind = {}
  <2>1. \A i \in 1 .. n : before[i] <=> i <= n
    BY <1>1
  <2> QED BY <2>1
<1>2. CASE Behind # {}
  <2>1. PICK m \in Behind : \A i \in Behind : m <= i
    <3>1. Behind \subseteq Nat
      OBVIOUS
    <3> HIDE DEF Behind
    <3> QED BY <1>2, <3>1, LeastNat
  <2>2. \A i \in 1 .. n : before[i] <=> i <= m - 1
    <3> TAKE i \in 1 .. n
    <3>1. m \in 1 .. n /\ ~before[m]
      OBVIOUS
    <3>2. before[i] => ~(m <= i)
      BY <3>1
    <3>3. ~before[i] => m <= i
      BY <2>1
    <3> HIDE DEF Behind
    <3> QED BY <3>1, <3>2, <3>3
  <2>3. m - 1 \in 0 .. n
    OBVIOUS
  <2> QED BY <2>2, <2>3
<1> QED BY <1>1, <1>2

LEMMA LowerBoundFinds ==
  ASSUME NEW n \in Nat, NEW keys, NEW order \in Seq(Nat), IsOrder(order, n), Ascending(order, keys),
         \A r \in 1 .. n : keys[r] \in Int, NEW k \in Int
  PROVE  /\ LowerBound(order, keys, k) \in 0 .. n
         /\ \A i \in 1 .. n : keys[order[i]] < k <=> i <= LowerBound(order, keys, k)
<1> DEFINE before == [i \in DOMAIN order |-> keys[order[i]] < k]
<1>1. /\ Len(order) = n /\ DOMAIN order = 1 .. n
      /\ \A i \in 1 .. n : order[i] \in 1 .. n
      /\ \A i, j \in 1 .. n : i <= j => keys[order[i]] <= keys[order[j]]
  BY OrderFacts
<1>2. \A i \in 1 .. n : (before[i] <=> keys[order[i]] < k) /\ keys[order[i]] \in Int
  BY <1>1
<1>3. LowerBound(order, keys, k) = Bisect(before, n)
  BY <1>1 DEF LowerBound
<1> HIDE DEF before
<1>4. \A i, j \in 1 .. n : i <= j /\ before[j] => before[i]
  <2> TAKE i \in 1 .. n, j \in 1 .. n
  <2>1. i <= j => keys[order[i]] <= keys[order[j]]
    BY <1>1
  <2>2. /\ (before[i] <=> keys[order[i]] < k) /\ keys[order[i]] \in Int
        /\ (before[j] <=> keys[order[j]] < k) /\ keys[order[j]] \in Int
    BY <1>2
  <2> QED BY <2>1, <2>2
<1>5. PICK p \in 0 .. n : \A i \in 1 .. n : before[i] <=> i <= p
  BY <1>4, Threshold
<1>6. Bisect(before, n) = p
  BY <1>5, BisectFinds
<1> QED BY <1>2, <1>3, <1>5, <1>6

LEMMA UpperBoundFinds ==
  ASSUME NEW n \in Nat, NEW keys, NEW order \in Seq(Nat), IsOrder(order, n), Ascending(order, keys),
         \A r \in 1 .. n : keys[r] \in Int, NEW k \in Int
  PROVE  /\ UpperBound(order, keys, k) \in 0 .. n
         /\ \A i \in 1 .. n : keys[order[i]] <= k <=> i <= UpperBound(order, keys, k)
<1> DEFINE before == [i \in DOMAIN order |-> keys[order[i]] <= k]
<1>1. /\ Len(order) = n /\ DOMAIN order = 1 .. n
      /\ \A i \in 1 .. n : order[i] \in 1 .. n
      /\ \A i, j \in 1 .. n : i <= j => keys[order[i]] <= keys[order[j]]
  BY OrderFacts
<1>2. \A i \in 1 .. n : (before[i] <=> keys[order[i]] <= k) /\ keys[order[i]] \in Int
  BY <1>1
<1>3. UpperBound(order, keys, k) = Bisect(before, n)
  BY <1>1 DEF UpperBound
<1> HIDE DEF before
<1>4. \A i, j \in 1 .. n : i <= j /\ before[j] => before[i]
  <2> TAKE i \in 1 .. n, j \in 1 .. n
  <2>1. i <= j => keys[order[i]] <= keys[order[j]]
    BY <1>1
  <2>2. /\ (before[i] <=> keys[order[i]] <= k) /\ keys[order[i]] \in Int
        /\ (before[j] <=> keys[order[j]] <= k) /\ keys[order[j]] \in Int
    BY <1>2
  <2> QED BY <2>1, <2>2
<1>5. PICK p \in 0 .. n : \A i \in 1 .. n : before[i] <=> i <= p
  BY <1>4, Threshold
<1>6. Bisect(before, n) = p
  BY <1>5, BisectFinds
<1> QED BY <1>2, <1>3, <1>5, <1>6

(* cql_index_insert_row: the halving search finds a place for the new row,  *)
(* so the order of an index stays sorted when the table grows.              *)
THEOREM InsertRowKeepsOrder ==
  ASSUME NEW n \in Nat, NEW keys \in Seq(Int), Len(keys) = n + 1,
         NEW order \in Seq(Nat), IsOrder(order, n), Ascending(order, keys)
  PROVE  InsertRow(order, keys, n + 1) \in Seq(Nat) /\ Sorted(InsertRow(order, keys, n + 1), keys)
<1> DEFINE p == LowerBound(order, keys, keys[n + 1])
<1>1. keys[n + 1] \in Int /\ \A r \in 1 .. n : keys[r] \in Int
  OBVIOUS
<1>2. /\ p \in 0 .. n
      /\ \A i \in 1 .. n : keys[order[i]] < keys[n + 1] <=> i <= p
  BY <1>1, LowerBoundFinds
<1>3. \A i \in 1 .. n : keys[order[i]] \in Int
  BY <1>1, OrderFacts
<1> HIDE DEF p
<1>4. \A i \in 1 .. p : keys[order[i]] <= keys[n + 1]
  BY <1>1, <1>2, <1>3
<1>5. \A i \in p + 1 .. n : keys[n + 1] <= keys[order[i]]
  BY <1>1, <1>2, <1>3
<1>6. Inserted(order, p, n + 1) \in Seq(Nat) /\ Sorted(Inserted(order, p, n + 1), keys)
  BY <1>2, <1>4, <1>5, InsertKeepsOrder
<1> QED BY <1>6 DEF InsertRow, p

Operators == {"=", "<", "<=", ">", ">="}
Compared(op, x, v) ==
  CASE op = "=" -> x = v
    [] op = "<" -> x < v
    [] op = "<=" -> x <= v
    [] op = ">" -> x > v
    [] op = ">=" -> x >= v

(* qe_index_leaf_range: the rows at the positions of a comparison's slice    *)
(* are the rows whose key compares so, for any order of equal keys.         *)
THEOREM SliceFinds ==
  ASSUME NEW keys \in Seq(Int), NEW order \in Seq(Nat), Sorted(order, keys), NEW v \in Int,
         NEW op \in Operators
  PROVE  /\ \A i \in Slice(order, keys, op, v) :
              order[i] \in DOMAIN keys /\ Compared(op, keys[order[i]], v)
         /\ \A r \in DOMAIN keys :
              Compared(op, keys[r], v) => \E i \in Slice(order, keys, op, v) : order[i] = r
<1> DEFINE n == Len(keys)
           lo == LowerBound(order, keys, v)
           hi == UpperBound(order, keys, v)
           slice == Slice(order, keys, op, v)
<1>1. n \in Nat /\ DOMAIN keys = 1 .. n /\ \A r \in 1 .. n : keys[r] \in Int
  OBVIOUS
<1>2. IsOrder(order, n) /\ Ascending(order, keys)
  BY DEF Sorted
<1> HIDE DEF n
<1>3. /\ Len(order) = n
      /\ \A i \in 1 .. n : order[i] \in 1 .. n
  BY <1>1, <1>2, OrderFacts
<1>4. lo \in 0 .. n /\ \A i \in 1 .. n : keys[order[i]] < v <=> i <= lo
  BY <1>1, <1>2, LowerBoundFinds
<1>5. hi \in 0 .. n /\ \A i \in 1 .. n : keys[order[i]] <= v <=> i <= hi
  BY <1>1, <1>2, UpperBoundFinds
<1> HIDE DEF lo, hi
<1>6. /\ op = "=" => slice = lo + 1 .. hi
      /\ op = "<" => slice = 1 .. lo
      /\ op = "<=" => slice = 1 .. hi
      /\ op = ">" => slice = hi + 1 .. n
      /\ op = ">=" => slice = lo + 1 .. n
  BY <1>3 DEF Slice, lo, hi
<1> HIDE DEF slice
<1>7. \A i \in 1 .. n : order[i] \in 1 .. n /\ keys[order[i]] \in Int
  BY <1>1, <1>3
<1>8. slice \subseteq 1 .. n
  BY <1>1, <1>4, <1>5, <1>6 DEF Operators
<1>9. ASSUME NEW i \in 1 .. n
      PROVE  i \in slice <=> Compared(op, keys[order[i]], v)
  <2> DEFINE x == keys[order[i]]
  <2> SUFFICES i \in slice <=> Compared(op, x, v)
    OBVIOUS
  <2>1. x \in Int /\ (x < v <=> i <= lo) /\ (x <= v <=> i <= hi)
    BY <1>4, <1>5, <1>7
  <2> HIDE DEF x
  <2>2. CASE op = "="
    BY <2>1, <2>2, <1>4, <1>5, <1>6 DEF Compared
  <2>3. CASE op = "<"
    BY <2>1, <2>3, <1>4, <1>6 DEF Compared
  <2>4. CASE op = "<="
    BY <2>1, <2>4, <1>5, <1>6 DEF Compared
  <2>5. CASE op = ">"
    BY <2>1, <2>5, <1>5, <1>6 DEF Compared
  <2>6. CASE op = ">="
    BY <2>1, <2>6, <1>4, <1>6 DEF Compared
  <2> QED BY <2>2, <2>3, <2>4, <2>5, <2>6 DEF Operators
<1>10. \A r \in 1 .. n : \E i \in 1 .. n : order[i] = r
  BY <1>1, <1>2, RowIsListed
<1> HIDE DEF Compared
<1>11. \A i \in slice : order[i] \in DOMAIN keys /\ Compared(op, keys[order[i]], v)
  BY <1>1, <1>3, <1>8, <1>9
<1>12. \A r \in DOMAIN keys : Compared(op, keys[r], v) => \E i \in slice : order[i] = r
  BY <1>1, <1>9, <1>10
<1> QED BY <1>11, <1>12 DEF slice

(* Whatever the keys are, an order stays one when a row is appended.        *)
LEMMA InsertRowIsOrder ==
  ASSUME NEW n \in Nat, NEW keys, NEW order \in Seq(Nat), IsOrder(order, n)
  PROVE  InsertRow(order, keys, n + 1) \in Seq(Nat) /\ IsOrder(InsertRow(order, keys, n + 1), n + 1)
<1> DEFINE p == LowerBound(order, keys, keys[n + 1])
<1>1. Len(order) = n
  <2>1. DOMAIN order = 1 .. n
    BY DEF IsOrder
  <2> QED BY <2>1, OrderLength
<1>2. p \in 0 .. n
  BY <1>1, BisectBetween DEF LowerBound
<1> HIDE DEF p
<1>3. InsertRow(order, keys, n + 1) = Inserted(order, p, n + 1)
  BY DEF InsertRow, p
<1> QED BY <1>2, <1>3, InsertedIsOrder

(* Any keys can be sorted: the first of them, and then the next is inserted. *)
LEMMA SomeOrder ==
  ASSUME NEW keys \in Seq(Int)
  PROVE  \E order \in Seq(Nat) : Sorted(order, keys)
<1> DEFINE n == Len(keys)
           Start(k) == [r \in 1 .. k |-> keys[r]]
           Bad == {k \in 0 .. n : ~ \E order \in Seq(Nat) : Sorted(order, Start(k))}
<1>1. n \in Nat
  OBVIOUS
<1>2. \A k \in 0 .. n : /\ Start(k) \in Seq(Int) /\ Len(Start(k)) = k
                        /\ \A r \in 1 .. k : Start(k)[r] = keys[r]
  OBVIOUS
<1> HIDE DEF n
<1>3. Bad = {}
  <2> SUFFICES ASSUME Bad # {} PROVE FALSE
    OBVIOUS
  <2>1. PICK k \in Bad : \A j \in Bad : k <= j
    <3>1. Bad \subseteq Nat
      BY <1>1
    <3> HIDE DEF Bad
    <3> QED BY <3>1, LeastNat
  <2>2. k \in 0 .. n /\ ~ \E order \in Seq(Nat) : Sorted(order, Start(k))
    OBVIOUS
  <2> HIDE DEF Start
  <2>3. k # 0
    <3>1. Start(0) \in Seq(Int) /\ Len(Start(0)) = 0
      BY <1>1, <1>2
    <3>2. Sorted(<<>>, Start(0))
      BY <3>1 DEF Sorted, IsOrder, Ascending
    <3>3. <<>> \in Seq(Nat)
      OBVIOUS
    <3> QED BY <2>2, <3>2, <3>3
  <2> DEFINE j == k - 1
  <2>4. j \in 0 .. n /\ j \in Nat /\ k = j + 1 /\ ~(k <= j)
    BY <1>1, <2>2, <2>3
  <2> HIDE DEF j
  <2>5. PICK order \in Seq(Nat) : Sorted(order, Start(j))
    BY <2>1, <2>4
  <2>6. /\ Start(j) \in Seq(Int) /\ Len(Start(j)) = j /\ \A r \in 1 .. j : Start(j)[r] = keys[r]
        /\ Start(k) \in Seq(Int) /\ Len(Start(k)) = k /\ \A r \in 1 .. k : Start(k)[r] = keys[r]
    BY <1>2, <2>2, <2>4
  <2>7. IsOrder(order, j) /\ Ascending(order, Start(j))
    BY <2>5, <2>6 DEF Sorted
  <2>8. Ascending(order, Start(k))
    <3>1. \A i \in DOMAIN order : order[i] \in 1 .. j /\ order[i] \in 1 .. k
      BY <2>4, <2>7 DEF IsOrder
    <3> QED BY <2>6, <2>7, <3>1 DEF Ascending
  <2>9. /\ InsertRow(order, Start(k), j + 1) \in Seq(Nat)
        /\ Sorted(InsertRow(order, Start(k), j + 1), Start(k))
    BY <2>4, <2>6, <2>7, <2>8, InsertRowKeepsOrder
  <2> QED BY <2>2, <2>9
<1>4. \E order \in Seq(Nat) : Sorted(order, Start(n))
  <2>1. n \in 0 .. n
    BY <1>1
  <2> HIDE DEF Start
  <2> QED BY <1>3, <2>1
<1>5. Start(n) = keys
  BY DEF n
<1> QED BY <1>4, <1>5

(* cql_index_build_order finds an order, which lists every row once.        *)
LEMMA OrdersFacts ==
  ASSUME NEW keys \in Seq(Int)
  PROVE  /\ Orders(keys) # {}
         /\ \A order \in Orders(keys) : order \in Seq(Nat) /\ Sorted(order, keys)
<1> DEFINE n == Len(keys)
<1>1. n \in Nat
  OBVIOUS
<1> HIDE DEF n
<1>2. ASSUME NEW order \in Orders(keys) PROVE order \in Seq(Nat) /\ Sorted(order, keys)
  <2>1. order \in [1 .. n -> 1 .. n] /\ Sorted(order, keys)
    BY DEF Orders, n
  <2>2. order \in Seq(Nat)
    <3>1. order = [i \in 1 .. n |-> order[i]] /\ \A i \in 1 .. n : order[i] \in Nat
      BY <1>1, <2>1
    <3>2. [i \in 1 .. n |-> order[i]] \in Seq(Nat)
      BY <1>1, <3>1
    <3> QED BY <3>1, <3>2
  <2> QED BY <2>1, <2>2
<1>3. PICK order \in Seq(Nat) : Sorted(order, keys)
  BY SomeOrder
<1>4. order \in [1 .. n -> 1 .. n]
  BY <1>3 DEF Sorted, IsOrder, n
<1>5. order \in Orders(keys)
  BY <1>3, <1>4 DEF Orders, n
<1> QED BY <1>2, <1>5

-------------------------------------------------------------------------------
LEMMA RemoveAtFacts ==
  ASSUME NEW S, NEW s \in Seq(S), NEW i \in 1 .. Len(s)
  PROVE  /\ RemoveAt(s, i) \in Seq(S) /\ Len(RemoveAt(s, i)) = Len(s) - 1
         /\ \A j \in 1 .. Len(s) - 1 : RemoveAt(s, i)[j] = IF j < i THEN s[j] ELSE s[j + 1]
<1> DEFINE a == SubSeq(s, 1, i - 1)
           b == SubSeq(s, i + 1, Len(s))
<1>1. a \in Seq(S) /\ Len(a) = i - 1 /\ \A j \in 1 .. i - 1 : a[j] = s[j]
  OBVIOUS
<1>2. b \in Seq(S) /\ Len(b) = Len(s) - i /\ \A j \in 1 .. Len(s) - i : b[j] = s[i + j]
  OBVIOUS
<1> HIDE DEF a, b
<1>3. a \o b \in Seq(S) /\ Len(a \o b) = Len(s) - 1
  <2>1. a \o b \in Seq(S) /\ Len(a \o b) = Len(a) + Len(b)
    <3>1. a \in Seq(S) /\ b \in Seq(S)
      BY <1>1, <1>2
    <3> QED BY <3>1
  <2>2. Len(s) \in Nat /\ Len(a) = i - 1 /\ Len(b) = Len(s) - i
    BY <1>1, <1>2
  <2>3. Len(a) + Len(b) = Len(s) - 1
    BY <2>2
  <2> QED BY <2>1, <2>3
<1>4. ASSUME NEW j \in 1 .. Len(s) - 1 PROVE (a \o b)[j] = IF j < i THEN s[j] ELSE s[j + 1]
  <2>1. CASE j < i
    BY <1>1, <1>2, <2>1
  <2>2. CASE ~(j < i)
    <3>1. j - Len(a) \in 1 .. Len(s) - i /\ i + (j - Len(a)) = j + 1
      BY <1>1, <2>2
    <3>2. (a \o b)[j] = b[j - Len(a)]
      BY <1>1, <1>2, <2>2
    <3> QED BY <3>1, <3>2, <1>2, <2>2
  <2> QED BY <2>1, <2>2
<1> QED BY <1>3, <1>4 DEF RemoveAt, a, b

(* ALTER TABLE ... DROP COLUMN                                              *)
IsDropping(f, indexes, c, m) ==
  f = [k \in 0 .. m |->
        IF k = 0 THEN indexes
        ELSE IF indexes[Len(indexes) + 1 - k].column = c
             THEN RemoveAt(f[k - 1], Len(indexes) + 1 - k) ELSE f[k - 1]]

LEMMA IndexesWithoutIsDropping ==
  ASSUME NEW indexes, NEW c
  PROVE  IndexesWithout(indexes, c)
           = (CHOOSE f : IsDropping(f, indexes, c, Len(indexes)))[Len(indexes)]
BY DEF IndexesWithout, IsDropping

LEMMA DroppingExists ==
  ASSUME NEW indexes, NEW c, NEW m \in Nat
  PROVE  \E f : IsDropping(f, indexes, c, m)
<1> DEFINE Bad == {k \in Nat : ~ \E f : IsDropping(f, indexes, c, k)}
<1>1. Bad = {}
  <2> SUFFICES ASSUME Bad # {} PROVE FALSE
    OBVIOUS
  <2>1. PICK k \in Bad : \A j \in Bad : k <= j
    <3>1. Bad \subseteq Nat
      OBVIOUS
    <3> HIDE DEF Bad
    <3> QED BY <3>1, LeastNat
  <2>2. k \in Nat /\ ~ \E f : IsDropping(f, indexes, c, k)
    OBVIOUS
  <2>3. k # 0
    <3>1. IsDropping([j \in 0 .. 0 |-> indexes], indexes, c, 0)
      BY DEF IsDropping
    <3> QED BY <2>2, <3>1
  <2>4. k - 1 \in Nat /\ k - 1 \notin Bad
    <3>1. k - 1 \in Nat /\ ~(k <= k - 1)
      BY <2>2, <2>3
    <3> HIDE DEF Bad
    <3> QED BY <2>1, <3>1
  <2>5. PICK f : IsDropping(f, indexes, c, k - 1)
    BY <2>4
  <2> HIDE DEF Bad
  <2> DEFINE Step(j, x) == IF indexes[Len(indexes) + 1 - j].column = c
                           THEN RemoveAt(x, Len(indexes) + 1 - j) ELSE x
             g == [j \in 0 .. k |-> IF j = k THEN Step(k, f[k - 1]) ELSE f[j]]
  <2>6. \A j \in 0 .. k - 1 : f[j] = IF j = 0 THEN indexes ELSE Step(j, f[j - 1])
    BY <2>5 DEF IsDropping
  <2>7. \A j \in 0 .. k : (j # 0 => j - 1 \in 0 .. k - 1 /\ g[j - 1] = f[j - 1])
                          /\ (j # k => j \in 0 .. k - 1)
    BY <2>2, <2>3
  <2> HIDE DEF Step
  <2>8. ASSUME NEW j \in 0 .. k
        PROVE  (IF j = k THEN Step(k, f[k - 1]) ELSE f[j])
                 = IF j = 0 THEN indexes ELSE Step(j, g[j - 1])
    <3>1. CASE j = k
      <4>1. g[j - 1] = f[k - 1]
        BY <2>3, <2>7, <3>1
      <4> HIDE DEF g
      <4> QED BY <2>3, <3>1, <4>1
    <3>2. CASE j # k
      <4>1. j \in 0 .. k - 1 /\ (j # 0 => g[j - 1] = f[j - 1])
        BY <2>7, <3>2
      <4> HIDE DEF g
      <4> QED BY <2>6, <3>2, <4>1
    <3> QED BY <3>1, <3>2
  <2>9. IsDropping(g, indexes, c, k)
    BY <2>8 DEF IsDropping, Step
  <2> QED BY <2>2, <2>9
<1> QED BY <1>1

NamedApart(s) == \A i, j \in DOMAIN s : s[i].name = s[j].name => i = j

(* What is left are indexes of other columns, and none twice.              *)
LEMMA IndexesWithoutFacts ==
  ASSUME NEW S, NEW indexes \in Seq(S), NEW c
  PROVE  /\ IndexesWithout(indexes, c) \in Seq(S)
         /\ \A i \in DOMAIN IndexesWithout(indexes, c) : \E j \in DOMAIN indexes :
              IndexesWithout(indexes, c)[i] = indexes[j] /\ indexes[j].column # c
         /\ NamedApart(indexes) => NamedApart(IndexesWithout(indexes, c))
<1> DEFINE n == Len(indexes)
           f == CHOOSE h : IsDropping(h, indexes, c, n)
           Good(k) == /\ f[k] \in Seq(S)
                      /\ \A i \in 1 .. n - k : i \in DOMAIN f[k] /\ f[k][i] = indexes[i]
                      /\ \A i \in DOMAIN f[k] : \E j \in 1 .. n :
                           /\ f[k][i] = indexes[j]
                           /\ i > n - k => indexes[j].column # c
                      /\ NamedApart(indexes) => NamedApart(f[k])
<1>1. n \in Nat /\ DOMAIN indexes = 1 .. n
  OBVIOUS
<1>2. IsDropping(f, indexes, c, n)
  BY <1>1, DroppingExists
<1>3. IndexesWithout(indexes, c) = f[n]
  BY IndexesWithoutIsDropping
<1> HIDE DEF n, f
<1>4. \A k \in 0 .. n :
        f[k] = IF k = 0 THEN indexes
               ELSE IF indexes[n + 1 - k].column = c THEN RemoveAt(f[k - 1], n + 1 - k)
               ELSE f[k - 1]
  BY <1>2 DEF IsDropping, n
<1>5. Good(0)
  <2>1. f[0] = indexes /\ n - 0 = n
    <3>1. 0 \in 0 .. n /\ n - 0 = n
      BY <1>1
    <3> QED BY <1>4, <3>1
  <2>2. \A i \in 1 .. n : ~(i > n)
    BY <1>1
  <2> QED BY <1>1, <2>1, <2>2
<1>6. ASSUME NEW k \in 1 .. n, Good(k - 1) PROVE Good(k)
  <2> DEFINE p == n + 1 - k
             s == f[k - 1]
  <2>1. p \in 1 .. n /\ n - (k - 1) = p /\ n - k = p - 1
    BY <1>1
  <2>2. f[k] = IF indexes[p].column = c THEN RemoveAt(s, p) ELSE s
    BY <1>1, <1>4
  <2>3. /\ s \in Seq(S)
        /\ \A i \in 1 .. p : i \in DOMAIN s /\ s[i] = indexes[i]
        /\ \A i \in DOMAIN s : \E j \in 1 .. n :
             s[i] = indexes[j] /\ (i > p => indexes[j].column # c)
        /\ NamedApart(indexes) => NamedApart(s)
    BY <1>6, <2>1
  <2> HIDE DEF s, p
  <2>4. CASE indexes[p].column # c
    <3>1. f[k] = s
      BY <2>2, <2>4
    <3>2. \A i \in 1 .. n - k : i \in 1 .. p
      BY <2>1
    <3>3. ASSUME NEW i \in DOMAIN s
          PROVE  \E j \in 1 .. n : s[i] = indexes[j] /\ (i > n - k => indexes[j].column # c)
      <4>1. i \in Nat
        BY <2>3
      <4>2. CASE i = p
        BY <2>1, <2>3, <2>4, <4>2
      <4>3. CASE i # p
        <5>1. i > n - k => i > p
          BY <2>1, <4>1, <4>3
        <5> QED BY <2>3, <5>1
      <4> QED BY <4>2, <4>3
    <3> QED BY <2>3, <3>1, <3>2, <3>3
  <2>5. CASE indexes[p].column = c
    <3> DEFINE w == RemoveAt(s, p)
    <3>1. f[k] = w
      BY <2>2, <2>5
    <3>2. Len(s) \in Nat /\ DOMAIN s = 1 .. Len(s) /\ p \in DOMAIN s
      BY <2>1, <2>3
    <3>3. /\ w \in Seq(S) /\ Len(w) = Len(s) - 1
          /\ \A i \in 1 .. Len(s) - 1 : w[i] = IF i < p THEN s[i] ELSE s[i + 1]
      <4>1. s \in Seq(S) /\ p \in 1 .. Len(s)
        BY <2>3, <3>2
      <4> QED BY <4>1, RemoveAtFacts
    <3>4. DOMAIN w = 1 .. Len(s) - 1
      BY <3>2, <3>3
    <3> HIDE DEF w
    <3>5. \A i \in 1 .. n - k : i \in DOMAIN w /\ w[i] = indexes[i]
      <4> TAKE i \in 1 .. n - k
      <4>1. i \in 1 .. Len(s) - 1 /\ i < p /\ i \in 1 .. p
        BY <2>1, <3>2
      <4> QED BY <2>3, <3>3, <3>4, <4>1
    <3>6. ASSUME NEW i \in DOMAIN w
          PROVE  \E j \in 1 .. n : w[i] = indexes[j] /\ (i > n - k => indexes[j].column # c)
      <4>1. i \in 1 .. Len(s) - 1
        BY <3>4
      <4>2. CASE i < p
        <5>1. w[i] = s[i] /\ i \in DOMAIN s /\ ~(i > n - k)
          BY <2>1, <3>2, <3>3, <4>1, <4>2
        <5> QED BY <2>3, <5>1
      <4>3. CASE ~(i < p)
        <5>1. w[i] = s[i + 1] /\ i + 1 \in DOMAIN s /\ i + 1 > p
          BY <2>1, <3>2, <3>3, <4>1, <4>3
        <5> QED BY <2>3, <5>1
      <4> QED BY <4>2, <4>3
    <3>7. NamedApart(s) => NamedApart(w)
      <4> DEFINE Old(i) == IF i < p THEN i ELSE i + 1
      <4>1. ASSUME NEW i \in DOMAIN w PROVE Old(i) \in DOMAIN s /\ w[i] = s[Old(i)]
        BY <3>2, <3>3, <3>4
      <4>2. \A i, j \in DOMAIN w : Old(i) = Old(j) => i = j
        BY <2>1, <3>2, <3>4
      <4> HIDE DEF Old
      <4> QED BY <4>1, <4>2 DEF NamedApart
    <3> QED BY <2>3, <3>1, <3>3, <3>5, <3>6, <3>7
  <2> QED BY <2>4, <2>5
<1> DEFINE Bad == {k \in 0 .. n : ~Good(k)}
<1>7. Bad = {}
  <2> SUFFICES ASSUME Bad # {} PROVE FALSE
    OBVIOUS
  <2>1. PICK k \in Bad : \A j \in Bad : k <= j
    <3>1. Bad \subseteq Nat
      BY <1>1
    <3> HIDE DEF Bad
    <3> QED BY <3>1, LeastNat
  <2>2. k \in 0 .. n /\ ~Good(k)
    OBVIOUS
  <2> HIDE DEF Good
  <2>3. k # 0
    BY <1>5, <2>2
  <2>4. k \in 1 .. n /\ k - 1 \in 0 .. n /\ ~(k <= k - 1)
    BY <1>1, <2>2, <2>3
  <2>5. Good(k - 1)
    BY <2>1, <2>4
  <2> QED BY <1>6, <2>2, <2>4, <2>5
<1>8. Good(n)
  <2>1. n \in 0 .. n
    BY <1>1
  <2> HIDE DEF Good
  <2> QED BY <1>7, <2>1
<1>9. \A i \in DOMAIN f[n] : i > n - n
  BY <1>1, <1>8
<1> QED BY <1>1, <1>3, <1>8, <1>9
===============================================================================
