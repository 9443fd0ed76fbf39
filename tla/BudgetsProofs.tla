--------------------------- MODULE BudgetsProofs ---------------------------
(***************************************************************************)
(* Proofs about Budgets, for any users, rows, requests and page size: the  *)
(* limits keep their key unique, transactions and categories are changed   *)
(* for their owner only and stay deleted, the pages of a list miss and     *)
(* repeat nothing but for what happened to the list meanwhile, and what a  *)
(* list or an upsert tells of a month was true while it was asked.         *)
(***************************************************************************)
EXTENDS Budgets, FiniteSetTheorems, WellFoundedInduction, TLAPS

-----------------------------------------------------------------------------
(* Sums over finite sets. The folds are recursive functions: what they add   *)
(* up to is proved by taking a smallest set for which it would not hold.     *)

\* The order of the naturals, as a relation.
Less == {ss \in Nat \X Nat : ss[1] < ss[2]}

\* A set of naturals has a least member.
LEMMA LeastNat ==
    ASSUME NEW T \in SUBSET Nat, T # {}
    PROVE  \E n \in T : \A m \in T : n <= m
<1>1. IsWellFoundedOn(Less, Nat) BY NatLessThanWellFounded DEF OpToRel, Less
<1>2. PICK x \in T : \A y \in T : <<y, x>> \notin Less BY <1>1, WFMin
<1>3. \A y \in T : y \in Nat /\ x \in Nat /\ ~(y < x) BY <1>2 DEF Less
<1> QED BY <1>3

\* Among finite sets of a kind there is one all of whose proper subsets are of the other kind.
LEMMA LeastSet ==
    ASSUME NEW S, IsFiniteSet(S), NEW K \in SUBSET (SUBSET S), K # {}
    PROVE  \E A \in K : \A B \in K : B \subseteq A => B = A
<1>0. \A A \in SUBSET S : IsFiniteSet(A) /\ Cardinality(A) \in Nat BY FS_Subset, FS_CardinalityType
<1> DEFINE T == {Cardinality(A) : A \in K}
<1>1. T \in SUBSET Nat /\ T # {} BY <1>0
<1>2. PICK n \in T : \A m \in T : n <= m BY <1>1, LeastNat
<1>3. PICK A \in K : Cardinality(A) = n BY <1>2
<1>4. ASSUME NEW B \in K, B \subseteq A, B # A PROVE FALSE
  <2>1. IsFiniteSet(A) BY <1>0
  <2>2. Cardinality(B) <= Cardinality(A) /\ Cardinality(B) # Cardinality(A) BY <1>4, <2>1, FS_Subset
  <2>3. Cardinality(B) \in T BY <1>4
  <2>4. n <= Cardinality(B) BY <1>2, <2>3
  <2>5. Cardinality(A) \in Nat /\ Cardinality(B) \in Nat BY <1>0
  <2> QED BY <1>3, <2>2, <2>4, <2>5
<1> QED BY <1>4

\* The member a fold takes next.
OneOf(s) == CHOOSE x \in s : TRUE

\* It is one of those left.
LEMMA OneOfIn == \A s : s # {} => OneOf(s) \in s
BY DEF OneOf

\* The sums of f over the subsets of S, each from that of a smaller one.
Sums(g, f, S) == g = [s \in SUBSET S |-> IF s = {} THEN 0 ELSE f[OneOf(s)] + g[s \ {OneOf(s)}]]
Total(f, S) == (CHOOSE g : Sums(g, f, S))[S]

\* Sums over a common subset agree.
LEMMA SumsAgree ==
    ASSUME NEW f, NEW S, NEW U, IsFiniteSet(S), NEW g, NEW h, Sums(g, f, S), Sums(h, f, U)
    PROVE  \A s \in SUBSET (S \cap U) : g[s] = h[s]
<1> DEFINE K == {s \in SUBSET (S \cap U) : g[s] # h[s]}
<1>1. SUFFICES ASSUME K # {} PROVE FALSE OBVIOUS
<1>2. PICK A \in K : \A B \in K : B \subseteq A => B = A
  <2>1. IsFiniteSet(S \cap U) /\ K \in SUBSET (SUBSET (S \cap U)) BY FS_Subset
  <2> HIDE DEF K
  <2> QED BY <1>1, <2>1, LeastSet
<1>3. A \in SUBSET S /\ A \in SUBSET U OBVIOUS
<1>4. CASE A = {}
  <2>1. g[A] = 0 BY <1>3, <1>4 DEF Sums
  <2>2. h[A] = 0 BY <1>3, <1>4 DEF Sums
  <2> QED BY <1>2, <2>1, <2>2
<1>5. CASE A # {}
  <2> DEFINE B == A \ {OneOf(A)}
  <2>1. B \subseteq A /\ B # A BY <1>5, OneOfIn
  <2>2. g[B] = h[B] BY <1>2, <1>3, <2>1
  <2>3. g[A] = f[OneOf(A)] + g[B] BY <1>3, <1>5 DEF Sums
  <2>4. h[A] = f[OneOf(A)] + h[B] BY <1>3, <1>5 DEF Sums
  <2> QED BY <1>2, <2>2, <2>3, <2>4
<1> QED BY <1>4, <1>5

\* There are sums over every finite set.
LEMMA SumsExist ==
    ASSUME NEW f, NEW S, IsFiniteSet(S)
    PROVE  \E g : Sums(g, f, S)
<1> DEFINE K == {s \in SUBSET S : ~\E g : Sums(g, f, s)}
<1>1. SUFFICES ASSUME K # {} PROVE FALSE OBVIOUS
<1>2. PICK A \in K : \A B \in K : B \subseteq A => B = A
  <2>1. K \in SUBSET (SUBSET S) OBVIOUS
  <2> HIDE DEF K
  <2> QED BY <1>1, <2>1, LeastSet
<1>0. IsFiniteSet(A) /\ A \in SUBSET S BY FS_Subset
<1>3. \A B \in SUBSET A : B # A => \E g : Sums(g, f, B) BY <1>0, <1>2
<1> DEFINE G(B) == CHOOSE g : Sums(g, f, B)
           sums == [s \in SUBSET A |-> IF s = {} THEN 0 ELSE f[OneOf(s)] + G(s \ {OneOf(s)})[s \ {OneOf(s)}]]
<1>4. \A B \in SUBSET A : B # A => Sums(G(B), f, B) BY <1>3
<1> HIDE DEF G
<1>5. ASSUME NEW s \in SUBSET A, s # {}
      PROVE  sums[s \ {OneOf(s)}] = G(s \ {OneOf(s)})[s \ {OneOf(s)}]
  <2> DEFINE B == s \ {OneOf(s)}
  <2>1. B \in SUBSET A /\ B # A /\ B \subseteq s /\ OneOf(s) \in s BY <1>5, OneOfIn
  <2>2. Sums(G(B), f, B) BY <1>4, <2>1
  <2> HIDE DEF B
  <2>3. CASE B = {}
    <3>1. G(B)[B] = 0 BY <2>2, <2>3 DEF Sums
    <3> QED BY <2>1, <2>3, <3>1 DEF B
  <2>4. CASE B # {}
    <3> DEFINE C == B \ {OneOf(B)}
    <3>1. C \in SUBSET A /\ C # A /\ C \in SUBSET B BY <2>1, <2>4, OneOfIn
    <3>2. Sums(G(C), f, C) BY <1>4, <3>1
    <3>3. IsFiniteSet(B) BY <1>0, <2>1, FS_Subset
    <3>4. G(B)[C] = G(C)[C]
      <4>1. C \in SUBSET (B \cap C) BY <3>1
      <4> HIDE DEF C
      <4> QED BY <2>2, <3>2, <3>3, <4>1, SumsAgree
    <3>5. G(B)[B] = f[OneOf(B)] + G(B)[C] BY <2>2, <2>4 DEF Sums
    <3>6. sums[B] = f[OneOf(B)] + G(C)[C] BY <2>1, <2>4
    <3> QED BY <3>4, <3>5, <3>6 DEF B
  <2> QED BY <2>3, <2>4
<1>6. Sums(sums, f, A) BY <1>5 DEF Sums
<1> QED BY <1>2, <1>6

\* A sum is got by taking the next member away.
LEMMA TotalNext ==
    ASSUME NEW f, NEW S, IsFiniteSet(S)
    PROVE  /\ Total(f, {}) = 0
           /\ S # {} => Total(f, S) = f[OneOf(S)] + Total(f, S \ {OneOf(S)})
<1> DEFINE G(B) == CHOOSE g : Sums(g, f, B)
<1>1. \A B : IsFiniteSet(B) => Sums(G(B), f, B) BY SumsExist
<1>2. \A B : Total(f, B) = G(B)[B] BY DEF Total
<1> HIDE DEF G
<1>3. Total(f, {}) = 0
  <2>1. Sums(G({}), f, {}) BY <1>1, FS_EmptySet
  <2> QED BY <1>2, <2>1 DEF Sums
<1>4. ASSUME S # {} PROVE Total(f, S) = f[OneOf(S)] + Total(f, S \ {OneOf(S)})
  <2> DEFINE B == S \ {OneOf(S)}
  <2>1. Sums(G(S), f, S) BY <1>1
  <2>2. IsFiniteSet(B) /\ B \in SUBSET (S \cap B) BY FS_Subset
  <2>3. Sums(G(B), f, B) BY <1>1, <2>2
  <2>4. G(S)[B] = G(B)[B] BY <2>1, <2>2, <2>3, SumsAgree
  <2>5. G(S)[S] = f[OneOf(S)] + G(S)[B] BY <1>4, <2>1 DEF Sums
  <2> QED BY <1>2, <2>4, <2>5
<1> QED BY <1>3, <1>4

\* Nothing adds up to nothing.
LEMMA TotalEmpty == \A f : Total(f, {}) = 0
<1> SUFFICES ASSUME NEW f PROVE Total(f, {}) = 0 OBVIOUS
<1>1. IsFiniteSet({}) BY FS_EmptySet
<1> QED BY <1>1, TotalNext

\* Sums of naturals are naturals, and do not depend on which member is taken away.
LEMMA TotalAny ==
    ASSUME NEW S, IsFiniteSet(S), NEW f \in [S -> Nat]
    PROVE  \A s \in SUBSET S : /\ Total(f, s) \in Nat
                               /\ \A x \in s : Total(f, s) = f[x] + Total(f, s \ {x})
<1> DEFINE Fine(s) == /\ Total(f, s) \in Nat
                      /\ \A x \in s : Total(f, s) = f[x] + Total(f, s \ {x})
           K == {s \in SUBSET S : ~Fine(s)}
<1>1. SUFFICES ASSUME K # {} PROVE FALSE OBVIOUS
<1>2. PICK A \in K : \A B \in K : B \subseteq A => B = A
  <2>1. K \in SUBSET (SUBSET S) OBVIOUS
  <2> HIDE DEF K
  <2> QED BY <1>1, <2>1, LeastSet
<1>0. IsFiniteSet(A) /\ A \in SUBSET S BY FS_Subset
<1>3. \A B \in SUBSET A : B # A => Fine(B) BY <1>0, <1>2
<1>4. A # {}
  <2>1. Fine({}) BY TotalEmpty
  <2> QED BY <1>2, <2>1
<1> DEFINE n == OneOf(A)
<1>5. n \in A /\ f[n] \in Nat BY <1>0, <1>4, OneOfIn
<1>6. Total(f, A) = f[n] + Total(f, A \ {n}) BY <1>0, <1>4, TotalNext
<1> HIDE DEF n
<1>7. Fine(A \ {n}) BY <1>3, <1>5
<1>8. Total(f, A) \in Nat BY <1>5, <1>6, <1>7
<1>9. ASSUME NEW x \in A, x # n PROVE Total(f, A) = f[x] + Total(f, A \ {x})
  <2> DEFINE rest == A \ {n, x}
  <2>1. Fine(A \ {x}) BY <1>3
  <2>2. rest = (A \ {n}) \ {x} /\ rest = (A \ {x}) \ {n} /\ rest # A OBVIOUS
  <2>3. Total(f, A \ {n}) = f[x] + Total(f, rest) BY <1>7, <1>9, <2>2
  <2>4. Total(f, A \ {x}) = f[n] + Total(f, rest) BY <1>5, <1>9, <2>1, <2>2
  <2>5. Total(f, rest) \in Nat /\ f[x] \in Nat BY <1>0, <1>3, <2>2
  <2> HIDE DEF rest
  <2> QED BY <1>5, <1>6, <2>3, <2>4, <2>5
<1>10. Fine(A) BY <1>6, <1>8, <1>9
<1> QED BY <1>2, <1>10

\* Members that add nothing may be left out.
LEMMA TotalSupport ==
    ASSUME NEW S, IsFiniteSet(S), NEW f \in [S -> Nat], NEW R \in SUBSET S, \A x \in S \ R : f[x] = 0
    PROVE  Total(f, S) = Total(f, R)
<1> DEFINE K == {s \in SUBSET S : R \subseteq s /\ Total(f, s) # Total(f, R)}
<1>1. SUFFICES ASSUME K # {} PROVE FALSE OBVIOUS
<1>2. PICK A \in K : \A B \in K : B \subseteq A => B = A
  <2>1. K \in SUBSET (SUBSET S) OBVIOUS
  <2> HIDE DEF K
  <2> QED BY <1>1, <2>1, LeastSet
<1>3. PICK x \in A : x \notin R
  <2>1. R \subseteq A /\ Total(f, A) # Total(f, R) BY <1>2
  <2> QED BY <2>1
<1>4. Total(f, A) = f[x] + Total(f, A \ {x}) /\ Total(f, A \ {x}) \in Nat /\ f[x] = 0
  <2>1. A \in SUBSET S /\ A \ {x} \in SUBSET S OBVIOUS
  <2> QED BY <1>3, <2>1, TotalAny
<1>5. A \ {x} \notin K BY <1>2
<1> QED BY <1>2, <1>3, <1>4, <1>5

\* What takes one member away at a time is the sum, in whichever order it adds.
LEMMA TotalFollows ==
    ASSUME NEW S, IsFiniteSet(S), NEW f, \A x \in S : f[x] \in Nat, NEW g,
           g[{}] = 0,
           \A s \in SUBSET S : s # {} /\ g[s \ {OneOf(s)}] \in Nat => g[s] = f[OneOf(s)] + g[s \ {OneOf(s)}]
    PROVE  g[S] = Total(f, S) /\ g[S] \in Nat
<1> DEFINE K == {s \in SUBSET S : g[s] # Total(f, s) \/ g[s] \notin Nat}
<1>1. SUFFICES ASSUME K # {} PROVE FALSE OBVIOUS
<1>2. PICK A \in K : \A B \in K : B \subseteq A => B = A
  <2>1. K \in SUBSET (SUBSET S) OBVIOUS
  <2> HIDE DEF K
  <2> QED BY <1>1, <2>1, LeastSet
<1>3. IsFiniteSet(A) /\ A \in SUBSET S BY FS_Subset
<1>4. A # {}
  <2>1. Total(f, {}) = 0 /\ 0 \in Nat BY TotalEmpty
  <2>2. g[A] # Total(f, A) \/ g[A] \notin Nat BY <1>2
  <2> QED BY <2>1, <2>2
<1>5. OneOf(A) \in A /\ A \ {OneOf(A)} \notin K BY <1>2, <1>4, OneOfIn
<1>6. Total(f, A) = f[OneOf(A)] + Total(f, A \ {OneOf(A)}) BY <1>3, <1>4, TotalNext
<1>7. g[A \ {OneOf(A)}] = Total(f, A \ {OneOf(A)}) /\ g[A \ {OneOf(A)}] \in Nat BY <1>3, <1>5
<1>8. g[A] = f[OneOf(A)] + g[A \ {OneOf(A)}] BY <1>3, <1>4, <1>7
<1>9. f[OneOf(A)] \in Nat BY <1>3, <1>5
<1> QED BY <1>2, <1>6, <1>7, <1>8, <1>9

-----------------------------------------------------------------------------
(* What the types say. *)

\* A request carries what its endpoint takes.
LEMMA Bodies ==
    ASSUME NEW q \in RequestType
    PROVE  /\ q.op = "create" => q.user \in Users /\ q.row \in Drafts
           /\ q.op \in {"update", "delete", "getOne"} => q.user \in Users /\ q.id \in TxIds
           /\ q.op = "update" => q.row \in Patches
           /\ q.op \in {"updateCategory", "deleteCategory"} => q.user \in Users /\ q.id \in Categories
           /\ q.op \in {"createCategory", "updateCategory", "listCategories"} => q.user \in Users /\ q.row.type \in Types
           /\ q.op = "pages" => q.user \in Users /\ q.row.type \in Filters
           /\ q.op = "upsert" => /\ q.user \in Users /\ q.row.category \in Categories
                                 /\ q.row.amount \in LimitAmounts /\ q.row.month \in Months
           /\ q.op = "list" => q.user \in Users /\ q.row.month \in Months
BY DEF RequestType, NoRequest, Request

\* Amounts are stored as naturals.
LEMMA StoredNat == ASSUME NEW a \in Positive PROVE Stored(a) \in Nat
BY DEF Stored, Positive

\* Amounts that were stored are stored as they are.
LEMMA StoredTwice == ASSUME NEW a \in Positive PROVE Stored(Stored(a)) = Stored(a)
BY DEF Stored, Positive

\* The body of a create carries every field.
LEMMA DraftFields ==
    ASSUME NEW d \in Drafts
    PROVE  d.category \in Categories \cup {None} /\ d.amount \in Positive /\ d.type \in Types /\ d.month \in Months
<1>1. DOMAIN d = {"category", "amount", "type", "month"} /\ \A f \in DOMAIN d : d[f] \in Fields[f]
  BY DraftsAssumption DEF WellTyped, Fields
<1> QED BY <1>1 DEF Fields

\* The body of an update carries some fields, each of its type.
LEMMA PatchFields ==
    ASSUME NEW p \in Patches
    PROVE  /\ "category" \in DOMAIN p => p.category \in Categories \cup {None}
           /\ "amount" \in DOMAIN p => p.amount \in Positive
           /\ "type" \in DOMAIN p => p.type \in Types
           /\ "month" \in DOMAIN p => p.month \in Months
<1>1. \A f \in DOMAIN p : p[f] \in Fields[f] BY PatchesAssumption DEF WellTyped
<1> QED BY <1>1 DEF Fields

\* A changed row is a row, of the same user, and as deleted as it was.
LEMMA PatchedRow ==
    ASSUME NEW row \in TxRow, NEW p \in Patches
    PROVE  Patched(row, p) \in TxRow /\ Patched(row, p).user = row.user /\ Patched(row, p).deleted = row.deleted
<1>1. /\ row.user \in Users /\ row.category \in Categories \cup {None} /\ row.amount \in Nat
      /\ row.type \in Types /\ row.month \in Months /\ row.deleted \in BOOLEAN
  BY DEF TxRow
<1>2. "amount" \in DOMAIN p => Stored(p.amount) \in Nat BY PatchFields, StoredNat
<1> DEFINE Field(f) == IF f \in DOMAIN p THEN p[f] ELSE row[f]
           category == Field("category")
           amount == IF "amount" \in DOMAIN p THEN Stored(p.amount) ELSE row.amount
           type == Field("type")
           month == Field("month")
<1>3. category \in Categories \cup {None} /\ amount \in Nat /\ type \in Types /\ month \in Months
  BY <1>1, <1>2, PatchFields
<1>4. Patched(row, p) = [user |-> row.user, category |-> category, amount |-> amount,
                         type |-> type, month |-> month, deleted |-> row.deleted]
  BY DEF Patched
<1> HIDE DEF category, amount, type, month
<1> QED BY <1>1, <1>3, <1>4 DEF TxRow

\* A stamped row is a deleted row of the same user.
LEMMA StampedRow ==
    /\ \A row \in TxRow : LET after == [row EXCEPT !.deleted = TRUE]
                          IN after \in TxRow /\ after.user = row.user /\ after.deleted
    /\ \A row \in CategoryRow : LET after == [row EXCEPT !.deleted = TRUE]
                                IN after \in CategoryRow /\ after.user = row.user /\ after.deleted
    /\ \A row \in CategoryRow, p \in [type: Types] :
           LET after == PatchedCategory(row, p)
           IN after \in CategoryRow /\ after.user = row.user /\ after.deleted = row.deleted
BY DEF TxRow, CategoryRow, PatchedCategory

-----------------------------------------------------------------------------
(* What is spent. *)

\* What the rows of a category count for.
Counts(u, c, m) == [x \in TxIds |-> Contribution(tx[x], u, c, m)]

\* They count for naturals.
LEMMA CountsNat ==
    ASSUME TypeOK, NEW u, NEW c, NEW m
    PROVE  Counts(u, c, m) \in [TxIds -> Nat]
BY DEF Counts, Contribution, TypeOK, TxRow

\* What is truly spent is the total over all rows.
LEMMA SpentTotal ==
    ASSUME TypeOK, NEW u, NEW c, NEW m
    PROVE  Spent(u, c, m) = Total(Counts(u, c, m), TxIds)
<1> DEFINE f == Counts(u, c, m)
           IsFold(g) == g = [s \in SUBSET TxIds |-> IF s = {} THEN 0 ELSE g[s \ {OneOf(s)}] + Contribution(tx[OneOf(s)], u, c, m)]
           sum == CHOOSE g : IsFold(g)
<1>1. Spent(u, c, m) = (CHOOSE g : IsFold(g))[TxIds] BY DEF Spent, FoldSet, MapThenFoldSet, OneOf
<1>2. f \in [TxIds -> Nat] /\ IsFiniteSet(TxIds) BY CountsNat, IdsAssumption
<1>3. \A x \in TxIds : f[x] = Contribution(tx[x], u, c, m) BY DEF Counts
<1> HIDE DEF f
<1>4. IsFold([s \in SUBSET TxIds |-> Total(f, s)])
  <2>1. ASSUME NEW s \in SUBSET TxIds, s # {}
        PROVE  Total(f, s) = Total(f, s \ {OneOf(s)}) + Contribution(tx[OneOf(s)], u, c, m)
    <3>1. OneOf(s) \in s BY <2>1, OneOfIn
    <3>2. Total(f, s) = f[OneOf(s)] + Total(f, s \ {OneOf(s)}) BY <1>2, <3>1, TotalAny
    <3>3. Total(f, s \ {OneOf(s)}) \in Nat BY <1>2, TotalAny
    <3>4. f[OneOf(s)] \in Nat /\ f[OneOf(s)] = Contribution(tx[OneOf(s)], u, c, m) BY <1>2, <1>3, <3>1
    <3> QED BY <3>2, <3>3, <3>4
  <2>2. Total(f, {}) = 0 BY TotalEmpty
  <2> QED BY <2>1, <2>2
<1> HIDE DEF IsFold
<1>5. IsFold(sum) BY <1>4
<1> HIDE DEF sum
<1>6. sum[{}] = 0 BY <1>5 DEF IsFold
<1>7. ASSUME NEW s \in SUBSET TxIds, s # {}, sum[s \ {OneOf(s)}] \in Nat
      PROVE  sum[s] = f[OneOf(s)] + sum[s \ {OneOf(s)}]
  <2>1. OneOf(s) \in TxIds BY <1>7, OneOfIn
  <2>2. sum[s] = sum[s \ {OneOf(s)}] + Contribution(tx[OneOf(s)], u, c, m) BY <1>5, <1>7 DEF IsFold
  <2>3. f[OneOf(s)] \in Nat /\ f[OneOf(s)] = Contribution(tx[OneOf(s)], u, c, m) BY <1>2, <1>3, <2>1
  <2> QED BY <1>7, <2>2, <2>3
<1>8. sum[TxIds] = Total(f, TxIds)
  <2>1. \A x \in TxIds : f[x] \in Nat BY <1>2
  <2> QED BY <1>2, <1>6, <1>7, <2>1, TotalFollows
<1> QED BY <1>1, <1>8 DEF f, sum

\* What the query adds up, over the rows it finds, is the same total.
LEMMA SumTotal ==
    ASSUME TypeOK, NEW u, NEW c, NEW m
    PROVE  SumOf(u, c, m) = Total(Counts(u, c, m), TxIds)
<1> DEFINE f == Counts(u, c, m)
           rows == {x \in TxIds : /\ tx[x] # None /\ ~tx[x].deleted /\ tx[x].user = u
                                  /\ tx[x].category = c /\ tx[x].month = m /\ tx[x].type = "expense"}
           IsFold(g) == g = [s \in SUBSET rows |-> IF s = {} THEN 0 ELSE tx[OneOf(s)].amount + g[s \ {OneOf(s)}]]
           sum == CHOOSE g : IsFold(g)
<1>1. SumOf(u, c, m) = (CHOOSE g : IsFold(g))[rows] BY DEF SumOf, MapThenSumSet, MapThenFoldSet, OneOf
<1>2. f \in [TxIds -> Nat] /\ IsFiniteSet(TxIds) BY CountsNat, IdsAssumption
<1>3. /\ \A x \in rows : f[x] = tx[x].amount
      /\ \A x \in TxIds \ rows : f[x] = 0
  BY DEF Counts, Contribution
<1>4. rows \in SUBSET TxIds /\ IsFiniteSet(rows) BY <1>2, FS_Subset
<1> HIDE DEF f, rows
<1>5. IsFold([s \in SUBSET rows |-> Total(f, s)])
  <2>1. ASSUME NEW s \in SUBSET rows, s # {}
        PROVE  Total(f, s) = tx[OneOf(s)].amount + Total(f, s \ {OneOf(s)})
    <3>1. OneOf(s) \in s /\ s \in SUBSET TxIds BY <1>4, <2>1, OneOfIn
    <3>2. Total(f, s) = f[OneOf(s)] + Total(f, s \ {OneOf(s)}) BY <1>2, <3>1, TotalAny
    <3> QED BY <1>3, <3>1, <3>2
  <2>2. Total(f, {}) = 0 BY TotalEmpty
  <2> QED BY <2>1, <2>2
<1> HIDE DEF IsFold
<1>6. IsFold(sum) BY <1>5
<1> HIDE DEF sum
<1>7. sum[{}] = 0 BY <1>6 DEF IsFold
<1>8. ASSUME NEW s \in SUBSET rows, s # {}
      PROVE  sum[s] = f[OneOf(s)] + sum[s \ {OneOf(s)}]
  <2>1. OneOf(s) \in rows BY <1>8, OneOfIn
  <2>2. sum[s] = tx[OneOf(s)].amount + sum[s \ {OneOf(s)}] BY <1>6, <1>8 DEF IsFold
  <2> QED BY <1>3, <2>1, <2>2
<1>9. sum[rows] = Total(f, rows)
  <2>1. \A x \in rows : f[x] \in Nat BY <1>2, <1>4
  <2> QED BY <1>4, <1>7, <1>8, <2>1, TotalFollows
<1>10. Total(f, TxIds) = Total(f, rows) BY <1>2, <1>3, <1>4, TotalSupport
<1> QED BY <1>1, <1>9, <1>10 DEF f, sum, rows

\* So the query answers what is truly spent.
LEMMA SumIsSpent ==
    ASSUME TypeOK, NEW u, NEW c, NEW m
    PROVE  SumOf(u, c, m) = Spent(u, c, m)
BY SpentTotal, SumTotal

-----------------------------------------------------------------------------
(* The pages of a list. *)

\* The smaller of two naturals.
LEMMA MinOfTwo ==
    ASSUME NEW a \in Nat, NEW b \in Nat
    PROVE  Min({a, b}) = IF a <= b THEN a ELSE b
<1> DEFINE m == IF a <= b THEN a ELSE b
<1>1. m \in {a, b} /\ \A y \in {a, b} : m <= y OBVIOUS
<1>2. \A x \in {a, b} : (\A y \in {a, b} : x <= y) => x = m OBVIOUS
<1> HIDE DEF m
<1>3. Min({a, b}) = m BY <1>1, <1>2 DEF Min
<1> QED BY <1>3 DEF m

\* The rows that come first are so many, and none that comes first is below one that does not.
LEMMA FirstRows ==
    ASSUME TypeOK, NEW rows \in SUBSET TxIds, NEW n \in Nat, NEW s \in First(rows, n)
    PROVE  /\ s \subseteq rows /\ IsFiniteSet(s) /\ IsFiniteSet(rows) /\ n * PageLimit \in Nat
           /\ Cardinality(s) \in Nat /\ Cardinality(s) <= n * PageLimit
           /\ s # rows => Cardinality(s) = n * PageLimit
           /\ \A x \in s, y \in rows \ s : tx[x].amount >= tx[y].amount
<1>1. IsFiniteSet(rows) BY IdsAssumption, FS_Subset
<1>2. s \subseteq rows /\ Cardinality(s) = Min({n * PageLimit, Cardinality(rows)}) /\ Before(s, rows \ s)
  BY DEF First
<1>3. IsFiniteSet(s) /\ Cardinality(s) <= Cardinality(rows) /\ (Cardinality(rows) = Cardinality(s) => rows = s)
  BY <1>1, <1>2, FS_Subset
<1>4. Cardinality(s) \in Nat /\ Cardinality(rows) \in Nat BY <1>1, <1>3, FS_CardinalityType
<1>5. n * PageLimit \in Nat BY PageLimitAssumption
<1>6. Cardinality(s) = IF n * PageLimit <= Cardinality(rows) THEN n * PageLimit ELSE Cardinality(rows)
  BY <1>2, <1>4, <1>5, MinOfTwo
<1> HIDE DEF First
<1> QED BY <1>1, <1>2, <1>3, <1>4, <1>5, <1>6 DEF Before

\* A row no other shares its amount with is among the first n pages just when fewer rows than
\* they hold are above it.
LEMMA FirstByRank ==
    ASSUME TypeOK, NEW rows \in SUBSET TxIds, rows \subseteq {y \in TxIds : tx[y] # None},
           NEW n \in Nat, NEW s \in First(rows, n),
           NEW x \in rows \ Ties(rows)
    PROVE  x \in s <=> Cardinality(Above(x, rows)) < n * PageLimit
<1> DEFINE A == Above(x, rows)
<1>1. /\ s \subseteq rows /\ IsFiniteSet(s) /\ IsFiniteSet(rows) /\ n * PageLimit \in Nat
      /\ Cardinality(s) \in Nat /\ Cardinality(s) <= n * PageLimit
      /\ s # rows => Cardinality(s) = n * PageLimit
      /\ \A z \in s, y \in rows \ s : tx[z].amount >= tx[y].amount
  BY FirstRows
<1>2. \A y \in rows : tx[y].amount \in Nat BY DEF TypeOK, TxRow
<1>3. \A y \in rows : y # x => tx[y].amount # tx[x].amount BY DEF Ties
<1>4. A = {y \in rows : tx[y].amount > tx[x].amount} BY DEF Above
<1>5. IsFiniteSet(A) /\ Cardinality(A) \in Nat BY <1>1, <1>4, FS_Subset, FS_CardinalityType
<1> HIDE DEF A
<1>6. CASE x \in s
  <2>1. A \subseteq s /\ x \notin A BY <1>1, <1>2, <1>4, <1>6
  <2>2. Cardinality(A) <= Cardinality(s) /\ (Cardinality(s) = Cardinality(A) => s = A) BY <1>1, <2>1, FS_Subset
  <2>3. s # A BY <2>1, <1>6
  <2> QED BY <1>1, <1>5, <1>6, <2>2, <2>3 DEF A
<1>7. CASE x \notin s
  <2>1. s \subseteq A BY <1>1, <1>2, <1>3, <1>4, <1>7
  <2>2. Cardinality(s) <= Cardinality(A) BY <1>5, <2>1, FS_Subset
  <2>3. Cardinality(s) = n * PageLimit BY <1>1, <1>7
  <2>4. ~(Cardinality(A) < n * PageLimit) BY <1>1, <1>5, <2>2, <2>3
  <2> QED BY <1>7, <2>4 DEF A
<1> QED BY <1>6, <1>7

-----------------------------------------------------------------------------
(* What a step does to the requests. *)

Stops == {"done", "insert", "update", "select", "find", "sum", "limits", "sums", "rows", "count"}

\* The other requests stand where they stood.
Others(r) ==
    /\ body' \in [Requests -> RequestType] /\ pc' \in [Requests -> Stops] /\ DOMAIN local' = Requests
    /\ \A k \in Requests : k # r => body'[k] = body[k] /\ pc'[k] = pc[k] /\ local'[k] = local[k]

Beginning(r) ==
    /\ Others(r) /\ Observe /\ UNCHANGED tables
    /\ ~InFlight(r) /\ pc'[r] # "done" /\ local'[r] = local[r] /\ answer' = NoAnswer
    /\ body'[r].op = "pages" => pc'[r] = "rows"
    /\ body'[r].op = "upsert" => pc'[r] = "find"

Going(r) ==
    /\ Others(r) /\ Observe
    /\ InFlight(r) /\ pc'[r] # "done" /\ body'[r] = body[r] /\ answer' = NoAnswer

Answering(r) ==
    /\ Others(r) /\ Observe
    /\ InFlight(r) /\ pc'[r] = "done" /\ body'[r] = NoRequest /\ local'[r] = NoLocals
    /\ answer'.slot = r /\ answer'.request = body[r]

\* A handler that awaits its next statement.
LEMMA Goes ==
    ASSUME TypeOK, NEW r \in Requests, NEW at \in Stops \ {"done"}, NEW locals,
           Goto(r, at, locals), Observe, InFlight(r)
    PROVE  Going(r) /\ pc'[r] = at /\ local'[r] = locals
BY DEF TypeOK, Goto, Going, Others, Stops

\* A handler that answers.
LEMMA Answers ==
    ASSUME TypeOK, NEW r \in Requests, NEW code, NEW row, NEW items,
           Answer(r, code, row, items), Observe, InFlight(r)
    PROVE  Answering(r) /\ answer'.code = code /\ answer'.items = items
<1>1. NoRequest \in RequestType BY DEF RequestType
<1> HIDE DEF NoRequest, NoLocals, RequestType
<1> QED BY <1>1 DEF TypeOK, Answer, Answering, Others, Stops

\* A request that comes in.
LEMMA Begins ==
    ASSUME TypeOK, NEW r \in Requests, NEW q \in RequestType, NEW at \in Stops \ {"done"},
           Begin(r, q, at), q.op = "pages" => at = "rows", q.op = "upsert" => at = "find"
    PROVE  Beginning(r)
BY DEF TypeOK, Begin, Keeping, Beginning, Others, Stops, tables, InFlight

\* Clients send what the types allow.
LEMMA Clients ==
    ASSUME TypeOK, NEW r \in Requests, Client(r) \/ CategoryClient(r)
    PROVE  Beginning(r)
<1> USE DEF Request
<1>1. CASE Client(r)
  <2>1. PICK u \in Users :
          \/ \E d \in Drafts : Begin(r, Request("create", u, None, d), "insert")
          \/ \E x \in TxIds :
              \/ \E p \in Patches : Begin(r, Request("update", u, x, p), "update")
              \/ Begin(r, Request("delete", u, x, None), "update")
              \/ Begin(r, Request("getOne", u, x, None), "select")
          \/ \E t \in Filters : Begin(r, Request("pages", u, None, [type |-> t]), "rows")
          \/ \E c \in Categories, a \in LimitAmounts, m \in Months :
               Begin(r, Request("upsert", u, None, [category |-> c, amount |-> a, month |-> m]), "find")
          \/ \E m \in Months : Begin(r, Request("list", u, None, [month |-> m]), "limits")
    BY <1>1 DEF Client
  <2>2. ASSUME NEW d \in Drafts, Begin(r, Request("create", u, None, d), "insert") PROVE Beginning(r)
    <3>1. Request("create", u, None, d) \in RequestType BY DEF RequestType
    <3> QED BY <2>2, <3>1, Begins DEF Stops
  <2>3. ASSUME NEW x \in TxIds, NEW p \in Patches, Begin(r, Request("update", u, x, p), "update") PROVE Beginning(r)
    <3>1. Request("update", u, x, p) \in RequestType BY DEF RequestType
    <3> QED BY <2>3, <3>1, Begins DEF Stops
  <2>4. ASSUME NEW x \in TxIds, Begin(r, Request("delete", u, x, None), "update") PROVE Beginning(r)
    <3>1. Request("delete", u, x, None) \in RequestType BY DEF RequestType
    <3> QED BY <2>4, <3>1, Begins DEF Stops
  <2>5. ASSUME NEW x \in TxIds, Begin(r, Request("getOne", u, x, None), "select") PROVE Beginning(r)
    <3>1. Request("getOne", u, x, None) \in RequestType BY DEF RequestType
    <3> QED BY <2>5, <3>1, Begins DEF Stops
  <2>6. ASSUME NEW t \in Filters, Begin(r, Request("pages", u, None, [type |-> t]), "rows") PROVE Beginning(r)
    <3>1. Request("pages", u, None, [type |-> t]) \in RequestType BY DEF RequestType
    <3> QED BY <2>6, <3>1, Begins DEF Stops
  <2>7. ASSUME NEW c \in Categories, NEW a \in LimitAmounts, NEW m \in Months,
               Begin(r, Request("upsert", u, None, [category |-> c, amount |-> a, month |-> m]), "find")
        PROVE  Beginning(r)
    <3>1. Request("upsert", u, None, [category |-> c, amount |-> a, month |-> m]) \in RequestType BY DEF RequestType
    <3> QED BY <2>7, <3>1, Begins DEF Stops
  <2>8. ASSUME NEW m \in Months, Begin(r, Request("list", u, None, [month |-> m]), "limits") PROVE Beginning(r)
    <3>1. Request("list", u, None, [month |-> m]) \in RequestType BY DEF RequestType
    <3> QED BY <2>8, <3>1, Begins DEF Stops
  <2> QED BY <2>1, <2>2, <2>3, <2>4, <2>5, <2>6, <2>7, <2>8
<1>2. CASE CategoryClient(r)
  <2>1. PICK u \in Users, t \in CategoryTypes, c \in Categories :
          \/ Begin(r, Request("createCategory", u, None, [type |-> t]), "insert")
          \/ Begin(r, Request("updateCategory", u, c, [type |-> t]), "update")
          \/ Begin(r, Request("deleteCategory", u, c, None), "update")
          \/ Begin(r, Request("listCategories", u, None, [type |-> t]), "select")
    BY <1>2 DEF CategoryClient
  <2>2. /\ Request("createCategory", u, None, [type |-> t]) \in RequestType
        /\ Request("updateCategory", u, c, [type |-> t]) \in RequestType
        /\ Request("deleteCategory", u, c, None) \in RequestType
        /\ Request("listCategories", u, None, [type |-> t]) \in RequestType
    BY FiltersAssumption DEF RequestType
  <2> QED BY <2>1, <2>2, Begins DEF Stops
<1> QED BY <1>1, <1>2

\* Handlers go on or answer.
LEMMA Handlers ==
    ASSUME TypeOK, NEW r \in Requests, Handler(r) \/ DbError(r)
    PROVE  Going(r) \/ Answering(r)
<1> USE DEF Keeping, Running, InFlight
<1>1. CASE CreateInsert(r) BY <1>1, Answers DEF CreateInsert
<1>2. CASE UpdateWrite(r) BY <1>2, Goes DEF UpdateWrite, Stops
<1>3. CASE SelectOne(r) BY <1>3, Answers DEF SelectOne
<1>4. CASE DeleteWrite(r) BY <1>4, Answers DEF DeleteWrite
<1>5. CASE PageRows(r) BY <1>5, Goes DEF PageRows, Stops
<1>6. CASE PageCount(r) BY <1>6, Goes, Answers DEF PageCount, Stops
<1>7. CASE UpsertFind(r) BY <1>7, Goes DEF UpsertFind, Stops
<1>8. CASE UpsertUpdate(r) BY <1>8, Goes DEF UpsertUpdate, Stops
<1>9. CASE UpsertInsert(r) BY <1>9, Goes, Answers DEF UpsertInsert, Stops
<1>10. CASE UpsertSum(r) BY <1>10, Answers DEF UpsertSum
<1>11. CASE ListLimits(r) BY <1>11, Goes DEF ListLimits, Stops
<1>12. CASE ListSum(r)
  BY <1>12 DEF ListSum, TypeOK, Going, Others, Stops
<1>13. CASE ListAnswer(r) BY <1>13, Answers DEF ListAnswer
<1>14. CASE CategoryInsert(r) BY <1>14, Answers DEF CategoryInsert
<1>15. CASE CategoryWrite(r) BY <1>15, Goes DEF CategoryWrite, Stops
<1>16. CASE CategorySelect(r) BY <1>16, Answers DEF CategorySelect
<1>17. CASE CategoryDelete(r) BY <1>17, Answers DEF CategoryDelete
<1>18. CASE CategoryList(r) BY <1>18, Answers DEF CategoryList
<1>19. CASE DbError(r) BY <1>19, Answers DEF DbError
<1> QED BY <1>1, <1>2, <1>3, <1>4, <1>5, <1>6, <1>7, <1>8, <1>9, <1>10, <1>11, <1>12, <1>13, <1>14, <1>15,
           <1>16, <1>17, <1>18, <1>19 DEF Handler

-----------------------------------------------------------------------------
(* What a step does to the tables. *)

\* Transactions come and are changed, for the user of the request and at its own step only.
TxKept ==
    /\ tx' \in [TxIds -> TxRow \cup {None}] /\ KeptForOwner(tx, tx')
    /\ \A x \in TxIds : tx[x] # None => tx'[x] # None

CatsKept ==
    /\ cats' \in [Categories -> CategoryRow \cup {None}] /\ KeptForOwner(cats, cats')
    /\ \A c \in Categories : cats[c] # None => cats'[c] # None

\* Every step of a handler keeps transactions for their owner.
LEMMA TxStep ==
    ASSUME TypeOK, NEW r \in Requests, Handler(r)
    PROVE  TxKept
<1>1. tx \in [TxIds -> TxRow \cup {None}] /\ None \notin TxRow /\ body[r] \in RequestType /\ pc \in [Requests -> Stops]
  BY NoneAssumption DEF TypeOK, Stops
<1>2. CASE UNCHANGED tx BY <1>1, <1>2 DEF TxKept, KeptForOwner
<1>3. CASE CreateInsert(r)
  <2> DEFINE b == body[r].row
             row == [user |-> body[r].user, category |-> b.category, amount |-> Stored(b.amount),
                     type |-> b.type, month |-> b.month, deleted |-> FALSE]
  <2>1. PICK x \in TxIds : tx[x] = None /\ tx' = [tx EXCEPT ![x] = row] BY <1>3 DEF CreateInsert
  <2>2. body[r].user \in Users /\ b \in Drafts BY <1>1, <1>3, Bodies DEF CreateInsert, Running
  <2>3. row \in TxRow
    <3>1. /\ b.category \in Categories \cup {None} /\ Stored(b.amount) \in Nat /\ b.type \in Types /\ b.month \in Months
      BY <2>2, DraftFields, StoredNat
    <3> QED BY <2>2, <3>1 DEF TxRow
  <2> HIDE DEF row
  <2> QED BY <1>1, <2>1, <2>3 DEF TxKept, KeptForOwner
\* A row replaced by one of the same user, at a step of a request that names it and owns it.
<1>4. ASSUME NEW x \in TxIds, NEW row \in TxRow, tx[x] # None, tx' = [tx EXCEPT ![x] = row],
             row.user = tx[x].user, tx[x].deleted => row.deleted,
             InFlight(r), pc'[r] # pc[r], body[r].id = x, body[r].user = tx[x].user
      PROVE  TxKept
  <2>1. tx' \in [TxIds -> TxRow \cup {None}] /\ \A y \in TxIds : y # x => tx'[y] = tx[y] BY <1>1, <1>4
  <2>2. tx'[x] = row BY <1>1, <1>4
  <2>3. KeptForOwner(tx, tx') BY <1>1, <1>4, <2>1, <2>2 DEF KeptForOwner
  <2> QED BY <1>1, <2>1, <2>2, <2>3 DEF TxKept
<1>5. CASE UpdateWrite(r)
  <2> DEFINE x == body[r].id
             row == Patched(tx[x], body[r].row)
  <2>1. x \in TxIds /\ body[r].row \in Patches BY <1>1, <1>5, Bodies DEF UpdateWrite, Running
  <2>2. InFlight(r) /\ pc'[r] # pc[r] BY <1>1, <1>5 DEF UpdateWrite, Running, InFlight, Goto
  <2>3. CASE ~Owns(body[r].user, x) BY <1>2, <1>5, <2>3 DEF UpdateWrite
  <2>4. CASE Owns(body[r].user, x)
    <3>1. tx[x] # None /\ tx[x].user = body[r].user /\ tx[x] \in TxRow BY <1>1, <2>1, <2>4 DEF Owns
    <3>2. tx' = [tx EXCEPT ![x] = row] BY <1>5, <2>4 DEF UpdateWrite
    <3>3. row \in TxRow /\ row.user = tx[x].user /\ row.deleted = tx[x].deleted BY <2>1, <3>1, PatchedRow
    <3> HIDE DEF x, row
    <3>4. PICK y \in TxIds, new \in TxRow : y = x /\ new = row BY <2>1, <3>3
    <3> QED BY <1>4, <2>2, <3>1, <3>2, <3>3, <3>4 DEF x
  <2> QED BY <2>3, <2>4
<1>6. CASE DeleteWrite(r)
  <2> DEFINE x == body[r].id
             row == [tx[x] EXCEPT !.deleted = TRUE]
  <2>1. x \in TxIds BY <1>1, <1>6, Bodies DEF DeleteWrite, Running
  <2>2. InFlight(r) /\ pc'[r] # pc[r] BY <1>1, <1>6 DEF DeleteWrite, Running, InFlight, Answer
  <2>3. CASE ~Owns(body[r].user, x) BY <1>2, <1>6, <2>3 DEF DeleteWrite
  <2>4. CASE Owns(body[r].user, x)
    <3>1. tx[x] # None /\ tx[x].user = body[r].user /\ tx[x] \in TxRow BY <1>1, <2>1, <2>4 DEF Owns
    <3>2. tx' = [tx EXCEPT ![x] = row] BY <1>6, <2>4 DEF DeleteWrite
    <3>3. row \in TxRow /\ row.user = tx[x].user /\ row.deleted BY <3>1, StampedRow
    <3> HIDE DEF x, row
    <3>4. PICK y \in TxIds, new \in TxRow : y = x /\ new = row BY <2>1, <3>3
    <3> QED BY <1>4, <2>2, <3>1, <3>2, <3>3, <3>4 DEF x
  <2> QED BY <2>3, <2>4
<1>7. \/ CreateInsert(r) \/ UpdateWrite(r) \/ DeleteWrite(r) \/ UNCHANGED tx
  BY DEF Handler, SelectOne, PageRows, PageCount, UpsertFind, UpsertUpdate, UpsertInsert, UpsertSum, ListLimits,
         ListSum, ListAnswer, CategoryInsert, CategoryWrite, CategorySelect, CategoryDelete, CategoryList,
         Keeping, tables
<1> QED BY <1>2, <1>3, <1>5, <1>6, <1>7

\* And so do categories.
LEMMA CatsStep ==
    ASSUME TypeOK, NEW r \in Requests, Handler(r)
    PROVE  CatsKept
<1>1. /\ cats \in [Categories -> CategoryRow \cup {None}] /\ None \notin CategoryRow /\ body[r] \in RequestType
      /\ pc \in [Requests -> Stops]
  BY NoneAssumption DEF TypeOK, Stops
<1>2. CASE UNCHANGED cats BY <1>1, <1>2 DEF CatsKept, KeptForOwner
<1>3. CASE CategoryInsert(r)
  <2> DEFINE row == [user |-> body[r].user, type |-> body[r].row.type, deleted |-> FALSE]
  <2>1. PICK c \in Categories : cats[c] = None /\ cats' = [cats EXCEPT ![c] = row] BY <1>3 DEF CategoryInsert
  <2>2. body[r].user \in Users /\ body[r].row.type \in Types BY <1>1, <1>3, Bodies DEF CategoryInsert, Running
  <2>3. row \in CategoryRow BY <2>2 DEF CategoryRow
  <2> HIDE DEF row
  <2> QED BY <1>1, <2>1, <2>3 DEF CatsKept, KeptForOwner
<1>4. ASSUME NEW c \in Categories, NEW row \in CategoryRow, cats[c] # None, cats' = [cats EXCEPT ![c] = row],
             row.user = cats[c].user, cats[c].deleted => row.deleted,
             InFlight(r), pc'[r] # pc[r], body[r].id = c, body[r].user = cats[c].user
      PROVE  CatsKept
  <2>1. cats' \in [Categories -> CategoryRow \cup {None}] /\ \A d \in Categories : d # c => cats'[d] = cats[d]
    BY <1>1, <1>4
  <2>2. cats'[c] = row BY <1>1, <1>4
  <2>3. KeptForOwner(cats, cats') BY <1>1, <1>4, <2>1, <2>2 DEF KeptForOwner
  <2> QED BY <1>1, <2>1, <2>2, <2>3 DEF CatsKept
<1>5. CASE CategoryWrite(r)
  <2> DEFINE c == body[r].id
             row == PatchedCategory(cats[c], body[r].row)
  <2>1. c \in Categories /\ body[r].row \in [type: Types]
    BY <1>1, <1>5 DEF CategoryWrite, Running, RequestType, NoRequest, Request
  <2>2. InFlight(r) /\ pc'[r] # pc[r] BY <1>1, <1>5 DEF CategoryWrite, Running, InFlight, Goto
  <2>3. CASE ~OwnsCategory(body[r].user, c) BY <1>2, <1>5, <2>3 DEF CategoryWrite
  <2>4. CASE OwnsCategory(body[r].user, c)
    <3>1. cats[c] # None /\ cats[c].user = body[r].user /\ cats[c] \in CategoryRow BY <1>1, <2>1, <2>4 DEF OwnsCategory
    <3>2. cats' = [cats EXCEPT ![c] = row] BY <1>5, <2>4 DEF CategoryWrite
    <3>3. row \in CategoryRow /\ row.user = cats[c].user /\ row.deleted = cats[c].deleted BY <2>1, <3>1, StampedRow
    <3> HIDE DEF c, row
    <3>4. PICK d \in Categories, new \in CategoryRow : d = c /\ new = row BY <2>1, <3>3
    <3> QED BY <1>4, <2>2, <3>1, <3>2, <3>3, <3>4 DEF c
  <2> QED BY <2>3, <2>4
<1>6. CASE CategoryDelete(r)
  <2> DEFINE c == body[r].id
             row == [cats[c] EXCEPT !.deleted = TRUE]
  <2>1. c \in Categories BY <1>1, <1>6, Bodies DEF CategoryDelete, Running
  <2>2. InFlight(r) /\ pc'[r] # pc[r] BY <1>1, <1>6 DEF CategoryDelete, Running, InFlight, Answer
  <2>3. CASE ~OwnsCategory(body[r].user, c) BY <1>2, <1>6, <2>3 DEF CategoryDelete
  <2>4. CASE OwnsCategory(body[r].user, c)
    <3>1. cats[c] # None /\ cats[c].user = body[r].user /\ cats[c] \in CategoryRow BY <1>1, <2>1, <2>4 DEF OwnsCategory
    <3>2. cats' = [cats EXCEPT ![c] = row] BY <1>6, <2>4 DEF CategoryDelete
    <3>3. row \in CategoryRow /\ row.user = cats[c].user /\ row.deleted BY <3>1, StampedRow
    <3> HIDE DEF c, row
    <3>4. PICK d \in Categories, new \in CategoryRow : d = c /\ new = row BY <2>1, <3>3
    <3> QED BY <1>4, <2>2, <3>1, <3>2, <3>3, <3>4 DEF c
  <2> QED BY <2>3, <2>4
<1>7. \/ CategoryInsert(r) \/ CategoryWrite(r) \/ CategoryDelete(r) \/ UNCHANGED cats
  BY DEF Handler, CreateInsert, UpdateWrite, SelectOne, DeleteWrite, PageRows, PageCount, UpsertFind, UpsertUpdate,
         UpsertInsert, UpsertSum, ListLimits, ListSum, ListAnswer, CategorySelect, CategoryList, Keeping, tables
<1> QED BY <1>2, <1>3, <1>5, <1>6, <1>7

\* Limits stay rows of their key, and none is taken away.
LimitsKept ==
    /\ limits' \in [LimitIds -> LimitRow \cup {None}]
    /\ \A l \in LimitIds : limits[l] # None =>
         /\ limits'[l] # None /\ limits'[l].user = limits[l].user
         /\ limits'[l].category = limits[l].category /\ limits'[l].month = limits[l].month

\* No step of a handler takes a limit away, no INSERT or UPDATE makes two of one key, and
\* both write whole cents.
LEMMA LimitsStep ==
    ASSUME TypeOK, LimitsUnique, LimitsStored, UpdatesFound, NEW r \in Requests, Handler(r)
    PROVE  LimitsKept /\ LimitsUnique' /\ LimitsStored'
<1>1. limits \in [LimitIds -> LimitRow \cup {None}] /\ None \notin LimitRow /\ body[r] \in RequestType
  BY NoneAssumption DEF TypeOK
<1>2. CASE UNCHANGED limits BY <1>1, <1>2 DEF LimitsKept, LimitsUnique, LimitsStored
\* A limit written with the amount of the request, for the key of the request.
<1>3. ASSUME NEW l \in LimitIds, NEW row \in LimitRow, limits' = [limits EXCEPT ![l] = row],
             Stored(row.amount) = row.amount,
             limits[l] # None => /\ row.user = limits[l].user /\ row.category = limits[l].category
                                 /\ row.month = limits[l].month,
             limits[l] = None => \A k \in LimitIds : limits[k] # None =>
                \/ limits[k].user # row.user \/ limits[k].category # row.category \/ limits[k].month # row.month
      PROVE  LimitsKept /\ LimitsUnique' /\ LimitsStored'
  <2>1. limits'[l] = row /\ \A k \in LimitIds : k # l => limits'[k] = limits[k] BY <1>1, <1>3
  <2>2. LimitsKept BY <1>1, <1>3, <2>1 DEF LimitsKept
  <2>3. LimitsStored' BY <1>3, <2>1 DEF LimitsStored
  <2>4. LimitsUnique'
    <3>1. CASE limits[l] = None BY <1>3, <2>1, <3>1 DEF LimitsUnique
    <3>2. CASE limits[l] # None
      <4>1. \A k \in LimitIds : limits'[k] # None =>
              /\ limits[k] # None /\ limits'[k].user = limits[k].user
              /\ limits'[k].category = limits[k].category /\ limits'[k].month = limits[k].month
        BY <1>3, <2>1, <3>2
      <4> QED BY <4>1 DEF LimitsUnique
    <3> QED BY <3>1, <3>2
  <2> QED BY <2>2, <2>3, <2>4
<1> DEFINE amount == Stored(body[r].row.amount)
<1>4. body[r].op = "upsert" => /\ amount \in Nat /\ Stored(amount) = amount
                               /\ body[r].user \in Users /\ body[r].row.category \in Categories
                               /\ body[r].row.month \in Months
  BY <1>1, Bodies, AmountsAssumption, StoredNat, StoredTwice
<1>5. CASE UpsertUpdate(r)
  <2> DEFINE l == local[r].limit
             row == [limits[l] EXCEPT !.amount = amount]
  <2>1. l \in LimitIds /\ limits[l] # None /\ limits[l] \in LimitRow
    BY <1>1, <1>5 DEF UpsertUpdate, UpdatesFound, LimitFor, LimitsOf
  <2>2. limits' = [limits EXCEPT ![l] = row] BY <1>5 DEF UpsertUpdate
  <2>3. amount \in Nat /\ Stored(amount) = amount BY <1>4, <1>5 DEF UpsertUpdate, Running
  <2> HIDE DEF amount
  <2>4. /\ row \in LimitRow /\ row.user = limits[l].user /\ row.category = limits[l].category
        /\ row.month = limits[l].month /\ row.amount = amount
    BY <2>1, <2>3 DEF LimitRow
  <2> HIDE DEF l, row
  <2>5. PICK id \in LimitIds, new \in LimitRow : id = l /\ new = row BY <2>1, <2>4
  <2> QED BY <1>3, <2>1, <2>2, <2>3, <2>4, <2>5
<1>6. CASE UpsertInsert(r)
  <2> DEFINE b == body[r].row
             row == [user |-> body[r].user, category |-> b.category, month |-> b.month, amount |-> amount]
  <2>1. CASE UNCHANGED limits BY <1>2, <2>1
  <2>2. CASE ~UNCHANGED limits
    <3>1. LimitFor(body[r].user, b.category, b.month) = {} BY <1>6, <2>2 DEF UpsertInsert, Keeping, tables
    <3>2. PICK l \in LimitIds : limits[l] = None /\ limits' = [limits EXCEPT ![l] = row]
      BY <1>6, <2>2 DEF UpsertInsert, Keeping, tables
    <3>3. /\ body[r].user \in Users /\ b.category \in Categories /\ b.month \in Months
          /\ amount \in Nat /\ Stored(amount) = amount
      BY <1>4, <1>6 DEF UpsertInsert, Running
    <3> HIDE DEF amount
    <3>4. row \in LimitRow /\ row.user = body[r].user /\ row.category = b.category /\ row.month = b.month /\ row.amount = amount
      BY <3>3 DEF LimitRow
    <3>5. \A k \in LimitIds : limits[k] # None =>
            limits[k].user # row.user \/ limits[k].category # row.category \/ limits[k].month # row.month
      BY <3>1, <3>4 DEF LimitFor, LimitsOf
    <3> HIDE DEF row
    <3>6. PICK new \in LimitRow : new = row BY <3>4
    <3> QED BY <1>3, <3>2, <3>3, <3>4, <3>5, <3>6
  <2> QED BY <2>1, <2>2
<1>7. UpsertUpdate(r) \/ UpsertInsert(r) \/ UNCHANGED limits
  BY DEF Handler, CreateInsert, UpdateWrite, SelectOne, DeleteWrite, PageRows, PageCount, UpsertFind, UpsertSum,
         ListLimits, ListSum, ListAnswer, CategoryInsert, CategoryWrite, CategorySelect, CategoryDelete, CategoryList,
         Keeping, tables
<1> QED BY <1>2, <1>5, <1>6, <1>7

\* The UPDATE of an upsert still has the limit it found, whatever else happens.
LEMMA FoundKept ==
    ASSUME TypeOK, UpdatesFound, LimitsKept, NEW r \in Requests, Others(r),
           NEW k \in Requests, k # r, body'[k].op = "upsert", pc'[k] = "update"
    PROVE  local'[k].limit \in LimitFor(body[k].user, body[k].row.category, body[k].row.month)'
<1>1. body'[k] = body[k] /\ local'[k] = local[k] /\ pc'[k] = pc[k] BY DEF Others
<1>2. local[k].limit \in LimitFor(body[k].user, body[k].row.category, body[k].row.month)
  BY <1>1 DEF UpdatesFound, Running
<1> QED BY <1>1, <1>2 DEF LimitsKept, LimitFor, LimitsOf

\* An upsert goes on to its UPDATE with a limit it found.
LEMMA FoundStep ==
    ASSUME TypeOK, UpdatesFound, LimitsKept, NEW r \in Requests, Others(r), Handler(r)
    PROVE  UpdatesFound'
<1> SUFFICES ASSUME NEW k \in Requests, body'[k].op = "upsert", pc'[k] = "update"
             PROVE  local'[k].limit \in LimitFor(body[k].user, body[k].row.category, body[k].row.month)'
  BY DEF UpdatesFound, Running
<1>1. CASE k # r BY <1>1, FoundKept
<1>2. CASE k = r
  <2>1. UpsertFind(r)
    BY <1>2 DEF Handler, CreateInsert, UpdateWrite, SelectOne, DeleteWrite, PageRows, PageCount, UpsertUpdate,
         UpsertInsert, UpsertSum, ListLimits, ListSum, ListAnswer, CategoryInsert, CategoryWrite, CategorySelect,
         CategoryDelete, CategoryList, Keeping, Goto, Answer, Running, TypeOK
  <2>2. UNCHANGED <<limits, body>> BY <1>2, <2>1 DEF UpsertFind, Keeping, tables, Goto
  <2>3. PICK l \in LimitFor(body[r].user, body[r].row.category, body[r].row.month) :
            local' = [local EXCEPT ![r] = [NoLocals EXCEPT !.limit = l]]
    BY <1>2, <2>1 DEF UpsertFind, Goto, TypeOK
  <2>4. local'[r].limit = l BY <2>3 DEF TypeOK, NoLocals, Paged
  <2> QED BY <1>2, <2>2, <2>3, <2>4 DEF LimitFor, LimitsOf
<1> QED BY <1>1, <1>2

-----------------------------------------------------------------------------
(* What is gone. *)

\* A deletion is acknowledged when the row is stamped.
LEMMA Deletions ==
    ASSUME TypeOK, NEW r \in Requests, Handler(r) \/ DbError(r), answer'.code = "200"
    PROVE  /\ body[r].op = "delete" => /\ body[r].id \in TxIds /\ tx'[body[r].id] # None
                                      /\ tx'[body[r].id].deleted
           /\ body[r].op = "deleteCategory" => /\ body[r].id \in Categories /\ cats'[body[r].id] # None
                                              /\ cats'[body[r].id].deleted
<1>1. Handler(r) BY DEF DbError, Answer
<1>2. body[r] \in RequestType BY DEF TypeOK
<1>3. ASSUME body[r].op = "delete"
      PROVE  body[r].id \in TxIds /\ tx'[body[r].id] # None /\ tx'[body[r].id].deleted
  <2> DEFINE x == body[r].id
  <2>1. x \in TxIds BY <1>2, <1>3, Bodies
  <2>2. DeleteWrite(r)
    BY <1>1, <1>3 DEF Handler, CreateInsert, UpdateWrite, SelectOne, PageRows, PageCount, UpsertFind, UpsertUpdate,
         UpsertInsert, UpsertSum, ListLimits, ListSum, ListAnswer, CategoryInsert, CategoryWrite, CategorySelect,
         CategoryDelete, CategoryList, Running
  <2>3. Owns(body[r].user, x) /\ tx' = [tx EXCEPT ![x].deleted = TRUE] BY <2>2 DEF DeleteWrite, Answer
  <2>4. tx[x] # None /\ tx[x] \in TxRow /\ tx \in [TxIds -> TxRow \cup {None}] BY <2>1, <2>3 DEF TypeOK, Owns
  <2>5. tx'[x] = [tx[x] EXCEPT !.deleted = TRUE] BY <2>1, <2>3, <2>4
  <2>6. tx'[x] \in TxRow /\ tx'[x].deleted BY <2>4, <2>5, StampedRow
  <2> QED BY <2>1, <2>6, NoneAssumption
<1>4. ASSUME body[r].op = "deleteCategory"
      PROVE  body[r].id \in Categories /\ cats'[body[r].id] # None /\ cats'[body[r].id].deleted
  <2> DEFINE c == body[r].id
  <2>1. c \in Categories BY <1>2, <1>4, Bodies
  <2>2. CategoryDelete(r)
    BY <1>1, <1>4 DEF Handler, CreateInsert, UpdateWrite, SelectOne, DeleteWrite, PageRows, PageCount, UpsertFind,
         UpsertUpdate, UpsertInsert, UpsertSum, ListLimits, ListSum, ListAnswer, CategoryInsert, CategoryWrite,
         CategorySelect, CategoryList, Running
  <2>3. OwnsCategory(body[r].user, c) /\ cats' = [cats EXCEPT ![c].deleted = TRUE] BY <2>2 DEF CategoryDelete, Answer
  <2>4. cats[c] # None /\ cats[c] \in CategoryRow /\ cats \in [Categories -> CategoryRow \cup {None}]
    BY <2>1, <2>3 DEF TypeOK, OwnsCategory
  <2>5. cats'[c] = [cats[c] EXCEPT !.deleted = TRUE] BY <2>1, <2>3, <2>4
  <2>6. cats'[c] \in CategoryRow /\ cats'[c].deleted BY <2>4, <2>5, StampedRow
  <2> QED BY <2>1, <2>6, NoneAssumption
<1> QED BY <1>3, <1>4

\* What is gone stays stamped, and whoever is late names something that is gone.
LEMMA GoneStep ==
    ASSUME TypeOK, GoneStamped, LateNamesGone, TxKept, CatsKept, NEW r \in Requests,
           \/ Beginning(r)
           \/ (Going(r) \/ Answering(r)) /\ (Handler(r) \/ DbError(r))
    PROVE  /\ gone' \subseteq TxIds \cup Categories /\ late' \in [Requests -> BOOLEAN]
           /\ GoneStamped' /\ LateNamesGone'
<1>1. /\ gone' = IF answer'.code = "200" /\ answer'.request.op \in {"delete", "deleteCategory"}
                  THEN gone \cup {answer'.request.id} ELSE gone
      /\ late' = [k \in Requests |-> IF InFlight(k) THEN late[k] /\ InFlight(k)' ELSE body'[k].id \in gone]
  BY DEF Beginning, Going, Answering, Observe
<1>2. gone \subseteq TxIds \cup Categories /\ late \in [Requests -> BOOLEAN] BY DEF TypeOK
<1>3. late' \in [Requests -> BOOLEAN]
  <2> SUFFICES ASSUME NEW k \in Requests
               PROVE  (IF InFlight(k) THEN late[k] /\ InFlight(k)' ELSE body'[k].id \in gone) \in BOOLEAN
    BY <1>1, Zenon
  <2>1. (late[k] /\ InFlight(k)') \in BOOLEAN /\ (body'[k].id \in gone) \in BOOLEAN OBVIOUS
  <2> QED BY <2>1, Zenon
<1>4. \A k \in Requests : InFlight(k) /\ pc'[k] # "done" => body'[k] = body[k]
  BY DEF Beginning, Going, Answering, Others, InFlight
<1>5. gone \subseteq gone' BY <1>1
<1>6. LateNamesGone'
  <2> SUFFICES ASSUME NEW k \in Requests, late'[k] PROVE body'[k].id \in gone' BY DEF LateNamesGone
  <2>1. CASE InFlight(k)
    <3>1. late[k] /\ pc'[k] # "done" BY <1>1, <2>1 DEF InFlight
    <3> QED BY <1>4, <1>5, <2>1, <3>1 DEF LateNamesGone
  <2>2. CASE ~InFlight(k) BY <1>1, <1>5, <2>2
  <2> QED BY <2>1, <2>2
<1>7. /\ \A x \in gone \cap TxIds : tx'[x] # None /\ tx'[x].deleted
      /\ \A c \in gone \cap Categories : cats'[c] # None /\ cats'[c].deleted
  <2>1. ASSUME NEW x \in gone \cap TxIds PROVE tx'[x] # None /\ tx'[x].deleted
    <3>1. tx[x] # None /\ tx[x].deleted /\ x \in DOMAIN tx BY DEF GoneStamped, TypeOK
    <3> QED BY <3>1 DEF TxKept, KeptForOwner
  <2>2. ASSUME NEW c \in gone \cap Categories PROVE cats'[c] # None /\ cats'[c].deleted
    <3>1. cats[c] # None /\ cats[c].deleted /\ c \in DOMAIN cats BY DEF GoneStamped, TypeOK
    <3> QED BY <3>1 DEF CatsKept, KeptForOwner
  <2> QED BY <2>1, <2>2
<1>8. CASE gone' = gone BY <1>2, <1>3, <1>6, <1>7, <1>8 DEF GoneStamped
<1>9. CASE gone' # gone
  <2>1. answer'.code = "200" /\ answer'.request.op \in {"delete", "deleteCategory"} /\ gone' = gone \cup {answer'.request.id}
    BY <1>1, <1>9
  <2>2. Answering(r) /\ (Handler(r) \/ DbError(r)) BY <2>1 DEF Beginning, Going, NoAnswer
  <2>3. answer'.request = body[r] BY <2>2 DEF Answering
  <2>4. CASE body[r].op = "delete"
    <3>1. body[r].id \in TxIds /\ tx'[body[r].id] # None /\ tx'[body[r].id].deleted BY <2>1, <2>2, <2>4, Deletions
    <3>2. body[r].id \notin Categories BY <3>1, IdsAssumption
    <3> QED BY <1>2, <1>3, <1>6, <1>7, <2>1, <2>3, <3>1, <3>2 DEF GoneStamped
  <2>5. CASE body[r].op = "deleteCategory"
    <3>1. body[r].id \in Categories /\ cats'[body[r].id] # None /\ cats'[body[r].id].deleted BY <2>1, <2>2, <2>5, Deletions
    <3>2. body[r].id \notin TxIds BY <3>1, IdsAssumption
    <3> QED BY <1>2, <1>3, <1>6, <1>7, <2>1, <2>3, <3>1, <3>2 DEF GoneStamped
  <2> QED BY <2>1, <2>3, <2>4, <2>5
<1> QED BY <1>8, <1>9

-----------------------------------------------------------------------------
(* The pages of a list, from step to step. *)

\* A list holds rows.
LEMMA Lists ==
    ASSUME TypeOK, NEW r \in Requests
    PROVE  /\ List(r) \subseteq TxIds /\ List(r) \subseteq {y \in TxIds : tx[y] # None} /\ IsFiniteSet(List(r))
           /\ \A x \in List(r) : tx[x].amount \in Nat
           /\ \A x : IsFiniteSet(Above(x, List(r))) /\ Rank(r, x) \in Nat
<1>1. List(r) \subseteq TxIds /\ \A x \in List(r) : tx[x] # None BY DEF List, Listed, FindByIdAndUser, Owns
<1>2. IsFiniteSet(List(r)) BY <1>1, IdsAssumption, FS_Subset
<1>3. ASSUME NEW x PROVE IsFiniteSet(Above(x, List(r))) /\ Rank(r, x) \in Nat
  <2>1. Above(x, List(r)) \subseteq List(r) BY DEF Above
  <2> QED BY <1>2, <2>1, FS_Subset, FS_CardinalityType DEF Rank
<1> QED BY <1>1, <1>2, <1>3 DEF TypeOK, TxRow

\* A set within another has at most as many members.
LEMMA Fewer ==
    ASSUME NEW S, NEW T, IsFiniteSet(T), S \subseteq T
    PROVE  Cardinality(S) <= Cardinality(T)
BY FS_Subset

\* Whatever happens to the list: until a row leaves it, or moves, no rank falls; until one
\* arrives, or moves, none rises.
LEMMA Ranks ==
    ASSUME TypeOK, TypeOK', NEW r \in Requests, walk'[r] = Walked(r), walk[r].stays \subseteq List(r),
           NEW x \in walk'[r].stays
    PROVE  /\ x \in walk[r].stays /\ x \in List(r)'
           /\ ~walk'[r].left => ~walk[r].left /\ Rank(r, x)' >= Rank(r, x)
           /\ ~walk'[r].joined => ~walk[r].joined /\ Rank(r, x)' <= Rank(r, x)
<1> DEFINE moved == {y \in List(r) \cap List(r)' : Changed(y)}
<1>1. /\ walk'[r].stays = (walk[r].stays \cap List(r)') \ moved
      /\ walk'[r].left = (walk[r].left \/ moved # {} \/ List(r) \ List(r)' # {})
      /\ walk'[r].joined = (walk[r].joined \/ moved # {} \/ List(r)' \ List(r) # {})
  BY DEF Walked, Walk
<1>2. Above(x, List(r)) = {y \in List(r) : tx[y].amount > tx[x].amount} BY DEF Above
<1>3. Above(x, List(r))' = {y \in List(r)' : tx'[y].amount > tx'[x].amount} BY DEF Above
<1>4. x \in walk[r].stays /\ x \in List(r)' /\ x \in List(r) BY <1>1
<1>5. moved = {} => \A y \in List(r) \cap List(r)' : tx'[y].amount = tx[y].amount BY DEF Changed
<1>6. IsFiniteSet(Above(x, List(r))) /\ IsFiniteSet(Above(x, List(r)))'
  <2>1. IsFiniteSet(Above(x, List(r))) BY Lists
  <2>2. Above(x, List(r))' \subseteq TxIds BY <1>3 DEF List, Listed
  <2> QED BY <2>1, <2>2, IdsAssumption, FS_Subset
<1> HIDE DEF moved
<1>7. ASSUME ~walk'[r].left PROVE ~walk[r].left /\ Rank(r, x)' >= Rank(r, x)
  <2>1. ~walk[r].left /\ moved = {} /\ List(r) \subseteq List(r)' BY <1>1, <1>7
  <2>2. Above(x, List(r)) \subseteq Above(x, List(r))' BY <1>2, <1>3, <1>4, <1>5, <2>1
  <2>3. Cardinality(Above(x, List(r))) <= Cardinality(Above(x, List(r)))' BY <1>6, <2>2, Fewer
  <2>4. Cardinality(Above(x, List(r))) \in Nat /\ Cardinality(Above(x, List(r)))' \in Nat BY <1>6, FS_CardinalityType
  <2> QED BY <2>1, <2>3, <2>4 DEF Rank
<1>8. ASSUME ~walk'[r].joined PROVE ~walk[r].joined /\ Rank(r, x)' <= Rank(r, x)
  <2>1. ~walk[r].joined /\ moved = {} /\ List(r)' \subseteq List(r) BY <1>1, <1>8
  <2>2. Above(x, List(r))' \subseteq Above(x, List(r)) BY <1>2, <1>3, <1>4, <1>5, <2>1
  <2>3. Cardinality(Above(x, List(r)))' <= Cardinality(Above(x, List(r))) BY <1>6, <2>2, Fewer
  <2> QED BY <2>1, <2>3 DEF Rank
<1> QED BY <1>1, <1>4, <1>7, <1>8

\* PagesOfRanks and PagersWalk, of one request.
PagesHold(r) ==
    /\ walk[r].stays \subseteq List(r) /\ Ties(List(r)) \subseteq walk[r].tied
    /\ \A x \in walk[r].stays \ walk[r].tied :
        /\ walk[r].left \/ x \in Shown(r) \/ Rank(r, x) >= Cut(r)
        /\ walk[r].joined \/ (x \notin Again(r) /\ (x \in Shown(r) => Rank(r, x) < Cut(r)))

PagerWalks(r) == pc[r] \in {"rows", "count"} /\ local[r].page \in Positive

\* What is known of the pages is known of each pager.
LEMMA OneByOne ==
    /\ PagesOfRanks <=> \A r \in Requests : Paging(r) => PagesHold(r)
    /\ PagersWalk <=> \A r \in Requests : (Paging(r) => PagerWalks(r)) /\ (~InFlight(r) => local[r] = NoLocals)
BY DEF PagesOfRanks, PagersWalk, PagesHold, PagerWalks

\* The places a pager has reached are naturals.
LEMMA Cuts ==
    ASSUME NEW r \in Requests, PagerWalks(r)
    PROVE  Cut(r) \in Nat
<1>1. local[r].page \in Nat /\ local[r].page - 1 \in Nat BY DEF PagerWalks, Positive
<1>2. PageLimit \in Nat BY PageLimitAssumption
<1> QED BY <1>1, <1>2 DEF Cut

\* Another request's step: what was shown, shown again and cut from the list stays so.
LEMMA PagesMeanwhile ==
    ASSUME TypeOK, TypeOK', NEW r \in Requests, PagesHold(r), PagerWalks(r), walk'[r] = Walked(r),
           Shown(r)' = Shown(r), Again(r)' = Again(r), Cut(r)' = Cut(r)
    PROVE  PagesHold(r)'
<1>a. PICK shown : Shown(r) = shown OBVIOUS
<1>b. PICK again : Again(r) = again OBVIOUS
<1>c. PICK cut \in Nat : Cut(r) = cut BY Cuts
<1>0. Shown(r) = shown /\ Again(r) = again /\ Cut(r) = cut BY <1>a, <1>b, <1>c
<1>1. walk'[r].stays \subseteq List(r)' /\ Ties(List(r))' \subseteq walk'[r].tied /\ walk[r].tied \subseteq walk'[r].tied
  BY DEF Walked, Walk
<1>2. ASSUME NEW x \in walk'[r].stays \ walk'[r].tied
      PROVE  /\ walk'[r].left \/ x \in shown \/ Rank(r, x)' >= cut
             /\ walk'[r].joined \/ (x \notin again /\ (x \in shown => Rank(r, x)' < cut))
  <2>1. /\ x \in walk[r].stays \ walk[r].tied /\ x \in List(r)'
        /\ ~walk'[r].left => ~walk[r].left /\ Rank(r, x)' >= Rank(r, x)
        /\ ~walk'[r].joined => ~walk[r].joined /\ Rank(r, x)' <= Rank(r, x)
    BY <1>1, <1>2, Ranks DEF PagesHold
  <2>2. Rank(r, x) \in Nat BY Lists
  <2>3. Rank(r, x)' \in Nat
    <3>1. List(r)' \subseteq TxIds BY DEF List, Listed
    <3>2. Above(x, List(r))' \subseteq TxIds BY <3>1 DEF Above
    <3> QED BY <3>2, IdsAssumption, FS_Subset, FS_CardinalityType DEF Rank
  <2>4. /\ walk[r].left \/ x \in shown \/ Rank(r, x) >= cut
        /\ walk[r].joined \/ (x \notin again /\ (x \in shown => Rank(r, x) < cut))
    BY <1>0, <2>1 DEF PagesHold
  <2> QED BY <2>1, <2>2, <2>3, <2>4
<1>3. Shown(r)' = shown /\ Again(r)' = again /\ Cut(r)' = cut BY <1>0
<1> QED BY <1>1, <1>2, <1>3 DEF PagesHold

\* The next page is cut from the list: the rows that are shown and those that are cut remain the
\* same, as far as nothing left or arrived.
LEMMA NextPage ==
    ASSUME TypeOK, TypeOK', NEW r \in Requests, PagesHold(r), PagerWalks(r), walk'[r] = Walked(r),
           UNCHANGED tx, body'[r] = body[r], PageRows(r)
    PROVE  PagesHold(r)' /\ PagerWalks(r)'
<1>1. PICK s \in Pages(List(r), local[r].page) :
        pc[r] = "rows" /\ Goto(r, "count", Paged(local[r].page, local[r].seen, local[r].again, s))
  BY DEF PageRows, Running
<1>2. pc'[r] = "count" /\ local'[r] = Paged(local[r].page, local[r].seen, local[r].again, s)
  BY <1>1 DEF Goto, TypeOK
<1>a. PICK page \in Positive : local[r].page = page BY DEF PagerWalks
<1>b. PICK seen, again : local[r].seen = seen /\ local[r].again = again OBVIOUS
<1>3. /\ local[r].page = page /\ local[r].seen = seen /\ local[r].again = again
      /\ local'[r].page = page /\ local'[r].seen = seen /\ local'[r].again = again /\ local'[r].items = s
  BY <1>2, <1>a, <1>b DEF Paged
<1>4. page \in Nat /\ page - 1 \in Nat BY <1>3 DEF Positive
<1>0. PICK low \in Nat, high \in Nat : low = (page - 1) * PageLimit /\ high = page * PageLimit
  BY <1>4, PageLimitAssumption
<1>5. PICK before \in First(List(r), page - 1) : before \cap s = {} /\ before \cup s \in First(List(r), page)
  BY <1>1, <1>3 DEF Pages
<1>6. /\ Shown(r) = seen /\ Again(r) = again /\ Cut(r) = low
      /\ Shown(r)' = seen \cup s /\ Again(r)' = again \cup (seen \cap s) /\ Cut(r)' = high
  BY <1>0, <1>1, <1>2, <1>3 DEF Shown, Again, Cut
<1>7. List(r)' = List(r) /\ Ties(List(r))' = Ties(List(r)) /\ \A x : Rank(r, x)' = Rank(r, x)
  BY DEF List, Listed, FindByIdAndUser, Owns, Ties, Rank, Above
<1>8. walk'[r].stays \subseteq List(r)' /\ Ties(List(r))' \subseteq walk'[r].tied /\ walk[r].tied \subseteq walk'[r].tied
  BY DEF Walked, Walk
<1>9. ASSUME NEW x \in walk'[r].stays \ walk'[r].tied
      PROVE  /\ walk'[r].left \/ x \in seen \cup s \/ Rank(r, x) >= high
             /\ walk'[r].joined \/ (x \notin again \cup (seen \cap s) /\ (x \in seen \cup s => Rank(r, x) < high))
  <2>1. /\ x \in walk[r].stays \ walk[r].tied /\ x \in List(r) \ Ties(List(r))
        /\ ~walk'[r].left => ~walk[r].left
        /\ ~walk'[r].joined => ~walk[r].joined
    BY <1>7, <1>8, <1>9, Ranks DEF PagesHold
  <2>2. /\ walk[r].left \/ x \in seen \/ Rank(r, x) >= low
        /\ walk[r].joined \/ (x \notin again /\ (x \in seen => Rank(r, x) < low))
    BY <1>6, <2>1 DEF PagesHold
  <2>3. /\ List(r) \in SUBSET TxIds /\ List(r) \subseteq {y \in TxIds : tx[y] # None} /\ Rank(r, x) \in Nat
        /\ Rank(r, x) = Cardinality(Above(x, List(r)))
    BY Lists DEF Rank
  <2>4. x \in before <=> Rank(r, x) < low BY <1>0, <1>4, <1>5, <2>1, <2>3, FirstByRank
  <2>5. x \in before \cup s <=> Rank(r, x) < high BY <1>0, <1>4, <1>5, <2>1, <2>3, FirstByRank
  <2>6. PICK rank \in Nat : rank = Rank(r, x) BY <2>3
  <2>7. walk[r].left \/ x \in seen \cup s \/ rank >= high BY <2>2, <2>4, <2>5, <2>6
  <2>8. walk[r].joined \/ (x \notin again \cup (seen \cap s) /\ (x \in seen \cup s => rank < high))
    BY <1>5, <2>2, <2>4, <2>5, <2>6
  <2> QED BY <2>1, <2>6, <2>7, <2>8
<1>10. PagerWalks(r)' BY <1>2, <1>3 DEF PagerWalks
<1>11. \A x \in walk'[r].stays \ walk'[r].tied :
         /\ walk'[r].left \/ x \in Shown(r)' \/ Rank(r, x)' >= Cut(r)'
         /\ walk'[r].joined \/ (x \notin Again(r)' /\ (x \in Shown(r)' => Rank(r, x)' < Cut(r)'))
  BY <1>6, <1>7, <1>9
<1> QED BY <1>8, <1>10, <1>11 DEF PagesHold

\* The count promises another page, and nothing else changes.
LEMMA NextCount ==
    ASSUME TypeOK, TypeOK', NEW r \in Requests, PagesHold(r), PagerWalks(r), walk'[r] = Walked(r),
           PageCount(r), pc'[r] # "done"
    PROVE  PagesHold(r)' /\ PagerWalks(r)'
<1>1. pc[r] = "count" BY DEF PageCount, Running
<1>2. pc'[r] = "rows"
      /\ local'[r] = Paged(local[r].page + 1, local[r].seen \cup local[r].items,
                           local[r].again \cup (local[r].seen \cap local[r].items), {})
  BY DEF PageCount, Goto, Answer, TypeOK
<1>3. /\ local'[r].page = local[r].page + 1 /\ local'[r].seen = local[r].seen \cup local[r].items
      /\ local'[r].again = local[r].again \cup (local[r].seen \cap local[r].items)
  BY <1>2 DEF Paged
<1>4. local'[r].page - 1 = local[r].page /\ local'[r].page \in Positive BY <1>3 DEF PagerWalks, Positive
<1>5. Shown(r)' = Shown(r) /\ Again(r)' = Again(r) /\ Cut(r)' = Cut(r)
  BY <1>1, <1>2, <1>3, <1>4 DEF Shown, Again, Cut
<1>6. PagerWalks(r)' BY <1>2, <1>3, <1>4 DEF PagerWalks
<1> QED BY <1>5, <1>6, PagesMeanwhile

\* Every step keeps what is known of the pages.
LEMMA PagesStep ==
    ASSUME TypeOK, TypeOK', PagesOfRanks, PagersWalk, NEW r \in Requests,
           \/ Beginning(r)
           \/ (Going(r) \/ Answering(r)) /\ (Handler(r) \/ DbError(r))
    PROVE  PagesOfRanks' /\ PagersWalk'
<1>1. /\ Others(r)
      /\ walk' = [k \in Requests |-> IF ~Paging(k)' THEN NoWalk ELSE IF Paging(k) THEN Walked(k)
                                     ELSE Walk(List(k)', Ties(List(k))', FALSE, FALSE)]
  BY DEF Beginning, Going, Answering, Observe
<1>2. \A k \in Requests : /\ Paging(k) => PagesHold(k) /\ PagerWalks(k)
                          /\ ~InFlight(k) => local[k] = NoLocals
  BY OneByOne
<1>3. ASSUME NEW k \in Requests
      PROVE  /\ Paging(k)' => PagesHold(k)' /\ PagerWalks(k)'
             /\ ~InFlight(k)' => local'[k] = NoLocals
  <2>1. CASE k # r
    <3>1. body'[k] = body[k] /\ pc'[k] = pc[k] /\ local'[k] = local[k] BY <1>1, <2>1 DEF Others
    <3>2. ~InFlight(k)' => local'[k] = NoLocals BY <1>2, <3>1 DEF InFlight
    <3>3. ASSUME Paging(k)' PROVE PagesHold(k)' /\ PagerWalks(k)'
      <4>1. Paging(k) /\ walk'[k] = Walked(k) BY <1>1, <3>1, <3>3 DEF Paging
      <4>2. Shown(k)' = Shown(k) /\ Again(k)' = Again(k) /\ Cut(k)' = Cut(k) BY <3>1 DEF Shown, Again, Cut
      <4>3. PagerWalks(k)' BY <1>2, <3>1, <4>1 DEF PagerWalks
      <4> QED BY <1>2, <4>1, <4>2, <4>3, PagesMeanwhile
    <3> QED BY <3>2, <3>3
  <2>2. CASE k = r /\ Beginning(r)
    <3>1. ~InFlight(r) /\ InFlight(r)' /\ local'[r] = NoLocals BY <1>2, <2>2 DEF Beginning, InFlight
    <3>2. ASSUME Paging(r)' PROVE PagesHold(r)' /\ PagerWalks(r)'
      <4>1. ~Paging(r) BY <1>2, <3>1 DEF PagerWalks, InFlight
      <4>2. walk'[r] = Walk(List(r)', Ties(List(r))', FALSE, FALSE) BY <1>1, <3>2, <4>1
      <4>3. pc'[r] = "rows" BY <2>2, <3>2 DEF Beginning, Paging
      <4>4. local'[r].page = 1 /\ local'[r].seen = {} /\ local'[r].again = {} BY <3>1 DEF NoLocals, Paged
      <4>5. Shown(r)' = {} /\ Again(r)' = {} /\ Cut(r)' = 0
        <5>1. (1 - 1) * PageLimit = 0 BY PageLimitAssumption
        <5> QED BY <4>3, <4>4, <5>1 DEF Shown, Again, Cut
      <4>6. \A x : Rank(r, x)' \in Nat
        <5>1. List(r)' \subseteq TxIds BY DEF List, Listed
        <5>2. \A x : Above(x, List(r))' \subseteq TxIds BY <5>1 DEF Above
        <5> QED BY <5>2, IdsAssumption, FS_Subset, FS_CardinalityType DEF Rank
      <4>7. PagerWalks(r)' BY <4>3, <4>4 DEF PagerWalks, Positive
      <4>8. PagesHold(r)' BY <4>2, <4>5, <4>6 DEF PagesHold, Walk
      <4> QED BY <4>7, <4>8
    <3> QED BY <2>2, <3>1, <3>2
  <2>3. CASE k = r /\ Going(r) /\ (Handler(r) \/ DbError(r))
    <3>1. InFlight(r)' /\ body'[r] = body[r] BY <2>3 DEF Going, InFlight
    <3>2. ASSUME Paging(r)' PROVE PagesHold(r)' /\ PagerWalks(r)'
      <4>1. Paging(r) /\ walk'[r] = Walked(r) BY <1>1, <3>1, <3>2 DEF Paging
      <4>2. Handler(r)
        BY <2>3 DEF DbError, Going, Answer, TypeOK
      <4>3. PageRows(r) \/ PageCount(r)
        BY <4>1, <4>2 DEF Handler, Paging, CreateInsert, UpdateWrite, SelectOne, DeleteWrite, UpsertFind, UpsertUpdate,
             UpsertInsert, UpsertSum, ListLimits, ListSum, ListAnswer, CategoryInsert, CategoryWrite, CategorySelect,
             CategoryDelete, CategoryList, Running
      <4>4. CASE PageRows(r)
        <5>1. UNCHANGED tx BY <4>4 DEF PageRows, Keeping, tables
        <5> QED BY <1>2, <3>1, <4>1, <4>4, <5>1, NextPage
      <4>5. CASE PageCount(r)
        <5>1. pc'[r] # "done" BY <2>3 DEF Going
        <5> QED BY <1>2, <4>1, <4>5, <5>1, NextCount
      <4> QED BY <4>3, <4>4, <4>5
    <3> QED BY <2>3, <3>1, <3>2
  <2>4. CASE k = r /\ Answering(r)
    BY <2>4 DEF Answering, Paging, NoRequest, Request, InFlight
  <2> QED BY <2>1, <2>2, <2>3, <2>4
<1>4. PagesOfRanks' BY <1>3 DEF PagesOfRanks, PagesHold
<1>5. PagersWalk' BY <1>3 DEF PagersWalk, PagerWalks
<1> QED BY <1>4, <1>5

-----------------------------------------------------------------------------
(* What is told of a month. *)

\* An item says what it was made from.
LEMMA ItemSays ==
    ASSUME NEW c, NEW limit, NEW spent, NEW item \in Items(c, limit, spent)
    PROVE  item.category = c /\ item.limit = limit /\ item.spent = spent
BY DEF Items

\* More facts make nothing untrue.
LEMMA StillTrue ==
    ASSUME NEW items, NEW some, NEW more, some \subseteq more, Truthful(items, some)
    PROVE  Truthful(items, more)
BY DEF Truthful

\* What holds after a step has been noted, and nothing noted is forgotten.
LEMMA Noting ==
    ASSUME Observe
    PROVE  FactsNoted' /\ \A k \in Requests : Watching(k)' => truths[k] \subseteq truths'[k]
<1>1. truths' = [k \in Requests |-> IF Watching(k)' THEN truths[k] \cup Facts(body[k].user, body[k].row.month)' ELSE {}]
  BY DEF Observe
<1>2. \A k \in Requests : Watching(k)' => truths'[k] = truths[k] \cup Facts(body[k].user, body[k].row.month)'
  BY <1>1
<1> QED BY <1>2 DEF FactsNoted

\* What the query answers has been noted.
LEMMA SumNoted ==
    ASSUME TypeOK, FactsNoted, NEW r \in Requests, Watching(r), NEW c \in Categories
    PROVE  SpentFact(c, SumOf(body[r].user, c, body[r].row.month)) \in truths[r]
<1> DEFINE u == body[r].user
           m == body[r].row.month
<1>1. SumOf(u, c, m) = Spent(u, c, m) BY SumIsSpent
<1>2. SpentFact(c, Spent(u, c, m)) \in Facts(u, m) BY DEF SpentFact, Facts
<1>3. Facts(u, m) \subseteq truths[r] BY DEF FactsNoted
<1> QED BY <1>1, <1>2, <1>3

\* A stored limit is a fact.
LEMMA LimitIsFact ==
    ASSUME LimitsStored, NEW u, NEW m, NEW l \in LimitsOf(u, m)
    PROVE  LimitFact(limits[l].category, limits[l].amount) \in Facts(u, m)
BY DEF LimitsStored, LimitsOf, LimitFact, Facts

\* An upsert that has written its limit has noted it.
LEMMA UpsertsStep ==
    ASSUME TypeOK, UpdatesFound, UpsertsNoted, NEW r \in Requests, Observe, Others(r),
           \/ Beginning(r)
           \/ DbError(r) /\ Answering(r)
           \/ Handler(r) /\ (Going(r) \/ Answering(r))
    PROVE  UpsertsNoted'
<1> SUFFICES ASSUME NEW k \in Requests, body'[k].op = "upsert", pc'[k] = "sum"
             PROVE  LimitFact(body'[k].row.category, body'[k].row.amount) \in truths'[k]
  BY DEF UpsertsNoted, Running
<1>1. truths[k] \subseteq truths'[k] /\ Facts(body[k].user, body[k].row.month)' \subseteq truths'[k]
  BY Noting DEF Watching, FactsNoted
<1>2. CASE k # r BY <1>1, <1>2 DEF Others, UpsertsNoted, Running
<1>3. CASE k = r
  <2> DEFINE b == body[r].row
  <2>1. Handler(r) /\ body' = body
    <3>1. Handler(r) /\ body'[r] = body[r] BY <1>3 DEF Beginning, Answering, Going, NoRequest, Request
    <3> QED BY <3>1 DEF Others, TypeOK
  <2>2. UpsertUpdate(r) \/ UpsertInsert(r)
    BY <1>3, <2>1 DEF Handler, CreateInsert, UpdateWrite, SelectOne, DeleteWrite, PageRows, PageCount, UpsertFind,
         UpsertSum, ListLimits, ListSum, ListAnswer, CategoryInsert, CategoryWrite, CategorySelect,
         CategoryDelete, CategoryList, Goto, Answer, Running, TypeOK
  <2>3. \E l \in LimitIds :
          /\ limits'[l] # None /\ limits'[l].user = body[r].user /\ limits'[l].month = b.month
          /\ limits'[l].category = b.category /\ limits'[l].amount = Stored(b.amount)
    <3>1. CASE UpsertUpdate(r)
      <4> DEFINE l == local[r].limit
                 row == [limits[l] EXCEPT !.amount = Stored(b.amount)]
      <4>1. /\ l \in LimitIds /\ limits[l] \in LimitRow /\ limits[l].user = body[r].user
            /\ limits[l].month = b.month /\ limits[l].category = b.category
        BY <1>3, <2>1, <3>1 DEF UpsertUpdate, UpdatesFound, LimitFor, LimitsOf, TypeOK
      <4>2. limits' = [limits EXCEPT ![l] = row] /\ limits \in [LimitIds -> LimitRow \cup {None}]
        BY <3>1 DEF UpsertUpdate, TypeOK
      <4>3. limits'[l] = row BY <4>1, <4>2
      <4>4. Stored(b.amount) \in Nat
        BY <3>1, Bodies, AmountsAssumption, StoredNat DEF UpsertUpdate, Running, TypeOK
      <4>5. /\ row \in LimitRow /\ row.user = body[r].user /\ row.month = b.month /\ row.category = b.category
            /\ row.amount = Stored(b.amount)
        BY <4>1, <4>4 DEF LimitRow
      <4> HIDE DEF l, row
      <4> QED BY <4>1, <4>3, <4>5, NoneAssumption
    <3>2. CASE UpsertInsert(r)
      <4> DEFINE row == [user |-> body[r].user, category |-> b.category, month |-> b.month, amount |-> Stored(b.amount)]
      <4>1. PICK l \in LimitIds : limits' = [limits EXCEPT ![l] = row]
        BY <1>3, <3>2 DEF UpsertInsert, Answer, TypeOK
      <4>2. limits'[l] = row BY <4>1 DEF TypeOK
      <4>3. row \in LimitRow
        <5>1. Stored(b.amount) \in Nat /\ body[r].user \in Users /\ b.category \in Categories /\ b.month \in Months
          BY <3>2, Bodies, AmountsAssumption, StoredNat DEF UpsertInsert, Running, TypeOK
        <5> QED BY <5>1 DEF LimitRow
      <4> QED BY <4>2, <4>3, NoneAssumption
    <3> QED BY <2>2, <3>1, <3>2
  <2>4. LimitFact(b.category, b.amount) \in Facts(body[k].user, body[k].row.month)'
    BY <1>3, <2>1, <2>3 DEF Facts, LimitFact
  <2> QED BY <1>1, <1>3, <2>1, <2>4
<1> QED BY <1>2, <1>3

\* What a list holds, for one request.
ListHolds(r) ==
    /\ DOMAIN local[r] = DOMAIN NoLocals /\ Truthful(local[r].items, truths[r])
    /\ \A k \in local[r].todo :
        /\ k \in LimitRow /\ LimitFact(k.category, k.amount) \in truths[r]
        /\ \A j \in local[r].todo : j.category = k.category => j = k
        /\ \A i \in local[r].items : i.category # k.category

\* The SELECT of a list notes the limits of the month, each category once.
LEMMA ListLimitsStep ==
    ASSUME TypeOK, LimitsUnique, LimitsStored, FactsNoted, NEW r \in Requests, ListLimits(r), Observe
    PROVE  ListHolds(r)'
<1> DEFINE u == body[r].user
           m == body[r].row.month
           rows == {limits[l] : l \in LimitsOf(u, m)}
<1>1. local' = [local EXCEPT ![r] = [NoLocals EXCEPT !.todo = rows]] /\ body' = body /\ body[r].op = "list"
  BY DEF ListLimits, Goto, Running
<1>2. /\ DOMAIN local'[r] = DOMAIN NoLocals
      /\ local'[r].todo = rows /\ local'[r].items = {}
  BY <1>1 DEF TypeOK, NoLocals, Paged
<1>3. Truthful({}, truths'[r]) BY DEF Truthful
<1>4. Facts(u, m) \subseteq truths'[r]
  <2>1. Watching(r) /\ Watching(r)' BY <1>1 DEF Watching
  <2>2. truths[r] \subseteq truths'[r] BY <2>1, Noting
  <2> QED BY <2>1, <2>2 DEF FactsNoted
<1>5. ASSUME NEW k \in rows
      PROVE  /\ k \in LimitRow /\ LimitFact(k.category, k.amount) \in truths'[r]
             /\ \A j \in rows : j.category = k.category => j = k
  <2>1. PICK l \in LimitsOf(u, m) : k = limits[l] OBVIOUS
  <2>2. k \in LimitRow BY <2>1 DEF LimitsOf, TypeOK
  <2>3. LimitFact(k.category, k.amount) \in Facts(u, m) BY <2>1, LimitIsFact
  <2>4. \A j \in rows : j.category = k.category => j = k BY <2>1 DEF LimitsOf, LimitsUnique
  <2> QED BY <1>4, <2>2, <2>3, <2>4
<1> HIDE DEF rows
<1>6. DOMAIN NoLocals = (DOMAIN NoLocals)' BY DEF NoLocals, Paged
<1> QED BY <1>2, <1>3, <1>5, <1>6 DEF ListHolds

\* Each SUM of a list moves one category from what is to do to what is told.
LEMMA ListSumStep ==
    ASSUME TypeOK, FactsNoted, ListsNoted, NEW r \in Requests, ListSum(r), Observe
    PROVE  ListHolds(r)'
<1> DEFINE todo == local[r].todo
           items == local[r].items
<1>1. body[r].op = "list" /\ body' = body BY DEF ListSum, Running, Keeping
<1>2. ListHolds(r) BY <1>1 DEF ListsNoted, ListHolds
<1>3. PICK limit \in todo :
        \E item \in Items(limit.category, limit.amount, SumOf(body[r].user, limit.category, body[r].row.month)) :
            local' = [local EXCEPT ![r].todo = @ \ {limit}, ![r].items = @ \cup {item}]
  BY DEF ListSum
<1>4. PICK item \in Items(limit.category, limit.amount, SumOf(body[r].user, limit.category, body[r].row.month)) :
          local' = [local EXCEPT ![r].todo = @ \ {limit}, ![r].items = @ \cup {item}]
  BY <1>3
<1>5. /\ DOMAIN local'[r] = DOMAIN NoLocals
      /\ local'[r].todo = todo \ {limit} /\ local'[r].items = items \cup {item}
  <2>1. DOMAIN local[r] = {"limit", "todo", "items", "page", "seen", "again"} /\ DOMAIN NoLocals = DOMAIN local[r]
    BY <1>2 DEF ListHolds, NoLocals, Paged
  <2> QED BY <1>4, <2>1 DEF TypeOK
<1>6. Watching(r) /\ Watching(r)' BY <1>1 DEF Watching
<1>7. truths[r] \subseteq truths'[r] BY <1>6, Noting
<1>8. /\ item.category = limit.category /\ item.limit = limit.amount
      /\ item.spent = SumOf(body[r].user, limit.category, body[r].row.month)
  BY ItemSays
<1>9. /\ limit \in LimitRow /\ LimitFact(limit.category, limit.amount) \in truths[r]
      /\ \A j \in todo : j.category = limit.category => j = limit
      /\ \A i \in items : i.category # limit.category
  BY <1>2 DEF ListHolds
<1>10. SpentFact(item.category, item.spent) \in truths[r]
  <2>1. limit.category \in Categories BY <1>9 DEF LimitRow
  <2> QED BY <1>6, <1>8, <2>1, SumNoted
<1>11. LimitFact(item.category, item.limit) \in truths[r] BY <1>8, <1>9
<1>12. Truthful(items, truths[r]) BY <1>2 DEF ListHolds
<1>13. Truthful(items \cup {item}, truths[r])
  BY <1>8, <1>9, <1>10, <1>11, <1>12 DEF Truthful
<1>14. Truthful(items \cup {item}, truths'[r]) BY <1>7, <1>13, StillTrue
<1>15. ASSUME NEW k \in todo \ {limit}
       PROVE  /\ k \in LimitRow /\ LimitFact(k.category, k.amount) \in truths'[r]
              /\ \A j \in todo \ {limit} : j.category = k.category => j = k
              /\ \A i \in items \cup {item} : i.category # k.category
  <2>1. /\ k \in LimitRow /\ LimitFact(k.category, k.amount) \in truths[r]
        /\ \A j \in todo : j.category = k.category => j = k
        /\ \A i \in items : i.category # k.category
    BY <1>2 DEF ListHolds
  <2>2. item.category # k.category BY <1>8, <1>9
  <2> QED BY <1>7, <2>1, <2>2
<1> HIDE DEF todo, items
<1>16. DOMAIN NoLocals = (DOMAIN NoLocals)' BY DEF NoLocals, Paged
<1> QED BY <1>5, <1>14, <1>15, <1>16 DEF ListHolds

\* What a list has read is true, whatever the other requests do between its statements.
LEMMA ListsStep ==
    ASSUME TypeOK, LimitsUnique, LimitsStored, FactsNoted, ListsNoted, PagersWalk,
           NEW r \in Requests, Observe, Others(r),
           \/ Beginning(r)
           \/ DbError(r) /\ Answering(r)
           \/ Handler(r) /\ (Going(r) \/ Answering(r))
    PROVE  ListsNoted'
<1>1. ASSUME NEW k \in Requests, body'[k].op = "list" PROVE ListHolds(k)'
  <2>1. truths[k] \subseteq truths'[k] BY <1>1, Noting DEF Watching
  <2>2. CASE k # r
    <3>1. body'[k] = body[k] /\ local'[k] = local[k] BY <2>2 DEF Others
    <3>2. ListHolds(k) BY <1>1, <3>1 DEF ListsNoted, ListHolds
    <3>3. Truthful(local[k].items, truths'[k]) BY <2>1, <3>2, StillTrue DEF ListHolds
    <3>4. \A j \in local[k].todo : LimitFact(j.category, j.amount) \in truths'[k] BY <2>1, <3>2 DEF ListHolds
    <3>5. DOMAIN NoLocals = (DOMAIN NoLocals)' BY DEF NoLocals, Paged
    <3> QED BY <3>1, <3>2, <3>3, <3>4, <3>5 DEF ListHolds
  <2>3. CASE k = r /\ Beginning(r)
    <3>1. local'[r] = NoLocals BY <2>3 DEF Beginning, PagersWalk
    <3>2. NoLocals.items = {} /\ NoLocals.todo = {} BY DEF NoLocals, Paged
    <3>3. Truthful({}, truths'[r]) BY DEF Truthful
    <3>4. DOMAIN NoLocals = (DOMAIN NoLocals)' BY DEF NoLocals, Paged
    <3> QED BY <2>3, <3>1, <3>2, <3>3, <3>4 DEF ListHolds
  <2>4. CASE k = r /\ ~Beginning(r)
    <3>1. Handler(r) /\ Going(r) /\ body[r].op = "list"
      BY <1>1, <2>4 DEF Answering, Going, NoRequest, Request
    <3>2. ListLimits(r) \/ ListSum(r)
      BY <3>1 DEF Handler, CreateInsert, UpdateWrite, SelectOne, DeleteWrite, PageRows, PageCount, UpsertFind,
           UpsertUpdate, UpsertInsert, UpsertSum, ListAnswer, CategoryInsert, CategoryWrite, CategorySelect,
           CategoryDelete, CategoryList, Going, Answer, Running, TypeOK
    <3> QED BY <2>4, <3>2, ListLimitsStep, ListSumStep
  <2> QED BY <2>2, <2>3, <2>4
<1> QED BY <1>1 DEF ListsNoted, ListHolds

-----------------------------------------------------------------------------
(* The whole. *)

\* The invariant holds before the first request.
LEMMA InitInv == Init => IInv
<1> SUFFICES ASSUME Init PROVE IInv OBVIOUS
<1>1. NoRequest \in RequestType BY DEF RequestType
<1>2. TypeOK BY <1>1 DEF Init, TypeOK
<1>3. \A r \in Requests : body[r].op = "none" /\ ~Paging(r) BY DEF Init, NoRequest, Request, Paging
<1>4. LimitsUnique BY DEF Init, LimitsUnique
<1>5. UpdatesFound BY <1>3 DEF UpdatesFound, Running
<1>6. GoneStamped /\ LateNamesGone BY DEF Init, GoneStamped, LateNamesGone
<1>7. PagesOfRanks /\ PagersWalk BY <1>3 DEF Init, PagesOfRanks, PagersWalk, InFlight
<1>8. LimitsStored BY DEF Init, LimitsStored
<1>9. FactsNoted /\ UpsertsNoted /\ ListsNoted BY <1>3 DEF FactsNoted, Watching, UpsertsNoted, ListsNoted, Running
<1> QED BY <1>2, <1>4, <1>5, <1>6, <1>7, <1>8, <1>9 DEF IInv

\* What a step does: a request begins, or its handler goes on or answers.
LEMMA Kinds ==
    ASSUME TypeOK, NEW r \in Requests, Client(r) \/ CategoryClient(r) \/ Handler(r) \/ DbError(r)
    PROVE  /\ TxKept /\ CatsKept
           /\ \/ Beginning(r) /\ UNCHANGED limits
              \/ DbError(r) /\ Answering(r) /\ UNCHANGED limits
              \/ Handler(r) /\ (Going(r) \/ Answering(r))
<1>1. /\ tx \in [TxIds -> TxRow \cup {None}] /\ cats \in [Categories -> CategoryRow \cup {None}]
  BY DEF TypeOK
<1>2. UNCHANGED <<tx, cats>> => TxKept /\ CatsKept BY <1>1 DEF TxKept, CatsKept, KeptForOwner
<1>3. CASE Client(r) \/ CategoryClient(r) BY <1>2, <1>3, Clients DEF Beginning, tables
<1>4. CASE DbError(r)
  <2>1. UNCHANGED <<tx, cats, limits>> BY <1>4 DEF DbError, Keeping, tables
  <2>2. Answering(r) BY <1>4, Answers DEF DbError, Keeping
  <2> QED BY <1>2, <1>4, <2>1, <2>2
<1>5. CASE Handler(r) BY <1>5, Handlers, TxStep, CatsStep
<1> QED BY <1>3, <1>4, <1>5

\* Every step keeps the invariant.
LEMMA StepInv == IInv /\ [Next]_vars => IInv'
<1> SUFFICES ASSUME IInv, [Next]_vars PROVE IInv' OBVIOUS
<1>0. /\ TypeOK /\ LimitsUnique /\ UpdatesFound /\ GoneStamped /\ LateNamesGone /\ PagesOfRanks /\ PagersWalk
      /\ FactsNoted /\ LimitsStored /\ UpsertsNoted /\ ListsNoted
  BY DEF IInv
<1>1. CASE UNCHANGED vars
  <2>1. UNCHANGED <<tx, limits, cats, body, pc, local, gone, late, truths, walk>> BY <1>1 DEF vars, tables, history
  <2>2. (TypeOK /\ LimitsUnique /\ UpdatesFound /\ GoneStamped /\ LateNamesGone /\ LimitsStored)'
    BY <1>0, <2>1 DEF TypeOK, LimitsUnique, UpdatesFound, LimitFor, LimitsOf, Running, GoneStamped, LateNamesGone,
         LimitsStored
  <2>3. ASSUME NEW r \in Requests
        PROVE  /\ Paging(r)' = Paging(r) /\ List(r)' = List(r) /\ Ties(List(r))' = Ties(List(r))
               /\ Shown(r)' = Shown(r) /\ Again(r)' = Again(r) /\ Cut(r)' = Cut(r)
               /\ \A x : Rank(r, x)' = Rank(r, x)
    <3>1. List(r)' = List(r) BY <2>1 DEF List, Listed, FindByIdAndUser, Owns
    <3>2. Ties(List(r))' = Ties(List(r)) BY <2>1, <3>1 DEF Ties
    <3>3. \A x : Above(x, List(r))' = Above(x, List(r)) BY <2>1, <3>1 DEF Above
    <3>4. \A x : Rank(r, x)' = Rank(r, x) BY <3>3 DEF Rank
    <3>5. Shown(r)' = Shown(r) /\ Again(r)' = Again(r) /\ Cut(r)' = Cut(r) BY <2>1 DEF Shown, Again, Cut
    <3>6. Paging(r)' = Paging(r) BY <2>1 DEF Paging
    <3> QED BY <3>1, <3>2, <3>4, <3>5, <3>6
  <2>4. PagesOfRanks' BY <1>0, <2>1, <2>3 DEF PagesOfRanks
  <2>5. PagersWalk' BY <1>0, <2>1 DEF PagersWalk, Paging, InFlight
  <2>6. FactsNoted'
    <3>1. \A u, c, m : Spent(u, c, m)' = Spent(u, c, m) BY <2>1 DEF Spent, FoldSet, MapThenFoldSet, Contribution
    <3>2. \A u, m : Facts(u, m)' = Facts(u, m) BY <2>1, <3>1 DEF Facts
    <3> QED BY <1>0, <2>1, <3>2 DEF FactsNoted, Watching
  <2>7. UpsertsNoted' BY <1>0, <2>1 DEF UpsertsNoted, Running, LimitFact
  <2>8. ListsNoted' BY <1>0, <2>1 DEF ListsNoted, Truthful, SpentFact, LimitFact, NoLocals, Paged
  <2> QED BY <2>2, <2>4, <2>5, <2>6, <2>7, <2>8 DEF IInv
<1>2. ASSUME NEW r \in Requests, Client(r) \/ CategoryClient(r) \/ Handler(r) \/ DbError(r)
      PROVE  IInv'
  <2>1. /\ TxKept /\ CatsKept
        /\ \/ Beginning(r) /\ UNCHANGED limits
           \/ DbError(r) /\ Answering(r) /\ UNCHANGED limits
           \/ Handler(r) /\ (Going(r) \/ Answering(r))
    BY <1>0, <1>2, Kinds
  <2>2. Others(r) /\ Observe BY <2>1 DEF Beginning, Going, Answering
  <2>3. LimitsKept /\ LimitsUnique' /\ LimitsStored'
    <3>1. CASE UNCHANGED limits BY <1>0, <3>1 DEF LimitsKept, LimitsUnique, LimitsStored, TypeOK
    <3>2. CASE Handler(r) BY <1>0, <3>2, LimitsStep
    <3> QED BY <2>1, <3>1, <3>2
  <2>4. UpdatesFound'
    <3>1. CASE Handler(r) BY <1>0, <2>2, <2>3, <3>1, FoundStep
    <3>2. CASE Beginning(r) \/ Answering(r)
      <4> SUFFICES ASSUME NEW k \in Requests, body'[k].op = "upsert", pc'[k] = "update"
                   PROVE  local'[k].limit \in LimitFor(body[k].user, body[k].row.category, body[k].row.month)'
        BY DEF UpdatesFound, Running
      <4>1. k # r BY <3>2 DEF Beginning, Answering
      <4> QED BY <1>0, <2>2, <2>3, <4>1, FoundKept
    <3> QED BY <2>1, <3>1, <3>2
  <2>5. gone' \subseteq TxIds \cup Categories /\ late' \in [Requests -> BOOLEAN] /\ GoneStamped' /\ LateNamesGone'
    BY <1>0, <2>1, GoneStep
  <2>6. TypeOK' BY <2>1, <2>2, <2>3, <2>5 DEF TypeOK, TxKept, CatsKept, LimitsKept, Others, Stops
  <2>7. PagesOfRanks' /\ PagersWalk' BY <1>0, <2>1, <2>6, PagesStep
  <2>8. FactsNoted' BY <2>2, Noting
  <2>9. UpsertsNoted' BY <1>0, <2>1, <2>2, UpsertsStep
  <2>10. ListsNoted' BY <1>0, <2>1, <2>2, ListsStep
  <2> QED BY <2>3, <2>4, <2>5, <2>6, <2>7, <2>8, <2>9, <2>10 DEF IInv
<1> QED BY <1>1, <1>2 DEF Next

\* The inductive invariant holds for any users, rows, requests and page size.
THEOREM Invariant == Spec => []IInv
BY InitInv, StepInv, PTL DEF Spec

\* No two limits share user, category and month, although upserts look before they insert.
THEOREM UniqueLimits == Spec => []LimitsUnique
<1>1. IInv => LimitsUnique BY DEF IInv
<1> QED BY Invariant, <1>1, PTL

\* Transactions and categories are changed for their owner only, and never come back from deletion.
THEOREM OnlyOwners == Spec => OwnersOnly
<1>1. IInv /\ [Next]_vars => [KeptForOwner(tx, tx') /\ KeptForOwner(cats, cats')]_vars
  <2> SUFFICES ASSUME IInv, Next PROVE KeptForOwner(tx, tx') /\ KeptForOwner(cats, cats') OBVIOUS
  <2>1. TypeOK BY DEF IInv
  <2> QED BY <2>1, Kinds DEF Next, TxKept, CatsKept
<1> QED BY Invariant, <1>1, PTL DEF Spec, OwnersOnly

\* What was acknowledged as deleted is not answered to a read or an update that began later.
THEOREM StaysDeleted == Spec => DeletedStaysDeleted
<1> DEFINE Stays == answer'.request.op \in {"getOne", "update", "updateCategory"} /\ answer'.code = "200"
                    => ~late[answer'.slot]
<1>1. IInv /\ [Next]_vars => [Stays]_vars
  <2> SUFFICES ASSUME IInv, NEW r \in Requests, Client(r) \/ CategoryClient(r) \/ Handler(r) \/ DbError(r),
                      answer'.request.op \in {"getOne", "update", "updateCategory"}, answer'.code = "200"
               PROVE  ~late[answer'.slot]
    BY DEF Next
  <2>1. TypeOK /\ GoneStamped /\ LateNamesGone BY DEF IInv
  <2>2. Beginning(r) \/ DbError(r) \/ (Handler(r) /\ (Going(r) \/ Answering(r))) BY <2>1, Kinds
  <2>3. Handler(r) /\ Answering(r) BY <2>2 DEF Beginning, Going, NoAnswer, DbError, Answer
  <2>4. answer'.slot = r /\ answer'.request = body[r] /\ pc'[r] = "done" /\ body[r] \in RequestType
    BY <2>1, <2>3 DEF Answering, TypeOK
  <2>5. SelectOne(r) \/ CategorySelect(r)
    BY <2>1, <2>3, <2>4 DEF Handler, CreateInsert, UpdateWrite, DeleteWrite, PageRows, PageCount, UpsertFind, UpsertUpdate,
         UpsertInsert, UpsertSum, ListLimits, ListSum, ListAnswer, CategoryInsert, CategoryWrite, CategoryDelete,
         CategoryList, Running, Goto, TypeOK
  <2>6. CASE SelectOne(r)
    <3>1. FindByIdAndUser(body[r].user, body[r].id) /\ body[r].op \in {"update", "getOne"}
      BY <2>6 DEF SelectOne, Running, Answer
    <3>2. body[r].id \in TxIds BY <2>4, <3>1, Bodies
    <3>3. body[r].id \notin gone BY <2>1, <3>1, <3>2 DEF GoneStamped, FindByIdAndUser
    <3> QED BY <2>1, <2>4, <3>3 DEF LateNamesGone
  <2>7. CASE CategorySelect(r)
    <3>1. FindCategory(body[r].user, body[r].id) /\ body[r].op = "updateCategory"
      BY <2>7 DEF CategorySelect, Running, Answer
    <3>2. body[r].id \in Categories BY <2>4, <3>1, Bodies
    <3>3. body[r].id \notin gone BY <2>1, <3>1, <3>2 DEF GoneStamped, FindCategory
    <3> QED BY <2>1, <2>4, <3>3 DEF LateNamesGone
  <2> QED BY <2>5, <2>6, <2>7
<1> QED BY Invariant, <1>1, PTL DEF Spec, DeletedStaysDeleted

\* The last page of a list is answered when the count promises no other.
LEMMA LastPage ==
    ASSUME IInv, NEW r \in Requests, Client(r) \/ CategoryClient(r) \/ Handler(r) \/ DbError(r),
           answer'.request.op = "pages", answer'.code = "200"
    PROVE  /\ answer'.slot = r /\ answer'.items = local[r].items /\ pc[r] = "count"
           /\ PagesHold(r) /\ PagerWalks(r)
           /\ local[r].page * PageLimit >= Cardinality(List(r))
<1>1. TypeOK /\ PagesOfRanks /\ PagersWalk BY DEF IInv
<1>2. Beginning(r) \/ DbError(r) \/ (Handler(r) /\ (Going(r) \/ Answering(r))) BY <1>1, Kinds
<1>3. Handler(r) /\ Answering(r) BY <1>2 DEF Beginning, Going, NoAnswer, DbError, Answer
<1>4. answer'.slot = r /\ answer'.request = body[r] /\ pc'[r] = "done" /\ Paging(r)
  BY <1>3 DEF Answering, Paging
<1>5. PageCount(r)
  BY <1>1, <1>3, <1>4 DEF Handler, CreateInsert, UpdateWrite, SelectOne, DeleteWrite, PageRows, UpsertFind, UpsertUpdate,
       UpsertInsert, UpsertSum, ListLimits, ListSum, ListAnswer, CategoryInsert, CategoryWrite, CategorySelect,
       CategoryDelete, CategoryList, Running, Goto, Paging, TypeOK
<1>6. pc[r] = "count" BY <1>5 DEF PageCount, Running
<1>7. local[r].page * PageLimit >= Cardinality(List(r)) /\ answer'.items = local[r].items
  BY <1>1, <1>4, <1>5 DEF PageCount, Goto, Answer, TypeOK
<1>8. PagesHold(r) /\ PagerWalks(r) BY <1>1, <1>4, OneByOne
<1> QED BY <1>4, <1>6, <1>7, <1>8

\* Pages miss no row that stayed in the list, unless a row left it meanwhile.
THEOREM NothingMissed == Spec => PagesMissNothing
<1> DEFINE Missed == answer'.request.op = "pages" /\ answer'.code = "200" =>
              LET r == answer'.slot
              IN walk[r].left \/ walk[r].stays \ walk[r].tied \subseteq local[r].seen \cup answer'.items
<1>1. IInv /\ [Next]_vars => [Missed]_vars
  <2> SUFFICES ASSUME IInv, NEW r \in Requests, Client(r) \/ CategoryClient(r) \/ Handler(r) \/ DbError(r),
                      answer'.request.op = "pages", answer'.code = "200"
               PROVE  walk[answer'.slot].left \/ walk[answer'.slot].stays \ walk[answer'.slot].tied
                                               \subseteq local[answer'.slot].seen \cup answer'.items
    BY DEF Next
  <2>1. /\ answer'.slot = r /\ answer'.items = local[r].items /\ pc[r] = "count" /\ PagesHold(r) /\ PagerWalks(r)
        /\ local[r].page * PageLimit >= Cardinality(List(r))
    BY LastPage
  <2>2. Shown(r) = local[r].seen \cup local[r].items /\ Cut(r) = local[r].page * PageLimit BY <2>1 DEF Shown, Cut
  <2>3. ASSUME NEW x \in walk[r].stays \ walk[r].tied, ~walk[r].left PROVE x \in local[r].seen \cup local[r].items
    <3>1. x \in Shown(r) \/ Rank(r, x) >= Cut(r) BY <2>1, <2>3 DEF PagesHold
    <3>2. Rank(r, x) < Cardinality(List(r))
      <4>1. x \in List(r) /\ x \notin Above(x, List(r)) /\ Above(x, List(r)) \subseteq List(r)
        <5>1. x \in List(r) BY <2>1, <2>3 DEF PagesHold
        <5>2. tx[x].amount \in Nat BY <5>1, Lists DEF IInv
        <5> QED BY <5>1, <5>2 DEF Above
      <4>2. IsFiniteSet(List(r)) BY Lists DEF IInv
      <4>3. /\ Cardinality(Above(x, List(r))) <= Cardinality(List(r))
            /\ Cardinality(Above(x, List(r))) # Cardinality(List(r))
        BY <4>1, <4>2, FS_Subset
      <4>4. Cardinality(Above(x, List(r))) \in Nat /\ Cardinality(List(r)) \in Nat
        BY <4>1, <4>2, FS_Subset, FS_CardinalityType
      <4> QED BY <4>3, <4>4 DEF Rank
    <3>3. Rank(r, x) \in Nat /\ Cardinality(List(r)) \in Nat /\ Cut(r) \in Nat
      BY <2>1, Lists, Cuts, FS_CardinalityType DEF IInv
    <3> QED BY <2>1, <2>2, <3>1, <3>2, <3>3
  <2> QED BY <2>1, <2>3
<1> QED BY Invariant, <1>1, PTL DEF Spec, PagesMissNothing

\* Pages repeat no row that stayed in the list, unless a row arrived meanwhile.
THEOREM NothingRepeated == Spec => PagesRepeatNothing
<1> DEFINE Repeated == answer'.request.op = "pages" /\ answer'.code = "200" =>
              LET r == answer'.slot
                  again == local[r].again \cup (local[r].seen \cap answer'.items)
              IN walk[r].joined \/ again \cap walk[r].stays \subseteq walk[r].tied
<1>1. IInv /\ [Next]_vars => [Repeated]_vars
  <2> SUFFICES ASSUME IInv, NEW r \in Requests, Client(r) \/ CategoryClient(r) \/ Handler(r) \/ DbError(r),
                      answer'.request.op = "pages", answer'.code = "200"
               PROVE  \/ walk[answer'.slot].joined
                      \/ (local[answer'.slot].again \cup (local[answer'.slot].seen \cap answer'.items))
                            \cap walk[answer'.slot].stays \subseteq walk[answer'.slot].tied
    BY DEF Next
  <2>1. answer'.slot = r /\ answer'.items = local[r].items /\ pc[r] = "count" /\ PagesHold(r) BY LastPage
  <2>2. Again(r) = local[r].again \cup (local[r].seen \cap local[r].items) BY <2>1 DEF Again
  <2>3. walk[r].joined \/ Again(r) \cap walk[r].stays \subseteq walk[r].tied BY <2>1 DEF PagesHold
  <2> QED BY <2>1, <2>2, <2>3
<1> QED BY Invariant, <1>1, PTL DEF Spec, PagesRepeatNothing

\* Each amount spent and each limit that a list or an upsert reports was true at a moment of
\* the request, although other requests ran between its statements; no category is told twice.
THEOREM ToldTrue == Spec => ToldTheTruth
<1> DEFINE Told == answer'.request.op \in {"list", "upsert"} => Truthful(answer'.items, truths[answer'.slot])
<1>1. IInv /\ [Next]_vars => [Told]_vars
  <2> SUFFICES ASSUME IInv, NEW r \in Requests, Client(r) \/ CategoryClient(r) \/ Handler(r) \/ DbError(r),
                      answer'.request.op \in {"list", "upsert"}
               PROVE  Truthful(answer'.items, truths[answer'.slot])
    BY DEF Next
  <2>0. TypeOK /\ FactsNoted /\ UpsertsNoted /\ ListsNoted BY DEF IInv
  <2>1. Beginning(r) \/ (DbError(r) /\ Answering(r)) \/ (Handler(r) /\ (Going(r) \/ Answering(r))) BY <2>0, Kinds
  <2>2. Answering(r) BY <2>1 DEF Beginning, Going, NoAnswer, NoRequest, Request
  <2>3. answer'.slot = r /\ pc'[r] = "done" /\ body[r].op \in {"list", "upsert"} /\ Watching(r) /\ body[r] \in RequestType
    BY <2>0, <2>2 DEF Answering, Watching, TypeOK
  <2>4. CASE answer'.items = {} BY <2>4 DEF Truthful
  <2>5. UpsertSum(r) \/ ListAnswer(r) \/ answer'.items = {}
    <3>1. CASE DbError(r) BY <3>1 DEF DbError, Answer
    <3>2. CASE Handler(r)
      <4>1. \/ UpsertFind(r) \/ UpsertUpdate(r) \/ UpsertInsert(r) \/ UpsertSum(r)
            \/ ListLimits(r) \/ ListSum(r) \/ ListAnswer(r)
        BY <2>3, <3>2 DEF Handler, CreateInsert, UpdateWrite, SelectOne, DeleteWrite, PageRows, PageCount, CategoryInsert,
             CategoryWrite, CategorySelect, CategoryDelete, CategoryList, Running
      <4>2. ~UpsertFind(r) /\ ~UpsertUpdate(r) /\ ~ListLimits(r)
        BY <2>0, <2>3 DEF UpsertFind, UpsertUpdate, ListLimits, Goto, TypeOK
      <4>3. ~ListSum(r) BY <2>3 DEF ListSum, Running, Keeping
      <4>4. UpsertInsert(r) => answer'.items = {}
        BY <2>0, <2>3 DEF UpsertInsert, Goto, Answer, TypeOK
      <4> QED BY <4>1, <4>2, <4>3, <4>4
    <3> QED BY <2>1, <2>2, <3>1, <3>2 DEF Beginning, Answering
  <2>6. CASE UpsertSum(r)
    <3> DEFINE b == body[r].row
    <3>1. /\ body[r].op = "upsert" /\ b.category \in Categories
          /\ LimitFact(b.category, b.amount) \in truths[r]
      BY <2>0, <2>3, <2>6, Bodies DEF UpsertSum, UpsertsNoted, Running
    <3>2. PICK item \in Items(b.category, b.amount, SumOf(body[r].user, b.category, b.month)) : answer'.items = {item}
      BY <2>6 DEF UpsertSum, Answer
    <3>3. /\ item.category = b.category /\ item.limit = b.amount
          /\ item.spent = SumOf(body[r].user, b.category, b.month)
      BY ItemSays
    <3>4. SpentFact(item.category, item.spent) \in truths[r] BY <2>0, <2>3, <3>1, <3>3, SumNoted
    <3>5. LimitFact(item.category, item.limit) \in truths[r] BY <3>1, <3>3
    <3> QED BY <2>3, <3>2, <3>4, <3>5 DEF Truthful
  <2>7. CASE ListAnswer(r)
    <3>1. answer'.items = local[r].items /\ body[r].op = "list" BY <2>7 DEF ListAnswer, Answer, Running
    <3> QED BY <2>0, <2>3, <3>1 DEF ListsNoted
  <2> QED BY <2>4, <2>5, <2>6, <2>7
<1> QED BY Invariant, <1>1, PTL DEF Spec, ToldTheTruth
=============================================================================
