--------------------------- MODULE ListingsProofs ---------------------------
(***************************************************************************)
(* Proofs about the two paginated listings of Listings.tla, for any finite *)
(* number of items, any ranks, with and without ties, and any page sizes.  *)
(***************************************************************************)
EXTENDS Listings, FiniteSetTheorems, TLAPS

-----------------------------------------------------------------------------
(***************************************************************************)
(* Pages.                                                                  *)
(***************************************************************************)

LEMMA Product ==
  ASSUME NEW a \in Nat, NEW b \in Nat, NEW c \in Nat
  PROVE  /\ a * c \in Nat
         /\ (a + 1) * c = a * c + c
         /\ a <= b => a * c <= b * c
  OBVIOUS

(* A page has a positive size and begins where the one before it ends.     *)
LEMMA PageBounds ==
  ASSUME ListingsTypeOK
  PROVE  /\ PageSize \in Nat \ {0}
         /\ Offset \in Nat
         /\ page * PageSize = Offset + PageSize
         /\ \A p \in Nat : p < page => p * PageSize <= Offset
  <1>1. PageSize \in Nat \ {0}
    BY ListingsAssumption DEF ListingsTypeOK, PageSize
  <1>2. page - 1 \in Nat /\ page = (page - 1) + 1
    BY DEF ListingsTypeOK
  <1> HIDE DEF PageSize
  <1>3. (page - 1) * PageSize \in Nat
    BY <1>1, <1>2, Product
  <1>4. ((page - 1) + 1) * PageSize = (page - 1) * PageSize + PageSize
    BY <1>1, <1>2, Product
  <1>5. ASSUME NEW p \in Nat, p < page PROVE p * PageSize <= (page - 1) * PageSize
    <2>1. p <= page - 1
      BY <1>2, <1>5
    <2> QED
      BY <1>1, <1>2, <2>1, Product
  <1> QED
    BY <1>1, <1>2, <1>3, <1>4, <1>5 DEF Offset

-----------------------------------------------------------------------------
(***************************************************************************)
(* Positions.                                                              *)
(***************************************************************************)

(* The items of smaller rank are finitely many.                            *)
LEMMA BeforeType ==
  ASSUME ListingsTypeOK, NEW i
  PROVE  /\ IsFiniteSet(listed) /\ Cardinality(listed) \in Nat
         /\ IsFiniteSet({j \in listed : rank[j] < rank[i]}) /\ Before(i) \in Nat
         /\ IsFiniteSet(Equal(i)) /\ Cardinality(Equal(i)) \in Nat
  <1>1. IsFiniteSet(listed)
    BY ListingsAssumption, FS_Subset DEF ListingsTypeOK
  <1>2. IsFiniteSet({j \in listed : rank[j] < rank[i]}) /\ IsFiniteSet(Equal(i))
    BY <1>1, FS_Subset DEF Equal
  <1> QED
    BY <1>1, <1>2, FS_CardinalityType DEF Before

(* A group of equal items comes before every item of larger rank, and      *)
(* there is room for it in the list.                                       *)
LEMMA GroupsApart ==
  ASSUME ListingsTypeOK, NEW i \in listed
  PROVE  /\ Before(i) + Cardinality(Equal(i)) <= Cardinality(listed)
         /\ Cardinality(Equal(i)) >= 1
         /\ \A j \in Items : rank[i] < rank[j] =>
              Before(i) + Cardinality(Equal(i)) <= Before(j)
  <1> DEFINE low(k) == {j \in listed : rank[j] < rank[k]}
             upto == low(i) \cup Equal(i)
  <1>1. \A j \in Items : rank[j] \in Int
    BY ListingsAssumption DEF ListingsTypeOK
  <1>2. /\ IsFiniteSet(low(i)) /\ IsFiniteSet(Equal(i)) /\ IsFiniteSet(listed)
        /\ Before(i) \in Nat /\ Cardinality(Equal(i)) \in Nat
        /\ Cardinality(listed) \in Nat
    BY BeforeType
  <1>3. low(i) \cap Equal(i) = {}
    BY <1>1 DEF Equal, ListingsTypeOK
  <1>4. IsFiniteSet(upto) /\ Cardinality(upto) = Before(i) + Cardinality(Equal(i))
    <2>1. Cardinality(low(i) \cap Equal(i)) = 0
      BY <1>3, FS_EmptySet
    <2>2. Before(i) = Cardinality(low(i))
      BY DEF Before
    <2> HIDE DEF low
    <2>3. /\ IsFiniteSet(upto)
          /\ Cardinality(upto) = Cardinality(low(i)) + Cardinality(Equal(i))
                                   - Cardinality(low(i) \cap Equal(i))
      BY <1>2, FS_Union
    <2> HIDE DEF upto
    <2> QED
      BY <1>2, <2>1, <2>2, <2>3
  <1>5. Cardinality(upto) <= Cardinality(listed)
    <2>1. upto \subseteq listed
      BY DEF Equal
    <2> HIDE DEF upto
    <2> QED
      BY <1>2, <2>1, FS_Subset
  <1>6. Cardinality(Equal(i)) >= 1
    <2>1. i \in Equal(i)
      BY DEF Equal
    <2>2. Cardinality(Equal(i)) # 0
      BY <1>2, <2>1, FS_EmptySet
    <2> QED
      BY <1>2, <2>2
  <1>7. ASSUME NEW j \in Items, rank[i] < rank[j]
        PROVE  Before(i) + Cardinality(Equal(i)) <= Before(j)
    <2>1. upto \subseteq low(j)
      BY <1>1, <1>7 DEF Equal, ListingsTypeOK
    <2>2. IsFiniteSet(low(j)) /\ Before(j) = Cardinality(low(j))
      BY BeforeType DEF Before
    <2> HIDE DEF upto, low
    <2> QED
      BY <1>4, <2>1, <2>2, FS_Subset
  <1> QED
    BY <1>4, <1>5, <1>6, <1>7

(* Positions are positions of the list, and those of a smaller rank come   *)
(* first.                                                                  *)
LEMMA PositionsApart ==
  ASSUME ListingsTypeOK, NEW i \in listed
  PROVE  /\ Positions(i) \subseteq 1..Cardinality(listed)
         /\ Cardinality(Positions(i)) = Cardinality(Equal(i))
         /\ \A j \in Items : rank[i] < rank[j] =>
              \A k \in Positions(i), l \in Positions(j) : k < l
  <1>1. /\ Before(i) \in Nat /\ Cardinality(Equal(i)) \in Nat
        /\ Cardinality(listed) \in Nat
        /\ Before(i) + Cardinality(Equal(i)) <= Cardinality(listed)
    BY BeforeType, GroupsApart
  <1>2. Cardinality(Positions(i)) = Cardinality(Equal(i))
    <2>1. /\ Before(i) + 1 \in Int /\ Before(i) + Cardinality(Equal(i)) \in Int
          /\ Cardinality(Equal(i)) >= 1
      BY <1>1, GroupsApart
    <2> DEFINE a == Before(i) + 1
               b == Before(i) + Cardinality(Equal(i))
    <2>2. a <= b /\ b - a + 1 = Cardinality(Equal(i)) /\ a \in Int /\ b \in Int
      BY <1>1, <2>1
    <2> HIDE DEF a, b
    <2>3. Cardinality(a..b) = b - a + 1
      BY <2>2, FS_Interval
    <2> QED
      BY <2>2, <2>3 DEF Positions, a, b
  <1>3. ASSUME NEW j \in Items, rank[i] < rank[j],
               NEW k \in Positions(i), NEW l \in Positions(j)
        PROVE  k < l
    <2>1. Before(j) \in Nat /\ Cardinality(Equal(j)) \in Nat
      BY BeforeType
    <2>2. Before(i) + Cardinality(Equal(i)) <= Before(j)
      BY <1>3, GroupsApart
    <2> QED
      BY <1>1, <2>1, <2>2 DEF Positions
  <1> QED
    BY <1>1, <1>2, <1>3 DEF Positions

(* S has as many items of each group as the group has positions in W.      *)
Fits(S, W) ==
  \A i \in listed : Cardinality(S \cap Equal(i)) = Cardinality(Positions(i) \cap W)

(* f gives each item of S a position of its own in W, and leaves out none. *)
Places(f, S, W) ==
  /\ f \in Injection(S, (1..Cardinality(listed)) \cap W)
  /\ \A x \in S : f[x] \in Positions(x)
  /\ \A i \in listed : \A k \in Positions(i) \cap W : \E x \in S : f[x] = k

(* What fits can be placed. *)
LEMMA Placed ==
  ASSUME ListingsTypeOK, NEW W, IsFiniteSet(W), NEW S \in SUBSET listed, Fits(S, W)
  PROVE  \E f : Places(f, S, W)
  <1> DEFINE low(v) == {j \in listed : rank[j] < v}
             group(v) == {j \in listed : rank[j] = v}
             places(v) == Cardinality(low(v)) + 1 ..
                            Cardinality(low(v)) + Cardinality(group(v))
             g(v) == CHOOSE h : h \in Bijection(S \cap group(v), places(v) \cap W)
             f == [x \in S |-> g(rank[x])[x]]
  <1>1. ASSUME NEW i \in listed
        PROVE  g(rank[i]) \in Bijection(S \cap Equal(i), Positions(i) \cap W)
    <2>1. group(rank[i]) = Equal(i) /\ places(rank[i]) = Positions(i)
      BY DEF Equal, Before, Positions
    <2>2. IsFiniteSet(S \cap Equal(i)) /\ IsFiniteSet(Positions(i) \cap W)
      <3>1. IsFiniteSet(Equal(i))
        BY BeforeType
      <3> QED
        BY <3>1, FS_Intersection
    <2>3. ExistsBijection(S \cap Equal(i), Positions(i) \cap W)
      BY <2>2, FS_SameCardinalityBij DEF Fits
    <2>4. \E h : h \in Bijection(S \cap group(rank[i]), places(rank[i]) \cap W)
      BY <2>1, <2>3 DEF ExistsBijection
    <2> HIDE DEF group, places
    <2>5. g(rank[i]) \in Bijection(S \cap group(rank[i]), places(rank[i]) \cap W)
      BY <2>4
    <2> QED
      BY <2>1, <2>5
  <1> HIDE DEF g
  <1>2. ASSUME NEW x \in S
        PROVE  x \in S \cap Equal(x) /\ f[x] = g(rank[x])[x]
               /\ f[x] \in Positions(x) \cap W
    <2>1. x \in S \cap Equal(x)
      BY DEF Equal
    <2> QED
      BY <1>1, <2>1 DEF Bijection, Injection
  <1>3. ASSUME NEW i \in listed
        PROVE  Positions(i) \subseteq 1..Cardinality(listed)
    BY PositionsApart
  <1>4. ASSUME NEW x \in S, NEW y \in S, f[x] = f[y] PROVE x = y
    <2>0. /\ rank[x] \in Int /\ rank[y] \in Int /\ x \in Items /\ y \in Items
          /\ x \in listed /\ y \in listed
      BY ListingsAssumption DEF ListingsTypeOK
    <2>1. CASE rank[x] = rank[y]
      <3>1. Equal(x) = Equal(y)
        BY <2>1 DEF Equal
      <3>2. x \in S \cap Equal(x) /\ y \in S \cap Equal(x)
        BY <1>2, <3>1
      <3>3. g(rank[x])[x] = g(rank[x])[y]
        BY <1>2, <1>4, <2>1
      <3> QED
        BY <1>1, <2>0, <3>2, <3>3 DEF Bijection, Injection, IsInjective
    <2>2. ASSUME NEW i \in S, NEW j \in S, rank[i] < rank[j], f[i] = f[j] PROVE FALSE
      <3>1. /\ f[i] \in Positions(i) /\ f[j] \in Positions(j)
            /\ i \in listed /\ j \in Items
        BY <1>2 DEF ListingsTypeOK
      <3>2. f[i] < f[j] /\ f[i] \in Int
        BY <1>3, <2>2, <3>1, PositionsApart
      <3> QED
        BY <2>2, <3>2
    <2> QED
      BY <1>4, <2>0, <2>1, <2>2
  <1>5. f \in Injection(S, (1..Cardinality(listed)) \cap W)
    <2>1. f \in [S -> (1..Cardinality(listed)) \cap W]
      BY <1>2, <1>3
    <2>2. \A x, y \in S : f[x] = f[y] => x = y
      BY <1>4
    <2> HIDE DEF f
    <2> QED
      BY <2>1, <2>2 DEF Injection, IsInjective
  <1>6. ASSUME NEW i \in listed, NEW k \in Positions(i) \cap W
        PROVE  \E x \in S : f[x] = k
    <2>1. PICK x \in S \cap Equal(i) : g(rank[i])[x] = k
      BY <1>1 DEF Bijection, Surjection
    <2>2. rank[x] = rank[i]
      BY DEF Equal
    <2> QED
      BY <1>2, <2>1, <2>2
  <1>7. \A x \in S : f[x] \in Positions(x)
    BY <1>2
  <1> HIDE DEF f
  <1>8. Places(f, S, W)
    BY <1>5, <1>6, <1>7 DEF Places
  <1> QED
    BY <1>8

(* Every position of the list is one of some item.                         *)
LEMMA PositionsCovered ==
  ASSUME ListingsTypeOK, NEW k \in 1..Cardinality(listed)
  PROVE  \E i \in listed : k \in Positions(i)
  <1> DEFINE N == Cardinality(listed)
             W == 1..N
  <1>1. IsFiniteSet(listed) /\ N \in Nat
    BY BeforeType
  <1>2. IsFiniteSet(W) /\ Cardinality(W) = N
    BY <1>1, FS_Interval
  <1>3. ASSUME NEW i \in listed
        PROVE  Cardinality(listed \cap Equal(i)) = Cardinality(Positions(i) \cap W)
    <2>1. Positions(i) \cap W = Positions(i)
      BY PositionsApart
    <2>2. listed \cap Equal(i) = Equal(i)
      BY DEF Equal
    <2> QED
      BY <2>1, <2>2, PositionsApart
  <1>f. Fits(listed, W)
    BY <1>3 DEF Fits
  <1> HIDE DEF W
  <1>4. PICK f : Places(f, listed, W)
    BY <1>2, <1>f, Placed
  <1>5. (1..N) \cap W = W
    BY DEF W
  <1>6. f \in Surjection(listed, W)
    BY <1>1, <1>2, <1>4, <1>5, FS_Injection DEF Places
  <1>7. PICK x \in listed : f[x] = k
    BY <1>6 DEF Surjection, W
  <1> QED
    BY <1>4, <1>7 DEF Places

-----------------------------------------------------------------------------
(***************************************************************************)
(* What LIMIT and OFFSET select.                                           *)
(***************************************************************************)

(* A slice has a row for each of its positions in the list, ties or not.   *)
LEMMA SliceSize ==
  ASSUME ListingsTypeOK, NEW size \in Nat, NEW S \in Slices(size)
  PROVE  /\ IsFiniteSet(S)
         /\ Cardinality(S) =
              Cardinality((1..Cardinality(listed)) \cap (Offset + 1 .. Offset + size))
  <1> DEFINE W == Offset + 1 .. Offset + size
             T == (1..Cardinality(listed)) \cap W
  <1>1. IsFiniteSet(W) /\ IsFiniteSet(T)
    <2>1. IsFiniteSet(W)
      BY PageBounds, FS_Interval
    <2> HIDE DEF W
    <2> QED
      BY <2>1, FS_Intersection
  <1>2. S \in SUBSET listed
    BY DEF Slices
  <1>f. Fits(S, W)
    BY DEF Slices, Fits
  <1> HIDE DEF W
  <1>3. PICK f : Places(f, S, W)
    BY <1>1, <1>2, <1>f, Placed
  <1>i. f \in Injection(S, T)
    BY <1>3 DEF Places
  <1>4. f \in Surjection(S, T)
    <2>1. ASSUME NEW k \in T PROVE \E x \in S : f[x] = k
      BY <1>3, PositionsCovered DEF Places
    <2> QED
      BY <1>i, <2>1 DEF Injection, Surjection
  <1> HIDE DEF T
  <1>5. IsFiniteSet(S) /\ Cardinality(S) = Cardinality(T)
    BY <1>1, <1>i, <1>4, FS_Injection
  <1> QED
    BY <1>5 DEF T, W

(* How many positions of a list of n a page has.                           *)
LEMMA WindowSize ==
  ASSUME NEW n \in Nat, NEW offset \in Nat, NEW size \in Nat
  PROVE  Cardinality((1..n) \cap (offset + 1 .. offset + size)) =
           IF n <= offset THEN 0 ELSE IF n - offset < size THEN n - offset ELSE size
  <1> DEFINE last == IF n <= offset + size THEN n ELSE offset + size
  <1>1. (1..n) \cap (offset + 1 .. offset + size) = offset + 1 .. last
    OBVIOUS
  <1>2. last \in Int /\ offset + 1 \in Int
    OBVIOUS
  <1>3. Cardinality(offset + 1 .. last)
          = IF offset + 1 > last THEN 0 ELSE last - (offset + 1) + 1
    <2> DEFINE first == offset + 1
    <2>1. first \in Int /\ last \in Int
      BY <1>2
    <2> HIDE DEF first, last
    <2>2. Cardinality(first .. last) = IF first > last THEN 0 ELSE last - first + 1
      BY <2>1, FS_Interval
    <2> QED
      BY <2>2 DEF first
  <1>4. (IF offset + 1 > last THEN 0 ELSE last - (offset + 1) + 1)
          = IF n <= offset THEN 0 ELSE IF n - offset < size THEN n - offset ELSE size
    OBVIOUS
  <1> QED
    BY <1>1, <1>3, <1>4

(* An item that shares its rank with no other is in a slice exactly if its *)
(* position is.                                                            *)
LEMMA SliceOfUntied ==
  ASSUME ListingsTypeOK, NEW size \in Nat, NEW S \in Slices(size),
         NEW i \in listed, Untied(i)
  PROVE  i \in S <=> Offset <= Before(i) /\ Before(i) < Offset + size
  <1> DEFINE W == Offset + 1 .. Offset + size
  <1>1. Equal(i) = {i}
    BY DEF Equal, Untied, ListingsTypeOK
  <1>2. Before(i) \in Nat /\ Offset \in Nat
    BY BeforeType, PageBounds
  <1>3. Positions(i) = {Before(i) + 1}
    <2>1. Cardinality(Equal(i)) = 1
      BY <1>1, FS_Singleton
    <2> QED
      BY <1>2, <2>1 DEF Positions
  <1>4. Cardinality(S \cap {i}) = Cardinality({Before(i) + 1} \cap W)
    BY <1>1, <1>3 DEF Slices
  <1>5. ASSUME NEW x, NEW A
        PROVE  /\ x \in A => Cardinality({x} \cap A) = 1
               /\ x \notin A => Cardinality({x} \cap A) = 0
    <2>1. x \in A => {x} \cap A = {x}
      OBVIOUS
    <2>2. x \notin A => {x} \cap A = {}
      OBVIOUS
    <2> QED
      BY <2>1, <2>2, FS_Singleton, FS_EmptySet
  <1>6. i \in S <=> Before(i) + 1 \in W
    <2>1. S \cap {i} = {i} \cap S
      OBVIOUS
    <2> HIDE DEF W
    <2> QED
      BY <1>4, <1>5, <2>1
  <1> QED
    BY <1>2, <1>6

-----------------------------------------------------------------------------
(***************************************************************************)
(* Steps.                                                                  *)
(***************************************************************************)

(* What a page that is answered adds to those before it.                   *)
LEMMA AnswerEffect ==
  ASSUME ListingsTypeOK, NEW S \in Slices(PageSize), Answer(S)
  PROVE  /\ S \in SUBSET listed
         /\ pages' \in Seq(SUBSET Items)
         /\ DOMAIN pages = 1 .. page - 1 /\ DOMAIN pages' = 1..page
         /\ pages'[page] = S /\ \A p \in 1 .. page - 1 : pages'[p] = pages[p]
         /\ Len(pages') = page
         /\ Seen' = Seen \cup S
         /\ PageSize' = PageSize
         /\ stage' = "count" => /\ page' = page + 1 /\ page * PageSize < total
                                /\ Offset' = Offset + PageSize
         /\ stage' # "count" => stage' = "done" /\ page' = page /\ total <= Offset + PageSize
  <1>1. S \in SUBSET listed /\ S \in SUBSET Items
    BY DEF Slices, ListingsTypeOK
  <1>2. Len(pages) = page - 1 /\ pages' = Append(pages, S) /\ page \in Nat \ {0}
        /\ pages \in Seq(SUBSET Items)
    BY DEF Answer, ListingsTypeOK
  <1>3. /\ pages' \in Seq(SUBSET Items) /\ Len(pages') = page
        /\ DOMAIN pages = 1 .. page - 1 /\ DOMAIN pages' = 1..page
        /\ pages'[page] = S /\ \A p \in 1 .. page - 1 : pages'[p] = pages[p]
    BY <1>1, <1>2
  <1>4. Seen' = Seen \cup S
    <2>1. \A x : x \in Seen <=> \E p \in 1 .. page - 1 : x \in pages[p]
      BY <1>3 DEF Seen, ToSet
    <2>2. \A x : x \in Seen' <=> \E p \in 1..page : x \in pages'[p]
      BY <1>3 DEF Seen, ToSet
    <2>3. 1..page = (1 .. page - 1) \cup {page}
      BY <1>2
    <2> HIDE DEF Seen
    <2>4. \A x : x \in Seen' <=> x \in Seen \/ x \in S
      BY <1>3, <2>1, <2>2, <2>3
    <2> QED
      BY <2>4
  <1>5. PageSize' = PageSize
    BY DEF Answer, PageSize
  <1>6. /\ page * PageSize = Offset + PageSize /\ PageSize \in Nat /\ Offset \in Nat
        /\ total \in Nat
    BY PageBounds DEF ListingsTypeOK
  <1>7. ASSUME stage' = "count"
        PROVE  page' = page + 1 /\ page * PageSize < total /\ Offset' = Offset + PageSize
    <2>1. page' = page + 1 /\ page * PageSize < total
      BY <1>7 DEF Answer
    <2>2. page' - 1 = page
      BY <1>2, <2>1
    <2>3. Offset' = page * PageSize
      BY <1>5, <2>2 DEF Offset
    <2> QED
      BY <1>6, <2>1, <2>3
  <1>8. ASSUME stage' # "count"
        PROVE  stage' = "done" /\ page' = page /\ total <= Offset + PageSize
    BY <1>6, <1>8 DEF Answer
  <1> QED
    BY <1>1, <1>3, <1>4, <1>5, <1>7, <1>8

(* All other steps leave the pages as they are.                            *)
LEMMA OtherEffect ==
  ASSUME Count \/ Fail \/ EventsBegin \/ TicketJoins \/ UNCHANGED vars
  PROVE  /\ UNCHANGED <<pages, page, rank, listing, perPage, Seen, Offset, PageSize>>
         /\ stage' = "done" <=> stage = "done"
         /\ stage' = "select" => stage = "select" \/ Count
         /\ listed' = listed \/ (EventsBegin \/ TicketJoins)
         /\ start' = start \/ (Count /\ pages = <<>> /\ start' = listed)
  <1>1. UNCHANGED <<pages, page, rank, listing, perPage>>
    BY DEF Count, Fail, EventsBegin, TicketJoins, vars
  <1>2. UNCHANGED <<Seen, PageSize>>
    BY <1>1 DEF Seen, PageSize
  <1>3. UNCHANGED Offset
    BY <1>1, <1>2 DEF Offset
  <1> QED
    BY <1>1, <1>2, <1>3 DEF Count, Fail, EventsBegin, TicketJoins, vars

(* Types.                                                                  *)
LEMMA ListingsTypeNext == ListingsTypeOK /\ [Next]_vars => ListingsTypeOK'
  <1> SUFFICES ASSUME ListingsTypeOK, [Next]_vars PROVE ListingsTypeOK'
    OBVIOUS
  <1>1. CASE Select
    <2> PICK S \in Slices(PageSize) : Answer(S)
      BY <1>1 DEF Select
    <2>1. /\ UNCHANGED <<listing, rank, listed, perPage, total, start, split>>
          /\ stage = "select"
      BY DEF Answer
    <2>2. pages' \in Seq(SUBSET Items) /\ Len(pages') = page
      BY AnswerEffect
    <2>3. \/ stage' = "count" /\ page' = page + 1
          \/ stage' = "done" /\ page' = page
      BY AnswerEffect
    <2> QED
      BY <2>1, <2>2, <2>3 DEF ListingsTypeOK
  <1>2. CASE Count
    <2>1. Cardinality(listed) \in Nat
      BY BeforeType
    <2> QED
      BY <1>2, <2>1 DEF Count, ListingsTypeOK
  <1>3. CASE Fail \/ EventsBegin \/ TicketJoins \/ UNCHANGED vars
    BY <1>3 DEF Fail, EventsBegin, TicketJoins, vars, ListingsTypeOK
  <1> QED
    BY <1>1, <1>2, <1>3 DEF Next

(* An item moves to the front when events begin and back when tickets      *)
(* join.                                                                   *)
LEMMA Moves ==
  ASSUME ListingsTypeOK, [Next]_vars, NEW i
  PROVE  /\ listing = "events" => listed' \subseteq listed /\ Before(i)' <= Before(i)
         /\ listing = "tickets" => listed \subseteq listed' /\ Before(i) <= Before(i)'
         /\ Before(i)' \in Nat /\ Before(i) \in Nat
         /\ IsFiniteSet(listed')
         /\ rank' = rank /\ listing' = listing
  <1>1. rank' = rank /\ listing' = listing
    BY DEF Next, Select, Answer, Count, Fail, EventsBegin, TicketJoins, vars
  <1>2. /\ listing = "events" => listed' \subseteq listed
        /\ listing = "tickets" => listed \subseteq listed'
    BY DEF Next, Select, Answer, Count, Fail, EventsBegin, TicketJoins, vars
  <1>3. IsFiniteSet(listed')
    BY ListingsTypeNext, ListingsAssumption, FS_Subset DEF ListingsTypeOK
  <1> DEFINE low == {j \in listed : rank[j] < rank[i]}
             lowNext == {j \in listed' : rank[j] < rank[i]}
  <1>4. IsFiniteSet(low) /\ IsFiniteSet(lowNext)
    BY <1>3, BeforeType, FS_Subset
  <1>5. Before(i) = Cardinality(low) /\ Before(i)' = Cardinality(lowNext)
    BY <1>1 DEF Before
  <1>6. Before(i)' \in Nat /\ Before(i) \in Nat
    BY <1>4, <1>5, FS_CardinalityType
  <1>7. ASSUME listed' \subseteq listed PROVE Before(i)' <= Before(i)
    BY <1>4, <1>5, <1>7, FS_Subset
  <1>8. ASSUME listed \subseteq listed' PROVE Before(i) <= Before(i)'
    BY <1>4, <1>5, <1>8, FS_Subset
  <1> QED
    BY <1>1, <1>2, <1>3, <1>6, <1>7, <1>8

-----------------------------------------------------------------------------
(***************************************************************************)
(* The parts of the invariant.                                             *)
(***************************************************************************)

(* A COUNT goes stale in one direction only.                               *)
LEMMA CountsStaleNext ==
  ASSUME ListingsTypeOK, CountsStale, [Next]_vars
  PROVE  CountsStale'
  <1>0. /\ IsFiniteSet(listed) /\ IsFiniteSet(listed') /\ listing' = listing
        /\ listing = "events" => listed' \subseteq listed
        /\ listing = "tickets" => listed \subseteq listed'
    BY BeforeType, Moves
  <1>n. /\ Cardinality(listed) \in Nat /\ Cardinality(listed') \in Nat
        /\ total \in Nat /\ listing \in {"events", "tickets"}
    BY <1>0, FS_CardinalityType DEF ListingsTypeOK
  <1>c. /\ listing = "events" => Cardinality(listed') <= Cardinality(listed)
        /\ listing = "tickets" => Cardinality(listed) <= Cardinality(listed')
    BY <1>0, FS_Subset
  <1>1. CASE Count
    <2>1. /\ listed' = listed /\ total' = Cardinality(listed) /\ pages' = pages
          /\ start' = IF pages = <<>> THEN listed ELSE start
      BY <1>1 DEF Count
    <2>2. listing = "tickets" => start' \subseteq listed'
      BY <2>1 DEF CountsStale
    <2>3. listing = "events" => listed' \subseteq start'
      BY <2>1 DEF CountsStale
    <2> QED
      BY <1>0, <1>n, <2>1, <2>2, <2>3 DEF CountsStale
  <1>2. CASE Select
    <2> PICK S \in Slices(PageSize) : Answer(S)
      BY <1>2 DEF Select
    <2>1. UNCHANGED <<listed, start>> /\ stage = "select" /\ stage' # "select"
      BY DEF Answer
    <2> QED
      BY <1>0, <2>1 DEF CountsStale
  <1>3. CASE Fail \/ UNCHANGED vars
    BY <1>3 DEF Fail, vars, CountsStale
  <1>4. CASE EventsBegin
    <2>1. UNCHANGED <<stage, pages, start, total>> /\ listing = "events"
      BY <1>4 DEF EventsBegin
    <2> QED
      BY <1>0, <1>c, <1>n, <2>1 DEF CountsStale
  <1>5. CASE TicketJoins
    <2>1. /\ UNCHANGED <<stage, pages, start, total>> /\ listing = "tickets"
          /\ stage = "select" => split'
      BY <1>5 DEF TicketJoins
    <2> QED
      BY <1>0, <1>c, <1>n, <2>1 DEF CountsStale
  <1> QED
    BY <1>1, <1>2, <1>3, <1>4, <1>5 DEF Next

(* Events that were shown only move to the front.                          *)
LEMMA ShownStaysBehindNext ==
  ASSUME ListingsTypeOK, ShownStaysBehind, [Next]_vars
  PROVE  ShownStaysBehind'
  <1> SUFFICES ASSUME listing = "events", NEW p \in DOMAIN pages',
                      NEW i \in pages'[p] \cap listed', Untied(i)
               PROVE  Before(i)' < p * PageSize'
    <2>1. listing' = listing /\ rank' = rank
      BY Moves
    <2> QED
      BY <2>1 DEF ShownStaysBehind, Untied
  <1>1. /\ i \in listed /\ Before(i)' <= Before(i)
        /\ Before(i) \in Nat /\ Before(i)' \in Nat
    BY Moves
  <1>2. CASE Select
    <2> PICK S \in Slices(PageSize) : Answer(S)
      BY <1>2 DEF Select
    <2>1. /\ p \in 1..page /\ PageSize' = PageSize /\ DOMAIN pages = 1 .. page - 1
          /\ p \in 1 .. page - 1 => pages'[p] = pages[p]
          /\ pages'[page] = S
      BY AnswerEffect
    <2>2. page * PageSize = Offset + PageSize /\ PageSize \in Nat /\ Offset \in Nat
          /\ page \in Nat /\ p \in Nat
      BY <2>1, PageBounds DEF ListingsTypeOK
    <2>3. CASE p = page
      <3>1. i \in S
        BY <2>1, <2>3
      <3>2. Before(i) < Offset + PageSize
        BY <1>1, <2>2, <3>1, SliceOfUntied
      <3> QED
        BY <1>1, <2>1, <2>2, <2>3, <3>2
    <2>4. CASE p # page
      <3>1. p \in DOMAIN pages /\ i \in pages[p] \cap listed
        BY <1>1, <2>1, <2>2, <2>4
      <3>2. Before(i) < p * PageSize /\ p * PageSize \in Nat
        BY <2>2, <3>1, Product DEF ShownStaysBehind
      <3> QED
        BY <1>1, <2>1, <3>2
    <2> QED
      BY <2>3, <2>4
  <1>3. CASE Count \/ Fail \/ EventsBegin \/ TicketJoins \/ UNCHANGED vars
    <2>1. pages' = pages /\ PageSize' = PageSize
      BY <1>3, OtherEffect
    <2>2. p \in Nat
      BY <2>1 DEF ListingsTypeOK
    <2>3. Before(i) < p * PageSize /\ p * PageSize \in Nat
      BY <1>1, <2>1, <2>2, PageBounds, Product DEF ShownStaysBehind
    <2> QED
      BY <1>1, <2>1, <2>3
  <1> QED
    BY <1>2, <1>3 DEF Next

(* So no event is shown twice.                                             *)
LEMMA EventsShownOnceNext ==
  ASSUME ListingsTypeOK, ShownStaysBehind, EventsShownOnce, [Next]_vars
  PROVE  EventsShownOnce'
  <1> SUFFICES ASSUME listing = "events", NEW p \in DOMAIN pages', NEW q \in DOMAIN pages',
                      NEW i \in pages'[p] \cap pages'[q], Untied(i)
               PROVE  p = q
    <2>1. listing' = listing /\ rank' = rank
      BY Moves
    <2> QED
      BY <2>1 DEF EventsShownOnce, Untied
  <1>1. CASE Select
    <2> PICK S \in Slices(PageSize) : Answer(S)
      BY <1>1 DEF Select
    <2>1. /\ p \in 1..page /\ q \in 1..page /\ DOMAIN pages = 1 .. page - 1
          /\ \A k \in 1 .. page - 1 : pages'[k] = pages[k]
          /\ pages'[page] = S /\ S \subseteq listed
      BY AnswerEffect
    <2>2. ASSUME NEW k \in 1 .. page - 1, i \in pages[k], i \in S PROVE FALSE
      <3>1. Before(i) < k * PageSize
        BY <2>1, <2>2 DEF ShownStaysBehind
      <3>2. Before(i) >= Offset
        BY <2>1, <2>2, PageBounds, SliceOfUntied
      <3>3. k * PageSize <= Offset /\ k * PageSize \in Nat
        BY <2>1, <2>2, PageBounds, Product DEF ListingsTypeOK
      <3>4. Before(i) \in Nat /\ Offset \in Nat
        BY BeforeType, PageBounds
      <3> QED
        BY <3>1, <3>2, <3>3, <3>4
    <2>3. CASE p = page \/ q = page
      <3>1. page \in Nat
        BY DEF ListingsTypeOK
      <3> QED
        BY <2>1, <2>2, <2>3, <3>1
    <2>4. CASE p # page /\ q # page
      <3>1. p \in DOMAIN pages /\ q \in DOMAIN pages
        BY <2>1, <2>4 DEF ListingsTypeOK
      <3>2. i \in pages[p] \cap pages[q]
        BY <2>1, <3>1
      <3> QED
        BY <3>1, <3>2 DEF EventsShownOnce
    <2> QED
      BY <2>3, <2>4
  <1>2. CASE Count \/ Fail \/ EventsBegin \/ TicketJoins \/ UNCHANGED vars
    BY <1>2, OtherEffect DEF EventsShownOnce
  <1> QED
    BY <1>1, <1>2 DEF Next

(* A ticket that was not shown only moves back.                            *)
LEMMA UnseenToComeNext ==
  ASSUME ListingsTypeOK, CountsStale, UnseenToCome, [Next]_vars
  PROVE  UnseenToCome'
  <1> SUFFICES ASSUME listing = "tickets", stage' # "done",
                      NEW i \in start' \ Seen', Untied(i)
               PROVE  Before(i)' >= Offset'
    <2>1. listing' = listing /\ rank' = rank
      BY Moves
    <2> QED
      BY <2>1 DEF UnseenToCome, Untied
  <1>1. Before(i) <= Before(i)' /\ Before(i) \in Nat /\ Before(i)' \in Nat /\ Offset \in Nat
    BY Moves, PageBounds
  <1>2. CASE Select
    <2> PICK S \in Slices(PageSize) : Answer(S)
      BY <1>2 DEF Select
    <2>1. /\ Seen' = Seen \cup S /\ start' = start /\ stage # "done"
          /\ Offset' = Offset + PageSize /\ PageSize \in Nat
      BY AnswerEffect, PageBounds DEF Answer
    <2>2. Before(i) >= Offset
      BY <2>1 DEF UnseenToCome
    <2>3. i \in listed /\ i \notin S
      BY <2>1 DEF CountsStale
    <2>4. Before(i) >= Offset + PageSize
      BY <1>1, <2>1, <2>2, <2>3, SliceOfUntied
    <2> QED
      BY <1>1, <2>1, <2>4
  <1>3. CASE Count \/ Fail \/ EventsBegin \/ TicketJoins \/ UNCHANGED vars
    <2>1. Seen' = Seen /\ Offset' = Offset /\ stage # "done"
      BY <1>3, OtherEffect
    <2>2. CASE start' = start
      <3>1. Before(i) >= Offset
        BY <2>1, <2>2 DEF UnseenToCome
      <3> QED
        BY <1>1, <2>1, <3>1
    <2>3. CASE pages = <<>>
      <3>1. page = 1
        BY <2>1, <2>3 DEF ListingsTypeOK
      <3>2. Offset = 0
        BY <3>1, PageBounds DEF Offset
      <3> QED
        BY <1>1, <2>1, <3>2
    <2> QED
      BY <1>3, <2>2, <2>3, OtherEffect
  <1> QED
    BY <1>2, <1>3 DEF Next

(* The last page reaches the end of the history.                           *)
LEMMA HistoryCompleteNext ==
  ASSUME ListingsTypeOK, CountsStale, UnseenToCome, HistoryComplete, [Next]_vars
  PROVE  HistoryComplete'
  <1> SUFFICES ASSUME listing = "tickets", stage' = "done", ~split',
                      NEW i \in start', Untied(i)
               PROVE  i \in Seen'
    <2>1. listing' = listing /\ rank' = rank
      BY Moves
    <2> QED
      BY <2>1 DEF HistoryComplete, Untied
  <1>1. CASE Select
    <2> PICK S \in Slices(PageSize) : Answer(S)
      BY <1>1 DEF Select
    <2>1. /\ Seen' = Seen \cup S /\ start' = start /\ stage = "select" /\ ~split
          /\ total <= Offset + PageSize
      BY AnswerEffect DEF Answer
    <2>2. i \in listed /\ total = Cardinality(listed)
      BY <2>1 DEF CountsStale
    <2>3. SUFFICES ASSUME i \notin Seen PROVE i \in S
      BY <2>1
    <2>4. Before(i) >= Offset
      BY <2>1, <2>3 DEF UnseenToCome
    <2>5. /\ Before(i) + Cardinality(Equal(i)) <= Cardinality(listed)
          /\ Cardinality(Equal(i)) >= 1
      BY <2>2, GroupsApart
    <2>6. /\ Before(i) \in Nat /\ Cardinality(Equal(i)) \in Nat /\ total \in Nat
          /\ Offset \in Nat /\ PageSize \in Nat
      BY BeforeType, PageBounds DEF ListingsTypeOK
    <2>7. Before(i) < Offset + PageSize
      BY <2>1, <2>2, <2>5, <2>6
    <2> QED
      BY <2>2, <2>4, <2>6, <2>7, SliceOfUntied
  <1>2. CASE Count \/ Fail \/ EventsBegin \/ TicketJoins \/ UNCHANGED vars
    <2>1. UNCHANGED Seen /\ stage = "done"
      BY <1>2, OtherEffect
    <2>2. UNCHANGED vars
      BY <1>2, <2>1 DEF Count, Fail, EventsBegin, TicketJoins
    <2> QED
      BY <2>1, <2>2 DEF HistoryComplete, vars
  <1> QED
    BY <1>1, <1>2 DEF Next

(* An event that is not on the page it belongs to has slipped before.      *)
LEMMA NewlySlipped ==
  ASSUME ListingsTypeOK, \A i \in Items : Untied(i),
         NEW S \in Slices(PageSize), Answer(S)
  PROVE  \A i \in listed \ Seen' : Before(i) < Offset + PageSize => i \in Slipped
  <1>1. ASSUME NEW i \in listed \ Seen', Before(i) < Offset + PageSize
        PROVE  i \in Slipped
    <2>1. i \notin S /\ i \notin Seen
      BY AnswerEffect
    <2>2. Untied(i) /\ PageSize \in Nat /\ Before(i) \in Nat /\ Offset \in Nat
      BY PageBounds, BeforeType DEF ListingsTypeOK
    <2>3. ~(Offset <= Before(i))
      BY <1>1, <2>1, <2>2, SliceOfUntied
    <2>4. Before(i) < Offset
      BY <2>2, <2>3
    <2> QED
      BY <2>1, <2>4 DEF Slipped
  <1> QED
    BY <1>1

(* No two events without ties have the same position.                      *)
LEMMA UntiedApart ==
  ASSUME ListingsTypeOK, NEW i \in listed, NEW j \in listed, Untied(i),
         Before(i) = Before(j)
  PROVE  i = j
  <1>1. rank[i] \in Int /\ rank[j] \in Int /\ i \in Items /\ j \in Items
    BY ListingsAssumption DEF ListingsTypeOK
  <1>2. ASSUME NEW p \in listed, NEW q \in listed, rank[p] < rank[q] 
        PROVE  Before(p) # Before(q)
    <2>1. Before(p) + Cardinality(Equal(p)) <= Before(q) /\ Cardinality(Equal(p)) >= 1
      BY <1>2, GroupsApart DEF ListingsTypeOK
    <2>2. Before(p) \in Nat /\ Before(q) \in Nat /\ Cardinality(Equal(p)) \in Nat
      BY BeforeType
    <2> QED
      BY <2>1, <2>2
  <1>3. rank[i] = rank[j]
    BY <1>1, <1>2
  <1> QED
    BY <1>1, <1>3 DEF Untied

(* Without ties events begin one by one, and all others move up by one.    *)
LEMMA BeginsOne ==
  ASSUME ListingsTypeOK, \A i \in Items : Untied(i), EventsBegin
  PROVE  \E b \in listed :
           /\ listed' = listed \ {b}
           /\ \A j \in listed' : Before(j)' = Before(j) - 1
  <1>0. PICK b \in listed : /\ \A j \in listed : rank[b] <= rank[j]
                            /\ listed' = {j \in listed : rank[j] > rank[b]}
    BY DEF EventsBegin
  <1>1. \A j \in listed : rank[j] \in Int /\ j \in Items
    BY ListingsAssumption DEF ListingsTypeOK
  <1>2. \A j \in listed : j # b => rank[b] < rank[j]
    BY <1>0, <1>1 DEF Untied
  <1>3. listed' = listed \ {b}
    BY <1>0, <1>1, <1>2
  <1>4. rank' = rank
    BY DEF EventsBegin
  <1>5. ASSUME NEW j \in listed' PROVE Before(j)' = Before(j) - 1
    <2> DEFINE low == {k \in listed : rank[k] < rank[j]}
               lowNext == {k \in listed' : rank[k] < rank[j]}
    <2>1. lowNext = low \ {b} /\ b \in low
      BY <1>2, <1>3
    <2>2. IsFiniteSet(low)
      BY BeforeType
    <2>3. Before(j) = Cardinality(low) /\ Before(j)' = Cardinality(lowNext)
      BY <1>4 DEF Before
    <2> HIDE DEF low, lowNext
    <2>4. Cardinality(low \ {b}) = Cardinality(low) - 1
      BY <2>1, <2>2, FS_RemoveElement
    <2> QED
      BY <2>1, <2>3, <2>4
  <1> QED
    BY <1>3, <1>5

LEMMA HiddenFinite ==
  ASSUME ListingsTypeOK
  PROVE  /\ IsFiniteSet(Slipped) /\ Cardinality(Slipped) \in Nat
         /\ IsFiniteSet(start \ listed) /\ Cardinality(start \ listed) \in Nat
  <1>1. IsFiniteSet(Slipped) /\ IsFiniteSet(start \ listed)
    BY BeforeType, ListingsAssumption, FS_Subset DEF Slipped, ListingsTypeOK
  <1> QED
    BY <1>1, FS_CardinalityType

(* Nothing has slipped to a page before the first.                         *)
LEMMA NothingSlipped ==
  ASSUME ListingsTypeOK, stage # "done", pages = <<>>
  PROVE  Slipped = {}
  <1>1. page = 1
    BY DEF ListingsTypeOK
  <1>2. Offset = 0
    BY <1>1, PageBounds DEF Offset
  <1>3. \A i \in listed : Before(i) \in Nat
    BY BeforeType
  <1> QED
    BY <1>2, <1>3 DEF Slipped

(* Every event that begins moves one event at most to a page before.       *)
LEMMA FewSlippedAsEventsBegin ==
  ASSUME ListingsTypeOK, CountsStale, FewSlipped, EventsBegin,
         \A i \in Items : Untied(i)
  PROVE  Cardinality(Slipped') <= Cardinality((start \ listed)')
  <1>0. ListingsTypeOK'
    BY ListingsTypeNext DEF Next
  <1>1. /\ UNCHANGED <<stage, pages, page, start, Seen, Offset>>
        /\ stage # "done" /\ listing = "events"
    BY OtherEffect DEF EventsBegin
  <1>2. CASE stage # "select" /\ pages = <<>>
    <2>1. \A i \in listed' : ~(Before(i)' < Offset')
      <3>1. page = 1
        BY <1>1, <1>2 DEF ListingsTypeOK
      <3>2. Offset = 0
        BY <3>1, PageBounds DEF Offset
      <3>3. \A i : Before(i)' \in Nat
        BY Moves DEF Next
      <3> QED
        BY <1>1, <3>2, <3>3
    <2>2. Slipped' = {}
      BY <2>1 DEF Slipped
    <2>3. Cardinality((start \ listed)') \in Nat
      <3>1. start' \subseteq Items
        BY <1>0 DEF ListingsTypeOK
      <3>2. IsFiniteSet(start' \ listed')
        BY <3>1, ListingsAssumption, FS_Subset
      <3> QED
        BY <3>2, FS_CardinalityType
    <2> QED
      BY <2>2, <2>3, FS_EmptySet
  <1>3. CASE stage = "select" \/ pages # <<>>
    <2>1. PICK b \in listed :
            /\ listed' = listed \ {b}
            /\ \A j \in listed' : Before(j)' = Before(j) - 1
      BY BeginsOne
    <2>2. listed \subseteq start
      BY <1>1, <1>3 DEF CountsStale
    <2>3. (start \ listed)' = (start \ listed) \cup {b} /\ b \notin start \ listed
      BY <1>1, <2>1, <2>2
    <2>4. Cardinality((start \ listed)') = Cardinality(start \ listed) + 1
      BY <2>3, HiddenFinite, FS_AddElement
    <2>5. \E n : Slipped' \subseteq Slipped \cup {n}
      <3>1. ASSUME NEW i \in Slipped', i \notin Slipped
            PROVE  i \in listed /\ Before(i) = Offset
        <4>1. i \in listed' /\ i \notin Seen /\ Before(i)' < Offset
          BY <1>1 DEF Slipped
        <4>2. i \in listed /\ Before(i) - 1 < Offset /\ ~(Before(i) < Offset)
          BY <2>1, <3>1, <4>1 DEF Slipped
        <4>3. Before(i) \in Nat /\ Offset \in Nat
          BY BeforeType, PageBounds
        <4> QED
          BY <4>2, <4>3
      <3>2. ASSUME NEW i \in Slipped', NEW j \in Slipped', i \notin Slipped, j \notin Slipped
            PROVE  i = j
        <4>1. i \in listed /\ j \in listed /\ Before(i) = Before(j)
          BY <3>1, <3>2
        <4>2. Untied(i)
          BY <4>1 DEF ListingsTypeOK
        <4> QED
          BY <4>1, <4>2, UntiedApart
      <3>3. CASE \E i \in Slipped' : i \notin Slipped
        <4> PICK i \in Slipped' : i \notin Slipped
          BY <3>3
        <4> QED
          BY <3>2
      <3>4. CASE Slipped' \subseteq Slipped
        BY <3>4
      <3> QED
        BY <3>3, <3>4
    <2>6. PICK n : Slipped' \subseteq Slipped \cup {n}
      BY <2>5
    <2>7. /\ IsFiniteSet(Slipped \cup {n})
          /\ Cardinality(Slipped \cup {n}) <= Cardinality(Slipped) + 1
          /\ Cardinality(Slipped \cup {n}) \in Nat
      <3>1. IsFiniteSet(Slipped \cup {n}) /\
            Cardinality(Slipped \cup {n}) \in {Cardinality(Slipped), Cardinality(Slipped) + 1}
        BY HiddenFinite, FS_AddElement
      <3> QED
        BY <3>1, HiddenFinite
    <2>8. IsFiniteSet(Slipped') /\ Cardinality(Slipped') <= Cardinality(Slipped \cup {n})
      BY <2>6, <2>7, FS_Subset
    <2>9. Cardinality(Slipped') \in Nat
      BY <2>8, FS_CardinalityType
    <2>10. Cardinality(Slipped) <= Cardinality(start \ listed)
      BY <1>1 DEF FewSlipped
    <2> QED
      BY <2>4, <2>7, <2>8, <2>9, <2>10, HiddenFinite
  <1> QED
    BY <1>2, <1>3

LEMMA FewSlippedNext ==
  ASSUME ListingsTypeOK, CountsStale, FewSlipped, [Next]_vars
  PROVE  FewSlipped'
  <1> SUFFICES ASSUME listing = "events", stage' # "done", \A i \in Items : Untied(i)
               PROVE  Cardinality(Slipped') <= Cardinality((start \ listed)')
    <2>1. listing' = listing /\ rank' = rank
      BY Moves
    <2> QED
      BY <2>1 DEF FewSlipped, Untied
  <1>1. CASE Select
    <2> PICK S \in Slices(PageSize) : Answer(S)
      BY <1>1 DEF Select
    <2>1. /\ UNCHANGED <<listed, rank, start>> /\ stage # "done"
          /\ Offset' = Offset + PageSize
      BY AnswerEffect DEF Answer
    <2>2. \A i : Before(i)' = Before(i)
      BY <2>1 DEF Before
    <2>3. Slipped' \subseteq Slipped
      BY <2>1, <2>2, NewlySlipped DEF Slipped
    <2>4. /\ IsFiniteSet(Slipped') /\ Cardinality(Slipped') <= Cardinality(Slipped)
          /\ Cardinality(Slipped') \in Nat
      BY <2>3, HiddenFinite, FS_Subset, FS_CardinalityType
    <2>5. Cardinality(Slipped) <= Cardinality(start \ listed)
      BY <2>1 DEF FewSlipped
    <2>6. (start \ listed)' = start \ listed
      BY <2>1
    <2> QED
      BY <2>4, <2>5, <2>6, HiddenFinite
  <1>2. CASE EventsBegin
    BY <1>2, FewSlippedAsEventsBegin
  <1>3. CASE Count \/ Fail \/ UNCHANGED vars
    <2>1. UNCHANGED <<listed, rank, Seen, Offset, pages>> /\ stage # "done"
      BY <1>3, OtherEffect DEF Count, Fail, vars
    <2>2. Slipped' = Slipped
      <3>1. \A i : Before(i)' = Before(i)
        BY <2>1 DEF Before
      <3> QED
        BY <2>1, <3>1 DEF Slipped
    <2>3. CASE start' = start
      BY <2>1, <2>2, <2>3 DEF FewSlipped
    <2>4. CASE pages = <<>> /\ start' = listed
      <3>1. Slipped' = {} /\ (start \ listed)' = {}
        BY <2>1, <2>2, <2>4, NothingSlipped
      <3> QED
        BY <3>1, FS_EmptySet
    <2> QED
      BY <1>3, <2>3, <2>4, OtherEffect
  <1>4. CASE TicketJoins
    BY <1>4 DEF TicketJoins
  <1> QED
    BY <1>1, <1>2, <1>3, <1>4 DEF Next

(* The last page reaches the end of the list.                              *)
LEMMA FewEventsHiddenNext ==
  ASSUME ListingsTypeOK, CountsStale, FewSlipped, FewEventsHidden, [Next]_vars
  PROVE  FewEventsHidden'
  <1> SUFFICES ASSUME listing = "events", stage' = "done", \A i \in Items : Untied(i)
               PROVE  Cardinality((listed \ Seen)') <= Cardinality((start \ listed)')
    <2>1. listing' = listing /\ rank' = rank
      BY Moves
    <2> QED
      BY <2>1 DEF FewEventsHidden, Untied
  <1>1. CASE Select
    <2> PICK S \in Slices(PageSize) : Answer(S)
      BY <1>1 DEF Select
    <2>1. /\ UNCHANGED <<listed, start>> /\ stage = "select"
          /\ total <= Offset + PageSize
      BY AnswerEffect DEF Answer
    <2>2. total >= Cardinality(listed)
      BY <2>1 DEF CountsStale
    <2>3. ASSUME NEW i \in listed PROVE Before(i) < Offset + PageSize
      <3>1. /\ Before(i) + Cardinality(Equal(i)) <= Cardinality(listed)
            /\ Cardinality(Equal(i)) >= 1
        BY GroupsApart
      <3>2. /\ Before(i) \in Nat /\ Cardinality(Equal(i)) \in Nat /\ total \in Nat
            /\ Cardinality(listed) \in Nat /\ Offset \in Nat /\ PageSize \in Nat
        BY BeforeType, PageBounds DEF ListingsTypeOK
      <3> QED
        BY <2>1, <2>2, <3>1, <3>2
    <2>4. (listed \ Seen)' \subseteq Slipped
      BY <2>1, <2>3, NewlySlipped
    <2>5. /\ IsFiniteSet((listed \ Seen)')
          /\ Cardinality((listed \ Seen)') <= Cardinality(Slipped)
      BY <2>4, HiddenFinite, FS_Subset
    <2>6. Cardinality((listed \ Seen)') \in Nat
      BY <2>5, FS_CardinalityType
    <2>7. Cardinality(Slipped) <= Cardinality(start \ listed)
      BY <2>1 DEF FewSlipped
    <2>8. (start \ listed)' = start \ listed
      BY <2>1
    <2> QED
      BY <2>5, <2>6, <2>7, <2>8, HiddenFinite
  <1>2. CASE Count \/ Fail \/ EventsBegin \/ TicketJoins \/ UNCHANGED vars
    <2>1. UNCHANGED Seen /\ stage = "done"
      BY <1>2, OtherEffect
    <2>2. UNCHANGED vars
      BY <1>2, <2>1 DEF Count, Fail, EventsBegin, TicketJoins
    <2> QED
      BY <2>1, <2>2 DEF FewEventsHidden, vars
  <1> QED
    BY <1>1, <1>2 DEF Next

-----------------------------------------------------------------------------
(* What the pages hold, what the list holds and how far the client has     *)
(* come agree at every moment (ticket_repo_mysql.go:86-121,                *)
(* event_repo_mysql.go:18-44).                                             *)
THEOREM ListingsInvariant == Spec => []ListingsInv
  <1>1. Init => ListingsInv
    <2> SUFFICES ASSUME Init PROVE ListingsInv
      OBVIOUS
    <2>1. ListingsTypeOK
      <3>1. <<>> \in Seq(SUBSET Items) /\ Len(<<>>) = 0
        OBVIOUS
      <3>2. /\ page \in Nat \ {0} /\ total \in Nat /\ start \subseteq Items
            /\ listed \subseteq Items
            /\ stage \in {"count", "select", "done"}
            /\ Len(pages) = IF stage = "done" THEN page ELSE page - 1
        BY <3>1 DEF Init
      <3>3. /\ listing \in {"events", "tickets"} /\ rank \in [Items -> Ranks]
            /\ perPage \in Sizes /\ split \in BOOLEAN /\ pages \in Seq(SUBSET Items)
        BY <3>1 DEF Init
      <3> QED
        BY <3>2, <3>3 DEF ListingsTypeOK
    <2>2. Seen = {} /\ DOMAIN pages = {} /\ pages = <<>> /\ start = {} /\ stage = "count"
      BY DEF Init, Seen, ToSet
    <2>3. CountsStale /\ ShownStaysBehind /\ UnseenToCome /\ EventsShownOnce
      BY <2>2 DEF CountsStale, ShownStaysBehind, UnseenToCome, EventsShownOnce
    <2>4. Cardinality(Slipped) <= Cardinality(start \ listed)
      <3>1. Slipped = {} /\ start \ listed = {}
        BY <2>1, <2>2, NothingSlipped
      <3> QED
        BY <3>1, FS_EmptySet
    <2>5. FewSlipped /\ HistoryComplete /\ FewEventsHidden
      BY <2>2, <2>4 DEF FewSlipped, HistoryComplete, FewEventsHidden
    <2> QED
      BY <2>1, <2>3, <2>5 DEF ListingsInv
  <1>2. ListingsInv /\ [Next]_vars => ListingsInv'
    <2> SUFFICES ASSUME ListingsInv, [Next]_vars PROVE ListingsInv'
      OBVIOUS
    <2> USE DEF ListingsInv
    <2>1. ListingsTypeOK' /\ CountsStale' /\ ShownStaysBehind'
      BY ListingsTypeNext, CountsStaleNext, ShownStaysBehindNext
    <2>2. UnseenToCome' /\ FewSlipped' /\ EventsShownOnce'
      BY UnseenToComeNext, FewSlippedNext, EventsShownOnceNext
    <2>3. HistoryComplete' /\ FewEventsHidden'
      BY HistoryCompleteNext, FewEventsHiddenNext
    <2> QED
      BY <2>1, <2>2, <2>3
  <1> QED
    BY <1>1, <1>2, PTL DEF Spec

(* Who pages through the history to its end misses none of the tickets it  *)
(* began with, ties and interrupted responses aside                        *)
(* (ticket_repo_mysql.go:86-121).                                          *)
THEOREM HistoriesAreComplete == Spec => []HistoryComplete
  <1>1. ListingsInv => HistoryComplete
    BY DEF ListingsInv
  <1> QED
    BY <1>1, ListingsInvariant, PTL

(* As many events stay hidden from a visitor as begin while he reads, at   *)
(* most (event_repo_mysql.go:18-44).                                       *)
THEOREM FewEventsAreHidden == Spec => []FewEventsHidden
  <1>1. ListingsInv => FewEventsHidden
    BY DEF ListingsInv
  <1> QED
    BY <1>1, ListingsInvariant, PTL

(* No event is on two pages, ties aside (event_repo_mysql.go:18-44).       *)
THEOREM EventsAreShownOnce == Spec => []EventsShownOnce
  <1>1. ListingsInv => EventsShownOnce
    BY DEF ListingsInv
  <1> QED
    BY <1>1, ListingsInvariant, PTL

(* The rows of a page against its total, ties or not: counting positions   *)
(* needs no induction, a slice and the positions of its page are put into  *)
(* one-to-one correspondence group by group.                               *)
THEOREM PagesAgreeWithTotals == Spec => PageAgreesWithTotal
  <1> DEFINE rest == IF total > Offset THEN total - Offset ELSE 0
             promised == IF rest < PageSize THEN rest ELSE PageSize
             Agrees ==
               stage = "select" /\ pages' # pages =>
                 IF listing = "tickets" THEN Cardinality(Last(pages')) >= promised
                                        ELSE Cardinality(Last(pages')) <= promised
  <1>1. ListingsInv /\ [Next]_vars => Agrees
    <2> SUFFICES ASSUME ListingsInv, [Next]_vars, stage = "select", pages' # pages
                 PROVE  IF listing = "tickets"
                        THEN Cardinality(Last(pages')) >= promised
                        ELSE Cardinality(Last(pages')) <= promised
      OBVIOUS
    <2> USE DEF ListingsInv
    <2>1. Select
      BY OtherEffect DEF Next
    <2>2. PICK S \in Slices(PageSize) : Answer(S)
      BY <2>1 DEF Select
    <2>3. Last(pages') = S
      BY <2>2, AnswerEffect DEF Last
    <2> DEFINE n == Cardinality(listed)
    <2>4. n \in Nat /\ Offset \in Nat /\ PageSize \in Nat /\ total \in Nat
      BY BeforeType, PageBounds DEF ListingsTypeOK
    <2>5. Cardinality(S) = Cardinality((1..n) \cap (Offset + 1 .. Offset + PageSize))
      BY <2>2, <2>4, SliceSize
    <2>6. /\ listing = "tickets" => total <= n
          /\ listing \in {"events", "tickets"}
          /\ listing = "events" => total >= n
      BY DEF CountsStale, ListingsTypeOK
    <2> HIDE DEF n
    <2>7. Cardinality(S) = IF n <= Offset THEN 0
                           ELSE IF n - Offset < PageSize THEN n - Offset ELSE PageSize
      BY <2>4, <2>5, WindowSize
    <2> QED
      BY <2>3, <2>4, <2>6, <2>7
  <1> QED
    BY <1>1, ListingsInvariant, PTL DEF PageAgreesWithTotal, Spec

=============================================================================
