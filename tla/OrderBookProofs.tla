-------------------------- MODULE OrderBookProofs --------------------------
(***************************************************************************)
(* Proofs about OrderBook, for any users, pairs, prices, amounts and any   *)
(* number of orders.  The first part is about finite sums, which the       *)
(* totals of the book need.                                                *)
(***************************************************************************)
EXTENDS OrderBook, FiniteSetTheorems, SequenceTheorems, NaturalsInduction,
        WellFoundedInduction, TLAPS

(***************************************************************************)
(* The sum of f over S is what this recursion over the subsets of S gives. *)
(***************************************************************************)
Any(s) == CHOOSE x \in s : TRUE
Adds(f, S, g) == g = [s \in SUBSET S |-> IF s = {} THEN 0 ELSE f[Any(s)] + g[s \ {Any(s)}]]

-----------------------------------------------------------------------------
Books == Pairs \X OrderSide

(***************************************************************************)
(* An order that is open and not the one in hand.                          *)
(***************************************************************************)
Resting(x) == x \in 1..o_cnt /\ x # taker /\ IsOpen(orders[x])

Typed == BookTypeOK /\ now \in Nat /\ \A x \in 1..o_cnt : OrderConsistent(orders[x])

(***************************************************************************)
(* A book lists the resting orders of its pair and side, oldest first.     *)
(***************************************************************************)
BooksAgree ==
    \A k \in Books :
        /\ Ascending(obook[k])
        /\ \A x \in 1..o_cnt :
              Listed(obook[k], x) <=> Resting(x) /\ orders[x].pair = k[1] /\ orders[x].side = k[2]

(***************************************************************************)
(* Only good-till-cancelled orders rest; the order in hand is the newest;  *)
(* ids are given in the order of the timestamps.                           *)
(***************************************************************************)
InOrder ==
    /\ \A x \in 1..o_cnt : Resting(x) => orders[x].tif = "Gtc"
    /\ taker # 0 => taker = o_cnt /\ orders[taker].status # "Cancelled"
    /\ \A x, y \in 1..o_cnt : x < y => orders[x].timestamp <= orders[y].timestamp

(***************************************************************************)
(* No resting buy reaches the price of a resting sell.                     *)
(***************************************************************************)
Uncrossed ==
    \A x, y \in 1..o_cnt :
        (/\ Resting(x) /\ Resting(y) /\ orders[x].pair = orders[y].pair
         /\ orders[x].side = "Buy" /\ orders[y].side = "Sell")
        => orders[x].price < orders[y].price

(***************************************************************************)
(* The orders that can fill o, and what remains of all orders.             *)
(***************************************************************************)
Makers(o) == {x \in 1..o_cnt : Resting(x) /\ order_matches(o, orders[x])}
Remaining == [x \in 1..o_cnt |-> orders[x].remaining]
Done == [x \in 1..o_cnt |-> orders[x].amount - orders[x].remaining]
Signed == [i \in DOMAIN trades |-> trades[i].signed_amount]

FokAhead ==
    (taker # 0 /\ orders[taker].tif = "Fok")
        => SumFunctionOnSet(Remaining, Makers(orders[taker])) >= orders[taker].remaining

Balanced ==
    /\ SumFunctionOnSet(Done, 1..o_cnt) = stats.total_volume
    /\ SumFunctionOnSet(Signed, 1..Len(trades)) = 0
    /\ stats.total_trades = Len(trades)

(***************************************************************************)
(* What keeps the books in order needs nothing of the trade log but its    *)
(* type; the totals come on top.                                           *)
(***************************************************************************)
BookCore == Typed /\ BooksAgree /\ InOrder /\ Uncrossed /\ FokAhead

BookInv == BookCore /\ Balanced

(***************************************************************************)
(* A non-empty set of naturals has a least element.                        *)
(***************************************************************************)
LEMMA LeastNat ==
    ASSUME NEW T \in SUBSET Nat, T # {}
    PROVE  \E x \in T : \A y \in T : x <= y
<1>1. PICK x \in T : \A y \in T : ~(<<y, x>> \in OpToRel(<, Nat))
  BY NatLessThanWellFounded, WFMin
<1>2. \A y \in T : y < x => <<y, x>> \in OpToRel(<, Nat)
  BY DEF OpToRel
<1>3. \A y \in T : ~(y < x)
  BY <1>1, <1>2, Zenon
<1>4. \A y \in T : x <= y
  BY <1>3
<1> QED
  BY <1>4

(***************************************************************************)
(* Taking an element out of a finite set leaves a smaller one.             *)
(***************************************************************************)
LEMMA Fewer ==
    ASSUME NEW s, IsFiniteSet(s), NEW x \in s
    PROVE  /\ IsFiniteSet(s \ {x})
           /\ Cardinality(s) \in Nat \ {0} /\ Cardinality(s \ {x}) = Cardinality(s) - 1
<1>1. Cardinality(s) \in Nat /\ Cardinality(s) # 0
  BY FS_CardinalityType, FS_EmptySet
<1> QED
  BY <1>1, FS_RemoveElement

(***************************************************************************)
(* In particular the chosen one.                                           *)
(***************************************************************************)
LEMMA Smaller ==
    ASSUME NEW s, IsFiniteSet(s), s # {}
    PROVE  /\ Any(s) \in s /\ IsFiniteSet(s \ {Any(s)})
           /\ Cardinality(s) \in Nat \ {0} /\ Cardinality(s \ {Any(s)}) = Cardinality(s) - 1
<1>1. Any(s) \in s
  BY DEF Any
<1> QED
  BY <1>1, Fewer

(***************************************************************************)
(* The recursion defines a function: it does for the subsets of at most n  *)
(* elements, for every n.                                                  *)
(***************************************************************************)
LEMMA AddsExists ==
    ASSUME NEW f, NEW S, IsFiniteSet(S)
    PROVE  \E g : Adds(f, S, g)
<1> DEFINE Sub(n) == {s \in SUBSET S : Cardinality(s) <= n}
           Up(n, g) == g = [s \in Sub(n) |-> IF s = {} THEN 0 ELSE f[Any(s)] + g[s \ {Any(s)}]]
           Bad == {n \in Nat : ~\E g : Up(n, g)}
<1>f. \A s \in SUBSET S : IsFiniteSet(s) /\ Cardinality(s) \in Nat
  BY FS_Subset, FS_CardinalityType
<1>1. Bad = {}
  <2> SUFFICES ASSUME Bad # {} PROVE FALSE
    OBVIOUS
  <2>1. PICK m \in Bad : \A y \in Bad : m <= y
    <3>1. Bad \in SUBSET Nat
      OBVIOUS
    <3> HIDE DEF Bad
    <3> QED
      BY <3>1, LeastNat
  <2>2. m \in Nat /\ ~\E g : Up(m, g)
    BY <2>1
  <2>3. CASE m = 0
    <3> DEFINE g == [s \in Sub(0) |-> 0]
    <3>1. \A s \in Sub(0) : s = {}
      BY <1>f, FS_EmptySet
    <3>2. Up(0, g)
      BY <3>1
    <3> QED
      BY <2>2, <2>3, <3>2
  <2>4. CASE m # 0
    <3>1. m - 1 \in Nat /\ m - 1 \notin Bad
      <4>1. m - 1 \in Nat /\ ~(m <= m - 1)
        BY <2>2, <2>4
      <4> HIDE DEF Bad
      <4> QED
        BY <2>1, <4>1
    <3>2. PICK g : Up(m - 1, g)
      BY <3>1
    <3> DEFINE h == [s \in Sub(m) |-> IF s = {} THEN 0 ELSE f[Any(s)] + g[s \ {Any(s)}]]
    <3>3. ASSUME NEW s \in Sub(m), s # {}
          PROVE  g[s \ {Any(s)}] = h[s \ {Any(s)}]
      <4> DEFINE t == s \ {Any(s)}
      <4>1. t \in SUBSET S /\ Cardinality(t) \in Nat /\ Cardinality(t) = Cardinality(s) - 1
            /\ Cardinality(s) \in Nat
        BY <1>f, <3>3, Smaller
      <4>2. t \in Sub(m - 1) /\ t \in Sub(m)
        BY <2>2, <4>1
      <4> HIDE DEF t
      <4>3. g[t] = IF t = {} THEN 0 ELSE f[Any(t)] + g[t \ {Any(t)}]
        BY <3>2, <4>2
      <4>4. h[t] = IF t = {} THEN 0 ELSE f[Any(t)] + g[t \ {Any(t)}]
        BY <4>2
      <4>5. g[t] = h[t]
        BY <4>3, <4>4
      <4> QED
        BY <4>5 DEF t
    <3>4. Up(m, h)
      BY <3>3
    <3> QED
      BY <2>2, <3>4
  <2> QED
    BY <2>3, <2>4
<1>2. PICK g : Up(Cardinality(S), g)
  BY <1>1, FS_CardinalityType
<1>3. Sub(Cardinality(S)) = SUBSET S
  BY FS_Subset
<1>4. Adds(f, S, g)
  BY <1>2, <1>3 DEF Adds
<1> QED
  BY <1>4

(***************************************************************************)
(* Two such recursions agree on a finite set on whose elements their       *)
(* functions agree.                                                        *)
(***************************************************************************)
LEMMA AddsAgree ==
    ASSUME NEW f, NEW S, NEW g, Adds(f, S, g), NEW e, NEW T, NEW h, Adds(e, T, h),
           NEW U \in SUBSET (S \cap T), IsFiniteSet(U), \A x \in U : f[x] = e[x]
    PROVE  g[U] = h[U]
<1> DEFINE Bad == {n \in Nat : \E V \in SUBSET U : Cardinality(V) = n /\ g[V] # h[V]}
<1> SUFFICES ASSUME g[U] # h[U] PROVE FALSE
  OBVIOUS
<1>1. Cardinality(U) \in Bad
  BY FS_CardinalityType
<1>2. PICK m \in Bad : \A y \in Bad : m <= y
  <2>1. Bad \in SUBSET Nat /\ Bad # {}
    BY <1>1
  <2> HIDE DEF Bad
  <2> QED
    BY <2>1, LeastNat
<1>3. m \in Nat
  BY <1>2
<1>4. PICK V \in SUBSET U : Cardinality(V) = m /\ g[V] # h[V]
  BY <1>2
<1>5. IsFiniteSet(V) /\ V \in SUBSET S /\ V \in SUBSET T
  BY FS_Subset
<1>6. /\ g[V] = IF V = {} THEN 0 ELSE f[Any(V)] + g[V \ {Any(V)}]
      /\ h[V] = IF V = {} THEN 0 ELSE e[Any(V)] + h[V \ {Any(V)}]
  BY <1>5 DEF Adds
<1>7. V # {}
  BY <1>4, <1>6
<1>8. Any(V) \in V /\ Cardinality(V \ {Any(V)}) = m - 1 /\ m - 1 \in Nat
  BY <1>3, <1>4, <1>5, <1>7, Smaller
<1>9. m - 1 \notin Bad
  BY <1>2, <1>3, <1>8
<1>10. g[V \ {Any(V)}] = h[V \ {Any(V)}]
  BY <1>8, <1>9
<1> QED
  BY <1>4, <1>6, <1>7, <1>8, <1>10

(***************************************************************************)
(* The library's sum is this recursion.                                    *)
(***************************************************************************)
LEMMA SumIs ==
    ASSUME NEW f, NEW S, IsFiniteSet(S)
    PROVE  \E g : Adds(f, S, g) /\ SumFunctionOnSet(f, S) = g[S]
<1>1. SumFunctionOnSet(f, S) = (CHOOSE g : Adds(f, S, g))[S]
  BY DEF SumFunctionOnSet, FoldFunctionOnSet, MapThenFoldSet, Adds, Any
<1>2. Adds(f, S, CHOOSE g : Adds(f, S, g))
  BY AddsExists
<1> QED
  BY <1>1, <1>2

(***************************************************************************)
(* A sum depends on its terms alone.                                       *)
(***************************************************************************)
LEMMA SumExt ==
    ASSUME NEW f, NEW e, NEW S, IsFiniteSet(S), \A x \in S : f[x] = e[x]
    PROVE  SumFunctionOnSet(f, S) = SumFunctionOnSet(e, S)
<1>1. PICK g : Adds(f, S, g) /\ SumFunctionOnSet(f, S) = g[S]
  BY SumIs
<1>2. PICK h : Adds(e, S, h) /\ SumFunctionOnSet(e, S) = h[S]
  BY SumIs
<1> QED
  BY <1>1, <1>2, AddsAgree

(***************************************************************************)
(* A sum is its first term and the sum of the others.                      *)
(***************************************************************************)
LEMMA SumUnfold ==
    ASSUME NEW f, NEW S, IsFiniteSet(S)
    PROVE  SumFunctionOnSet(f, S) =
             IF S = {} THEN 0 ELSE f[Any(S)] + SumFunctionOnSet(f, S \ {Any(S)})
<1>1. PICK g : Adds(f, S, g) /\ SumFunctionOnSet(f, S) = g[S]
  BY SumIs
<1>2. g[S] = IF S = {} THEN 0 ELSE f[Any(S)] + g[S \ {Any(S)}]
  BY <1>1 DEF Adds
<1>3. ASSUME S # {}
      PROVE  g[S \ {Any(S)}] = SumFunctionOnSet(f, S \ {Any(S)})
  <2> DEFINE T == S \ {Any(S)}
  <2>1. IsFiniteSet(T)
    BY <1>3, Smaller
  <2>2. PICK h : Adds(f, T, h) /\ SumFunctionOnSet(f, T) = h[T]
    BY <2>1, SumIs
  <2>3. g[T] = h[T]
    BY <1>1, <2>1, <2>2, AddsAgree
  <2> QED
    BY <2>2, <2>3
<1> QED
  BY <1>1, <1>2, <1>3

(***************************************************************************)
(* A sum of integers is an integer.                                        *)
(***************************************************************************)
LEMMA SumInt ==
    ASSUME NEW f, NEW S, IsFiniteSet(S), \A x \in S : f[x] \in Int
    PROVE  SumFunctionOnSet(f, S) \in Int
<1> DEFINE Bad == {n \in Nat : \E V \in SUBSET S : Cardinality(V) = n /\ SumFunctionOnSet(f, V) \notin Int}
<1> SUFFICES ASSUME SumFunctionOnSet(f, S) \notin Int PROVE FALSE
  OBVIOUS
<1>1. Cardinality(S) \in Bad
  BY FS_CardinalityType
<1>2. PICK m \in Bad : \A y \in Bad : m <= y
  <2>1. Bad \in SUBSET Nat /\ Bad # {}
    BY <1>1
  <2> HIDE DEF Bad
  <2> QED
    BY <2>1, LeastNat
<1>3. m \in Nat
  BY <1>2
<1>4. PICK V \in SUBSET S : Cardinality(V) = m /\ SumFunctionOnSet(f, V) \notin Int
  BY <1>2
<1>5. IsFiniteSet(V)
  BY FS_Subset
<1>6. SumFunctionOnSet(f, V) = IF V = {} THEN 0 ELSE f[Any(V)] + SumFunctionOnSet(f, V \ {Any(V)})
  BY <1>5, SumUnfold
<1>7. V # {}
  BY <1>4, <1>6
<1>8. Any(V) \in V /\ Cardinality(V \ {Any(V)}) = m - 1 /\ m - 1 \in Nat /\ ~(m <= m - 1)
  BY <1>3, <1>4, <1>5, <1>7, Smaller
<1>9. m - 1 \notin Bad
  BY <1>2, <1>8
<1>10. SumFunctionOnSet(f, V \ {Any(V)}) \in Int
  BY <1>8, <1>9
<1> QED
  BY <1>4, <1>6, <1>7, <1>8, <1>10

(***************************************************************************)
(* The order of summation does not matter: any element may come first.     *)
(***************************************************************************)
LEMMA SumTake ==
    ASSUME NEW f, NEW S, IsFiniteSet(S), \A x \in S : f[x] \in Int, NEW a \in S
    PROVE  SumFunctionOnSet(f, S) = f[a] + SumFunctionOnSet(f, S \ {a})
<1> DEFINE Splits(V, x) == SumFunctionOnSet(f, V) = f[x] + SumFunctionOnSet(f, V \ {x})
           Bad == {n \in Nat : \E V \in SUBSET S : Cardinality(V) = n /\ \E x \in V : ~Splits(V, x)}
<1> SUFFICES ASSUME ~Splits(S, a) PROVE FALSE
  OBVIOUS
<1>1. Cardinality(S) \in Bad
  BY FS_CardinalityType
<1>2. PICK m \in Bad : \A y \in Bad : m <= y
  <2>1. Bad \in SUBSET Nat /\ Bad # {}
    BY <1>1
  <2> HIDE DEF Bad
  <2> QED
    BY <2>1, LeastNat
<1>3. m \in Nat
  BY <1>2
<1>4. PICK V \in SUBSET S : Cardinality(V) = m /\ \E x \in V : ~Splits(V, x)
  BY <1>2
<1>5. PICK x \in V : ~Splits(V, x)
  BY <1>4
<1> DEFINE c == Any(V)
<1>6. IsFiniteSet(V) /\ V # {} /\ c \in V
  BY <1>5, FS_Subset, Smaller
<1>7. Splits(V, c)
  BY <1>6, SumUnfold
<1>8. c # x
  BY <1>5, <1>7
<1>9. m - 1 \in Nat /\ ~(m <= m - 1) /\ Cardinality(V \ {c}) = m - 1 /\ Cardinality(V \ {x}) = m - 1
  <2> HIDE DEF Splits, Bad, c
  <2>1. Cardinality(V) \in Nat \ {0} /\ Cardinality(V \ {c}) = Cardinality(V) - 1
    BY <1>6, Fewer
  <2>2. Cardinality(V \ {x}) = Cardinality(V) - 1
    BY <1>5, <1>6, Fewer
  <2> QED
    BY <1>4, <2>1, <2>2
<1>10. m - 1 \notin Bad
  BY <1>2, <1>9
<1>11. Splits(V \ {c}, x) /\ Splits(V \ {x}, c)
  BY <1>5, <1>6, <1>8, <1>9, <1>10
<1>12. (V \ {c}) \ {x} = (V \ {x}) \ {c}
  OBVIOUS
<1> DEFINE r == SumFunctionOnSet(f, (V \ {c}) \ {x})
<1>13. IsFiniteSet((V \ {c}) \ {x})
  BY <1>6, FS_Subset
<1>14. r \in Int /\ f[x] \in Int /\ f[c] \in Int
  BY <1>5, <1>6, <1>13, SumInt
<1>15. /\ SumFunctionOnSet(f, V \ {c}) = f[x] + r
       /\ SumFunctionOnSet(f, V \ {x}) = f[c] + r
  BY <1>11, <1>12
<1> HIDE DEF r, c
<1>16. f[c] + (f[x] + r) = f[x] + (f[c] + r)
  BY <1>14
<1> QED
  BY <1>5, <1>7, <1>15, <1>16

(***************************************************************************)
(* One term of a sum changes.                                              *)
(***************************************************************************)
LEMMA SumChange ==
    ASSUME NEW f, NEW e, NEW S, IsFiniteSet(S), NEW a \in S,
           \A x \in S : f[x] \in Int /\ e[x] \in Int,
           \A x \in S \ {a} : f[x] = e[x]
    PROVE  SumFunctionOnSet(e, S) = SumFunctionOnSet(f, S) + (e[a] - f[a])
<1>1. IsFiniteSet(S \ {a})
  BY FS_Subset
<1>2. SumFunctionOnSet(e, S \ {a}) = SumFunctionOnSet(f, S \ {a})
  BY <1>1, SumExt
<1>3. SumFunctionOnSet(f, S \ {a}) \in Int
  BY <1>1, SumInt
<1>4. /\ SumFunctionOnSet(f, S) = f[a] + SumFunctionOnSet(f, S \ {a})
      /\ SumFunctionOnSet(e, S) = e[a] + SumFunctionOnSet(e, S \ {a})
  BY SumTake
<1> QED
  BY <1>2, <1>3, <1>4

(***************************************************************************)
(* A sum of zeros is zero.                                                 *)
(***************************************************************************)
LEMMA SumZero ==
    ASSUME NEW f, NEW S, IsFiniteSet(S), \A x \in S : f[x] = 0
    PROVE  SumFunctionOnSet(f, S) = 0
<1> DEFINE Bad == {n \in Nat : \E V \in SUBSET S : Cardinality(V) = n /\ SumFunctionOnSet(f, V) # 0}
<1> SUFFICES ASSUME SumFunctionOnSet(f, S) # 0 PROVE FALSE
  OBVIOUS
<1>1. Cardinality(S) \in Bad
  BY FS_CardinalityType
<1>2. PICK m \in Bad : \A y \in Bad : m <= y
  <2>1. Bad \in SUBSET Nat /\ Bad # {}
    BY <1>1
  <2> HIDE DEF Bad
  <2> QED
    BY <2>1, LeastNat
<1>3. m \in Nat
  BY <1>2
<1>4. PICK V \in SUBSET S : Cardinality(V) = m /\ SumFunctionOnSet(f, V) # 0
  BY <1>2
<1>5. IsFiniteSet(V)
  BY FS_Subset
<1>6. SumFunctionOnSet(f, V) = IF V = {} THEN 0 ELSE f[Any(V)] + SumFunctionOnSet(f, V \ {Any(V)})
  BY <1>5, SumUnfold
<1>7. V # {}
  BY <1>4, <1>6
<1>8. Any(V) \in V /\ Cardinality(V \ {Any(V)}) = m - 1 /\ m - 1 \in Nat /\ ~(m <= m - 1)
  BY <1>3, <1>4, <1>5, <1>7, Smaller
<1>9. m - 1 \notin Bad
  BY <1>2, <1>8
<1>10. SumFunctionOnSet(f, V \ {Any(V)}) = 0
  BY <1>8, <1>9
<1> QED
  BY <1>4, <1>6, <1>7, <1>8, <1>10

(***************************************************************************)
(* A sum is the sum over a part and over the rest.                         *)
(***************************************************************************)
LEMMA SumSplit ==
    ASSUME NEW f, NEW S, IsFiniteSet(S), \A x \in S : f[x] \in Int, NEW T \in SUBSET S
    PROVE  SumFunctionOnSet(f, S) = SumFunctionOnSet(f, T) + SumFunctionOnSet(f, S \ T)
<1> DEFINE Splits(V) == SumFunctionOnSet(f, S) = SumFunctionOnSet(f, V) + SumFunctionOnSet(f, S \ V)
           Bad == {n \in Nat : \E V \in SUBSET S : Cardinality(V) = n /\ ~Splits(V)}
<1>0. \A V \in SUBSET S : IsFiniteSet(V) /\ IsFiniteSet(S \ V) /\ Cardinality(V) \in Nat
  BY FS_Subset, FS_CardinalityType
<1> SUFFICES ASSUME ~Splits(T) PROVE FALSE
  OBVIOUS
<1>1. Cardinality(T) \in Bad
  BY <1>0
<1>2. PICK m \in Bad : \A y \in Bad : m <= y
  <2>1. Bad \in SUBSET Nat /\ Bad # {}
    BY <1>1
  <2> HIDE DEF Bad
  <2> QED
    BY <2>1, LeastNat
<1>3. m \in Nat
  BY <1>2
<1>4. PICK V \in SUBSET S : Cardinality(V) = m /\ ~Splits(V)
  BY <1>2
<1>5. V # {}
  <2>1. ASSUME V = {} PROVE FALSE
    <3>1. SumFunctionOnSet(f, V) = 0 /\ S \ V = S
      BY <2>1, SumUnfold, FS_EmptySet
    <3>2. SumFunctionOnSet(f, S) \in Int
      BY SumInt
    <3> QED
      BY <1>4, <3>1, <3>2
  <2> QED
    BY <2>1
<1>6. PICK c \in V : TRUE
  BY <1>5
<1>7. m - 1 \in Nat /\ ~(m <= m - 1) /\ Cardinality(V \ {c}) = m - 1
  <2> HIDE DEF Splits, Bad
  <2>1. Cardinality(V) \in Nat \ {0} /\ Cardinality(V \ {c}) = Cardinality(V) - 1
    BY <1>0, <1>6, Fewer
  <2> QED
    BY <1>4, <2>1
<1>8. m - 1 \notin Bad
  BY <1>2, <1>7
<1>9. Splits(V \ {c})
  BY <1>7, <1>8
<1> DEFINE r == SumFunctionOnSet(f, V \ {c})
           t == SumFunctionOnSet(f, S \ V)
<1>10. SumFunctionOnSet(f, V) = f[c] + r
  <2>1. IsFiniteSet(V) /\ \A x \in V : f[x] \in Int
    BY <1>0
  <2> HIDE DEF Splits, Bad
  <2> QED
    BY <1>6, <2>1, SumTake
<1>11. SumFunctionOnSet(f, S \ (V \ {c})) = f[c] + t
  <2> DEFINE W == S \ (V \ {c})
  <2>1. W \in SUBSET S /\ c \in W /\ W \ {c} = S \ V
    BY <1>6
  <2>2. IsFiniteSet(W) /\ \A x \in W : f[x] \in Int
    BY <1>0
  <2> HIDE DEF Splits, Bad, W
  <2>3. SumFunctionOnSet(f, W) = f[c] + SumFunctionOnSet(f, W \ {c})
    BY <2>1, <2>2, SumTake
  <2> QED
    BY <2>1, <2>3 DEF W
<1>12. r \in Int /\ t \in Int /\ f[c] \in Int
  <2>1. IsFiniteSet(V \ {c}) /\ IsFiniteSet(S \ V)
    BY <1>0
  <2> HIDE DEF Splits, Bad
  <2> QED
    BY <1>6, <2>1, SumInt
<1>13. /\ SumFunctionOnSet(f, S) = r + SumFunctionOnSet(f, S \ (V \ {c}))
       /\ SumFunctionOnSet(f, S) # SumFunctionOnSet(f, V) + t
  BY <1>4, <1>9
<1> HIDE DEF r, t, Splits, Bad
<1>14. SumFunctionOnSet(f, S) = r + (f[c] + t) /\ SumFunctionOnSet(f, S) # (f[c] + r) + t
  BY <1>10, <1>11, <1>13
<1> QED
  BY <1>12, <1>14

(***************************************************************************)
(* A sum may be taken along a bijection.                                   *)
(***************************************************************************)
LEMMA SumAlong ==
    ASSUME NEW S, NEW T, NEW f, NEW e, IsFiniteSet(S), \A x \in T : f[x] \in Int,
           NEW b \in [S -> T], \A x, y \in S : b[x] = b[y] => x = y,
           \A y \in T : \E x \in S : b[x] = y, \A x \in S : e[x] = f[b[x]]
    PROVE  IsFiniteSet(T) /\ SumFunctionOnSet(e, S) = SumFunctionOnSet(f, T)
<1> DEFINE Im(V) == {b[x] : x \in V}
           Same(V) == SumFunctionOnSet(e, V) = SumFunctionOnSet(f, Im(V))
           Bad == {n \in Nat : \E V \in SUBSET S : Cardinality(V) = n /\ ~Same(V)}
<1>0. \A V \in SUBSET S : IsFiniteSet(V) /\ Im(V) \subseteq T /\ IsFiniteSet(Im(V))
  <2>1. b \in Surjection(S, T)
    BY DEF Surjection
  <2>2. IsFiniteSet(T)
    BY <2>1, FS_Surjection
  <2> QED
    BY <2>2, FS_Subset
<1>t. Im(S) = T
  OBVIOUS
<1> SUFFICES ASSUME ~Same(S) PROVE FALSE
  BY <1>0, <1>t
<1>1. Cardinality(S) \in Bad
  BY FS_CardinalityType
<1>2. PICK m \in Bad : \A y \in Bad : m <= y
  <2>1. Bad \in SUBSET Nat /\ Bad # {}
    BY <1>1
  <2> HIDE DEF Bad
  <2> QED
    BY <2>1, LeastNat
<1>3. m \in Nat
  BY <1>2
<1>4. PICK V \in SUBSET S : Cardinality(V) = m /\ ~Same(V)
  BY <1>2
<1>5. V # {}
  <2>1. ASSUME V = {} PROVE FALSE
    <3>1. Im(V) = {}
      BY <2>1
    <3> QED
      BY <1>4, <2>1, <3>1, SumUnfold, FS_EmptySet
  <2> QED
    BY <2>1
<1>6. PICK c \in V : TRUE
  BY <1>5
<1>7. m - 1 \in Nat /\ ~(m <= m - 1) /\ Cardinality(V \ {c}) = m - 1
  <2> HIDE DEF Same, Bad, Im
  <2>1. Cardinality(V) \in Nat \ {0} /\ Cardinality(V \ {c}) = Cardinality(V) - 1
    BY <1>0, <1>6, Fewer
  <2> QED
    BY <1>4, <2>1
<1>8. m - 1 \notin Bad
  BY <1>2, <1>7
<1>9. Same(V \ {c})
  BY <1>7, <1>8
<1>10. Im(V \ {c}) = Im(V) \ {b[c]} /\ b[c] \in Im(V)
  OBVIOUS
<1>11. \A x \in V : e[x] \in Int
  OBVIOUS
<1>12. SumFunctionOnSet(e, V) = e[c] + SumFunctionOnSet(e, V \ {c})
  <2>1. IsFiniteSet(V)
    BY <1>0
  <2> HIDE DEF Same, Bad, Im
  <2> QED
    BY <1>11, <2>1, SumTake
<1>13. SumFunctionOnSet(f, Im(V)) = f[b[c]] + SumFunctionOnSet(f, Im(V) \ {b[c]})
  <2>1. IsFiniteSet(Im(V)) /\ \A x \in Im(V) : f[x] \in Int
    BY <1>0
  <2> HIDE DEF Im
  <2> QED
    BY <1>10, <2>1, SumTake
<1> QED
  BY <1>4, <1>9, <1>10, <1>12, <1>13

(***************************************************************************)
(* The terms of one sequence and then those of another.                    *)
(***************************************************************************)
LEMMA SumConcat ==
    ASSUME NEW m \in Nat, NEW n \in Nat, NEW f, NEW g, NEW e,
           \A i \in 1..m : f[i] \in Int /\ e[i] = f[i],
           \A i \in 1..n : g[i] \in Int /\ e[m + i] = g[i]
    PROVE  SumFunctionOnSet(e, 1..(m + n)) = SumFunctionOnSet(f, 1..m) + SumFunctionOnSet(g, 1..n)
<1> DEFINE S == 1..(m + n)
           T == 1..m
           R == (m + 1)..(m + n)
           b == [i \in 1..n |-> m + i]
<1>1. IsFiniteSet(S) /\ IsFiniteSet(T) /\ IsFiniteSet(1..n)
  BY FS_Interval
<1>2. T \in SUBSET S /\ S \ T = R
  OBVIOUS
<1>3. /\ b \in [1..n -> R] /\ \A x, y \in 1..n : b[x] = b[y] => x = y
      /\ \A y \in R : \E x \in 1..n : b[x] = y
  <2>1. \A y \in R : y - m \in 1..n /\ b[y - m] = y
    OBVIOUS
  <2>2. b \in [1..n -> R] /\ \A x, y \in 1..n : b[x] = b[y] => x = y
    OBVIOUS
  <2> QED
    BY <2>1, <2>2
<1>4. \A x \in 1..n : g[x] = e[b[x]]
  OBVIOUS
<1>5. \A x \in R : e[x] \in Int
  <2>1. \A x \in 1..n : e[b[x]] \in Int
    OBVIOUS
  <2> HIDE DEF b, R
  <2> QED
    BY <1>3, <2>1
<1> HIDE DEF b
<1>6. \A x \in S : e[x] \in Int
  BY <1>2, <1>5
<1> HIDE DEF S, T, R
<1>7. SumFunctionOnSet(e, S) = SumFunctionOnSet(e, T) + SumFunctionOnSet(e, R)
  BY <1>1, <1>2, <1>6, SumSplit
<1>8. SumFunctionOnSet(e, T) = SumFunctionOnSet(f, T)
  BY <1>1, SumExt DEF T
<1>9. SumFunctionOnSet(g, 1..n) = SumFunctionOnSet(e, R)
  <2> DEFINE N == 1..n
  <2>1. /\ IsFiniteSet(N) /\ b \in [N -> R] /\ \A x \in N : g[x] = e[b[x]]
        /\ \A x, y \in N : b[x] = b[y] => x = y
        /\ \A y \in R : \E x \in N : b[x] = y
    BY <1>1, <1>3, <1>4
  <2> HIDE DEF N
  <2>2. SumFunctionOnSet(g, N) = SumFunctionOnSet(e, R)
    BY <2>1, <1>5, SumAlong
  <2> QED
    BY <2>2 DEF N
<1>10. SumFunctionOnSet(e, S) = SumFunctionOnSet(f, T) + SumFunctionOnSet(g, 1..n)
  BY <1>7, <1>8, <1>9
<1> QED
  BY <1>10, Zenon DEF S, T

-----------------------------------------------------------------------------
(***************************************************************************)
(* What the fields of an order are.                                        *)
(***************************************************************************)
LEMMA Fields ==
    ASSUME NEW o \in LimitOrder
    PROVE  /\ o.owner \in Users /\ o.pair \in Pairs /\ o.side \in OrderSide /\ o.price \in Int
           /\ o.amount \in Int /\ o.remaining \in Int /\ o.status \in OrderStatus
           /\ o.tif \in TimeInForce /\ o.timestamp \in Nat
           /\ <<o.pair, o.side>> \in Books
  BY DEF LimitOrder, Books

(***************************************************************************)
(* A fill takes from what remains and changes nothing else.                *)
(***************************************************************************)
LEMMA Filling ==
    ASSUME NEW o \in LimitOrder, OrderConsistent(o), NEW fill \in Int, 0 < fill, fill <= o.remaining,
           now \in Nat
    PROVE  LET f == Filled(o, fill) IN
           /\ f \in LimitOrder /\ OrderConsistent(f)
           /\ f.remaining = o.remaining - fill /\ f.amount = o.amount
           /\ f.pair = o.pair /\ f.side = o.side /\ f.price = o.price /\ f.tif = o.tif
           /\ f.timestamp = o.timestamp /\ f.owner = o.owner /\ f.status # "Cancelled"
           /\ IsOpen(f) <=> f.remaining # 0
<1> DEFINE n == o.remaining - fill
           s == StatusAfterFill(n)
           f == [o EXCEPT !.remaining = n, !.status = s]
<1>1. n \in Int /\ 0 <= n /\ n < o.amount /\ o.amount \in Int /\ o.timestamp \in Nat /\ o.price \in Int
  <2>1. o.remaining \in Int /\ o.amount \in Int /\ o.timestamp \in Nat /\ o.price \in Int
    BY Fields
  <2>2. o.remaining <= o.amount
    BY DEF OrderConsistent
  <2> QED
    BY <2>1, <2>2
<1>2. s \in {"Filled", "PartiallyFilled"} /\ (s = "Filled" <=> n = 0)
  BY DEF StatusAfterFill
<1>3. Filled(o, fill) = f
  BY DEF Filled
<1> HIDE DEF n, s
<1>4. /\ f \in LimitOrder /\ f.remaining = n /\ f.status = s /\ f.amount = o.amount
      /\ f.pair = o.pair /\ f.side = o.side /\ f.price = o.price /\ f.tif = o.tif
      /\ f.timestamp = o.timestamp /\ f.owner = o.owner
  BY <1>1, <1>2 DEF LimitOrder, OrderStatus
<1> HIDE DEF f
<1>5. OrderConsistent(f)
  BY <1>1, <1>2, <1>4 DEF OrderConsistent
<1>6. IsOpen(f) <=> f.remaining # 0
  BY <1>2, <1>4 DEF IsOpen
<1> QED
  BY <1>2, <1>3, <1>4, <1>5, <1>6 DEF n

(***************************************************************************)
(* remove_order_from_book takes one order out of an ascending list.        *)
(***************************************************************************)
LEMMA Removing ==
    ASSUME NEW n \in Nat, NEW ids \in Seq(1..n), NEW id \in 1..n, Ascending(ids)
    PROVE  LET r == remove_order_from_book(ids, id) IN
           /\ r \in Seq(1..n) /\ Ascending(r)
           /\ \A x \in 1..n : Listed(r, x) <=> Listed(ids, x) /\ x # id
<1>1. CASE ~Listed(ids, id)
  BY <1>1 DEF remove_order_from_book
<1>2. CASE Listed(ids, id)
  <2> DEFINE at == CHOOSE i \in DOMAIN ids : ids[i] = id
             m == Len(ids)
             src(j) == IF j < at THEN j ELSE j + 1
             r == [j \in 1..(m - 1) |-> IF j < at THEN ids[j] ELSE ids[j + 1]]
  <2>1. DOMAIN ids = 1..m /\ m \in Nat
    OBVIOUS
  <2>2. at \in 1..m /\ ids[at] = id
    BY <1>2, <2>1 DEF Listed
  <2>3. remove_order_from_book(ids, id) = r
    BY <1>2 DEF remove_order_from_book
  <2> HIDE DEF at, m
  <2>4. \A j \in 1..(m - 1) : src(j) \in 1..m /\ src(j) # at /\ r[j] = ids[src(j)]
    BY <2>1, <2>2
  <2>5. \A i, j \in 1..(m - 1) : i < j => src(i) < src(j)
    BY <2>1, <2>2
  <2>6. \A i \in 1..m : i # at => \E j \in 1..(m - 1) : src(j) = i
    <3> SUFFICES ASSUME NEW i \in 1..m, i # at
                 PROVE  \E j \in 1..(m - 1) : src(j) = i
      OBVIOUS
    <3>1. CASE i < at
      <4>1. i \in 1..(m - 1) /\ src(i) = i
        BY <2>1, <2>2, <3>1
      <4> QED
        BY <4>1
    <3>2. CASE i > at
      <4>1. i - 1 \in 1..(m - 1) /\ src(i - 1) = i
        BY <2>1, <2>2, <3>2
      <4> QED
        BY <4>1
    <3> QED
      BY <2>1, <2>2, <3>1, <3>2
  <2>7. \A j \in 1..m : ids[j] \in 1..n
    BY <2>1
  <2>8. DOMAIN r = 1..(m - 1) /\ \A j \in 1..(m - 1) : r[j] \in 1..n
    BY <2>4, <2>7
  <2>9. r \in Seq(1..n)
    <3>1. m - 1 \in Nat
      BY <2>1, <2>2
    <3>2. r \in [1..(m - 1) -> 1..n]
      BY <2>8, Zenon
    <3>3. Seq(1..n) = UNION {[1..k -> 1..n] : k \in Nat}
      BY SeqDef, Zenon
    <3> HIDE DEF r
    <3> QED
      BY <3>1, <3>2, <3>3, Zenon
  <2> HIDE DEF src, r
  <2>10. Ascending(r)
    BY <2>1, <2>4, <2>5, <2>8 DEF Ascending
  <2>11. \A i \in 1..m : ids[i] = id => i = at
    <3> SUFFICES ASSUME NEW i \in 1..m, ids[i] = id, i # at PROVE FALSE
      OBVIOUS
    <3>1. i < at \/ at < i
      BY <2>2
    <3>2. ids[i] < ids[at] \/ ids[at] < ids[i]
      BY <2>1, <2>2, <3>1 DEF Ascending
    <3> QED
      BY <2>2, <3>2
  <2>12. ASSUME NEW x \in 1..n
         PROVE  Listed(r, x) <=> Listed(ids, x) /\ x # id
    <3>1. ASSUME Listed(r, x) PROVE Listed(ids, x) /\ x # id
      <4>1. PICK j \in 1..(m - 1) : r[j] = x
        BY <2>8, <3>1 DEF Listed
      <4>2. src(j) \in 1..m /\ src(j) # at /\ ids[src(j)] = x
        BY <2>4, <4>1
      <4> QED
        BY <2>1, <2>11, <4>2 DEF Listed
    <3>2. ASSUME Listed(ids, x), x # id PROVE Listed(r, x)
      <4>1. PICK i \in 1..m : ids[i] = x
        BY <2>1, <3>2 DEF Listed
      <4>2. i # at
        BY <2>2, <3>2, <4>1
      <4>3. PICK j \in 1..(m - 1) : src(j) = i
        BY <2>6, <4>2
      <4> QED
        BY <2>4, <2>8, <4>1, <4>3 DEF Listed
    <3> QED
      BY <3>1, <3>2
  <2> QED
    BY <2>3, <2>9, <2>10, <2>12
<1> QED
  BY <1>1, <1>2

(***************************************************************************)
(* An id above all of a list keeps it ascending at its end.                *)
(***************************************************************************)
LEMMA Appending ==
    ASSUME NEW n \in Nat, NEW ids \in Seq(1..n), NEW id \in 1..n, Ascending(ids),
           \A x \in 1..n : Listed(ids, x) => x < id
    PROVE  LET r == Append(ids, id) IN
           /\ r \in Seq(1..n) /\ Ascending(r)
           /\ \A x \in 1..n : Listed(r, x) <=> Listed(ids, x) \/ x = id
<1> DEFINE m == Len(ids)
           r == Append(ids, id)
<1>1. /\ m \in Nat /\ DOMAIN ids = 1..m /\ r \in Seq(1..n) /\ DOMAIN r = 1..(m + 1)
      /\ r[m + 1] = id /\ \A i \in 1..m : r[i] = ids[i] /\ ids[i] \in 1..n
  OBVIOUS
<1>2. \A i \in 1..(m + 1) : i = m + 1 \/ i \in 1..m
  BY <1>1
<1>3. \A i \in 1..m : i \in 1..(m + 1)
  BY <1>1
<1>4. m + 1 \in 1..(m + 1)
  BY <1>1
<1> HIDE DEF m, r
<1>5. Ascending(r)
  <2> SUFFICES ASSUME NEW i \in 1..(m + 1), NEW j \in 1..(m + 1), i < j PROVE r[i] < r[j]
    BY <1>1 DEF Ascending
  <2>1. i \in 1..m
    BY <1>1
  <2>2. CASE j = m + 1
    BY <1>1, <2>1, <2>2 DEF Listed
  <2>3. CASE j \in 1..m
    BY <1>1, <2>1, <2>3 DEF Ascending
  <2> QED
    BY <1>2, <2>2, <2>3
<1>6. \A x \in 1..n : Listed(r, x) <=> Listed(ids, x) \/ x = id
  BY <1>1, <1>2, <1>3, <1>4 DEF Listed
<1> QED
  BY <1>1, <1>5, <1>6 DEF r

(***************************************************************************)
(* The types of the book, one fact at a time.                              *)
(***************************************************************************)
LEMMA Known ==
    ASSUME Typed
    PROVE  /\ o_cnt \in Nat /\ orders \in [1..o_cnt -> LimitOrder] /\ taker \in 0..o_cnt
           /\ taker # 0 => taker \in 1..o_cnt
           /\ obook \in [Books -> Seq(1..o_cnt)] /\ trades \in Seq(Trade) /\ now \in Nat
           /\ stats \in [total_trades : Nat, total_volume : Int]
           /\ \A x \in 1..o_cnt :
                 /\ orders[x] \in LimitOrder /\ OrderConsistent(orders[x])
                 /\ orders[x].price \in Int /\ orders[x].amount \in Int /\ orders[x].remaining \in Int
                 /\ orders[x].timestamp \in Nat /\ orders[x].side \in OrderSide
                 /\ orders[x].pair \in Pairs /\ 0 <= orders[x].remaining
                 /\ IsOpen(orders[x]) => orders[x].remaining > 0
<1>1. /\ o_cnt \in Nat /\ orders \in [1..o_cnt -> LimitOrder] /\ taker \in 0..o_cnt
      /\ obook \in [Books -> Seq(1..o_cnt)] /\ trades \in Seq(Trade) /\ now \in Nat
      /\ stats \in [total_trades : Nat, total_volume : Int]
  BY DEF Typed, BookTypeOK, Books
<1>2. ASSUME NEW x \in 1..o_cnt
      PROVE  /\ orders[x] \in LimitOrder /\ OrderConsistent(orders[x])
             /\ orders[x].price \in Int /\ orders[x].amount \in Int /\ orders[x].remaining \in Int
             /\ orders[x].timestamp \in Nat /\ orders[x].side \in OrderSide
             /\ orders[x].pair \in Pairs /\ 0 <= orders[x].remaining
             /\ IsOpen(orders[x]) => orders[x].remaining > 0
  <2>1. orders[x] \in LimitOrder /\ OrderConsistent(orders[x])
    BY <1>1 DEF Typed
  <2>2. /\ orders[x].price \in Int /\ orders[x].amount \in Int /\ orders[x].remaining \in Int
        /\ orders[x].timestamp \in Nat /\ orders[x].side \in OrderSide
        /\ orders[x].pair \in Pairs
    BY <2>1, Fields
  <2>3. 0 <= orders[x].remaining /\ (IsOpen(orders[x]) => orders[x].remaining # 0)
    BY <2>1 DEF OrderConsistent, IsOpen
  <2> QED
    BY <2>1, <2>2, <2>3
<1>3. taker # 0 => taker \in 1..o_cnt
  BY <1>1
<1> QED
  BY <1>1, <1>2, <1>3

(***************************************************************************)
(* The positions that can fill an order are those of the resting orders    *)
(* that match it, one for each.                                            *)
(***************************************************************************)
LEMMA FillableIs ==
    ASSUME Typed, BooksAgree, NEW o, o.pair \in Pairs, o.side \in OrderSide
    PROVE  LET ids == OppositeBook(o) IN
           /\ ids \in Seq(1..o_cnt) /\ Fillable(o) \subseteq 1..Len(ids)
           /\ \A i \in Fillable(o) : ids[i] \in Makers(o)
           /\ \A x \in Makers(o) : \E i \in Fillable(o) : ids[i] = x
           /\ \A i, j \in 1..Len(ids) : i < j => ids[i] < ids[j]
           /\ \A i, j \in 1..Len(ids) : ids[i] = ids[j] => i = j
<1> DEFINE ids == OppositeBook(o)
           k == <<o.pair, Opposite(o.side)>>
<1>1. k \in Books /\ ids = obook[k] /\ k[1] = o.pair /\ k[2] = Opposite(o.side)
  BY DEF Books, OppositeBook, Opposite, OrderSide
<1>2. ids \in Seq(1..o_cnt) /\ DOMAIN ids = 1..Len(ids) /\ Len(ids) \in Nat
      /\ \A i \in 1..Len(ids) : ids[i] \in 1..o_cnt
  <2>1. ids \in Seq(1..o_cnt)
    BY <1>1, Known
  <2> HIDE DEF ids
  <2>2. DOMAIN ids = 1..Len(ids) /\ Len(ids) \in Nat
    BY <2>1
  <2>3. \A i \in 1..Len(ids) : ids[i] \in 1..o_cnt
    BY <2>1, ElementOfSeq
  <2> QED
    BY <2>1, <2>2, <2>3
<1>3. /\ Ascending(ids)
      /\ \A x \in 1..o_cnt :
           Listed(ids, x) <=> Resting(x) /\ orders[x].pair = o.pair /\ orders[x].side = Opposite(o.side)
  BY <1>1 DEF BooksAgree
<1>4. Fillable(o) = {i \in 1..Len(ids) : /\ IsOpen(orders[ids[i]]) /\ orders[ids[i]].remaining > 0
                                         /\ order_matches(o, orders[ids[i]])}
  BY <1>2 DEF Fillable
<1> HIDE DEF ids, k
<1>5. \A i, j \in 1..Len(ids) : i < j => ids[i] < ids[j]
  BY <1>2, <1>3 DEF Ascending
<1>6. ASSUME NEW i \in 1..Len(ids), NEW j \in 1..Len(ids), ids[i] = ids[j]
      PROVE  i = j
  <2>1. ~(ids[i] < ids[j]) /\ ~(ids[j] < ids[i])
    BY <1>2, <1>6
  <2> QED
    BY <1>2, <1>5, <2>1
<1>7. \A i \in Fillable(o) : ids[i] \in Makers(o)
  BY <1>2, <1>3, <1>4 DEF Makers, Listed
<1>8. ASSUME NEW x \in Makers(o)
      PROVE  \E i \in Fillable(o) : ids[i] = x
  <2>1. x \in 1..o_cnt /\ Resting(x) /\ order_matches(o, orders[x]) /\ IsOpen(orders[x])
        /\ orders[x].remaining > 0
    BY Known DEF Makers, Resting
  <2>2. Listed(ids, x)
    BY <1>3, <2>1 DEF order_matches
  <2>3. PICK i \in 1..Len(ids) : ids[i] = x
    BY <1>2, <2>2 DEF Listed
  <2> QED
    BY <1>4, <2>1, <2>3
<1> QED
  BY <1>2, <1>4, <1>5, <1>6, <1>7, <1>8 DEF ids

(***************************************************************************)
(* What available_fill_for_order adds up is what remains of those orders.  *)
(***************************************************************************)
LEMMA Available ==
    ASSUME Typed, BooksAgree, NEW o, o.pair \in Pairs, o.side \in OrderSide
    PROVE  available_fill_for_order(o) = SumFunctionOnSet(Remaining, Makers(o))
<1> DEFINE ids == OppositeBook(o)
           S == Fillable(o)
           T == Makers(o)
           b == [i \in S |-> ids[i]]
           e == [i \in S |-> orders[ids[i]].remaining]
<1>1. /\ S \subseteq 1..Len(ids) /\ ids \in Seq(1..o_cnt)
      /\ \A i \in S : ids[i] \in T
      /\ \A x \in T : \E i \in S : ids[i] = x
      /\ \A i, j \in 1..Len(ids) : ids[i] = ids[j] => i = j
  BY FillableIs
<1>2. IsFiniteSet(S)
  <2>1. Len(ids) \in Nat /\ IsFiniteSet(1..Len(ids))
    BY <1>1, FS_Interval
  <2> QED
    BY <1>1, <2>1, FS_Subset
<1>3. \A x \in T : x \in 1..o_cnt /\ Remaining[x] = orders[x].remaining /\ Remaining[x] \in Int
  BY Known DEF Makers, Remaining
<1>4. available_fill_for_order(o) = SumFunctionOnSet(e, S)
  <2>1. DOMAIN e = S
    OBVIOUS
  <2>2. available_fill_for_order(o) = SumFunction(e)
    BY DEF available_fill_for_order
  <2> QED
    BY <2>1, <2>2 DEF SumFunction
<1>5. b \in [S -> T] /\ (\A x, y \in S : b[x] = b[y] => x = y) /\ (\A y \in T : \E x \in S : b[x] = y)
      /\ \A x \in S : e[x] = Remaining[b[x]]
  <2> HIDE DEF T, S, ids
  <2> QED
    BY <1>1, <1>3
<1> HIDE DEF b, e, S, T
<1>6. SumFunctionOnSet(e, S) = SumFunctionOnSet(Remaining, T)
  BY <1>2, <1>3, <1>5, SumAlong
<1> QED
  BY <1>4, <1>6 DEF T

-----------------------------------------------------------------------------
(***************************************************************************)
(* One iteration of the loop, with the resting order m it fills.           *)
(***************************************************************************)
Matched(m, fill) ==
    /\ taker \in 1..o_cnt /\ Resting(m) /\ order_matches(orders[taker], orders[m])
    /\ 0 < fill /\ fill <= orders[taker].remaining /\ fill <= orders[m].remaining
    /\ orders' = [orders EXCEPT ![m] = Filled(orders[m], fill), ![taker] = Filled(orders[taker], fill)]
    /\ obook' = IF orders[m].remaining = fill
                THEN [obook EXCEPT ![<<orders[m].pair, orders[m].side>>] = remove_order_from_book(@, m)]
                ELSE obook
    /\ record_trades(
         <<TradeRecord(orders[taker].owner, orders[taker].pair, fill, orders[m].price, orders[taker].side),
           TradeRecord(orders[m].owner, orders[m].pair, fill, orders[m].price, orders[m].side)>>,
         2 * fill)
    /\ \A x \in Makers(orders[taker]) :
          x # m => \/ BetterPrice(orders[taker].side, orders[m].price, orders[x].price)
                   \/ orders[m].price = orders[x].price /\ m < x
    /\ UNCHANGED <<o_cnt, taker, now>>

(***************************************************************************)
(* pick_best_match_index finds the best price and, at that price, the      *)
(* smallest id, although it compares timestamps and positions.             *)
(***************************************************************************)
LEMMA Matching ==
    ASSUME BookCore, match_limit_order
    PROVE  \E m \in 1..o_cnt, fill \in Int : Matched(m, fill)
<1> DEFINE t == orders[taker]
           ids == OppositeBook(t)
<1>1. taker \in 1..o_cnt /\ t \in LimitOrder /\ t.pair \in Pairs /\ t.side \in OrderSide
      /\ t.remaining \in Int /\ t.remaining > 0
  BY Known DEF BookCore, match_limit_order
<1>2. PICK i \in pick_best_match_index(t) :
         LET maker_id == ids[i]
             maker    == orders[maker_id]
             fill     == IF t.remaining < maker.remaining THEN t.remaining ELSE maker.remaining
         IN  /\ orders' = [orders EXCEPT ![maker_id] = Filled(maker, fill),
                                         ![taker] = Filled(t, fill)]
             /\ obook' = IF maker.remaining = fill
                         THEN [obook EXCEPT ![<<maker.pair, maker.side>>] =
                                 remove_order_from_book(@, maker_id)]
                         ELSE obook
             /\ record_trades(
                  <<TradeRecord(t.owner, t.pair, fill, maker.price, t.side),
                    TradeRecord(maker.owner, maker.pair, fill, maker.price, maker.side)>>,
                  2 * fill)
  BY DEF match_limit_order
<1> DEFINE m == ids[i]
           fill == IF t.remaining < orders[m].remaining THEN t.remaining ELSE orders[m].remaining
<1>3. /\ ids \in Seq(1..o_cnt) /\ Fillable(t) \subseteq 1..Len(ids)
      /\ \A j \in Fillable(t) : ids[j] \in Makers(t)
      /\ \A x \in Makers(t) : \E j \in Fillable(t) : ids[j] = x
      /\ \A j, l \in 1..Len(ids) : j < l => ids[j] < ids[l]
  <2> HIDE DEF t
  <2>1. Typed /\ BooksAgree
    BY DEF BookCore
  <2> QED
    BY <1>1, <2>1, FillableIs
<1>4. i \in Fillable(t) /\ \A j \in Fillable(t) : Beats(t, i, j)
  BY <1>2 DEF pick_best_match_index
<1>5. m \in Makers(t) /\ m \in 1..o_cnt /\ Resting(m) /\ order_matches(t, orders[m])
  BY <1>3, <1>4 DEF Makers
<1>6. orders[m].remaining \in Int /\ orders[m].remaining > 0
  BY <1>5, Known DEF BookCore, Resting
<1>7. fill \in Int /\ 0 < fill /\ fill <= t.remaining /\ fill <= orders[m].remaining
  BY <1>1, <1>6
<1>8. ASSUME NEW x \in Makers(t), x # m
      PROVE  \/ BetterPrice(t.side, orders[m].price, orders[x].price)
             \/ orders[m].price = orders[x].price /\ m < x
  <2>1. PICK j \in Fillable(t) : ids[j] = x
    BY <1>3
  <2>2. \/ BetterPrice(t.side, orders[m].price, orders[x].price)
        \/ orders[m].price = orders[x].price /\ orders[m].timestamp < orders[x].timestamp
        \/ orders[m].price = orders[x].price /\ orders[m].timestamp = orders[x].timestamp /\ i <= j
    BY <1>4, <2>1 DEF Beats
  <2>3. x \in 1..o_cnt /\ o_cnt \in Nat /\ orders[x].timestamp \in Nat /\ orders[m].timestamp \in Nat
    BY <1>5, Known DEF Makers, BookCore
  <2>4. i \in 1..Len(ids) /\ j \in 1..Len(ids) /\ Len(ids) \in Nat
    BY <1>3, <1>4
  <2> HIDE DEF ids, t
  <2>5. CASE orders[m].timestamp < orders[x].timestamp
    <3>1. ~(x < m)
      <4>1. x < m => orders[x].timestamp <= orders[m].timestamp
        BY <1>5, <2>3 DEF BookCore, InOrder
      <4> QED
        BY <2>3, <2>5, <4>1
    <3>2. x \in Nat /\ m \in Nat
      BY <1>5, <2>3
    <3>3. m < x
      BY <1>8, <3>1, <3>2
    <3> QED
      BY <2>2, <2>3, <2>5, <3>3
  <2>6. CASE i <= j
    <3>1. i # j
      BY <1>8, <2>1
    <3>2. i < j
      BY <2>4, <2>6, <3>1
    <3>3. m < x
      BY <1>3, <2>1, <2>4, <3>2
    <3> QED
      BY <2>2, <2>3, <2>5, <3>3
  <2> QED
    BY <2>2, <2>5, <2>6
<1>9. UNCHANGED <<o_cnt, taker, now>>
  BY DEF match_limit_order
<1>10. Matched(m, fill)
  BY <1>1, <1>2, <1>5, <1>7, <1>8, <1>9 DEF Matched
<1> QED
  BY <1>5, <1>7, <1>10

(***************************************************************************)
(* What an iteration does to the orders.                                   *)
(***************************************************************************)
LEMMA MatchedOrders ==
    ASSUME BookCore, NEW m \in 1..o_cnt, NEW fill \in Int, Matched(m, fill)
    PROVE  /\ m # taker /\ taker = o_cnt /\ o_cnt' = o_cnt /\ taker' = taker
           /\ orders' \in [1..o_cnt -> LimitOrder]
           /\ \A x \in 1..o_cnt :
                /\ x \notin {m, taker} => orders'[x] = orders[x]
                /\ x \in {m, taker} => /\ orders'[x].remaining = orders[x].remaining - fill
                                       /\ orders'[x].status # "Cancelled"
                                       /\ IsOpen(orders'[x]) <=> orders'[x].remaining # 0
                /\ orders'[x].amount = orders[x].amount /\ orders'[x].pair = orders[x].pair
                /\ orders'[x].side = orders[x].side /\ orders'[x].price = orders[x].price
                /\ orders'[x].tif = orders[x].tif /\ orders'[x].timestamp = orders[x].timestamp
                /\ OrderConsistent(orders'[x])
<1>1. m # taker /\ taker \in 1..o_cnt /\ taker = o_cnt /\ UNCHANGED <<o_cnt, taker, now>>
  BY Known DEF Matched, Resting, BookCore, InOrder
<1>2. orders \in [1..o_cnt -> LimitOrder] /\ now \in Nat
      /\ \A x \in 1..o_cnt : orders[x] \in LimitOrder /\ OrderConsistent(orders[x])
  BY Known DEF BookCore
<1> DEFINE a == Filled(orders[m], fill)
           b == Filled(orders[taker], fill)
<1>3. 0 < fill /\ fill <= orders[taker].remaining /\ fill <= orders[m].remaining
      /\ orders' = [orders EXCEPT ![m] = a, ![taker] = b]
  BY DEF Matched
<1>4. /\ a \in LimitOrder /\ OrderConsistent(a)
      /\ a.remaining = orders[m].remaining - fill /\ a.amount = orders[m].amount
      /\ a.pair = orders[m].pair /\ a.side = orders[m].side /\ a.price = orders[m].price
      /\ a.tif = orders[m].tif /\ a.timestamp = orders[m].timestamp /\ a.status # "Cancelled"
      /\ IsOpen(a) <=> a.remaining # 0
  BY <1>2, <1>3, Filling
<1>5. /\ b \in LimitOrder /\ OrderConsistent(b)
      /\ b.remaining = orders[taker].remaining - fill /\ b.amount = orders[taker].amount
      /\ b.pair = orders[taker].pair /\ b.side = orders[taker].side /\ b.price = orders[taker].price
      /\ b.tif = orders[taker].tif /\ b.timestamp = orders[taker].timestamp /\ b.status # "Cancelled"
      /\ IsOpen(b) <=> b.remaining # 0
  BY <1>1, <1>2, <1>3, Filling
<1> HIDE DEF a, b
<1>6. orders' \in [1..o_cnt -> LimitOrder] /\ orders'[m] = a /\ orders'[taker] = b
      /\ \A x \in 1..o_cnt : x \notin {m, taker} => orders'[x] = orders[x]
  BY <1>1, <1>2, <1>3, <1>4, <1>5
<1> QED
  BY <1>1, <1>2, <1>4, <1>5, <1>6

(***************************************************************************)
(* The orders that rest after an iteration: those that did, but for one    *)
(* that has been filled.                                                   *)
(***************************************************************************)
LEMMA MatchedResting ==
    ASSUME BookCore, NEW m \in 1..o_cnt, NEW fill \in Int, Matched(m, fill)
    PROVE  \A x \in 1..o_cnt :
             Resting(x)' <=> Resting(x) /\ ~(x = m /\ orders[m].remaining = fill)
<1> SUFFICES ASSUME NEW x \in 1..o_cnt
             PROVE  Resting(x)' <=> Resting(x) /\ ~(x = m /\ orders[m].remaining = fill)
  OBVIOUS
<1>0. Resting(x)' <=> x \in 1..o_cnt' /\ x # taker' /\ IsOpen(orders'[x])
  BY DEF Resting, IsOpen
<1>1. o_cnt' = o_cnt /\ taker' = taker /\ m # taker
  BY MatchedOrders
<1>2. CASE x = m
  <2>1. orders'[x].remaining = orders[x].remaining - fill /\ (IsOpen(orders'[x]) <=> orders'[x].remaining # 0)
    BY <1>2, MatchedOrders
  <2>2. Resting(m) /\ orders[m].remaining \in Int
    BY Known DEF Matched, BookCore
  <2>3. orders'[x].remaining # 0 <=> orders[m].remaining # fill
    BY <1>2, <2>1, <2>2
  <2> QED
    BY <1>0, <1>1, <1>2, <2>1, <2>2, <2>3
<1>3. CASE x = taker
  BY <1>0, <1>1, <1>3 DEF Resting
<1>4. CASE x \notin {m, taker}
  <2>1. orders'[x] = orders[x]
    BY <1>4, MatchedOrders
  <2> QED
    BY <1>0, <1>1, <1>4, <2>1 DEF Resting
<1> QED
  BY <1>2, <1>3, <1>4

(***************************************************************************)
(* Books that follow the resting orders: when the resting orders change by *)
(* the loss of one, and its book loses it.                                 *)
(***************************************************************************)
LEMMA BookLoses ==
    ASSUME Typed, BooksAgree, NEW m \in 1..o_cnt, Resting(m), o_cnt' = o_cnt,
           \A x \in 1..o_cnt : /\ Resting(x)' <=> Resting(x) /\ x # m
                               /\ orders'[x].pair = orders[x].pair /\ orders'[x].side = orders[x].side,
           obook' = [obook EXCEPT ![<<orders[m].pair, orders[m].side>>] = remove_order_from_book(@, m)]
    PROVE  BooksAgree' /\ obook' \in [Books -> Seq(1..o_cnt')]
<1> DEFINE k0 == <<orders[m].pair, orders[m].side>>
           r == remove_order_from_book(obook[k0], m)
<1>1. o_cnt \in Nat /\ obook \in [Books -> Seq(1..o_cnt)] /\ k0 \in Books
      /\ k0[1] = orders[m].pair /\ k0[2] = orders[m].side
  BY Known DEF Books
<1>2. r \in Seq(1..o_cnt) /\ Ascending(r)
      /\ \A x \in 1..o_cnt : Listed(r, x) <=> Listed(obook[k0], x) /\ x # m
  <2>1. Ascending(obook[k0]) /\ obook[k0] \in Seq(1..o_cnt)
    BY <1>1 DEF BooksAgree
  <2> HIDE DEF k0
  <2> QED
    BY <1>1, <2>1, Removing
<1>3. obook' = [obook EXCEPT ![k0] = r]
  OBVIOUS
<1> HIDE DEF r
<1>4. obook' \in [Books -> Seq(1..o_cnt)] /\ obook'[k0] = r /\ \A k \in Books \ {k0} : obook'[k] = obook[k]
  BY <1>1, <1>2, <1>3
<1>5. ASSUME NEW k \in Books
      PROVE  /\ Ascending(obook'[k])
             /\ \A x \in 1..o_cnt : Listed(obook'[k], x)
                   <=> Resting(x)' /\ orders'[x].pair = k[1] /\ orders'[x].side = k[2]
  <2>1. /\ Ascending(obook[k])
        /\ \A x \in 1..o_cnt :
              Listed(obook[k], x) <=> Resting(x) /\ orders[x].pair = k[1] /\ orders[x].side = k[2]
    BY DEF BooksAgree
  <2>2. CASE k = k0
    BY <1>2, <1>4, <2>1, <2>2
  <2>3. CASE k # k0
    <3>1. ~(orders[m].pair = k[1] /\ orders[m].side = k[2])
      BY <2>3 DEF Books
    <3> QED
      BY <1>4, <2>1, <2>3, <3>1
  <2> QED
    BY <2>2, <2>3
<1> QED
  BY <1>4, <1>5 DEF BooksAgree, Ascending, Listed

(***************************************************************************)
(* A trade record is one.                                                  *)
(***************************************************************************)
LEMMA Records ==
    ASSUME now \in Nat
    PROVE  \A u \in Users, k \in Pairs, n \in Int, p \in Int, s \in OrderSide :
             LET r == TradeRecord(u, k, n, p, s) IN
             /\ r \in Trade /\ r.price = p
             /\ s = "Buy" => r.signed_amount = n
             /\ s = "Sell" => r.signed_amount = 0 - n
<1> SUFFICES ASSUME NEW u \in Users, NEW k \in Pairs, NEW n \in Int, NEW p \in Int, NEW s \in OrderSide
             PROVE  /\ TradeRecord(u, k, n, p, s) \in Trade /\ TradeRecord(u, k, n, p, s).price = p
                    /\ s = "Buy" => TradeRecord(u, k, n, p, s).signed_amount = n
                    /\ s = "Sell" => TradeRecord(u, k, n, p, s).signed_amount = 0 - n
  OBVIOUS
<1> DEFINE a == IF s = "Buy" THEN n ELSE -n
           r == [trader |-> u, pair |-> k, signed_amount |-> a, price |-> p, timestamp |-> now]
<1>1. a \in Int /\ (s = "Buy" => a = n) /\ (s = "Sell" => a = 0 - n)
  OBVIOUS
<1>2. TradeRecord(u, k, n, p, s) = r
  BY DEF TradeRecord
<1> HIDE DEF a
<1>3. r.price = p /\ r.signed_amount = a
  OBVIOUS
<1>4. r \in Trade
  BY <1>1 DEF Trade
<1> QED
  BY <1>1, <1>2, <1>3, <1>4

(***************************************************************************)
(* The two records an iteration logs.                                      *)
(***************************************************************************)
LEMMA MatchedTrades ==
    ASSUME BookCore, NEW m \in 1..o_cnt, NEW fill \in Int, Matched(m, fill)
    PROVE  \E a, b \in Trade :
             /\ trades' = trades \o <<a, b>> /\ trades' \in Seq(Trade) /\ Len(trades') = Len(trades) + 2
             /\ trades'[Len(trades) + 1] = a /\ trades'[Len(trades) + 2] = b
             /\ \A i \in 1..Len(trades) : trades'[i] = trades[i]
             /\ b.price = orders[m].price /\ a.signed_amount + b.signed_amount = 0
             /\ a.signed_amount \in {fill, 0 - fill} /\ b.signed_amount \in {fill, 0 - fill}
             /\ stats' = [total_trades |-> stats.total_trades + 2,
                          total_volume |-> stats.total_volume + 2 * fill]
<1> DEFINE t == orders[taker]
           a == TradeRecord(t.owner, t.pair, fill, orders[m].price, t.side)
           b == TradeRecord(orders[m].owner, orders[m].pair, fill, orders[m].price, orders[m].side)
<1>1. taker \in 1..o_cnt /\ orders[taker] \in LimitOrder /\ orders[m] \in LimitOrder /\ now \in Nat
      /\ trades \in Seq(Trade)
  BY Known DEF BookCore, Matched
<1>2. /\ t.owner \in Users /\ t.pair \in Pairs /\ t.side \in OrderSide
      /\ orders[m].owner \in Users /\ orders[m].pair \in Pairs /\ orders[m].side \in OrderSide
      /\ orders[m].price \in Int
  BY <1>1, Fields
<1>3. a \in Trade /\ (t.side = "Buy" => a.signed_amount = fill)
      /\ (t.side = "Sell" => a.signed_amount = 0 - fill)
  BY <1>1, <1>2, Records, SMTT(30)
<1>4. b \in Trade /\ b.price = orders[m].price
      /\ (orders[m].side = "Buy" => b.signed_amount = fill)
      /\ (orders[m].side = "Sell" => b.signed_amount = 0 - fill)
  BY <1>1, <1>2, Records
<1>5. orders[m].side = Opposite(t.side)
  BY DEF Matched, order_matches
<1>6. a.signed_amount + b.signed_amount = 0
      /\ a.signed_amount \in {fill, 0 - fill} /\ b.signed_amount \in {fill, 0 - fill}
  BY <1>2, <1>3, <1>4, <1>5 DEF Opposite, OrderSide
<1>7. trades' = trades \o <<a, b>> /\ Len(<<a, b>>) = 2
      /\ stats' = [total_trades |-> stats.total_trades + 2,
                   total_volume |-> stats.total_volume + 2 * fill]
  BY DEF Matched, record_trades
<1> HIDE DEF a, b
<1>8. /\ trades' \in Seq(Trade) /\ Len(trades') = Len(trades) + 2
      /\ trades'[Len(trades) + 1] = a /\ trades'[Len(trades) + 2] = b
      /\ \A i \in 1..Len(trades) : trades'[i] = trades[i]
  BY <1>1, <1>3, <1>4, <1>7
<1> QED
  BY <1>3, <1>4, <1>6, <1>7, <1>8

(***************************************************************************)
(* An iteration takes the same from the incoming order and from what the   *)
(* book can fill of it.                                                    *)
(***************************************************************************)
LEMMA MatchedFok ==
    ASSUME BookCore, NEW m \in 1..o_cnt, NEW fill \in Int, Matched(m, fill)
    PROVE  FokAhead'
<1> DEFINE t == orders[taker]
           M == Makers(t)
           N == Makers(t)'
           R == Remaining
           Q == Remaining'
<1>1. /\ m # taker /\ taker = o_cnt /\ o_cnt' = o_cnt /\ taker' = taker /\ taker \in 1..o_cnt
      /\ \A x \in 1..o_cnt :
           /\ x \notin {m, taker} => orders'[x] = orders[x]
           /\ x \in {m, taker} => orders'[x].remaining = orders[x].remaining - fill
           /\ orders'[x].pair = orders[x].pair /\ orders'[x].side = orders[x].side
           /\ orders'[x].price = orders[x].price /\ orders'[x].tif = orders[x].tif
           /\ Resting(x)' <=> Resting(x) /\ ~(x = m /\ orders[m].remaining = fill)
  <2>1. taker \in 1..o_cnt
    BY DEF Matched
  <2>2. \A x \in 1..o_cnt : Resting(x)' <=> Resting(x) /\ ~(x = m /\ orders[m].remaining = fill)
    BY MatchedResting
  <2>3. /\ m # taker /\ taker = o_cnt /\ o_cnt' = o_cnt /\ taker' = taker
        /\ \A x \in 1..o_cnt :
             /\ x \notin {m, taker} => orders'[x] = orders[x]
             /\ x \in {m, taker} => orders'[x].remaining = orders[x].remaining - fill
             /\ orders'[x].pair = orders[x].pair /\ orders'[x].side = orders[x].side
             /\ orders'[x].price = orders[x].price /\ orders'[x].tif = orders[x].tif
    BY MatchedOrders
  <2> QED
    BY <2>1, <2>2, <2>3
<1>2. /\ o_cnt \in Nat /\ \A x \in 1..o_cnt : orders[x].remaining \in Int
  BY Known DEF BookCore
<1>3. M \subseteq 1..o_cnt /\ m \in M /\ taker \notin M
  BY DEF Makers, Matched, Resting
<1>4. N = {x \in M : ~(x = m /\ orders[m].remaining = fill)}
  <2>1. N = {x \in 1..o_cnt : Resting(x)' /\ order_matches(orders'[taker], orders'[x])}
    BY <1>1 DEF Makers, order_matches
  <2>2. \A x \in 1..o_cnt : order_matches(orders'[taker], orders'[x]) <=> order_matches(t, orders[x])
    BY <1>1 DEF order_matches
  <2> QED
    BY <1>1, <2>1, <2>2 DEF Makers
<1>5. /\ \A x \in 1..o_cnt : R[x] = orders[x].remaining /\ R[x] \in Int
      /\ \A x \in 1..o_cnt : Q[x] = orders'[x].remaining
  BY <1>1, <1>2 DEF Remaining
<1>6. Q[m] = R[m] - fill /\ (\A x \in M \ {m} : Q[x] = R[x]) /\ \A x \in M : Q[x] \in Int
  BY <1>1, <1>3, <1>5
<1>7. IsFiniteSet(M) /\ IsFiniteSet(M \ {m})
  <2>1. 1 \in Int /\ o_cnt \in Int
    BY <1>2
  <2>2. IsFiniteSet(1..o_cnt)
    BY <2>1, FS_Interval
  <2> QED
    BY <1>3, <2>2, FS_Subset
<1>8. /\ FokAhead => (t.tif = "Fok" => SumFunctionOnSet(R, M) >= t.remaining)
      /\ (t.tif = "Fok" => SumFunctionOnSet(Q, N) >= t.remaining - fill) => FokAhead'
  <2>1. orders'[taker].tif = t.tif /\ orders'[taker].remaining = t.remaining - fill
    BY <1>1
  <2>2. N = Makers(orders[taker])'
    OBVIOUS
  <2> QED
    BY <1>1, <2>1, <2>2 DEF FokAhead
<1>9. SumFunctionOnSet(Q, N) = SumFunctionOnSet(R, M) - fill /\ SumFunctionOnSet(R, M) \in Int
  <2> HIDE DEF M, N, R, Q
  <2>0. m \in M /\ (\A x \in M : R[x] \in Int) /\ (\A x \in M : R[x] \in Int /\ Q[x] \in Int)
        /\ (\A x \in M \ {m} : R[x] = Q[x])
    BY <1>3, <1>5, <1>6
  <2>1. SumFunctionOnSet(R, M) \in Int /\ SumFunctionOnSet(R, M \ {m}) \in Int
    BY <1>7, <2>0, SumInt
  <2>2. SumFunctionOnSet(R, M) = R[m] + SumFunctionOnSet(R, M \ {m})
    BY <1>7, <2>0, SumTake, ZenonT(60)
  <2>3. CASE orders[m].remaining = fill
    <3>1. N = M \ {m}
      BY <1>4, <2>3
    <3>2. SumFunctionOnSet(Q, N) = SumFunctionOnSet(R, M \ {m})
      BY <1>6, <1>7, <3>1, SumExt
    <3>3. R[m] = fill
      BY <1>5, <2>3
    <3> QED
      BY <2>1, <2>2, <3>2, <3>3
  <2>4. CASE orders[m].remaining # fill
    <3>1. N = M
      BY <1>4, <2>4
    <3>2. SumFunctionOnSet(Q, M) = SumFunctionOnSet(R, M) + (Q[m] - R[m])
      BY <1>7, <2>0, SumChange, ZenonT(60)
    <3>3. Q[m] - R[m] = 0 - fill
      BY <1>5, <1>6
    <3> QED
      BY <2>1, <3>1, <3>2, <3>3
  <2> QED
    BY <2>3, <2>4
<1>10. t.remaining \in Int
  BY <1>1, <1>2
<1> HIDE DEF M, N, R, Q, t
<1> QED
  BY <1>8, <1>9, <1>10 DEF BookCore

(***************************************************************************)
(* An iteration logs what it fills, once bought and once sold.             *)
(***************************************************************************)
LEMMA MatchedBalance ==
    ASSUME BookCore, Balanced, NEW m \in 1..o_cnt, NEW fill \in Int, Matched(m, fill)
    PROVE  Balanced'
<1> DEFINE S == 1..o_cnt
           D == Done
           E == Done'
           F == [x \in S |-> IF x = m THEN D[x] + fill ELSE D[x]]
           L == Len(trades)
           G == Signed
           H == Signed'
<1>1. /\ m # taker /\ o_cnt' = o_cnt /\ taker \in S
      /\ \A x \in S :
           /\ x \notin {m, taker} => orders'[x] = orders[x]
           /\ x \in {m, taker} => orders'[x].remaining = orders[x].remaining - fill
           /\ orders'[x].amount = orders[x].amount
  BY MatchedOrders, ZenonT(60) DEF Matched
<1>2. /\ o_cnt \in Nat /\ \A x \in S : orders[x].remaining \in Int /\ orders[x].amount \in Int
  BY Known DEF BookCore
<1>3. IsFiniteSet(S)
  BY <1>2, FS_Interval
<1>4. SumFunctionOnSet(E, S) = SumFunctionOnSet(D, S) + 2 * fill /\ SumFunctionOnSet(D, S) \in Int
  <2>1. \A x \in S : D[x] = orders[x].amount - orders[x].remaining /\ D[x] \in Int
    BY <1>2 DEF Done
  <2>2. \A x \in S : E[x] = orders'[x].amount - orders'[x].remaining
    BY <1>1 DEF Done
  <2>3. \A x \in S : E[x] \in Int /\ E[x] = IF x \in {m, taker} THEN D[x] + fill ELSE D[x]
    <3> SUFFICES ASSUME NEW x \in S
                 PROVE  E[x] \in Int /\ E[x] = IF x \in {m, taker} THEN D[x] + fill ELSE D[x]
      OBVIOUS
    <3>1. CASE x \in {m, taker}
      BY <1>1, <1>2, <2>1, <2>2, <3>1
    <3>2. CASE x \notin {m, taker}
      BY <1>1, <1>2, <2>1, <2>2, <3>2
    <3> QED
      BY <3>1, <3>2
  <2>4. \A x \in S : F[x] \in Int /\ F[x] = IF x = m THEN D[x] + fill ELSE D[x]
    BY <2>1
  <2> HIDE DEF D, E, F, S
  <2>5. SumFunctionOnSet(F, S) = SumFunctionOnSet(D, S) + (F[m] - D[m])
    <3>1. m \in S
      BY DEF S
    <3>2. (\A x \in S : D[x] \in Int /\ F[x] \in Int) /\ (\A x \in S \ {m} : D[x] = F[x])
      BY <2>1, <2>4
    <3> QED
      BY <1>3, <3>1, <3>2, SumChange, ZenonT(60)
  <2>6. SumFunctionOnSet(E, S) = SumFunctionOnSet(F, S) + (E[taker] - F[taker])
    <3>1. (\A x \in S : F[x] \in Int /\ E[x] \in Int) /\ (\A x \in S \ {taker} : F[x] = E[x])
      BY <2>3, <2>4
    <3>2. taker \in S
      BY <1>1
    <3> QED
      BY <1>3, <3>1, <3>2, SumChange, ZenonT(60)
  <2>7. F[m] - D[m] = fill /\ E[taker] - F[taker] = fill
    <3>1. m \in S
      BY DEF S
    <3>2. F[m] = D[m] + fill /\ D[m] \in Int
      BY <2>1, <2>4, <3>1
    <3>3. taker \in S /\ taker # m
      BY <1>1
    <3>4. E[taker] = D[taker] + fill /\ F[taker] = D[taker] /\ D[taker] \in Int
      BY <2>1, <2>3, <2>4, <3>3
    <3> QED
      BY <3>2, <3>4
  <2>8. SumFunctionOnSet(D, S) \in Int
    BY <1>3, <2>1, SumInt
  <2> QED
    BY <2>5, <2>6, <2>7, <2>8
<1>5. PICK a, b \in Trade :
         /\ trades' \in Seq(Trade) /\ Len(trades') = L + 2
         /\ trades'[L + 1] = a /\ trades'[L + 2] = b
         /\ \A i \in 1..L : trades'[i] = trades[i]
         /\ a.signed_amount + b.signed_amount = 0
         /\ stats' = [total_trades |-> stats.total_trades + 2,
                      total_volume |-> stats.total_volume + 2 * fill]
  BY MatchedTrades
<1>6. /\ L \in Nat /\ DOMAIN trades = 1..L /\ DOMAIN trades' = 1..(L + 2)
      /\ \A i \in 1..L : trades[i] \in Trade
      /\ a.signed_amount \in Int /\ b.signed_amount \in Int
      /\ stats.total_trades \in Nat /\ stats.total_volume \in Int
  <2>1. trades \in Seq(Trade) /\ stats \in [total_trades : Nat, total_volume : Int]
    BY Known DEF BookCore
  <2>2. L \in Nat /\ DOMAIN trades = 1..L /\ \A i \in 1..L : trades[i] \in Trade
    BY <2>1
  <2>3. DOMAIN trades' = 1..(L + 2)
    BY <1>5
  <2>4. a.signed_amount \in Int /\ b.signed_amount \in Int
    BY <1>5 DEF Trade
  <2>5. stats.total_trades \in Nat /\ stats.total_volume \in Int
    BY <2>1
  <2> QED
    BY <2>2, <2>3, <2>4, <2>5
<1>7. SumFunctionOnSet(H, 1..(L + 2)) = SumFunctionOnSet(G, 1..L)
  <2> DEFINE A == 1..(L + 2)
             B == 1..(L + 1)
             C == 1..L
  <2>1. A \ {L + 2} = B /\ B \ {L + 1} = C /\ L + 2 \in A /\ L + 1 \in B /\ B \subseteq A /\ C \subseteq B
    BY <1>6
  <2>2. /\ H[L + 2] = b.signed_amount /\ H[L + 1] = a.signed_amount
        /\ \A i \in C : H[i] = trades[i].signed_amount /\ G[i] = trades[i].signed_amount /\ H[i] \in Int
    BY <1>5, <1>6, <2>1 DEF Signed, Trade
  <2>3. \A i \in A : H[i] \in Int
    BY <1>6, <2>1, <2>2
  <2>4. IsFiniteSet(A) /\ IsFiniteSet(B) /\ IsFiniteSet(C)
    BY <1>6, FS_Interval
  <2> HIDE DEF G, H, A, B, C
  <2>5. SumFunctionOnSet(H, A) = H[L + 2] + SumFunctionOnSet(H, B)
    BY <2>1, <2>3, <2>4, SumTake
  <2>6. SumFunctionOnSet(H, B) = H[L + 1] + SumFunctionOnSet(H, C)
    BY <2>1, <2>3, <2>4, SumTake
  <2>7. SumFunctionOnSet(H, C) = SumFunctionOnSet(G, C)
    BY <2>2, <2>4, SumExt
  <2>8. SumFunctionOnSet(H, C) \in Int
    BY <2>2, <2>4, SumInt
  <2>9. H[L + 2] + (H[L + 1] + SumFunctionOnSet(H, C)) = SumFunctionOnSet(H, C)
    <3>1. \A x, y, z \in Int : x + y = 0 => y + (x + z) = z
      OBVIOUS
    <3>2. H[L + 1] \in Int /\ H[L + 2] \in Int /\ H[L + 1] + H[L + 2] = 0
      BY <1>5, <1>6, <2>2
    <3> QED
      BY <2>8, <3>1, <3>2, Zenon
  <2> QED
    BY <2>5, <2>6, <2>7, <2>9 DEF A, C
<1>8. /\ stats'.total_volume = stats.total_volume + 2 * fill
      /\ stats'.total_trades = stats.total_trades + 2
  BY <1>5
<1>10. SumFunctionOnSet(E, 1..o_cnt') = stats'.total_volume
  BY <1>1, <1>4, <1>8 DEF Balanced
<1>11. SumFunctionOnSet(H, 1..Len(trades')) = 0 /\ stats'.total_trades = Len(trades')
  BY <1>5, <1>6, <1>7, <1>8 DEF Balanced
<1> QED
  BY <1>10, <1>11 DEF Balanced

(***************************************************************************)
(* The invariant survives an iteration of the loop.                        *)
(***************************************************************************)
LEMMA MatchStep ==
    ASSUME BookCore, match_limit_order
    PROVE  BookCore' /\ (Balanced => Balanced')
<1>1. PICK m \in 1..o_cnt, fill \in Int : Matched(m, fill)
  BY Matching
<1>2. /\ m # taker /\ taker = o_cnt /\ o_cnt' = o_cnt /\ taker' = taker /\ now' = now
      /\ taker \in 1..o_cnt /\ Resting(m)
      /\ orders' \in [1..o_cnt -> LimitOrder]
      /\ \A x \in 1..o_cnt :
           /\ x \in {m, taker} => orders'[x].status # "Cancelled"
           /\ orders'[x].pair = orders[x].pair /\ orders'[x].side = orders[x].side
           /\ orders'[x].price = orders[x].price /\ orders'[x].tif = orders[x].tif
           /\ orders'[x].timestamp = orders[x].timestamp /\ OrderConsistent(orders'[x])
           /\ Resting(x)' <=> Resting(x) /\ ~(x = m /\ orders[m].remaining = fill)
  <2>1. taker \in 1..o_cnt /\ now' = now /\ Resting(m)
    BY <1>1 DEF Matched
  <2>2. \A x \in 1..o_cnt : Resting(x)' <=> Resting(x) /\ ~(x = m /\ orders[m].remaining = fill)
    BY <1>1, MatchedResting
  <2>3. /\ m # taker /\ taker = o_cnt /\ o_cnt' = o_cnt /\ taker' = taker
        /\ orders' \in [1..o_cnt -> LimitOrder]
        /\ \A x \in 1..o_cnt :
             /\ x \in {m, taker} => orders'[x].status # "Cancelled"
             /\ orders'[x].pair = orders[x].pair /\ orders'[x].side = orders[x].side
             /\ orders'[x].price = orders[x].price /\ orders'[x].tif = orders[x].tif
             /\ orders'[x].timestamp = orders[x].timestamp /\ OrderConsistent(orders'[x])
    BY <1>1, MatchedOrders
  <2> QED
    BY <2>1, <2>2, <2>3
<1>3. Typed /\ BooksAgree /\ InOrder /\ Uncrossed
  BY DEF BookCore
<1>4. /\ o_cnt \in Nat /\ taker \in 0..o_cnt /\ now \in Nat
      /\ obook \in [Books -> Seq(1..o_cnt)]
      /\ stats \in [total_trades : Nat, total_volume : Int]
  BY <1>3, Known
<1>5. BooksAgree' /\ obook' \in [Books -> Seq(1..o_cnt')]
  <2>1. CASE orders[m].remaining = fill
    <3>1. obook' = [obook EXCEPT ![<<orders[m].pair, orders[m].side>>] = remove_order_from_book(@, m)]
      BY <1>1, <2>1 DEF Matched
    <3>2. \A x \in 1..o_cnt : /\ Resting(x)' <=> Resting(x) /\ x # m
                              /\ orders'[x].pair = orders[x].pair /\ orders'[x].side = orders[x].side
      BY <1>2, <2>1
    <3> QED
      BY <1>2, <1>3, <3>1, <3>2, BookLoses
  <2>2. CASE orders[m].remaining # fill
    <3>1. obook' = obook
      BY <1>1, <2>2 DEF Matched
    <3>2. \A x \in 1..o_cnt : Resting(x)' <=> Resting(x)
      BY <1>2, <2>2
    <3> QED
      BY <1>2, <1>3, <1>4, <3>1, <3>2, ZenonT(60) DEF BooksAgree
  <2> QED
    BY <2>1, <2>2
<1>6. trades' \in Seq(Trade) /\ stats' \in [total_trades : Nat, total_volume : Int]
  <2>1. trades' \in Seq(Trade)
        /\ stats' = [total_trades |-> stats.total_trades + 2,
                     total_volume |-> stats.total_volume + 2 * fill]
    BY <1>1, MatchedTrades
  <2>2. stats.total_trades + 2 \in Nat /\ stats.total_volume + 2 * fill \in Int
    BY <1>4
  <2> QED
    BY <2>1, <2>2
<1>7. Typed'
  BY <1>2, <1>4, <1>5, <1>6 DEF Typed, BookTypeOK, Books, OrderConsistent
<1>8. InOrder'
  BY <1>2, <1>3 DEF InOrder
<1>9. Uncrossed'
  BY <1>2, <1>3 DEF Uncrossed
<1>10. FokAhead' /\ (Balanced => Balanced')
  BY <1>1, MatchedFok, MatchedBalance
<1> QED
  BY <1>5, <1>7, <1>8, <1>9, <1>10 DEF BookCore

-----------------------------------------------------------------------------
(***************************************************************************)
(* A new order is an order, whole and open.                                *)
(***************************************************************************)
LEMMA NewOrderIs ==
    ASSUME now \in Nat, NEW u \in Users, NEW k \in Pairs, NEW s \in OrderSide, NEW p \in Int,
           NEW a \in Int, NEW tif \in TimeInForce, a > 0, p > 0
    PROVE  LET w == NewOrder(u, k, s, p, a, tif) IN
           /\ w \in LimitOrder /\ OrderConsistent(w) /\ w.status = "Open" /\ w.tif = tif
           /\ w.amount = a /\ w.remaining = a /\ w.pair = k /\ w.side = s /\ w.timestamp = now
<1> DEFINE w == NewOrder(u, k, s, p, a, tif)
<1>1. /\ w.status = "Open" /\ w.tif = tif /\ w.amount = a /\ w.remaining = a /\ w.pair = k
      /\ w.side = s /\ w.timestamp = now /\ w.price = p
  BY DEF NewOrder
<1>2. w \in LimitOrder
  BY DEF NewOrder, LimitOrder, OrderStatus
<1> HIDE DEF w
<1>3. OrderConsistent(w)
  BY <1>1 DEF OrderConsistent
<1> QED
  BY <1>1, <1>2, <1>3 DEF w

(***************************************************************************)
(* The invariant survives the creation of an order.                        *)
(***************************************************************************)
LEMMA CreateStep ==
    ASSUME BookCore, NEW u \in Users, NEW k \in Pairs, NEW s \in OrderSide, NEW p \in Int,
           NEW a \in Int, NEW tif \in TimeInForce, create_limit_order(u, k, s, p, a, tif)
    PROVE  BookCore' /\ (Balanced => Balanced')
<1> DEFINE n == o_cnt + 1
           w == NewOrder(u, k, s, p, a, tif)
<1>1. Typed /\ BooksAgree /\ InOrder /\ Uncrossed
  BY DEF BookCore
<1>2. /\ o_cnt \in Nat /\ obook \in [Books -> Seq(1..o_cnt)] /\ trades \in Seq(Trade) /\ now \in Nat
      /\ stats \in [total_trades : Nat, total_volume : Int] /\ orders \in [1..o_cnt -> LimitOrder]
      /\ \A x \in 1..o_cnt : /\ orders[x] \in LimitOrder /\ OrderConsistent(orders[x])
                             /\ orders[x].amount \in Int /\ orders[x].remaining \in Int
                             /\ orders[x].timestamp \in Nat
  BY <1>1, Known
<1>3. /\ taker = 0 /\ a > 0 /\ p > 0 /\ (tif = "Fok" => available_fill_for_order(w) >= a)
      /\ o_cnt' = n /\ taker' = n /\ obook' = obook /\ trades' = trades /\ stats' = stats /\ now' = now
      /\ orders' = [i \in 1..n |-> IF i \in 1..o_cnt THEN orders[i] ELSE w]
  BY DEF create_limit_order
<1>4. /\ w \in LimitOrder /\ OrderConsistent(w) /\ w.status = "Open" /\ w.tif = tif
      /\ w.amount = a /\ w.remaining = a /\ w.pair = k /\ w.side = s /\ w.timestamp = now
  BY <1>2, <1>3, NewOrderIs
<1> HIDE DEF w
<1>5. /\ n \in Nat /\ n # 0 /\ n \notin 1..o_cnt /\ n \in 1..n /\ 1..o_cnt \subseteq 1..n
      /\ (\A x \in 1..n : x = n \/ x \in 1..o_cnt) /\ (1..n) \ {n} = 1..o_cnt
      /\ 0 \notin 1..o_cnt
  BY <1>2
<1>6. /\ orders'[n] = w /\ (\A x \in 1..o_cnt : orders'[x] = orders[x])
      /\ orders' \in [1..n -> LimitOrder]
  <2> HIDE DEF n
  <2> QED
    BY <1>2, <1>3, <1>4, <1>5
<1>7. \A x \in 1..n : Resting(x)' <=> x \in 1..o_cnt /\ Resting(x)
  <2> SUFFICES ASSUME NEW x \in 1..n PROVE Resting(x)' <=> x \in 1..o_cnt /\ Resting(x)
    OBVIOUS
  <2>1. Resting(x)' <=> x # n /\ IsOpen(orders'[x])
    BY <1>3 DEF Resting, IsOpen
  <2>2. CASE x = n
    BY <1>5, <2>1, <2>2
  <2>3. CASE x \in 1..o_cnt
    BY <1>3, <1>5, <1>6, <2>1, <2>3 DEF Resting
  <2> QED
    BY <1>5, <2>2, <2>3
<1>8. obook \in [Books -> Seq(1..n)]
  <2>1. \A q \in Seq(1..o_cnt) : q \in Seq(1..n)
    BY <1>5, SeqMonotonic, ZenonT(60)
  <2> HIDE DEF n
  <2> QED
    BY <1>2, <2>1
<1>9. Typed'
  <2>1. \A x \in 1..n : OrderConsistent(orders'[x])
    BY <1>2, <1>4, <1>5, <1>6
  <2>2. taker' \in 0..n
    BY <1>3, <1>5
  <2> HIDE DEF n
  <2> QED
    BY <1>2, <1>3, <1>5, <1>6, <1>8, <2>1, <2>2 DEF Typed, BookTypeOK, Books, OrderConsistent
<1>10. BooksAgree'
  <2> SUFFICES ASSUME NEW b \in Books
               PROVE  /\ Ascending(obook[b])
                      /\ \A x \in 1..n : Listed(obook[b], x)
                            <=> Resting(x)' /\ orders'[x].pair = b[1] /\ orders'[x].side = b[2]
    BY <1>3 DEF BooksAgree
  <2>1. /\ Ascending(obook[b])
        /\ \A x \in 1..o_cnt : Listed(obook[b], x)
              <=> Resting(x) /\ orders[x].pair = b[1] /\ orders[x].side = b[2]
    BY <1>1 DEF BooksAgree
  <2>2. ~Listed(obook[b], n)
    <3>1. obook[b] \in Seq(1..o_cnt) /\ DOMAIN obook[b] = 1..Len(obook[b])
      BY <1>2
    <3>2. \A i \in 1..Len(obook[b]) : obook[b][i] \in 1..o_cnt
      BY <3>1, ElementOfSeq
    <3> QED
      BY <1>5, <3>1, <3>2 DEF Listed
  <2> HIDE DEF n
  <2> QED
    BY <1>5, <1>6, <1>7, <2>1, <2>2
<1>11. InOrder'
  <2>1. \A x \in 1..n : Resting(x)' => orders'[x].tif = "Gtc"
    BY <1>1, <1>5, <1>6, <1>7 DEF InOrder
  <2>2. \A x, y \in 1..n : x < y => orders'[x].timestamp <= orders'[y].timestamp
    <3> SUFFICES ASSUME NEW x \in 1..n, NEW y \in 1..n, x < y
                 PROVE  orders'[x].timestamp <= orders'[y].timestamp
      OBVIOUS
    <3>1. x \in 1..o_cnt
      BY <1>2
    <3>2. CASE y = n
      BY <1>2, <1>4, <1>6, <3>1, <3>2 DEF OrderConsistent
    <3>3. CASE y \in 1..o_cnt
      BY <1>1, <1>6, <3>1, <3>3 DEF InOrder
    <3> QED
      BY <1>5, <3>2, <3>3
  <2> HIDE DEF n
  <2> QED
    BY <1>3, <1>4, <1>6, <2>1, <2>2 DEF InOrder
<1>12. Uncrossed'
  <2> HIDE DEF n
  <2>1. \A x \in 1..n : Resting(x)' => x \in 1..o_cnt /\ Resting(x) /\ orders'[x] = orders[x]
    BY <1>5, <1>6, <1>7
  <2> QED
    BY <1>1, <1>3, <2>1 DEF Uncrossed
<1>13. FokAhead'
  <2> DEFINE M == Makers(w)
             R == Remaining
             Q == Remaining'
  <2>1. Makers(orders[taker])' = M
    <3>1. Makers(orders[taker])' = {x \in 1..n : Resting(x)' /\ order_matches(orders'[n], orders'[x])}
      BY <1>3 DEF Makers, order_matches
    <3> HIDE DEF n
    <3> QED
      BY <1>5, <1>6, <1>7, <3>1 DEF Makers
  <2>2. \A x \in M : Q[x] = R[x]
    BY <1>3, <1>5, <1>6 DEF Makers, Remaining
  <2>3. IsFiniteSet(M)
    <3>1. IsFiniteSet(1..o_cnt) /\ M \subseteq 1..o_cnt
      BY <1>2, FS_Interval DEF Makers
    <3> QED
      BY <3>1, FS_Subset
  <2>4. SumFunctionOnSet(Q, M) = SumFunctionOnSet(R, M)
    <3> HIDE DEF M, Q, R
    <3> QED
      BY <2>2, <2>3, SumExt
  <2>5. available_fill_for_order(w) = SumFunctionOnSet(R, M)
    BY <1>1, <1>4, Available
  <2>6. FokAhead' <=> (w.tif = "Fok" => SumFunctionOnSet(Q, M) >= w.remaining)
    <3> HIDE DEF n, M
    <3> QED
      BY <1>3, <1>5, <1>6, <2>1 DEF FokAhead
  <2> HIDE DEF M, Q, R
  <2> QED
    BY <1>3, <1>4, <2>4, <2>5, <2>6
<1>14. ASSUME Balanced PROVE Balanced'
  <2> DEFINE D == Done
             E == Done'
             S == 1..o_cnt
             T == 1..n
  <2>1. (\A x \in S : D[x] = E[x] /\ E[x] \in Int) /\ E[n] = 0
    BY <1>2, <1>3, <1>4, <1>5, <1>6 DEF Done
  <2>2. IsFiniteSet(S) /\ IsFiniteSet(T) /\ T \ {n} = S /\ n \in T /\ \A x \in T : E[x] \in Int
    <3>1. IsFiniteSet(S) /\ IsFiniteSet(T)
      BY <1>2, <1>5, FS_Interval
    <3>2. \A x \in T : E[x] \in Int
      BY <1>5, <2>1
    <3> QED
      BY <1>5, <3>1, <3>2
  <2> HIDE DEF D, E, S, T, n
  <2>3. SumFunctionOnSet(E, T) = E[n] + SumFunctionOnSet(E, S)
    BY <2>2, SumTake
  <2>4. SumFunctionOnSet(E, S) = SumFunctionOnSet(D, S) /\ SumFunctionOnSet(E, S) \in Int
    BY <2>1, <2>2, SumExt, SumInt
  <2>5. SumFunctionOnSet(E, T) = SumFunctionOnSet(D, S)
    BY <2>1, <2>3, <2>4
  <2>6. Signed' = Signed
    BY <1>3 DEF Signed
  <2> QED
    BY <1>3, <1>14, <2>5, <2>6 DEF Balanced, D, E, S, T
<1> QED
  BY <1>9, <1>10, <1>11, <1>12, <1>13, <1>14 DEF BookCore

-----------------------------------------------------------------------------
(***************************************************************************)
(* An order that is cancelled keeps all but its status.                    *)
(***************************************************************************)
LEMMA Cancelling ==
    ASSUME NEW o \in LimitOrder, OrderConsistent(o), o.remaining > 0
    PROVE  LET c == [o EXCEPT !.status = "Cancelled"] IN
           /\ c \in LimitOrder /\ OrderConsistent(c) /\ ~IsOpen(c)
           /\ c.amount = o.amount /\ c.remaining = o.remaining /\ c.pair = o.pair /\ c.side = o.side
           /\ c.price = o.price /\ c.tif = o.tif /\ c.timestamp = o.timestamp
<1> DEFINE c == [o EXCEPT !.status = "Cancelled"]
<1>1. /\ c \in LimitOrder /\ c.status = "Cancelled"
      /\ c.amount = o.amount /\ c.remaining = o.remaining /\ c.pair = o.pair /\ c.side = o.side
      /\ c.price = o.price /\ c.tif = o.tif /\ c.timestamp = o.timestamp
  BY DEF LimitOrder, OrderStatus
<1>2. o.remaining \in Int
  BY Fields
<1> HIDE DEF c
<1>3. OrderConsistent(c) /\ ~IsOpen(c)
  BY <1>1, <1>2 DEF OrderConsistent, IsOpen
<1> QED
  BY <1>1, <1>3 DEF c

(***************************************************************************)
(* Steps that change no more than the status of orders.                    *)
(***************************************************************************)
OnlyStatus ==
    /\ orders' \in [1..o_cnt -> LimitOrder]
    /\ \A x \in 1..o_cnt :
         /\ OrderConsistent(orders'[x])
         /\ orders'[x].amount = orders[x].amount /\ orders'[x].remaining = orders[x].remaining
         /\ orders'[x].pair = orders[x].pair /\ orders'[x].side = orders[x].side
         /\ orders'[x].price = orders[x].price /\ orders'[x].tif = orders[x].tif
         /\ orders'[x].timestamp = orders[x].timestamp
    /\ taker' = 0 /\ UNCHANGED <<o_cnt, trades, stats, now>>

(***************************************************************************)
(* Such a step keeps the totals, and the invariant if the books follow.    *)
(***************************************************************************)
LEMMA StatusStep ==
    ASSUME BookCore, OnlyStatus, BooksAgree', obook' \in [Books -> Seq(1..o_cnt')], Uncrossed',
           \A x \in 1..o_cnt : Resting(x)' => orders[x].tif = "Gtc"
    PROVE  BookCore' /\ (Balanced => Balanced')
<1>1. Typed /\ InOrder
  BY DEF BookCore
<1>2. /\ o_cnt \in Nat /\ trades \in Seq(Trade) /\ now \in Nat
      /\ stats \in [total_trades : Nat, total_volume : Int]
  BY <1>1, Known
<1>3. /\ orders' \in [1..o_cnt -> LimitOrder]
      /\ \A x \in 1..o_cnt : OrderConsistent(orders'[x])
      /\ taker' = 0 /\ o_cnt' = o_cnt /\ trades' = trades /\ stats' = stats /\ now' = now
  BY DEF OnlyStatus
<1>4. Typed'
  <2>1. 0 \in 0..o_cnt
    BY <1>2
  <2> QED
    BY <1>2, <1>3, <2>1 DEF Typed, BookTypeOK, Books, OrderConsistent
<1>5. InOrder'
  BY <1>1, <1>3 DEF InOrder, OnlyStatus
<1>6. FokAhead'
  BY <1>3 DEF FokAhead
<1>7. ASSUME Balanced PROVE Balanced'
  <2>1. Done' = Done
    BY DEF Done, OnlyStatus
  <2>2. Signed' = Signed
    BY <1>3 DEF Signed
  <2> QED
    BY <1>3, <1>7, <2>1, <2>2 DEF Balanced
<1> QED
  BY <1>4, <1>5, <1>6, <1>7 DEF BookCore

(***************************************************************************)
(* Books that follow the resting orders: when they gain the newest one,    *)
(* and its book gains it.                                                  *)
(***************************************************************************)
LEMMA BookGains ==
    ASSUME Typed, BooksAgree, NEW m \in 1..o_cnt, m = o_cnt, ~Resting(m), o_cnt' = o_cnt,
           \A x \in 1..o_cnt : /\ Resting(x)' <=> Resting(x) \/ x = m
                               /\ orders'[x].pair = orders[x].pair /\ orders'[x].side = orders[x].side,
           obook' = [obook EXCEPT ![<<orders[m].pair, orders[m].side>>] = Append(@, m)]
    PROVE  BooksAgree' /\ obook' \in [Books -> Seq(1..o_cnt')]
<1> DEFINE k0 == <<orders[m].pair, orders[m].side>>
           r == Append(obook[k0], m)
<1>1. o_cnt \in Nat /\ obook \in [Books -> Seq(1..o_cnt)] /\ k0 \in Books
      /\ k0[1] = orders[m].pair /\ k0[2] = orders[m].side
  BY Known DEF Books
<1>2. r \in Seq(1..o_cnt) /\ Ascending(r)
      /\ \A x \in 1..o_cnt : Listed(r, x) <=> Listed(obook[k0], x) \/ x = m
  <2>1. Ascending(obook[k0]) /\ obook[k0] \in Seq(1..o_cnt)
    BY <1>1 DEF BooksAgree
  <2>2. \A x \in 1..o_cnt : Listed(obook[k0], x) => Resting(x)
    BY <1>1 DEF BooksAgree
  <2>3. \A x \in 1..o_cnt : Listed(obook[k0], x) => x < m
    <3> SUFFICES ASSUME NEW x \in 1..o_cnt, x # m PROVE x < m
      BY <2>2
    <3> QED
      BY <1>1
  <2> HIDE DEF k0
  <2> QED
    BY <1>1, <2>1, <2>3, Appending
<1>3. obook' = [obook EXCEPT ![k0] = r]
  OBVIOUS
<1> HIDE DEF r
<1>4. obook' \in [Books -> Seq(1..o_cnt)] /\ obook'[k0] = r /\ \A k \in Books \ {k0} : obook'[k] = obook[k]
  BY <1>1, <1>2, <1>3, ZenonT(60)
<1>5. ASSUME NEW k \in Books
      PROVE  /\ Ascending(obook'[k])
             /\ \A x \in 1..o_cnt : Listed(obook'[k], x)
                   <=> Resting(x)' /\ orders'[x].pair = k[1] /\ orders'[x].side = k[2]
  <2>1. /\ Ascending(obook[k])
        /\ \A x \in 1..o_cnt :
              Listed(obook[k], x) <=> Resting(x) /\ orders[x].pair = k[1] /\ orders[x].side = k[2]
    BY DEF BooksAgree
  <2>2. CASE k = k0
    BY <1>1, <1>2, <1>4, <2>1, <2>2, ZenonT(60)
  <2>3. CASE k # k0
    <3>1. ~(orders[m].pair = k[1] /\ orders[m].side = k[2])
      BY <2>3 DEF Books
    <3> QED
      BY <1>4, <2>1, <2>3, <3>1
  <2> QED
    BY <2>2, <2>3
<1> QED
  BY <1>4, <1>5 DEF BooksAgree, Ascending, Listed

(***************************************************************************)
(* The invariant survives the end of an invocation: a remainder rests only *)
(* when nothing in the book matches it.                                    *)
(***************************************************************************)
LEMMA FinishStep ==
    ASSUME BookCore, finish_order
    PROVE  BookCore' /\ (Balanced => Balanced')
<1> DEFINE t == orders[taker]
           rests == t.tif = "Gtc" /\ t.remaining > 0
<1>1. Typed /\ BooksAgree /\ InOrder /\ Uncrossed
  BY DEF BookCore
<1>2. /\ taker # 0 /\ LoopIsOver(t) /\ (t.tif = "Fok" => t.remaining <= 0)
      /\ obook' = (IF rests THEN [obook EXCEPT ![<<t.pair, t.side>>] = Append(@, taker)] ELSE obook)
      /\ orders' = (IF t.tif = "Ioc" /\ t.remaining > 0
                     THEN [orders EXCEPT ![taker].status = "Cancelled"] ELSE orders)
      /\ taker' = 0 /\ UNCHANGED <<o_cnt, trades, stats, now>>
  BY DEF finish_order
<1>3. /\ o_cnt \in Nat /\ taker \in 1..o_cnt /\ taker = o_cnt /\ orders \in [1..o_cnt -> LimitOrder]
      /\ obook \in [Books -> Seq(1..o_cnt)] /\ t.status # "Cancelled"
      /\ \A x \in 1..o_cnt : orders[x] \in LimitOrder /\ OrderConsistent(orders[x])
  BY <1>1, <1>2, Known DEF InOrder
<1>4. /\ t \in LimitOrder /\ OrderConsistent(t) /\ t.remaining \in Int /\ t.pair \in Pairs
      /\ t.side \in OrderSide /\ t.price \in Int /\ t.status \in OrderStatus /\ t.tif \in TimeInForce
  BY <1>3, Fields
<1>5. IsOpen(t) <=> t.remaining > 0
  BY <1>3, <1>4 DEF IsOpen, OrderConsistent, OrderStatus
<1>6. OnlyStatus /\ (\A x \in 1..o_cnt : x # taker => orders'[x] = orders[x])
      /\ (IsOpen(orders'[taker]) <=> rests)
  <2>1. CASE t.tif = "Ioc" /\ t.remaining > 0
    <3> DEFINE c == [t EXCEPT !.status = "Cancelled"]
    <3>1. /\ c \in LimitOrder /\ OrderConsistent(c) /\ ~IsOpen(c)
          /\ c.amount = t.amount /\ c.remaining = t.remaining /\ c.pair = t.pair /\ c.side = t.side
          /\ c.price = t.price /\ c.tif = t.tif /\ c.timestamp = t.timestamp
      BY <1>4, <2>1, Cancelling
    <3>2. orders' = [orders EXCEPT ![taker] = c]
      BY <1>2, <2>1
    <3> HIDE DEF c
    <3>3. orders'[taker] = c /\ orders' \in [1..o_cnt -> LimitOrder]
          /\ \A x \in 1..o_cnt : x # taker => orders'[x] = orders[x]
      BY <1>3, <3>1, <3>2
    <3>4. ~rests
      BY <2>1
    <3>5. OnlyStatus
      BY <1>2, <1>3, <3>1, <3>3 DEF OnlyStatus
    <3> QED
      BY <3>1, <3>3, <3>4, <3>5
  <2>2. CASE ~(t.tif = "Ioc" /\ t.remaining > 0)
    <3>1. orders' = orders
      BY <1>2, <2>2
    <3>2. OnlyStatus
      BY <1>2, <1>3, <3>1 DEF OnlyStatus
    <3>3. t.remaining > 0 => t.tif = "Gtc"
      BY <1>2, <1>4, <2>2 DEF TimeInForce
    <3> QED
      BY <1>5, <3>1, <3>2, <3>3
  <2> QED
    BY <2>1, <2>2
<1>7. ~Resting(taker) /\ \A x \in 1..o_cnt : Resting(x)' <=> Resting(x) \/ (x = taker /\ rests)
  <2> SUFFICES ASSUME NEW x \in 1..o_cnt
               PROVE  Resting(x)' <=> Resting(x) \/ (x = taker /\ rests)
    BY DEF Resting
  <2>1. Resting(x)' <=> IsOpen(orders'[x])
    BY <1>2 DEF Resting, IsOpen
  <2> QED
    BY <1>6, <2>1 DEF Resting
<1>8. \A x \in 1..o_cnt : /\ orders'[x].pair = orders[x].pair /\ orders'[x].side = orders[x].side
                          /\ orders'[x].price = orders[x].price
  BY <1>6 DEF OnlyStatus
<1>9. BooksAgree' /\ obook' \in [Books -> Seq(1..o_cnt')]
  <2>1. CASE rests
    <3>1. obook' = [obook EXCEPT ![<<orders[taker].pair, orders[taker].side>>] = Append(@, taker)]
      BY <1>2, <2>1
    <3>2. \A x \in 1..o_cnt : /\ Resting(x)' <=> Resting(x) \/ x = taker
                              /\ orders'[x].pair = orders[x].pair /\ orders'[x].side = orders[x].side
      BY <1>7, <1>8, <2>1
    <3>3. o_cnt' = o_cnt
      BY <1>2
    <3> QED
      BY <1>1, <1>3, <1>7, <3>1, <3>2, <3>3, BookGains
  <2>2. CASE ~rests
    <3>1. obook' = obook /\ o_cnt' = o_cnt
      BY <1>2, <2>2
    <3>2. \A x \in 1..o_cnt : Resting(x)' <=> Resting(x)
      BY <1>7, <2>2
    <3> QED
      BY <1>1, <1>3, <1>8, <3>1, <3>2 DEF BooksAgree
  <2> QED
    BY <2>1, <2>2
<1>10. rests => \A y \in 1..o_cnt : Resting(y) => ~order_matches(t, orders[y])
  <2> SUFFICES ASSUME rests PROVE Makers(t) = {}
    BY DEF Makers
  <2>1. Fillable(t) = {}
    BY <1>2, <1>4 DEF LoopIsOver
  <2>2. \A x \in Makers(t) : \E i \in Fillable(t) : OppositeBook(t)[i] = x
    <3> HIDE DEF t
    <3> QED
      BY <1>1, <1>4, FillableIs
  <2> QED
    BY <2>1, <2>2
<1>11. Uncrossed'
  <2> SUFFICES ASSUME NEW x \in 1..o_cnt, NEW y \in 1..o_cnt, Resting(x)', Resting(y)',
                      orders[x].pair = orders[y].pair, orders[x].side = "Buy", orders[y].side = "Sell"
               PROVE  orders[x].price < orders[y].price
    BY <1>2, <1>8 DEF Uncrossed
  <2>1. orders[x].price \in Int /\ orders[y].price \in Int
    BY <1>1, Known
  <2>2. CASE Resting(x) /\ Resting(y)
    BY <1>1, <2>2 DEF Uncrossed
  <2>3. CASE x = taker /\ rests /\ Resting(y)
    <3>1. ~(orders[x].price >= orders[y].price)
      BY <1>10, <2>3 DEF order_matches, Opposite
    <3> QED
      BY <2>1, <3>1
  <2>4. CASE y = taker /\ rests /\ Resting(x)
    <3>1. ~(orders[y].price <= orders[x].price)
      BY <1>10, <2>4 DEF order_matches, Opposite
    <3> QED
      BY <2>1, <3>1
  <2>5. x # y
    OBVIOUS
  <2> QED
    BY <1>7, <2>2, <2>3, <2>4, <2>5
<1>12. \A x \in 1..o_cnt : Resting(x)' => orders[x].tif = "Gtc"
  BY <1>1, <1>7 DEF InOrder
<1> QED
  BY <1>6, <1>9, <1>11, <1>12, StatusStep

(***************************************************************************)
(* The invariant survives a cancellation.                                  *)
(***************************************************************************)
LEMMA CancelStep ==
    ASSUME BookCore, NEW u \in Users, NEW id \in 1..o_cnt, cancel_order(u, id)
    PROVE  BookCore' /\ (Balanced => Balanced')
<1> DEFINE t == orders[id]
           c == [t EXCEPT !.status = "Cancelled"]
<1>1. Typed /\ BooksAgree /\ InOrder /\ Uncrossed
  BY DEF BookCore
<1>2. /\ taker = 0 /\ IsOpen(t) /\ orders' = [orders EXCEPT ![id] = c]
      /\ obook' = [obook EXCEPT ![<<orders[id].pair, orders[id].side>>] = remove_order_from_book(@, id)]
      /\ taker' = 0 /\ UNCHANGED <<o_cnt, trades, stats, now>>
  BY DEF cancel_order
<1>3. /\ o_cnt \in Nat /\ orders \in [1..o_cnt -> LimitOrder] /\ t \in LimitOrder /\ OrderConsistent(t)
      /\ t.remaining > 0 /\ \A x \in 1..o_cnt : OrderConsistent(orders[x])
  BY <1>1, <1>2, Known
<1>4. /\ c \in LimitOrder /\ OrderConsistent(c) /\ ~IsOpen(c)
      /\ c.amount = t.amount /\ c.remaining = t.remaining /\ c.pair = t.pair /\ c.side = t.side
      /\ c.price = t.price /\ c.tif = t.tif /\ c.timestamp = t.timestamp
  BY <1>3, Cancelling
<1> HIDE DEF c
<1>5. orders'[id] = c /\ orders' \in [1..o_cnt -> LimitOrder]
      /\ \A x \in 1..o_cnt : x # id => orders'[x] = orders[x]
  BY <1>2, <1>3, <1>4
<1>6. OnlyStatus
  BY <1>2, <1>3, <1>4, <1>5 DEF OnlyStatus
<1>7. Resting(id) /\ \A x \in 1..o_cnt : Resting(x)' <=> Resting(x) /\ x # id
  <2>0. \A x \in 1..o_cnt : x # 0
    BY <1>3
  <2>1. Resting(id)
    BY <1>2, <2>0 DEF Resting
  <2>2. \A x \in 1..o_cnt : Resting(x)' <=> IsOpen(orders'[x])
    BY <1>2, <2>0 DEF Resting, IsOpen
  <2> QED
    BY <1>2, <1>4, <1>5, <2>0, <2>1, <2>2 DEF Resting
<1>8. BooksAgree' /\ obook' \in [Books -> Seq(1..o_cnt')]
  <2>1. \A x \in 1..o_cnt : /\ Resting(x)' <=> Resting(x) /\ x # id
                            /\ orders'[x].pair = orders[x].pair /\ orders'[x].side = orders[x].side
    BY <1>6, <1>7 DEF OnlyStatus
  <2>2. o_cnt' = o_cnt
    BY <1>2
  <2> QED
    BY <1>1, <1>2, <1>7, <2>1, <2>2, BookLoses
<1>9. Uncrossed'
  BY <1>1, <1>6, <1>7 DEF Uncrossed, OnlyStatus
<1>10. \A x \in 1..o_cnt : Resting(x)' => orders[x].tif = "Gtc"
  BY <1>1, <1>7 DEF InOrder
<1> QED
  BY <1>6, <1>8, <1>9, <1>10, StatusStep

(***************************************************************************)
(* The invariant survives a ledger closing, a step of someone else, and    *)
(* trades that are logged without the book.                                *)
(***************************************************************************)
LEMMA ElsewhereStep ==
    ASSUME BookCore, UNCHANGED <<o_cnt, orders, obook, taker>>, now' \in Nat, now <= now',
           trades' \in Seq(Trade), stats' \in [total_trades : Nat, total_volume : Int]
    PROVE  BookCore' /\ (Balanced /\ UNCHANGED <<trades, stats>> => Balanced')
<1>1. UNCHANGED <<o_cnt, orders, obook, taker>>
  OBVIOUS
<1>2. \A x \in 1..o_cnt : OrderConsistent(orders[x])'
  <2> SUFFICES ASSUME NEW x \in 1..o_cnt PROVE OrderConsistent(orders[x])'
    OBVIOUS
  <2>1. OrderConsistent(orders[x]) /\ orders[x].timestamp \in Nat /\ now \in Nat
    BY Known DEF BookCore
  <2>2. orders'[x].timestamp <= now'
    BY <1>1, <2>1 DEF OrderConsistent
  <2> QED
    BY <1>1, <2>1, <2>2 DEF OrderConsistent
<1>3. Typed'
  BY <1>1, <1>2 DEF BookCore, Typed, BookTypeOK
<1>4. BooksAgree' /\ InOrder' /\ Uncrossed'
  BY <1>1 DEF BookCore, BooksAgree, InOrder, Uncrossed, Resting, Ascending, Listed, IsOpen
<1>5. FokAhead'
  <2>1. Remaining' = Remaining /\ Makers(orders[taker])' = Makers(orders[taker])
    BY <1>1 DEF Remaining, Makers, Resting, IsOpen, order_matches
  <2> QED
    BY <1>1, <2>1 DEF BookCore, FokAhead
<1>6. ASSUME Balanced, UNCHANGED <<trades, stats>> PROVE Balanced'
  <2>1. Done' = Done /\ Signed' = Signed
    BY <1>1, <1>6 DEF Done, Signed
  <2> QED
    BY <1>1, <1>6, <2>1 DEF Balanced
<1> QED
  BY <1>3, <1>4, <1>5, <1>6 DEF BookCore

(***************************************************************************)
(* A step outside the book that logs nothing.                              *)
(***************************************************************************)
LEMMA ClockStep ==
    ASSUME BookCore, UNCHANGED bookVars, now' \in Nat, now <= now'
    PROVE  BookCore' /\ (Balanced => Balanced')
<1>1. UNCHANGED <<o_cnt, orders, obook, taker, trades, stats>>
  BY DEF bookVars
<1>2. trades' \in Seq(Trade) /\ stats' \in [total_trades : Nat, total_volume : Int]
  BY <1>1, Known DEF BookCore
<1> QED
  BY <1>1, <1>2, ElsewhereStep

(***************************************************************************)
(* No step of the loop and no cancellation changes whose an order is and   *)
(* when it came.                                                           *)
(***************************************************************************)
LEMMA OwnersStay ==
    ASSUME BookCore,
           \/ match_limit_order \/ finish_order
           \/ \E u \in Users, id \in 1..o_cnt : cancel_order(u, id)
    PROVE  /\ o_cnt' = o_cnt
           /\ \A x \in 1..o_cnt : /\ orders'[x].owner = orders[x].owner
                                  /\ orders'[x].timestamp = orders[x].timestamp
<1>1. /\ orders \in [1..o_cnt -> LimitOrder] /\ now \in Nat
      /\ \A x \in 1..o_cnt : orders[x] \in LimitOrder /\ OrderConsistent(orders[x])
  BY Known DEF BookCore
<1>2. CASE match_limit_order
  <2>1. PICK m \in 1..o_cnt, fill \in Int : Matched(m, fill)
    BY <1>2, Matching
  <2> DEFINE a == Filled(orders[m], fill)
             b == Filled(orders[taker], fill)
  <2>2. /\ taker \in 1..o_cnt /\ m # taker /\ o_cnt' = o_cnt
        /\ \A x \in 1..o_cnt : x \notin {m, taker} => orders'[x] = orders[x]
    BY <2>1, MatchedOrders DEF Matched
  <2>3. /\ a.owner = orders[m].owner /\ a.timestamp = orders[m].timestamp
        /\ b.owner = orders[taker].owner /\ b.timestamp = orders[taker].timestamp
    <3>1. 0 < fill /\ fill <= orders[taker].remaining /\ fill <= orders[m].remaining
      BY <2>1 DEF Matched
    <3> QED
      BY <1>1, <2>2, <3>1, Filling
  <2> HIDE DEF a, b
  <2>4. orders' = [orders EXCEPT ![m] = a, ![taker] = b]
    BY <2>1 DEF Matched, a, b
  <2>5. orders'[m] = a /\ orders'[taker] = b
    BY <1>1, <2>2, <2>4
  <2> QED
    BY <2>2, <2>3, <2>5
<1>3. ASSUME NEW x \in 1..o_cnt,
             orders' = [orders EXCEPT ![x] = [orders[x] EXCEPT !.status = "Cancelled"]]
      PROVE  \A y \in 1..o_cnt : /\ orders'[y].owner = orders[y].owner
                                 /\ orders'[y].timestamp = orders[y].timestamp
  <2>1. \A o \in LimitOrder : LET c == [o EXCEPT !.status = "Cancelled"]
                              IN  c.owner = o.owner /\ c.timestamp = o.timestamp
    BY DEF LimitOrder
  <2> QED
    BY <1>1, <1>3, <2>1
<1>4. CASE finish_order
  <2>1. /\ o_cnt' = o_cnt /\ taker # 0
        /\ orders' = orders \/ orders' = [orders EXCEPT ![taker].status = "Cancelled"]
    BY <1>4 DEF finish_order
  <2>2. taker \in 1..o_cnt
    BY <2>1, Known DEF BookCore
  <2> QED
    BY <1>3, <2>1, <2>2
<1>5. ASSUME NEW u \in Users, NEW id \in 1..o_cnt, cancel_order(u, id)
      PROVE  o_cnt' = o_cnt /\ orders' = [orders EXCEPT ![id] = [orders[id] EXCEPT !.status = "Cancelled"]]
  BY <1>5 DEF cancel_order
<1> QED
  BY <1>2, <1>3, <1>4, <1>5

(***************************************************************************)
(* The book starts empty and sound.                                        *)
(***************************************************************************)
LEMMA BookStarts ==
    ASSUME Init
    PROVE  BookInv
<1>1. /\ o_cnt = 0 /\ orders = [i \in 1..0 |-> i] /\ obook = [k \in Books |-> <<>>]
      /\ taker = 0 /\ trades = <<>> /\ stats = [total_trades |-> 0, total_volume |-> 0] /\ now = 0
  BY DEF Init, BookInit, Books
<1>2. 1..o_cnt = {}
  BY <1>1
<1>3. Typed
  <2>1. orders \in [1..o_cnt -> LimitOrder]
    BY <1>1, <1>2
  <2>2. obook \in [Books -> Seq(1..o_cnt)]
    BY <1>1
  <2>3. trades \in Seq(Trade) /\ stats \in [total_trades : Nat, total_volume : Int] /\ taker \in 0..o_cnt
    BY <1>1
  <2> QED
    BY <1>1, <1>2, <2>1, <2>2, <2>3 DEF Typed, BookTypeOK, Books
<1>4. BooksAgree
  BY <1>1, <1>2 DEF BooksAgree, Ascending
<1>5. InOrder /\ Uncrossed /\ FokAhead
  BY <1>1, <1>2 DEF InOrder, Uncrossed, FokAhead
<1>6. Balanced
  <2>1. 1..Len(trades) = {} /\ Len(trades) = 0
    BY <1>1
  <2>2. SumFunctionOnSet(Done, {}) = 0 /\ SumFunctionOnSet(Signed, {}) = 0
    BY SumUnfold, FS_EmptySet
  <2> QED
    BY <1>1, <1>2, <2>1, <2>2 DEF Balanced
<1> QED
  BY <1>3, <1>4, <1>5, <1>6 DEF BookInv, BookCore

(***************************************************************************)
(* BookInv is an invariant of the order book (Spec), whatever the orders.  *)
(***************************************************************************)
THEOREM BookInvariance == Spec => []BookInv
<1>1. Init => BookInv
  BY BookStarts
<1>2. BookInv /\ [Next]_vars => BookInv'
  <2> SUFFICES ASSUME BookInv, [Next]_vars PROVE BookInv'
    OBVIOUS
  <2>0. BookCore /\ Balanced
    BY DEF BookInv
  <2>1. ASSUME NEW u \in Users, NEW k \in Pairs, NEW s \in OrderSide, NEW p \in Prices,
               NEW a \in Amounts, NEW tif \in TimeInForce, create_limit_order(u, k, s, p, a, tif)
        PROVE  BookInv'
    <3>1. p \in Int /\ a \in Int
      BY InputsAssumption
    <3> QED
      BY <2>0, <2>1, <3>1, CreateStep DEF BookInv
  <2>2. CASE match_limit_order
    BY <2>0, <2>2, MatchStep DEF BookInv
  <2>3. CASE finish_order
    BY <2>0, <2>3, FinishStep DEF BookInv
  <2>4. ASSUME NEW u \in Users, NEW id \in 1..o_cnt, cancel_order(u, id)
        PROVE  BookInv'
    BY <2>0, <2>4, CancelStep DEF BookInv
  <2>5. CASE Tick
    <3>1. UNCHANGED bookVars /\ now \in Nat
      BY <2>0, <2>5, Known DEF Tick, BookCore
    <3>2. now' \in Nat /\ now <= now'
      BY <2>5, <3>1, MaxTimeAssumption DEF Tick, LedgerCloses
    <3> QED
      BY <2>0, <3>1, <3>2, ClockStep DEF BookInv
  <2>6. CASE UNCHANGED vars
    <3>1. now \in Nat /\ now' = now /\ UNCHANGED bookVars
      BY <2>0, <2>6, Known DEF vars, BookCore
    <3>2. now <= now'
      BY <3>1
    <3> QED
      BY <2>0, <3>1, <3>2, ClockStep DEF BookInv
  <2> QED
    BY <2>1, <2>2, <2>3, <2>4, <2>5, <2>6 DEF Next
<1> QED
  BY <1>1, <1>2, PTL DEF Spec

(***************************************************************************)
(* Books, orders, trades and totals always agree (BookSound), in           *)
(* particular the volume that match_limit_order logs is what the orders    *)
(* have filled, and what is bought is what is sold.                        *)
(***************************************************************************)
THEOREM BooksAreSound == Spec => []BookSound
<1>1. BookInv => BookSound
  <2> SUFFICES ASSUME BookInv PROVE BookSound
    OBVIOUS
  <2>1. Typed /\ BooksAgree /\ InOrder /\ Balanced
    BY DEF BookInv, BookCore
  <2>2. BookTypeOK /\ \A x \in 1..o_cnt : OrderConsistent(orders[x])
    BY <2>1 DEF Typed
  <2>3. /\ obook \in [Books -> Seq(1..o_cnt)] /\ trades \in Seq(Trade)
        /\ \A x \in 1..o_cnt : orders[x].pair \in Pairs /\ orders[x].side \in OrderSide
    BY <2>1, Known
  <2>4. ASSUME NEW k \in Books
        PROVE  Rests(obook[k], k) /\ Ascending(obook[k])
    <3>1. /\ Ascending(obook[k])
          /\ \A x \in 1..o_cnt :
                Listed(obook[k], x) => Resting(x) /\ orders[x].pair = k[1] /\ orders[x].side = k[2]
      BY <2>1 DEF BooksAgree
    <3>2. obook[k] \in Seq(1..o_cnt) /\ DOMAIN obook[k] = 1..Len(obook[k])
      BY <2>3
    <3>3. \A i \in DOMAIN obook[k] : obook[k][i] \in 1..o_cnt /\ Listed(obook[k], obook[k][i])
      <4>1. \A i \in 1..Len(obook[k]) : obook[k][i] \in 1..o_cnt
        BY <3>2, ElementOfSeq
      <4> QED
        BY <3>2, <4>1 DEF Listed
    <3>4. \A x \in 1..o_cnt : Resting(x) => orders[x].tif = "Gtc" /\ IsOpen(orders[x]) /\ x # taker
      BY <2>1 DEF InOrder, Resting
    <3> QED
      BY <3>1, <3>3, <3>4 DEF Rests
  <2>5. ASSUME NEW x \in 1..o_cnt, IsOpen(orders[x]), x # taker
        PROVE  Listed(obook[orders[x].pair, orders[x].side], x)
    <3> DEFINE k == <<orders[x].pair, orders[x].side>>
    <3>1. k \in Books /\ k[1] = orders[x].pair /\ k[2] = orders[x].side
      BY <2>3 DEF Books
    <3>2. Resting(x)
      BY <2>5 DEF Resting
    <3>3. Listed(obook[k], x)
      BY <2>1, <3>1, <3>2 DEF BooksAgree
    <3> QED
      BY <3>3
  <2>6. FillsBalance
    <3>1. DOMAIN Done = 1..o_cnt
      BY DEF Done
    <3>2. DOMAIN Signed = 1..Len(trades)
      BY <2>3 DEF Signed
    <3> QED
      BY <2>1, <3>1, <3>2 DEF FillsBalance, Balanced, SumFunction, Done, Signed
  <2> QED
    BY <2>2, <2>4, <2>5, <2>6 DEF BookSound, Books
<1> QED
  BY <1>1, BookInvariance, PTL

(***************************************************************************)
(* Books that agree with the resting orders are not crossed.               *)
(***************************************************************************)
LEMMA UncrossedBooks ==
    ASSUME BookCore
    PROVE  NeverCrossed
<1> SUFFICES ASSUME NEW k \in Pairs,
                    NEW i \in DOMAIN obook[k, "Buy"], NEW j \in DOMAIN obook[k, "Sell"]
             PROVE  orders[obook[k, "Buy"][i]].price < orders[obook[k, "Sell"][j]].price
  BY DEF NeverCrossed
<1>1. ASSUME NEW s \in OrderSide, NEW l \in DOMAIN obook[k, s]
      PROVE  LET x == obook[k, s][l]
             IN  x \in 1..o_cnt /\ Resting(x) /\ orders[x].pair = k /\ orders[x].side = s
  <2> DEFINE b == <<k, s>>
             ids == obook[b]
  <2>1. b \in Books /\ b[1] = k /\ b[2] = s
    BY DEF Books
  <2>2. ids \in Seq(1..o_cnt)
    BY <2>1, Known DEF BookCore
  <2>3. l \in DOMAIN ids /\ l \in 1..Len(ids)
    <3>1. l \in DOMAIN ids
      OBVIOUS
    <3>2. \A q \in Seq(1..o_cnt) : DOMAIN q = 1..Len(q)
      BY LenProperties
    <3>3. DOMAIN ids = 1..Len(ids)
      BY <2>2, <3>2, Zenon
    <3> QED
      BY <3>1, <3>3, Zenon
  <2>4. ids[l] \in 1..o_cnt
    BY <2>2, <2>3, ElementOfSeq
  <2>5. Listed(ids, ids[l])
    BY <2>3 DEF Listed
  <2>6. Resting(ids[l]) /\ orders[ids[l]].pair = k /\ orders[ids[l]].side = s
    BY <2>1, <2>4, <2>5 DEF BookCore, BooksAgree
  <2> QED
    BY <2>4, <2>6
<1> DEFINE x == obook[k, "Buy"][i]
           y == obook[k, "Sell"][j]
<1>2. x \in 1..o_cnt /\ Resting(x) /\ orders[x].pair = k /\ orders[x].side = "Buy"
  BY <1>1 DEF OrderSide
<1>3. y \in 1..o_cnt /\ Resting(y) /\ orders[y].pair = k /\ orders[y].side = "Sell"
  BY <1>1 DEF OrderSide
<1> QED
  BY <1>2, <1>3 DEF BookCore, Uncrossed

(***************************************************************************)
(* The makers cover what a fill-or-kill order still needs.                 *)
(***************************************************************************)
LEMMA CoveredFok ==
    ASSUME BookCore
    PROVE  FokCovered
<1> SUFFICES ASSUME taker # 0, orders[taker].tif = "Fok"
             PROVE  available_fill_for_order(orders[taker]) >= orders[taker].remaining
  BY DEF FokCovered
<1>1. Typed /\ BooksAgree /\ FokAhead
  BY DEF BookCore
<1>2. orders[taker].pair \in Pairs /\ orders[taker].side \in OrderSide
  BY <1>1, Known
<1>3. available_fill_for_order(orders[taker]) = SumFunctionOnSet(Remaining, Makers(orders[taker]))
  BY <1>1, <1>2, Available
<1> QED
  BY <1>1, <1>3 DEF FokAhead

(***************************************************************************)
(* The book is never crossed (NeverCrossed): finish_order rests a          *)
(* remainder only once match_limit_order has found nothing to match.       *)
(***************************************************************************)
THEOREM BooksAreNeverCrossed == Spec => []NeverCrossed
<1>1. BookInv => NeverCrossed
  BY UncrossedBooks DEF BookInv
<1> QED
  BY <1>1, BookInvariance, PTL

(***************************************************************************)
(* A fill-or-kill order is covered at every iteration (FokCovered), so the *)
(* second test of create_limit_order never fails.                          *)
(***************************************************************************)
THEOREM FokIsCovered == Spec => []FokCovered
<1>1. BookInv => FokCovered
  BY CoveredFok DEF BookInv
<1> QED
  BY <1>1, BookInvariance, PTL

(***************************************************************************)
(* What an iteration fills comes first in the book.                        *)
(***************************************************************************)
LEMMA MatchedFirst ==
    ASSUME BookCore, NEW m \in 1..o_cnt, NEW fill \in Int, Matched(m, fill)
    PROVE  ComesFirst(m) /\ trades'[Len(trades')].price = orders[m].price
<1> DEFINE t == orders[taker]
<1>1. /\ taker \in 1..o_cnt /\ order_matches(t, orders[m])
      /\ \A x \in Makers(t) : x # m => \/ BetterPrice(t.side, orders[m].price, orders[x].price)
                                       \/ orders[m].price = orders[x].price /\ m < x
  BY DEF Matched
<1>2. t.price \in Int /\ t.side \in OrderSide /\ \A x \in 1..o_cnt : orders[x].price \in Int
  BY <1>1, Known DEF BookCore
<1>3. ASSUME NEW o \in 1..o_cnt, o # taker, o # m, IsOpen(orders[o]),
             orders[o].pair = orders[m].pair, orders[o].side = orders[m].side
      PROVE  \/ BetterPrice(t.side, orders[m].price, orders[o].price)
             \/ orders[m].price = orders[o].price /\ m < o
  <2>1. CASE order_matches(t, orders[o])
    <3>1. o \in Makers(t)
      BY <1>3, <2>1 DEF Makers, Resting
    <3> QED
      BY <1>1, <1>3, <3>1
  <2>2. CASE ~order_matches(t, orders[o])
    <3>1. /\ t.side = "Buy" => t.price >= orders[m].price /\ ~(t.price >= orders[o].price)
          /\ t.side # "Buy" => t.price <= orders[m].price /\ ~(t.price <= orders[o].price)
      BY <1>1, <1>3, <2>2 DEF order_matches
    <3>2. orders[m].price \in Int /\ orders[o].price \in Int
      BY <1>2
    <3>3. BetterPrice(t.side, orders[m].price, orders[o].price)
      BY <1>2, <3>1, <3>2 DEF BetterPrice
    <3> QED
      BY <3>3
  <2> QED
    BY <2>1, <2>2
<1>4. trades'[Len(trades')].price = orders[m].price
  <2>1. PICK b \in Trade : Len(trades') = Len(trades) + 2 /\ trades'[Len(trades) + 2] = b
                            /\ b.price = orders[m].price
    BY MatchedTrades
  <2> QED
    BY <2>1
<1> QED
  BY <1>1, <1>3, <1>4 DEF ComesFirst

(***************************************************************************)
(* What a step fills, and where the order stood that it fills.             *)
(***************************************************************************)
InTurn(m) ==
    (m # taker /\ orders[m].remaining # orders'[m].remaining)
        => ComesFirst(m) /\ trades'[Len(trades')].price = orders[m].price

(***************************************************************************)
(* Only an iteration of the loop fills an order of the book, and it fills  *)
(* the first one.                                                          *)
(***************************************************************************)
LEMMA FilledInTurn ==
    ASSUME BookCore, NEW m \in 1..o_cnt,
           \/ \E u \in Users, k \in Pairs, s \in OrderSide, p \in Int, a \in Int,
                tif \in TimeInForce : create_limit_order(u, k, s, p, a, tif)
           \/ match_limit_order \/ finish_order
           \/ \E u \in Users, id \in 1..o_cnt : cancel_order(u, id)
           \/ UNCHANGED orders
    PROVE  InTurn(m)
<1> USE DEF InTurn
<1>1. orders \in [1..o_cnt -> LimitOrder] /\ o_cnt \in Nat
  BY Known DEF BookCore
<1>2. ASSUME NEW u, NEW k, NEW s, NEW p, NEW a, NEW tif, create_limit_order(u, k, s, p, a, tif)
      PROVE  InTurn(m)
  <2>1. m \in 1..(o_cnt + 1)
    BY <1>1
  <2>2. orders'[m] = orders[m]
    BY <1>2, <2>1 DEF create_limit_order
  <2> QED
    BY <2>2
<1>3. CASE match_limit_order
  <2>1. PICK x \in 1..o_cnt, fill \in Int : Matched(x, fill)
    BY <1>3, Matching
  <2>2. m \notin {x, taker} => orders'[m] = orders[m]
    BY <2>1, MatchedOrders
  <2>3. CASE m = x
    <3>1. ComesFirst(m) /\ trades'[Len(trades')].price = orders[m].price
      BY <2>1, <2>3, MatchedFirst
    <3> QED
      BY <3>1
  <2> QED
    BY <2>2, <2>3
<1>4. CASE finish_order
  <2>1. orders' = orders \/ orders' = [orders EXCEPT ![taker].status = "Cancelled"]
    BY <1>4 DEF finish_order
  <2>2. m # taker => orders'[m] = orders[m]
    BY <1>1, <2>1
  <2> QED
    BY <2>2
<1>5. ASSUME NEW u \in Users, NEW id \in 1..o_cnt, cancel_order(u, id)
      PROVE  InTurn(m)
  <2>1. orders' = [orders EXCEPT ![id] = [orders[id] EXCEPT !.status = "Cancelled"]]
    BY <1>5 DEF cancel_order
  <2>2. \A o \in LimitOrder : [o EXCEPT !.status = "Cancelled"].remaining = o.remaining
    BY DEF LimitOrder
  <2>3. orders'[m].remaining = orders[m].remaining
    BY <1>1, <2>1, <2>2
  <2> QED
    BY <2>3
<1>6. CASE UNCHANGED orders
  BY <1>6
<1> QED
  BY <1>2, <1>3, <1>4, <1>5, <1>6

(***************************************************************************)
(* Price-time priority (PriorityKept): whatever match_limit_order fills    *)
(* comes first in its book by price and id, matches the taker's limit and  *)
(* is logged at its own price; and nothing else fills an order.            *)
(***************************************************************************)
THEOREM PriorityIsKept == Spec => PriorityKept
<1>1. BookInv /\ [Next]_vars => [\A m \in 1..o_cnt : InTurn(m)]_vars
  <2> SUFFICES ASSUME BookInv, [Next]_vars, NEW m \in 1..o_cnt PROVE InTurn(m)
    OBVIOUS
  <2>1. BookCore
    BY DEF BookInv
  <2>2. CASE Tick \/ UNCHANGED vars
    BY <2>1, <2>2, FilledInTurn DEF Tick, bookVars, vars
  <2> QED
    BY <2>1, <2>2, FilledInTurn, InputsAssumption DEF Next
<1> QED
  BY <1>1, BookInvariance, PTL DEF Spec, PriorityKept, InTurn
=============================================================================
