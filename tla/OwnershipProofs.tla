--------------------------- MODULE OwnershipProofs ---------------------------
(***************************************************************************)
(* Proofs about who owns what.  Trade: for any number of players and       *)
(* items, any capacity and any nesting of containers, the four copies of   *)
(* "who trades what with whom" (tradeState, tradePartner, tradeItem of a   *)
(* player and the register Game::tradeItems) agree after every sequence of *)
(* handlers, an offer stays as it was made, and an exchange is of both     *)
(* items or none.  These two need what Ancestors(), a recursive function,  *)
(* computes: an induction over the length of a climb, from the library's   *)
(* theorem that the natural numbers are well-founded.  House: for any      *)
(* number of players and houses, who is inside is invited, who wrote the   *)
(* lists was trusted, and beds agree with the map of sleepers, also        *)
(* through restarts.  Decay: for any items, any types of items.xml and any *)
(* number of buckets, reference counters agree with the lists, and an item *)
(* that no script changes is listed once and lasts as long as it should.   *)
(***************************************************************************)
EXTENDS Trade, House, Decay, FiniteSetTheorems, WellFoundedInduction, TLAPS

-----------------------------------------------------------------------------
(* Induction: a set with 0 that is closed under successor is Nat. *)
LEMMA SetInduction ==
  ASSUME NEW G, G \subseteq Nat, 0 \in G, \A n \in Nat : n \in G => n + 1 \in G
  PROVE  G = Nat
<1>. DEFINE B == Nat \ G
            R == OpToRel(<, Nat)
<1>. SUFFICES ASSUME B # {} PROVE FALSE
  OBVIOUS
<1>1. IsWellFoundedOn(R, Nat)
  BY NatLessThanWellFounded
<1>2. \A x, y \in Nat : <<x, y>> \in R <=> x < y
  BY DEF OpToRel
<1>. HIDE DEF R
<1>3. PICK n \in B : \A m \in B : ~(<<m, n>> \in R)
  BY <1>1, WFMin
<1>4. n # 0 /\ n - 1 \in Nat /\ n - 1 < n
  BY <1>3
<1>5. n - 1 \in G
  BY <1>2, <1>3, <1>4
<1>. QED BY <1>3, <1>4, <1>5

(* The climb from i: where one is after n steps from an item to its parent.*)
IsClimb(up, par, i, k) ==
  up = [n \in 0..k |-> IF n = 0 THEN i ELSE IF up[n - 1] \in Items THEN par[up[n - 1]] ELSE up[n - 1]]

LEMMA ClimbExists ==
  ASSUME NEW par, NEW i, NEW k \in Nat
  PROVE  \E up : IsClimb(up, par, i, k)
<1>. DEFINE G == {n \in Nat : \E up : IsClimb(up, par, i, n)}
<1>1. 0 \in G
  <2>1. IsClimb([n \in 0..0 |-> i], par, i, 0)
    BY DEF IsClimb
  <2>. QED BY <2>1
<1>2. ASSUME NEW n \in Nat, n \in G
      PROVE  n + 1 \in G
  <2>1. PICK up : IsClimb(up, par, i, n)
    BY <1>2
  <2>. DEFINE last == IF up[n] \in Items THEN par[up[n]] ELSE up[n]
              longer == [m \in 0..n + 1 |-> IF m <= n THEN up[m] ELSE last]
  <2>2. \A m \in 0..n : longer[m] = up[m]
    OBVIOUS
  <2>3. longer[n + 1] = last
    OBVIOUS
  <2>4. \A m \in 0..n + 1 : longer[m] =
          IF m = 0 THEN i ELSE IF longer[m - 1] \in Items THEN par[longer[m - 1]] ELSE longer[m - 1]
    <3>1. up = [m \in 0..n |-> IF m = 0 THEN i ELSE IF up[m - 1] \in Items THEN par[up[m - 1]] ELSE up[m - 1]]
      BY <2>1 DEF IsClimb
    <3>. HIDE DEF longer
    <3>2. ASSUME NEW m \in 0..n + 1, m <= n
          PROVE longer[m] = IF m = 0 THEN i ELSE IF longer[m - 1] \in Items THEN par[longer[m - 1]] ELSE longer[m - 1]
      <4>1. m \in 0..n /\ (m # 0 => m - 1 \in 0..n)
        BY <3>2
      <4>. QED BY <4>1, <2>2, <3>1
    <3>3. longer[n] = up[n] /\ (n + 1) - 1 = n /\ n + 1 # 0
      BY <2>2
    <3>4. \A m \in 0..n + 1 : m <= n \/ m = n + 1
      OBVIOUS
    <3>. QED BY <3>2, <3>3, <3>4, <2>3
  <2>5. longer = [m \in 0..n + 1 |-> longer[m]]
    OBVIOUS
  <2>6. IsClimb(longer, par, i, n + 1)
    <3>. HIDE DEF longer
    <3>. QED BY <2>4, <2>5 DEF IsClimb
  <2>. QED BY <2>6
<1>3. G = Nat
  <2>. HIDE DEF G
  <2>1. G \subseteq Nat
    BY DEF G
  <2>. QED BY <1>1, <1>2, <2>1, SetInduction
<1>. QED BY <1>3

(* Ancestors() are where the climb comes to. *)
LEMMA AncestorsClimb ==
  ASSUME NEW par, NEW i
  PROVE  \E up : /\ IsClimb(up, par, i, Cardinality(Items))
                 /\ Ancestors(par, i) = {up[n] : n \in 1..Cardinality(Items)}
<1>. DEFINE N == Cardinality(Items)
            u == CHOOSE up : up = [n \in 0..N |-> IF n = 0 THEN i ELSE IF up[n - 1] \in Items THEN par[up[n - 1]] ELSE up[n - 1]]
<1>1. N \in Nat
  BY TradeAssumption, FS_CardinalityType
<1>2. \E up : IsClimb(up, par, i, N)
  <2>. HIDE DEF N
  <2>. QED BY <1>1, ClimbExists
<1>3. IsClimb(u, par, i, N)
  BY <1>2 DEF IsClimb
<1>4. Ancestors(par, i) = {u[n] : n \in 1..N}
  BY DEF Ancestors
<1>. HIDE DEF u
<1>. QED
  <2>. WITNESS u
  <2>. QED BY <1>3, <1>4

(* Step by step. *)
Climbs(up, par, i, k) ==
  /\ up[0] = i
  /\ \A n \in 0..k : n < k => up[n + 1] = IF up[n] \in Items THEN par[up[n]] ELSE up[n]

LEMMA ClimbSteps ==
  ASSUME NEW par, NEW i, NEW k \in Nat, NEW up, IsClimb(up, par, i, k)
  PROVE  Climbs(up, par, i, k)
<1>1. up = [n \in 0..k |-> IF n = 0 THEN i ELSE IF up[n - 1] \in Items THEN par[up[n - 1]] ELSE up[n - 1]]
  BY DEF IsClimb
<1>2. 0 \in 0..k
  OBVIOUS
<1>3. ASSUME NEW n \in 0..k, n < k
      PROVE  up[n + 1] = IF up[n] \in Items THEN par[up[n]] ELSE up[n]
  <2>1. n + 1 \in 0..k /\ n + 1 # 0 /\ (n + 1) - 1 = n
    BY <1>3
  <2>. QED BY <2>1, <1>1
<1>. QED BY <1>1, <1>2, <1>3 DEF Climbs

(* A climb from where another one has come to continues it. *)
LEMMA ClimbContinues ==
  ASSUME NEW par, NEW i, NEW k \in Nat, NEW up, IsClimb(up, par, i, k),
         NEW a \in 0..k, NEW v, IsClimb(v, par, up[a], k)
  PROVE  \A n \in 0..k - a : v[n] = up[a + n]
<1>. DEFINE G == {n \in Nat : n <= k - a => v[n] = up[a + n]}
<1>1. /\ v[0] = up[a] /\ a + 0 = a
      /\ \A n \in 0..k : n < k => v[n + 1] = IF v[n] \in Items THEN par[v[n]] ELSE v[n]
      /\ \A n \in 0..k : n < k => up[n + 1] = IF up[n] \in Items THEN par[up[n]] ELSE up[n]
  <2>1. Climbs(v, par, up[a], k)
    BY ClimbSteps, Zenon
  <2>2. Climbs(up, par, i, k)
    BY ClimbSteps, Zenon
  <2>. QED BY <2>1, <2>2 DEF Climbs
<1>2. 0 \in G
  BY <1>1
<1>3. ASSUME NEW n \in Nat, n \in G
      PROVE  n + 1 \in G
  <2>. SUFFICES ASSUME n + 1 <= k - a PROVE v[n + 1] = up[a + (n + 1)]
    OBVIOUS
  <2>1. /\ n \in 0..k /\ n < k /\ a + n \in 0..k /\ a + n < k /\ a + (n + 1) = (a + n) + 1
        /\ v[n] = up[a + n]
    BY <1>3
  <2>. QED BY <2>1, <1>1
<1>4. G = Nat
  <2>. HIDE DEF G
  <2>1. G \subseteq Nat
    BY DEF G
  <2>. QED BY <1>2, <1>3, <2>1, SetInduction
<1>. QED BY <1>4

(* What the ancestors of an item are: its parent, ...                      *)
LEMMA ParentIsAncestor ==
  ASSUME NEW par, NEW i \in Items
  PROVE  par[i] \in Ancestors(par, i)
<1>. DEFINE N == Cardinality(Items)
<1>1. N \in Nat /\ N # 0
  BY TradeAssumption, FS_CardinalityType, FS_EmptySet
<1>2. PICK up : IsClimb(up, par, i, N) /\ Ancestors(par, i) = {up[n] : n \in 1..N}
  BY AncestorsClimb
<1>. HIDE DEF N
<1>3. up[0] = i /\ \A n \in 0..N : n < N => up[n + 1] = IF up[n] \in Items THEN par[up[n]] ELSE up[n]
  <2>1. Climbs(up, par, i, N)
    BY <1>1, <1>2, ClimbSteps, Zenon
  <2>. QED BY <2>1 DEF Climbs
<1>4. up[1] = par[i] /\ 1 \in 1..N
  <2>1. 0 \in 0..N /\ 0 < N /\ 0 + 1 = 1 /\ 1 \in 1..N
    BY <1>1
  <2>. QED BY <2>1, <1>3
<1>. QED BY <1>2, <1>4

(* ... no more than any set with its parent that is closed under parents,  *)
LEMMA AncestorsAreLeast ==
  ASSUME NEW par, NEW i \in Items, NEW S, par[i] \in S, \A x \in S \cap Items : par[x] \in S
  PROVE  Ancestors(par, i) \subseteq S
<1>. DEFINE N == Cardinality(Items)
<1>1. N \in Nat
  BY TradeAssumption, FS_CardinalityType
<1>2. PICK up : IsClimb(up, par, i, N) /\ Ancestors(par, i) = {up[n] : n \in 1..N}
  BY AncestorsClimb
<1>. HIDE DEF N
<1>3. up[0] = i /\ \A n \in 0..N : n < N => up[n + 1] = IF up[n] \in Items THEN par[up[n]] ELSE up[n]
  <2>1. Climbs(up, par, i, N)
    BY <1>1, <1>2, ClimbSteps, Zenon
  <2>. QED BY <2>1 DEF Climbs
<1>. DEFINE G == {n \in Nat : n + 1 <= N => up[n + 1] \in S}
<1>4. 0 \in G
  <2>1. 0 + 1 <= N => 0 \in 0..N /\ 0 < N
    BY <1>1
  <2>. QED BY <2>1, <1>3
<1>5. ASSUME NEW n \in Nat, n \in G
      PROVE  n + 1 \in G
  <2>. SUFFICES ASSUME (n + 1) + 1 <= N PROVE up[(n + 1) + 1] \in S
    OBVIOUS
  <2>1. n + 1 \in 0..N /\ n + 1 < N /\ up[n + 1] \in S
    BY <1>1, <1>5
  <2>. QED BY <2>1, <1>3
<1>6. G = Nat
  <2>. HIDE DEF G
  <2>1. G \subseteq Nat
    BY DEF G
  <2>. QED BY <1>4, <1>5, <2>1, SetInduction
<1>7. ASSUME NEW n \in 1..N PROVE up[n] \in S
  <2>. HIDE DEF G
  <2>1. n - 1 \in Nat /\ (n - 1) + 1 = n /\ n <= N
    BY <1>1
  <2>2. n - 1 \in G
    BY <1>6, <2>1
  <2>. QED BY <2>1, <2>2 DEF G
<1>. QED BY <1>2, <1>7

(* The climb leaves the items after as many steps as there are items, when *)
(* no item is inside itself: else one would be met twice.                  *)
LEMMA ClimbLeavesItems ==
  ASSUME NEW par, NothingInItself(par), NEW i \in Items,
         NEW up, IsClimb(up, par, i, Cardinality(Items))
  PROVE  \A n \in 0..Cardinality(Items) : up[n] \in Items => n < Cardinality(Items)
<1>. DEFINE N == Cardinality(Items)
<1>1. N \in Nat
  BY TradeAssumption, FS_CardinalityType
<1>2. IsClimb(up, par, i, N)
  OBVIOUS
<1>. HIDE DEF N
<1>3. up[0] = i /\ \A n \in 0..N : n < N => up[n + 1] = IF up[n] \in Items THEN par[up[n]] ELSE up[n]
  <2>1. Climbs(up, par, i, N)
    BY <1>1, <1>2, ClimbSteps, Zenon
  <2>. QED BY <2>1 DEF Climbs
<1>a. IsFiniteSet(0..N) /\ IsFiniteSet(Items) /\ Cardinality(Items) < Cardinality(0..N)
  <2>1. IsFiniteSet(0..N) /\ Cardinality(0..N) = IF 0 > N THEN 0 ELSE N - 0 + 1
    BY <1>1, FS_Interval
  <2>2. Cardinality(0..N) = N + 1
    BY <1>1, <2>1
  <2>. QED BY <1>1, <2>1, <2>2, TradeAssumption DEF N
<1>4. \A n \in 0..N : up[n] \in Items => n < N
  <2>. SUFFICES ASSUME up[N] \in Items PROVE FALSE
    BY <1>1
  (* Then all of the climb is in items, and one is met twice. *)
  <2>. DEFINE G == {n \in Nat : n <= N => up[N - n] \in Items}
  <2>1. 0 \in G
    BY <1>1
  <2>2. ASSUME NEW n \in Nat, n \in G
        PROVE  n + 1 \in G
    <3>. SUFFICES ASSUME n + 1 <= N PROVE up[N - (n + 1)] \in Items
      OBVIOUS
    <3>. DEFINE m == N - (n + 1)
    <3>1. m \in 0..N /\ m < N /\ m + 1 = N - n /\ up[N - n] \in Items
      BY <1>1, <2>2
    <3>. HIDE DEF m
    <3>2. up[m] \in Items
      BY <3>1, <1>3
    <3>. QED BY <3>2 DEF m
  <2>3. G = Nat
    <3>. HIDE DEF G
    <3>1. G \subseteq Nat
      BY DEF G
    <3>. QED BY <2>1, <2>2, <3>1, SetInduction
  <2>4. \A n \in 0..N : up[n] \in Items
    <3>. SUFFICES ASSUME NEW n \in 0..N PROVE up[n] \in Items
      OBVIOUS
    <3>. HIDE DEF G
    <3>1. N - n \in Nat /\ N - (N - n) = n /\ N - n <= N
      BY <1>1
    <3>2. N - n \in G
      BY <2>3, <3>1
    <3>. QED BY <3>1, <3>2 DEF G
  <2>. HIDE DEF N
  <2>5. PICK a, b \in 0..N : a # b /\ up[a] = up[b]
    <3>. DEFINE g == [n \in 0..N |-> up[n]]
                D == 0..N
    <3>1. g \in [D -> Items] /\ \A n \in D : g[n] = up[n]
      BY <2>4
    <3>2. IsFiniteSet(D) /\ IsFiniteSet(Items) /\ Cardinality(Items) < Cardinality(D)
      BY <1>a
    <3>. HIDE DEF g, D
    <3>3. \E a, b \in D : a # b /\ g[a] = g[b]
      BY <3>1, <3>2, FS_PigeonHole
    <3>. QED BY <3>1, <3>3 DEF D
  <2>6. PICK c, d \in 0..N : c < d /\ up[c] = up[d]
    BY <2>5, <1>1
  <2>7. PICK v : IsClimb(v, par, up[c], N) /\ Ancestors(par, up[c]) = {v[n] : n \in 1..N}
    BY AncestorsClimb DEF N
  <2>8. v[d - c] = up[d] /\ d - c \in 1..N
    <3>1. d - c \in 0..N - c /\ d - c \in 1..N /\ c + (d - c) = d
      BY <2>6, <1>1
    <3>2. \A n \in 0..N - c : v[n] = up[c + n]
      BY <1>1, <1>2, <2>7, ClimbContinues DEF N
    <3>. QED BY <3>1, <3>2
  <2>9. up[c] \in Ancestors(par, up[c])
    BY <2>6, <2>7, <2>8
  <2>. QED BY <2>9, <2>4 DEF NothingInItself, IsHoldingItem
<1>. QED BY <1>4 DEF N

(* ... and all of them, when no item is inside itself.                   *)
LEMMA AncestorsAreClosed ==
  ASSUME NEW par, NothingInItself(par), NEW i \in Items, NEW x \in Ancestors(par, i) \cap Items
  PROVE  par[x] \in Ancestors(par, i)
<1>. DEFINE N == Cardinality(Items)
<1>1. N \in Nat
  BY TradeAssumption, FS_CardinalityType
<1>2. PICK up : IsClimb(up, par, i, N) /\ Ancestors(par, i) = {up[n] : n \in 1..N}
  BY AncestorsClimb
<1>. HIDE DEF N
<1>3. up[0] = i /\ \A n \in 0..N : n < N => up[n + 1] = IF up[n] \in Items THEN par[up[n]] ELSE up[n]
  <2>1. Climbs(up, par, i, N)
    BY <1>1, <1>2, ClimbSteps, Zenon
  <2>. QED BY <2>1 DEF Climbs
<1>4. \A n \in 0..N : up[n] \in Items => n < N
  BY <1>2, ClimbLeavesItems DEF N
<1>5. PICK n \in 1..N : x = up[n]
  BY <1>2
<1>6. n \in 0..N /\ n < N /\ n + 1 \in 1..N
  BY <1>1, <1>4, <1>5
<1>7. up[n + 1] = par[x]
  BY <1>3, <1>5, <1>6
<1>. QED BY <1>2, <1>6, <1>7

(* An item is inside its parent and what that is inside. *)
Above(par, x) == IF x \in Items THEN Ancestors(par, x) \cup {x} ELSE {x}

LEMMA AncestorsUnfold ==
  ASSUME NEW par, NothingInItself(par), NEW i \in Items
  PROVE  Ancestors(par, i) = Above(par, par[i])
<1>1. Ancestors(par, i) \subseteq Above(par, par[i])
  <2>. DEFINE S == Above(par, par[i])
  <2>1. par[i] \in S
    BY DEF Above
  <2>2. ASSUME NEW x \in S \cap Items PROVE par[x] \in S
    <3>1. par[i] \in Items
      BY <2>2 DEF Above
    <3>2. par[par[i]] \in Ancestors(par, par[i])
      BY <3>1, ParentIsAncestor
    <3>3. ASSUME x \in Ancestors(par, par[i]) PROVE par[x] \in Ancestors(par, par[i])
      BY <3>1, <3>3, AncestorsAreClosed
    <3>. QED BY <3>1, <3>2, <3>3 DEF Above
  <2>. HIDE DEF S
  <2>3. Ancestors(par, i) \subseteq S
    BY <2>1, <2>2, AncestorsAreLeast
  <2>. QED BY <2>3 DEF S
<1>2. par[i] \in Ancestors(par, i)
  BY ParentIsAncestor
<1>3. ASSUME par[i] \in Items PROVE Ancestors(par, par[i]) \subseteq Ancestors(par, i)
  <2>. DEFINE S == Ancestors(par, i)
  <2>1. par[par[i]] \in S /\ \A x \in S \cap Items : par[x] \in S
    BY <1>2, <1>3, AncestorsAreClosed
  <2>. HIDE DEF S
  <2>2. Ancestors(par, par[i]) \subseteq S
    BY <1>3, <2>1, AncestorsAreLeast
  <2>. QED BY <2>2 DEF S
<1>. QED BY <1>1, <1>2, <1>3 DEF Above

LEMMA AncestorsOfAncestors ==
  ASSUME NEW par, NothingInItself(par), NEW i \in Items, NEW x \in Ancestors(par, i)
  PROVE  Above(par, x) \subseteq Ancestors(par, i)
<1>. SUFFICES ASSUME x \in Items PROVE Ancestors(par, x) \subseteq Ancestors(par, i)
  BY DEF Above
<1>. DEFINE S == Ancestors(par, i)
<1>1. par[x] \in S /\ \A y \in S \cap Items : par[y] \in S
  BY AncestorsAreClosed
<1>. HIDE DEF S
<1>2. Ancestors(par, x) \subseteq S
  BY <1>1, AncestorsAreLeast
<1>. QED BY <1>2 DEF S

(* Of two that an item is inside one is inside the other. *)
LEMMA AncestorsAreOrdered ==
  ASSUME NEW par, NothingInItself(par), NEW i \in Items, NEW y \in Ancestors(par, i)
  PROVE  \A x \in Ancestors(par, i) : y \in Above(par, x) \/ x \in Above(par, y)
<1>. DEFINE S == {x \in Ancestors(par, i) : y \in Above(par, x) \/ x \in Above(par, y)}
<1>1. par[i] \in S
  <2>1. par[i] \in Ancestors(par, i) /\ y \in Above(par, par[i])
    BY ParentIsAncestor, AncestorsUnfold
  <2>. QED BY <2>1
<1>2. ASSUME NEW x \in S \cap Items PROVE par[x] \in S
  <2>1. par[x] \in Ancestors(par, i)
    BY <1>2, AncestorsAreClosed
  <2>2. Ancestors(par, x) = Above(par, par[x])
    BY AncestorsUnfold
  <2>3. CASE y \in Ancestors(par, x)
    BY <2>1, <2>2, <2>3
  <2>4. CASE y = x
    <3>1. par[x] \in Above(par, y)
      BY <2>4, ParentIsAncestor DEF Above
    <3>. QED BY <2>1, <3>1
  <2>5. CASE x \in Above(par, y) /\ x # y
    <3>1. y \in Items /\ x \in Ancestors(par, y)
      BY <2>5 DEF Above
    <3>2. par[x] \in Ancestors(par, y)
      BY <3>1, AncestorsAreClosed
    <3>. QED BY <2>1, <3>1, <3>2 DEF Above
  <2>. QED BY <1>2, <2>3, <2>4, <2>5 DEF Above
<1>. HIDE DEF S
<1>3. Ancestors(par, i) \subseteq S
  BY <1>1, <1>2, AncestorsAreLeast
<1>. QED BY <1>3 DEF S

(* Root() is the one thing above an item that is not an item. *)
LEMMA RootIsUnique ==
  ASSUME NEW par, NothingInItself(par), NEW i \in Items
  PROVE  /\ Root(par, i) \in Ancestors(par, i) /\ Root(par, i) \notin Items
         /\ \A r \in Ancestors(par, i) : r \notin Items => r = Root(par, i)
<1>. DEFINE N == Cardinality(Items)
<1>1. N \in Nat /\ N # 0
  BY TradeAssumption, FS_CardinalityType, FS_EmptySet
<1>2. PICK up : IsClimb(up, par, i, N) /\ Ancestors(par, i) = {up[n] : n \in 1..N}
  BY AncestorsClimb
<1>3. \A n \in 0..N : up[n] \in Items => n < N
  BY <1>2, ClimbLeavesItems
<1>. HIDE DEF N
<1>4. \E r \in Ancestors(par, i) : r \notin Items
  <2>1. N \in 1..N /\ N \in 0..N /\ ~(N < N)
    BY <1>1
  <2>. QED BY <1>2, <1>3, <2>1
<1>5. Root(par, i) \in Ancestors(par, i) /\ Root(par, i) \notin Items
  BY <1>4 DEF Root
<1>6. ASSUME NEW r \in Ancestors(par, i), r \notin Items PROVE r = Root(par, i)
  BY <1>5, <1>6, AncestorsAreOrdered DEF Above
<1>. QED BY <1>5, <1>6

(* May item i be put into `to' without a loop? *)
GoesInto(par, i, to) == i \notin Above(par, to)

(* What is inside what, after item i has been put into `to'. *)
IsMoved(par, par2, i, to) ==
  /\ NothingInItself(par2)
  /\ Ancestors(par2, i) = Above(par, to)
  /\ \A j \in Items :
       /\ i # j /\ i \notin Ancestors(par, j) => Ancestors(par2, j) = Ancestors(par, j)
       /\ Ancestors(par2, j) \subseteq Ancestors(par, j) \cup Above(par, to)

LEMMA AncestorsAfterMove ==
  ASSUME NEW par \in [Items -> Parents], NothingInItself(par),
         NEW i \in Items, NEW to \in Parents, GoesInto(par, i, to),
         NEW par2, par2 = [par EXCEPT ![i] = to]
  PROVE  IsMoved(par, par2, i, to)
<1>0. /\ par2[i] = to /\ \A x \in Items : x # i => par2[x] = par[x]
      /\ i \notin Above(par, to)
  BY DEF GoesInto
<1>1. \A x \in Items : par[x] \in Ancestors(par, x)
  BY ParentIsAncestor
<1>2. \A x \in Items : \A y \in Ancestors(par, x) \cap Items : par[y] \in Ancestors(par, x)
  BY AncestorsAreClosed
<1>3. \A x \in Above(par, to) \cap Items : par[x] \in Above(par, to)
  BY <1>1, <1>2 DEF Above
<1>4. \A x \in Above(par, to) \cap Items : par2[x] \in Above(par, to)
  BY <1>0, <1>3
<1>5. to \in Above(par, to)
  BY DEF Above
<1>6. Ancestors(par2, i) \subseteq Above(par, to)
  <2>. DEFINE S == Above(par, to)
  <2>1. par2[i] \in S /\ \A x \in S \cap Items : par2[x] \in S
    BY <1>0, <1>4, <1>5
  <2>. HIDE DEF S
  <2>2. Ancestors(par2, i) \subseteq S
    BY <2>1, AncestorsAreLeast
  <2>. QED BY <2>2 DEF S
<1>7. ASSUME NEW j \in Items PROVE Ancestors(par2, j) \subseteq Ancestors(par, j) \cup Above(par, to)
  <2>. DEFINE S == Ancestors(par, j) \cup Above(par, to)
  <2>1. par2[j] \in S /\ \A x \in S \cap Items : par2[x] \in S
    BY <1>0, <1>1, <1>2, <1>4, <1>5
  <2>. HIDE DEF S
  <2>2. Ancestors(par2, j) \subseteq S
    BY <2>1, AncestorsAreLeast
  <2>. QED BY <2>2 DEF S
(* Whatever i is not above of keeps its ancestors. *)
<1>8. ASSUME NEW x \in Items, x # i, i \notin Ancestors(par, x)
      PROVE  Ancestors(par2, x) \subseteq Ancestors(par, x)
  <2>. DEFINE S == Ancestors(par, x)
  <2>1. par2[x] \in S /\ \A y \in S \cap Items : par2[y] \in S
    BY <1>0, <1>1, <1>2, <1>8
  <2>. HIDE DEF S
  <2>2. Ancestors(par2, x) \subseteq S
    BY <1>8, <2>1, AncestorsAreLeast
  <2>. QED BY <2>2 DEF S
<1>9. ASSUME NEW x \in Items PROVE x \notin Ancestors(par2, x)
  <2>0. x \notin Ancestors(par, x)
    BY DEF NothingInItself, IsHoldingItem
  <2>1. CASE x = i
    BY <2>1, <1>6, <1>0
  <2>2. CASE x # i /\ i \notin Ancestors(par, x)
    BY <2>0, <2>2, <1>8
  <2>3. CASE i \in Ancestors(par, x)
    <3>1. ASSUME x \in Above(par, to) PROVE FALSE
      <4>1. to \in Items /\ (x = to \/ x \in Ancestors(par, to))
        BY <3>1 DEF Above, Parents
      <4>2. CASE x = to
        BY <2>3, <4>1, <4>2, <1>0 DEF Above
      <4>3. CASE x \in Ancestors(par, to)
        <5>1. Above(par, x) \subseteq Ancestors(par, to)
          BY <4>1, <4>3, AncestorsOfAncestors
        <5>. QED BY <5>1, <2>3, <4>1, <1>0 DEF Above
      <4>. QED BY <4>1, <4>2, <4>3
    <3>2. Ancestors(par2, x) \subseteq Ancestors(par, x) \cup Above(par, to)
      <4>. DEFINE S == Ancestors(par, x) \cup Above(par, to)
      <4>1. par2[x] \in S /\ \A y \in S \cap Items : par2[y] \in S
        BY <1>0, <1>1, <1>2, <1>4, <1>5
      <4>. HIDE DEF S
      <4>2. Ancestors(par2, x) \subseteq S
        BY <4>1, AncestorsAreLeast
      <4>. QED BY <4>2 DEF S
    <3>. QED BY <2>0, <3>1, <3>2
  <2>. QED BY <2>1, <2>2, <2>3
<1>10. NothingInItself(par2)
  BY <1>9 DEF NothingInItself, IsHoldingItem
<1>11. ASSUME NEW x \in Items, x # i, i \notin Ancestors(par, x)
       PROVE  Ancestors(par2, x) = Ancestors(par, x)
  <2>. DEFINE S == Ancestors(par2, x)
  <2>1. S \subseteq Ancestors(par, x)
    BY <1>8, <1>11
  <2>2. par2[x] \in S /\ \A y \in S \cap Items : par2[y] \in S
    BY <1>10, ParentIsAncestor, AncestorsAreClosed
  <2>3. par[x] \in S /\ \A y \in S \cap Items : par[y] \in S
    BY <1>0, <1>11, <2>1, <2>2
  <2>. HIDE DEF S
  <2>4. Ancestors(par, x) \subseteq S
    BY <1>11, <2>3, AncestorsAreLeast
  <2>. QED BY <2>1, <2>4 DEF S
<1>12. Ancestors(par2, i) = Above(par, to)
  <2>1. Ancestors(par2, i) = Above(par2, to)
    BY <1>0, <1>10, AncestorsUnfold
  <2>2. to \in Items => Ancestors(par2, to) = Ancestors(par, to)
    BY <1>0, <1>11 DEF Above
  <2>. QED BY <2>1, <2>2 DEF Above
<1>. QED BY <1>7, <1>10, <1>11, <1>12 DEF IsMoved

(* What is neither above nor below of i, nor where i goes, stays as it is  *)
(* with all that is inside it.                                             *)
LeftAlone(par, par2, o) ==
  /\ Ancestors(par2, o) = Ancestors(par, o)
  /\ \A j \in Items : IsHoldingItem(par2, o, j) <=> IsHoldingItem(par, o, j)

LEMMA MoveLeavesAlone ==
  ASSUME NEW par \in [Items -> Parents], NothingInItself(par),
         NEW i \in Items, NEW to \in Parents, GoesInto(par, i, to),
         NEW par2, par2 = [par EXCEPT ![i] = to],
         NEW o \in Items, o # i, o \notin Ancestors(par, i), i \notin Ancestors(par, o),
         o \notin Above(par, to)
  PROVE  LeftAlone(par, par2, o)
<1>0. IsMoved(par, par2, i, to)
  BY AncestorsAfterMove, Zenon
<1>1. Ancestors(par2, o) = Ancestors(par, o)
  BY <1>0 DEF IsMoved
<1>2. ASSUME NEW j \in Items PROVE o \in Ancestors(par2, j) <=> o \in Ancestors(par, j)
  <2>1. CASE j # i /\ i \notin Ancestors(par, j)
    BY <2>1, <1>0 DEF IsMoved
  <2>2. CASE j = i
    BY <2>2, <1>0 DEF IsMoved
  <2>3. CASE i \in Ancestors(par, j)
    <3>1. o \notin Ancestors(par, j)
      BY <2>3, AncestorsAreOrdered DEF Above
    <3>2. Ancestors(par2, j) \subseteq Ancestors(par, j) \cup Above(par, to)
      BY <1>0 DEF IsMoved
    <3>. QED BY <3>1, <3>2
  <2>. QED BY <2>1, <2>2, <2>3
<1>. QED BY <1>1, <1>2 DEF IsHoldingItem, LeftAlone

-----------------------------------------------------------------------------
(* A player that was only asked, or does not trade, has made no offer.     *)
AskedHasNoOffer ==
  \A p \in Players : tradeState[p] \in {"none", "acknowledge"} => tradeItem[p] = NoItem

(* An item is offered by one player at a time. *)
OneOfferPerItem ==
  \A p, q \in Players : tradeItem[p] # NoItem /\ tradeItem[p] = tradeItem[q] => p = q

(* The inductive invariant.  PartnersAreMutual is needed so that closing a *)
(* trade releases both sides and nobody else, the last two so that an      *)
(* offer is never dropped from the register while another one stands for   *)
(* it.                                                                     *)
TradeInv == /\ PartnersAreMutual
            /\ OffersAreRegistered
            /\ AskedHasNoOffer
            /\ OneOfferPerItem

IInv == TypeOK /\ TradeInv

-----------------------------------------------------------------------------
(* internalCloseTrade() gives both players that trade free, and no other:  *)
(* whoever is not released has a partner that is not released.             *)
LEMMA ReleasedIsClosed ==
  ASSUME IInv, NEW who \in SUBSET Players
  PROVE  /\ Released(who) \subseteq Players
         /\ \A p \in Players : tradePartner[p] # NoPlayer =>
              (p \in Released(who) <=> tradePartner[p] \in Released(who))
<1>. USE DEF IInv, TypeOK, TradeInv, PartnersAreMutual
<1>1. Released(who) \subseteq Players
  BY DEF Released
<1>2. ASSUME NEW p \in Players, tradePartner[p] # NoPlayer
      PROVE  p \in Released(who) <=> tradePartner[p] \in Released(who)
  <2>1. /\ tradePartner[p] \in Players
        /\ tradePartner[tradePartner[p]] = p
        /\ p # NoPlayer
    BY <1>2, TradeAssumption
  <2>2. p \in Released(who) <=> p \in who \/ \E q \in who : tradePartner[q] = p
    BY <2>1 DEF Released
  <2>3. tradePartner[p] \in Released(who) <=>
          tradePartner[p] \in who \/ \E q \in who : tradePartner[q] = tradePartner[p]
    BY <1>2 DEF Released
  <2>4. \A q \in who : tradePartner[q] = p => q = tradePartner[p]
    BY <2>1
  <2>5. \A q \in who : tradePartner[q] = tradePartner[p] => q = p
    BY <2>1, <1>2
  <2>. QED BY <2>1, <2>2, <2>3, <2>4, <2>5
<1>. QED BY <1>1, <1>2

(* Closing trades keeps the copies in agreement, as long as only players   *)
(* that were released go off line.                                         *)
LEMMA CloseTradesKeepsInv ==
  ASSUME IInv, NEW who \in SUBSET Players, CloseTrades(who),
         \A p \in online : p \in Released(who) \/ p \in online'
  PROVE  /\ tradeState' \in [Players -> TradeStates]
         /\ tradePartner' \in [Players -> Players \cup {NoPlayer}]
         /\ tradeItem' \in [Players -> Items \cup {NoItem}]
         /\ tradeItems' \subseteq Items \X Players
         /\ TradeInv'
<1>. DEFINE closed == Released(who)
<1>0. /\ closed \subseteq Players
      /\ \A p \in Players : tradePartner[p] # NoPlayer =>
           (p \in closed <=> tradePartner[p] \in closed)
  BY ReleasedIsClosed
<1>1. \A p \in Players :
        /\ tradeState'[p] = IF p \in closed THEN "none" ELSE tradeState[p]
        /\ tradePartner'[p] = IF p \in closed THEN NoPlayer ELSE tradePartner[p]
        /\ tradeItem'[p] = IF p \in closed THEN NoItem ELSE tradeItem[p]
  BY DEF CloseTrades, StateAfterTrade
<1>2. tradeItems' = {t \in tradeItems : t[1] \notin {tradeItem[p] : p \in closed}}
  BY DEF CloseTrades, Unregistered
<1>3. /\ tradeState' \in [Players -> TradeStates]
      /\ tradePartner' \in [Players -> Players \cup {NoPlayer}]
      /\ tradeItem' \in [Players -> Items \cup {NoItem}]
  BY DEF CloseTrades, StateAfterTrade, IInv, TypeOK, TradeStates
<1>4. tradeItems' \subseteq Items \X Players
  BY <1>2 DEF IInv, TypeOK
<1>. HIDE DEF closed
<1>5. PartnersAreMutual'
  <2>. SUFFICES ASSUME NEW p \in Players
                PROVE  IF tradePartner'[p] = NoPlayer
                       THEN tradeState'[p] = "none" /\ tradeItem'[p] = NoItem
                       ELSE /\ tradePartner'[p] # p
                            /\ tradePartner'[tradePartner'[p]] = p
                            /\ p \in online'
                            /\ tradeState'[p] # "none"
    BY DEF PartnersAreMutual
  <2>1. CASE p \in closed
    BY <2>1, <1>1
  <2>2. CASE p \notin closed /\ tradePartner[p] = NoPlayer
    BY <2>2, <1>1 DEF IInv, TradeInv, PartnersAreMutual
  <2>3. CASE p \notin closed /\ tradePartner[p] # NoPlayer
    <3>1. tradePartner[p] \in Players \ closed
      BY <2>3, <1>0 DEF IInv, TypeOK
    <3>. QED BY <2>3, <3>1, <1>1 DEF IInv, TradeInv, PartnersAreMutual, closed
  <2>. QED BY <2>1, <2>2, <2>3
<1>6. OffersAreRegistered'
  <2>1. ASSUME NEW p \in Players, tradeItem'[p] # NoItem
        PROVE  <<tradeItem'[p], p>> \in tradeItems'
    <3>1. p \notin closed /\ tradeItem'[p] = tradeItem[p]
      BY <2>1, <1>1
    <3>2. \A q \in closed : tradeItem[q] # tradeItem[p]
      BY <3>1, <2>1, <1>0 DEF IInv, TradeInv, OneOfferPerItem
    <3>3. <<tradeItem[p], p>> \in tradeItems
      BY <3>1, <2>1 DEF IInv, TradeInv, OffersAreRegistered
    <3>. QED BY <1>2, <3>1, <3>2, <3>3
  <2>2. ASSUME NEW t \in tradeItems'
        PROVE  tradeItem'[t[2]] = t[1]
    <3>1. t \in tradeItems /\ t[1] \notin {tradeItem[p] : p \in closed}
      BY <1>2
    <3>2. t[2] \in Players /\ tradeItem[t[2]] = t[1]
      BY <3>1 DEF IInv, TypeOK, TradeInv, OffersAreRegistered
    <3>3. t[2] \notin closed
      BY <3>1, <3>2
    <3>. QED BY <1>1, <3>2, <3>3
  <2>. QED BY <2>1, <2>2 DEF OffersAreRegistered
<1>7. AskedHasNoOffer'
  BY <1>1 DEF IInv, TradeInv, AskedHasNoOffer
<1>8. OneOfferPerItem'
  BY <1>1 DEF IInv, TradeInv, OneOfferPerItem
<1>. QED BY <1>3, <1>4, <1>5, <1>6, <1>7, <1>8 DEF TradeInv

-----------------------------------------------------------------------------
(* Where the exchange puts the items are slots and containers. *)
LEMMA DestinationsAreParents ==
  ASSUME NEW par, NEW p \in Players, NEW i
  PROVE  Destinations(par, p, i) \subseteq Parents
BY DEF Destinations, Parents, Slots

LEMMA ExchangeKeepsType ==
  ASSUME TypeOK, NEW p \in Players, NEW q \in Players,
         tradeItem[p] \in Items, tradeItem[q] \in Items, Exchange(p, q)
  PROVE  parent' \in [Items -> Parents]
<1>1. CASE parent' = parent
  BY <1>1 DEF TypeOK
<1>2. CASE \E to \in Parents : parent' = [parent EXCEPT ![tradeItem[p]] = to]
  BY <1>2 DEF TypeOK
<1>3. CASE \E to, back \in Parents :
             parent' = [[parent EXCEPT ![tradeItem[p]] = to] EXCEPT ![tradeItem[q]] = back]
  BY <1>3 DEF TypeOK
<1>4. \A par : /\ Destinations(par, q, tradeItem[p]) \subseteq Parents
              /\ Destinations(par, p, tradeItem[q]) \subseteq Parents
  BY DestinationsAreParents
<1>. QED BY <1>1, <1>2, <1>3, <1>4 DEF Exchange

-----------------------------------------------------------------------------
(* internalStartTrade() keeps the copies in agreement, for an item that is *)
(* in no offer.                                                            *)
LEMMA StartTradeKeepsInv ==
  ASSUME IInv, NEW p \in online, NEW q \in online, NEW i \in Items, p # q,
         \A t \in tradeItems : t[1] # i,
         InternalStartTrade(p, q, i), online' = online
  PROVE  /\ tradeState' \in [Players -> TradeStates]
         /\ tradePartner' \in [Players -> Players \cup {NoPlayer}]
         /\ tradeItem' \in [Players -> Items \cup {NoItem}]
         /\ tradeItems' \subseteq Items \X Players
         /\ TradeInv'
<1>. DEFINE first == tradeState[q] = "none"
<1>0. p \in Players /\ q \in Players /\ NoPlayer \notin Players /\ NoItem \notin Items
  BY TradeAssumption DEF IInv, TypeOK
<1>1. /\ tradeState' = [tradeState EXCEPT ![p] = "initiated", ![q] = IF first THEN "acknowledge" ELSE @]
      /\ tradePartner' = [tradePartner EXCEPT ![p] = q, ![q] = IF first THEN p ELSE @]
      /\ tradeItem' = [tradeItem EXCEPT ![p] = i]
      /\ tradeItems' = {t \in tradeItems : t[1] # i} \cup {<<i, p>>}
      /\ ~AlreadyTrading(p, q) /\ ~PartnerTrading(p, q)
  BY DEF InternalStartTrade
<1>2. /\ tradeState' \in [Players -> TradeStates]
      /\ tradePartner' \in [Players -> Players \cup {NoPlayer}]
      /\ tradeItem' \in [Players -> Items \cup {NoItem}]
      /\ tradeItems' \subseteq Items \X Players
  BY <1>0, <1>1 DEF IInv, TypeOK, TradeStates
<1>3. tradeItems' = tradeItems \cup {<<i, p>>}
  BY <1>1
(* Neither of the two trades with a third. *)
<1>4. /\ tradeState[p] \in {"none", "acknowledge"}
      /\ tradePartner[p] \in {NoPlayer, q} /\ tradePartner[q] \in {NoPlayer, p}
      /\ tradeItem[p] = NoItem
      /\ tradeState[q] = "none" <=> tradePartner[q] = NoPlayer
  BY <1>0, <1>1 DEF AlreadyTrading, PartnerTrading, IInv, TypeOK, TradeInv, PartnersAreMutual, AskedHasNoOffer
<1>5. tradePartner'[p] = q /\ tradePartner'[q] = p
  BY <1>0, <1>1, <1>4 DEF IInv, TypeOK
<1>6. \A r \in Players \ {p, q} :
        /\ tradeState'[r] = tradeState[r] /\ tradePartner'[r] = tradePartner[r]
        /\ tradeItem'[r] = tradeItem[r]
        /\ tradePartner[r] \notin {p, q}
  BY <1>0, <1>1, <1>4 DEF IInv, TypeOK, TradeInv, PartnersAreMutual
<1>7. /\ tradeState'[p] = "initiated" /\ tradeState'[q] # "none"
      /\ tradeState'[q] = "acknowledge" => tradeItem[q] = NoItem
      /\ tradeItem'[p] = i /\ tradeItem'[q] = tradeItem[q]
  BY <1>0, <1>1 DEF IInv, TypeOK, TradeInv, AskedHasNoOffer
<1>8. PartnersAreMutual'
  BY <1>0, <1>5, <1>6, <1>7 DEF IInv, TypeOK, TradeInv, PartnersAreMutual
<1>9. OffersAreRegistered'
  <2>1. \A r \in Players : tradeItem'[r] # NoItem => <<tradeItem'[r], r>> \in tradeItems'
    BY <1>3, <1>6, <1>7 DEF IInv, TradeInv, OffersAreRegistered
  <2>2. \A t \in tradeItems : t[2] # p /\ t[2] \in Players /\ tradeItem[t[2]] = t[1]
    BY <1>0, <1>4 DEF IInv, TypeOK, TradeInv, OffersAreRegistered
  <2>3. \A t \in tradeItems : tradeItem'[t[2]] = t[1]
    BY <2>2, <1>1 DEF IInv, TypeOK
  <2>. QED BY <2>1, <2>3, <1>3, <1>7 DEF OffersAreRegistered
<1>10. AskedHasNoOffer'
  BY <1>0, <1>6, <1>7 DEF IInv, TradeInv, AskedHasNoOffer
<1>11. OneOfferPerItem'
  <2>1. \A r \in Players : tradeItem[r] # i
    BY <1>0 DEF IInv, TradeInv, OffersAreRegistered
  <2>. QED BY <2>1, <1>6, <1>7 DEF IInv, TradeInv, OneOfferPerItem
<1>. QED BY <1>2, <1>8, <1>9, <1>10, <1>11 DEF TradeInv

-----------------------------------------------------------------------------
(* A step that only closes trades, whatever else it does to items, keeps   *)
(* those that still trade together, if nobody walks.                       *)
LEMMA CloseTradesKeepsTogether ==
  ASSUME IInv, TradersAreTogether, NEW who \in SUBSET Players, CloseTrades(who), place' = place
  PROVE  TradersAreTogether'
<1>1. \A p \in Players : tradePartner'[p] \in {NoPlayer, tradePartner[p]}
  BY DEF CloseTrades
<1>. QED BY <1>1 DEF TradersAreTogether

(* Every handler keeps the inductive invariant. *)
LEMMA NextKeepsInv ==
  ASSUME IInv, TradersAreTogether, [Next]_vars
  PROVE  IInv' /\ TradersAreTogether'
<1>. USE DEF IInv
<1>0. CASE UNCHANGED vars
  BY <1>0 DEF vars, trade, TypeOK, TradeInv, PartnersAreMutual, OffersAreRegistered,
              AskedHasNoOffer, OneOfferPerItem, TradersAreTogether
<1>1. ASSUME NEW p \in Players, PlayerCloseTrade(p)
      PROVE  IInv' /\ TradersAreTogether'
  <2>1. CloseTrades({p}) /\ UNCHANGED <<online, place, parent, crashed>>
    BY <1>1 DEF PlayerCloseTrade
  <2>. QED BY <2>1, CloseTradesKeepsInv, CloseTradesKeepsTogether DEF TypeOK
<1>2. ASSUME NEW p \in Players, AcceptFirst(p)
      PROVE  IInv' /\ TradersAreTogether'
  <2>1. /\ tradeState[p] # "none" /\ tradePartner[p] # NoPlayer
        /\ tradeState' = [tradeState EXCEPT ![p] = "accept"]
        /\ UNCHANGED <<online, place, parent, tradePartner, tradeItem, tradeItems, crashed>>
    BY <1>2 DEF AcceptFirst
  <2>2. TypeOK'
    BY <2>1 DEF TypeOK, TradeStates
  <2>3. TradeInv' /\ TradersAreTogether'
    BY <2>1 DEF TypeOK, TradeInv, PartnersAreMutual, OffersAreRegistered,
                AskedHasNoOffer, OneOfferPerItem, TradersAreTogether
  <2>. QED BY <2>2, <2>3
<1>3. ASSUME NEW p \in Players, AcceptRefused(p)
      PROVE  IInv' /\ TradersAreTogether'
  <2>1. CloseTrades({p}) /\ UNCHANGED <<online, place, parent, crashed>>
    BY <1>3 DEF AcceptRefused
  <2>. QED BY <2>1, CloseTradesKeepsInv, CloseTradesKeepsTogether DEF TypeOK
<1>4. ASSUME NEW p \in Players, AcceptLast(p)
      PROVE  IInv' /\ TradersAreTogether'
  <2>. DEFINE q == tradePartner[p]
  <2>0. q \in Players /\ UNCHANGED <<online, place>> /\ crashed' \in BOOLEAN
    BY <1>4 DEF AcceptLast, TypeOK
  <2>1. CASE NoItem \in {tradeItem[p], tradeItem[q]}
    <3>1. UNCHANGED <<parent, tradeState, tradePartner, tradeItem, tradeItems>>
      BY <1>4, <2>1 DEF AcceptLast, trade
    <3>. QED BY <2>0, <3>1 DEF TypeOK, TradeInv, PartnersAreMutual, OffersAreRegistered,
                               AskedHasNoOffer, OneOfferPerItem, TradersAreTogether
  <2>2. CASE NoItem \notin {tradeItem[p], tradeItem[q]}
    <3>1. Exchange(p, q) /\ CloseTrades({p})
      BY <1>4, <2>2 DEF AcceptLast
    <3>2. tradeItem[p] \in Items /\ tradeItem[q] \in Items
      BY <2>0, <2>2 DEF TypeOK
    <3>3. parent' \in [Items -> Parents]
      BY <2>0, <3>1, <3>2, ExchangeKeepsType
    <3>. QED BY <2>0, <3>1, <3>3, CloseTradesKeepsInv, CloseTradesKeepsTogether DEF TypeOK
  <2>. QED BY <2>1, <2>2
(* Only the one that walks can be too far from its partner. *)
<1>5. ASSUME NEW p \in Players, Walk(p)
      PROVE  IInv' /\ TradersAreTogether'
  <2>1. PICK there \in Places :
          /\ place' = [place EXCEPT ![p] = there]
          /\ CloseTrades(TooFar(p, [place EXCEPT ![p] = there]))
          /\ UNCHANGED <<online, parent, crashed>>
    BY <1>5 DEF Walk
  <2>. DEFINE who == TooFar(p, [place EXCEPT ![p] = there])
  <2>2. who \in SUBSET Players
    BY DEF TooFar
  <2>3. IInv'
    BY <2>1, <2>2, CloseTradesKeepsInv DEF TypeOK
  <2>4. /\ \A r \in Players : tradePartner'[r] = IF r \in Released(who) THEN NoPlayer ELSE tradePartner[r]
        /\ \A r \in Players : tradePartner[r] # NoPlayer =>
             (r \in Released(who) <=> tradePartner[r] \in Released(who))
    BY <2>1, <2>2, ReleasedIsClosed DEF CloseTrades
  <2>5. p \in Released(who) \/ tradePartner[p] = NoPlayer \/ place'[tradePartner[p]] = place'[p]
    BY <2>1 DEF TooFar, Released
  <2>6. ASSUME NEW r \in Players, tradePartner'[r] # NoPlayer
        PROVE  place'[r] = place'[tradePartner'[r]]
    <3>1. r \notin Released(who) /\ tradePartner'[r] = tradePartner[r] /\ tradePartner[r] \in Players
      BY <2>4, <2>6 DEF TypeOK
    <3>2. CASE r = p
      BY <3>1, <3>2, <2>5, <2>6
    <3>3. CASE tradePartner[r] = p
      <4>1. tradePartner[p] = r /\ p \notin Released(who)
        BY <3>1, <3>3, <2>4, <2>6 DEF TradeInv, PartnersAreMutual
      <4>. QED BY <4>1, <3>1, <3>3, <2>5, TradeAssumption
    <3>4. CASE r # p /\ tradePartner[r] # p
      BY <3>1, <3>4, <2>1, <2>6 DEF TradersAreTogether, TypeOK
    <3>. QED BY <3>2, <3>3, <3>4
  <2>. QED BY <2>3, <2>6 DEF TradersAreTogether
<1>6. ASSUME NEW p \in Players, Logout(p)
      PROVE  IInv' /\ TradersAreTogether'
  <2>1. /\ CloseTrades(ClosedOnLogout(p)) /\ online' = online \ {p}
        /\ UNCHANGED <<place, parent, crashed>>
    BY <1>6 DEF Logout
  <2>2. ClosedOnLogout(p) \in SUBSET Players
    BY DEF ClosedOnLogout
  <2>3. CASE tradePartner[p] # NoPlayer
    <3>1. p \in Released(ClosedOnLogout(p))
      BY <2>3 DEF Released, ClosedOnLogout
    <3>. QED BY <2>1, <2>2, <3>1, CloseTradesKeepsInv, CloseTradesKeepsTogether DEF TypeOK
  <2>4. CASE tradePartner[p] = NoPlayer
    <3>1. Released(ClosedOnLogout(p)) = {}
      BY <2>4 DEF Released, ClosedOnLogout
    <3>2. UNCHANGED <<tradeState, tradePartner, tradeItem, tradeItems>>
      BY <2>1, <3>1 DEF CloseTrades, Unregistered, TypeOK
    <3>. QED BY <2>1, <2>4, <3>2 DEF TypeOK, TradeInv, PartnersAreMutual, OffersAreRegistered,
                                     AskedHasNoOffer, OneOfferPerItem, TradersAreTogether
  <2>. QED BY <2>3, <2>4
<1>7. ASSUME NEW p \in Players, Login(p)
      PROVE  IInv' /\ TradersAreTogether'
  BY <1>7 DEF Login, trade, TypeOK, TradeInv, PartnersAreMutual, OffersAreRegistered,
              AskedHasNoOffer, OneOfferPerItem, TradersAreTogether
<1>8. ASSUME NEW p \in Players, NEW q \in Players, NEW i \in Items, PlayerRequestTrade(p, q, i)
      PROVE  IInv' /\ TradersAreTogether'
  <2>1. /\ p \in online /\ q \in online /\ p # q /\ place[p] = place[q]
        /\ InternalStartTrade(p, q, i)
        /\ \A t \in tradeItems : t[1] # i
        /\ UNCHANGED <<online, place, parent, crashed>>
    BY <1>8 DEF PlayerRequestTrade, CanTradeWith, BeingTraded
  <2>2. IInv'
    BY <2>1, StartTradeKeepsInv DEF TypeOK
  <2>3. \A r \in Players : \/ tradePartner'[r] = tradePartner[r]
                           \/ r = p /\ tradePartner'[r] = q
                           \/ r = q /\ tradePartner'[r] = p
    BY <2>1 DEF InternalStartTrade, TypeOK
  <2>4. TradersAreTogether'
    BY <2>1, <2>3 DEF TradersAreTogether
  <2>. QED BY <2>2, <2>4
<1>9. ASSUME NEW i \in Items, NEW to \in Parents, Relocate(i, to)
      PROVE  IInv' /\ TradersAreTogether'
  <2>. DEFINE who == CancelledByRemoval(i) \cup CancelledByAdding([parent EXCEPT ![i] = to], i, to)
  <2>1. /\ parent' = [parent EXCEPT ![i] = to]
        /\ CloseTrades(who)
        /\ UNCHANGED <<online, place, crashed>>
    BY <1>9 DEF Relocate
  <2>2. who \in SUBSET Players
    <3>1. parent[i] \in Slots => parent[i][1] \in Players
      BY DEF Slots
    <3>2. \A c : Spectators(c) \subseteq Players
      BY DEF Spectators, TypeOK
    <3>3. CancelledByRemoval(i) \subseteq Players
      BY <3>1, <3>2 DEF CancelledByRemoval, TypeOK
    <3>4. CancelledByAdding([parent EXCEPT ![i] = to], i, to) \subseteq Players
      BY <3>2 DEF CancelledByAdding
    <3>. QED BY <3>3, <3>4
  <2>3. parent' \in [Items -> Parents]
    BY <2>1 DEF TypeOK
  <2>. HIDE DEF who
  <2>. QED BY <2>1, <2>2, <2>3, CloseTradesKeepsInv, CloseTradesKeepsTogether DEF TypeOK
<1>10. ASSUME NEW p \in Players, NEW i \in Items, NEW to \in Parents, MoveItem(p, i, to)
       PROVE  IInv' /\ TradersAreTogether'
  BY <1>9, <1>10 DEF MoveItem
<1>11. ASSUME NEW i \in Items, RemoveItem(i)
       PROVE  IInv' /\ TradersAreTogether'
  BY <1>9, <1>11 DEF RemoveItem, Parents
<1>. QED BY <1>0, <1>1, <1>2, <1>3, <1>4, <1>5, <1>6, <1>7, <1>8, <1>10, <1>11 DEF Next

LEMMA InitIsInv == Init => IInv /\ TradersAreTogether
BY TradeAssumption DEF Init, IInv, TypeOK, TradeInv, PartnersAreMutual, OffersAreRegistered,
                       AskedHasNoOffer, OneOfferPerItem, TradersAreTogether,
                       Places, TradeStates

(* The inductive invariant holds in every reachable state. *)
THEOREM TradeSafety == Spec => [](IInv /\ TradersAreTogether)
<1>1. (IInv /\ TradersAreTogether) /\ [Next]_vars => (IInv /\ TradersAreTogether)'
  BY NextKeepsInv
<1>. QED BY <1>1, InitIsInv, PTL DEF Spec

(* The variables of a trade keep their types, under every exchange, move,  *)
(* removal, walk, login and logout.                                        *)
THEOREM TypeCorrect == Spec => []TypeOK
BY TradeSafety, PTL DEF IInv

(* Game::internalStartTrade(), playerAcceptTrade() and                     *)
(* internalCloseTrade() never leave a player with a partner that does not  *)
(* trade with it or that is off line.                                      *)
THEOREM PartnersStayMutual == Spec => []PartnersAreMutual
BY TradeSafety, PTL DEF IInv, TradeInv

(* Game::tradeItems is the set of the standing offers. *)
THEOREM OffersStayRegistered == Spec => []OffersAreRegistered
BY TradeSafety, PTL DEF IInv, TradeInv

(* Player::onCreatureMove() closes the trade of players that part. *)
THEOREM TradersStayTogether == Spec => []TradersAreTogether
BY TradeSafety, PTL

(* The copies of the trade relation agree, for any players, items and      *)
(* nesting, after any sequence of the handlers of Game.                    *)
THEOREM TradeStaysAgreed == Spec => []TradeAgrees
BY TradeSafety, PTL DEF IInv, TradeInv, TradeAgrees

-----------------------------------------------------------------------------
(* Who offers an item can still reach it. *)
OffersAreWithinReach == \A p \in Players : tradeItem[p] # NoItem => Reaches(p, tradeItem[p])

(* The inductive invariant about the items: it needs that offers are       *)
(* within reach, because only those near are told of a move and close      *)
(* their trade, and that the items stay a forest with room.                *)
WorldInv == /\ IsWorld(parent)
            /\ OffersAreWithinReach
            /\ OffersAreDisjoint

(* What is inside one another lies in the same place. *)
LEMMA RelatedHaveOneRoot ==
  ASSUME NEW par, NothingInItself(par), NEW o \in Items, NEW i \in Items,
         o \in Above(par, i) \/ i \in Above(par, o)
  PROVE  Root(par, o) = Root(par, i)
<1>1. /\ Root(par, o) \in Ancestors(par, o) /\ Root(par, o) \notin Items
      /\ \A r \in Ancestors(par, o) : r \notin Items => r = Root(par, o)
  BY RootIsUnique
<1>2. /\ Root(par, i) \in Ancestors(par, i) /\ Root(par, i) \notin Items
      /\ \A r \in Ancestors(par, i) : r \notin Items => r = Root(par, i)
  BY RootIsUnique
<1>3. CASE o = i
  BY <1>3
<1>4. CASE o \in Ancestors(par, i)
  BY <1>1, <1>2, <1>4, AncestorsOfAncestors DEF Above
<1>5. CASE i \in Ancestors(par, o)
  BY <1>1, <1>2, <1>5, AncestorsOfAncestors DEF Above
<1>. QED BY <1>3, <1>4, <1>5 DEF Above

(* Is there room for an item in `to'? *)
HasRoom(par, to) == /\ to \in Containers => Cardinality(Contents(par, to)) < Capacity
                    /\ to \in Slots => Contents(par, to) = {}

LEMMA MoveKeepsRoom ==
  ASSUME NEW par \in [Items -> Parents], NothingOverfull(par),
         NEW i \in Items, NEW to \in Parents, HasRoom(par, to),
         NEW par2, par2 = [par EXCEPT ![i] = to]
  PROVE  NothingOverfull(par2)
<1>. SUFFICES ASSUME NEW c \in Containers PROVE Cardinality(Contents(par2, c)) <= Capacity
  BY DEF NothingOverfull
<1>1. IsFiniteSet(Items) /\ Capacity \in Nat
  BY TradeAssumption
<1>2. IsFiniteSet(Contents(par, c)) /\ Cardinality(Contents(par, c)) \in Nat
  BY <1>1, FS_Subset, FS_CardinalityType DEF Contents
<1>3. Cardinality(Contents(par, c)) <= Capacity
  BY DEF NothingOverfull
<1>4. CASE c # to
  <2>1. Contents(par2, c) \subseteq Contents(par, c)
    BY <1>4 DEF Contents
  <2>2. Cardinality(Contents(par2, c)) <= Cardinality(Contents(par, c)) /\ Cardinality(Contents(par2, c)) \in Nat
    BY <1>2, <2>1, FS_Subset, FS_CardinalityType
  <2>. QED BY <1>1, <1>2, <1>3, <2>2
<1>5. CASE c = to
  <2>1. Contents(par2, c) \subseteq Contents(par, c) \cup {i}
    BY DEF Contents
  <2>2. IsFiniteSet(Contents(par, c) \cup {i}) /\ Cardinality(Contents(par, c) \cup {i}) <= Cardinality(Contents(par, c)) + 1
    <3>1. IsFiniteSet(Contents(par, c))
      BY <1>2
    <3>2. /\ IsFiniteSet(Contents(par, c) \cup {i})
          /\ Cardinality(Contents(par, c) \cup {i}) =
               IF i \in Contents(par, c) THEN Cardinality(Contents(par, c)) ELSE Cardinality(Contents(par, c)) + 1
      BY <3>1, FS_AddElement, Zenon
    <3>. QED BY <1>2, <3>2
  <2>3. Cardinality(Contents(par2, c)) <= Cardinality(Contents(par, c) \cup {i})
        /\ Cardinality(Contents(par2, c)) \in Nat /\ Cardinality(Contents(par, c) \cup {i}) \in Nat
    BY <2>1, <2>2, FS_Subset, FS_CardinalityType
  <2>4. Cardinality(Contents(par, c)) < Capacity
    BY <1>5 DEF HasRoom
  <2>. QED BY <1>1, <1>2, <2>2, <2>3, <2>4
<1>. QED BY <1>4, <1>5

(* An item that is put where there is room, and not into itself, leaves    *)
(* the world sound.                                                        *)
LEMMA MoveKeepsWorld ==
  ASSUME NEW par \in [Items -> Parents], IsWorld(par),
         NEW i \in Items, NEW to \in Parents, GoesInto(par, i, to), HasRoom(par, to),
         NEW par2, par2 = [par EXCEPT ![i] = to]
  PROVE  IsWorld(par2) /\ IsMoved(par, par2, i, to)
<1>0. NothingInItself(par) /\ NothingOverfull(par) /\ SlotsHoldOne(par)
  BY DEF IsWorld
<1>1. IsMoved(par, par2, i, to)
  BY <1>0, AncestorsAfterMove
<1>2. NothingOverfull(par2)
  BY <1>0, MoveKeepsRoom
<1>3. SlotsHoldOne(par2)
  BY <1>0 DEF SlotsHoldOne, HasRoom, Contents
<1>. QED BY <1>1, <1>2, <1>3 DEF IsMoved, IsWorld

(* Who makes an offer is on line and can reach it. *)
LEMMA OfferIsNear ==
  ASSUME IInv, WorldInv, NEW p \in Players, tradeItem[p] # NoItem
  PROVE  /\ p \in online /\ tradeItem[p] \in Items
         /\ \/ Root(parent, tradeItem[p]) = Ground /\ place[p] = "here"
            \/ Root(parent, tradeItem[p]) \in Slots /\ Root(parent, tradeItem[p])[1] = p
BY DEF IInv, TypeOK, TradeInv, PartnersAreMutual, WorldInv, OffersAreWithinReach, Reaches

(* When an item is moved, the trades whose offers it is part of, holds or  *)
(* enters are closed.                                                      *)
LEMMA MoveIsNoticed ==
  ASSUME IInv, WorldInv, NEW i \in Items, NEW to \in Parents, GoesInto(parent, i, to),
         NEW p \in Players, tradeItem[p] # NoItem,
         p \notin CancelledByRemoval(i), p \notin CancelledByAdding([parent EXCEPT ![i] = to], i, to)
  PROVE  /\ tradeItem[p] # i /\ tradeItem[p] \notin Ancestors(parent, i)
         /\ i \notin Ancestors(parent, tradeItem[p])
         /\ tradeItem[p] \notin Above(parent, to)
<1>. DEFINE o == tradeItem[p]
            from == parent[i]
<1>0. /\ parent \in [Items -> Parents] /\ NothingInItself(parent)
      /\ o \in Items /\ p \in online
      /\ \/ Root(parent, o) = Ground /\ place[p] = "here"
         \/ Root(parent, o) \in Slots /\ Root(parent, o)[1] = p
  BY OfferIsNear DEF IInv, TypeOK, WorldInv, IsWorld
<1>t. /\ Ground \notin Items /\ Nowhere \notin Items /\ Ground \notin Slots /\ Nowhere \notin Slots
      /\ Ground # Nowhere /\ Containers \subseteq Items /\ Slots \cap Items = {}
  BY TradeAssumption
<1>. HIDE DEF o
<1>1. ASSUME o \in Above(parent, i) \/ i \in Above(parent, o)
      PROVE  FALSE
  <2>1. Root(parent, o) = Root(parent, i)
    BY <1>0, <1>1, RelatedHaveOneRoot
  <2>2. Ancestors(parent, i) = Above(parent, from) /\ from \in Ancestors(parent, i)
    BY <1>0, AncestorsUnfold, ParentIsAncestor
  <2>3. from \notin Items => Root(parent, i) = from
    BY <1>0, <2>2, RootIsUnique
  <2>4. from \in Items => Root(parent, i) = Root(parent, from)
    <3>1. from \in Items => from \in Above(parent, i)
      BY <2>2 DEF Above
    <3>. QED BY <1>0, <3>1, RelatedHaveOneRoot
  <2>5. CASE o \in Above(parent, i)
    <3>1. CheckTradeState(parent, p, i)
      BY <2>5, <1>0, <1>t DEF CheckTradeState, Above, o
    <3>2. CASE from \in Slots
      BY <3>1, <3>2, <2>1, <2>3, <1>0, <1>t DEF CancelledByRemoval
    <3>3. CASE from \in Containers
      <4>1. p \in Spectators(from)
        BY <3>3, <2>1, <2>4, <1>0, <1>t DEF Spectators
      <4>. QED BY <4>1, <3>1, <3>3, <1>t DEF CancelledByRemoval
    <3>4. CASE from \notin Slots /\ from \notin Containers
      <4>1. from \notin Items
        BY <3>4, <1>0, <1>t DEF Parents
      <4>2. place[p] = "here"
        BY <4>1, <3>4, <2>1, <2>3, <1>0
      <4>. QED BY <4>2, <3>1, <3>4, <1>0 DEF CancelledByRemoval
    <3>. QED BY <3>2, <3>3, <3>4
  <2>6. CASE i \in Ancestors(parent, o)
    <3>1. HoldsOffer(p, i)
      BY <2>6, <1>0 DEF HoldsOffer, IsHoldingItem, o
    <3>2. CASE from \in Slots
      BY <3>1, <3>2, <2>1, <2>3, <1>0, <1>t DEF CancelledByRemoval
    <3>3. CASE from \in Containers
      <4>1. p \in Spectators(from)
        BY <3>3, <2>1, <2>4, <1>0, <1>t DEF Spectators
      <4>2. from \in Ancestors(parent, o)
        BY <2>6, <1>0, AncestorsAreClosed
      <4>3. parent[o] # from
        <5>1. i \notin Ancestors(parent, i)
          BY <1>0 DEF NothingInItself, IsHoldingItem
        <5>2. Ancestors(parent, o) = Above(parent, parent[o])
          BY <1>0, AncestorsUnfold
        <5>. QED BY <5>1, <5>2, <2>2, <2>6
      <4>4. HoldsOfferInside(p, from)
        BY <4>2, <4>3 DEF HoldsOfferInside, IsHoldingItem, o
      <4>. QED BY <4>1, <4>4, <3>3, <1>t DEF CancelledByRemoval
    <3>4. CASE from \notin Slots /\ from \notin Containers
      <4>1. from \notin Items
        BY <3>4, <1>0, <1>t DEF Parents
      <4>2. place[p] = "here"
        BY <4>1, <3>4, <2>1, <2>3, <1>0
      <4>. QED BY <4>2, <3>1, <3>4, <1>0 DEF CancelledByRemoval
    <3>. QED BY <3>2, <3>3, <3>4
  <2>. QED BY <1>0, <1>1, <2>5, <2>6 DEF Above
<1>2. ASSUME o \in Above(parent, to)
      PROVE  FALSE
  <2>1. to \in Items /\ to \in Containers
    BY <1>0, <1>2, <1>t DEF Above, Parents
  <2>2. Root(parent, to) = Root(parent, o)
    BY <1>0, <1>2, <2>1, RelatedHaveOneRoot
  <2>3. p \in Spectators(to)
    BY <2>2, <1>0, <1>t DEF Spectators
  <2>4. IsMoved(parent, [parent EXCEPT ![i] = to], i, to)
    BY <1>0, AncestorsAfterMove
  <2>5. CheckTradeState([parent EXCEPT ![i] = to], p, i)
    BY <2>4, <1>0, <1>2, <1>t DEF CheckTradeState, IsMoved, o
  <2>. QED BY <2>1, <2>3, <2>5 DEF CancelledByAdding
<1>. QED BY <1>0, <1>1, <1>2 DEF Above, o

-----------------------------------------------------------------------------
(* A step in which trades are closed and no offer that stands is touched   *)
(* keeps the rest, when the items stay a forest.                           *)
LEMMA WorldStays ==
  ASSUME IInv, IInv', WorldInv, place' = place, OfferUntouched,
         \A p \in Players : tradeItem'[p] \in {NoItem, tradeItem[p]},
         IsWorld(parent')
  PROVE  WorldInv'
<1>1. OffersAreWithinReach'
  <2>. SUFFICES ASSUME NEW p \in Players, tradeItem'[p] # NoItem PROVE Reaches(p, tradeItem[p])' /\ tradeItem'[p] = tradeItem[p]
    BY DEF OffersAreWithinReach, Reaches, Root
  <2>1. tradeItem'[p] = tradeItem[p] /\ tradeItem[p] # NoItem
    OBVIOUS
  <2>2. Ancestors(parent', tradeItem[p]) = Ancestors(parent, tradeItem[p])
    BY <2>1 DEF OfferUntouched
  <2>3. Root(parent', tradeItem[p]) = Root(parent, tradeItem[p])
    BY <2>2 DEF Root
  <2>4. Reaches(p, tradeItem[p])
    BY <2>1 DEF WorldInv, OffersAreWithinReach
  <2>. QED BY <2>1, <2>3, <2>4 DEF Reaches
<1>2. OffersAreDisjoint'
  <2>1. ASSUME NEW t \in tradeItems'
        PROVE  /\ t \in tradeItems /\ t[1] \in Items
               /\ \A j \in Items : IsHoldingItem(parent', t[1], j) <=> IsHoldingItem(parent, t[1], j)
    <3>1. t \in Items \X Players /\ tradeItem'[t[2]] = t[1]
      BY DEF IInv, TypeOK, TradeInv, OffersAreRegistered
    <3>2. t = <<t[1], t[2]>> /\ t[1] \in Items /\ t[2] \in Players /\ t[1] # NoItem
      BY <3>1, TradeAssumption
    <3>3. tradeItem[t[2]] = t[1]
      BY <3>1, <3>2
    <3>4. t \in tradeItems
      BY <3>2, <3>3 DEF IInv, TradeInv, OffersAreRegistered
    <3>. QED BY <3>1, <3>2, <3>3, <3>4 DEF OfferUntouched
  <2>2. \A s, t \in tradeItems : s # t => s[1] # t[1] /\ ~IsHoldingItem(parent, s[1], t[1])
    BY DEF WorldInv, OffersAreDisjoint
  <2>3. \A s, t \in tradeItems' : s # t => s[1] # t[1] /\ ~IsHoldingItem(parent', s[1], t[1])
    BY <2>1, <2>2
  <2>. QED BY <2>3 DEF OffersAreDisjoint
<1>. QED BY <1>1, <1>2 DEF WorldInv

(* internalCloseTrade() makes no offers. *)
LEMMA CloseTradesOnlyDrops ==
  ASSUME IInv, NEW who \in SUBSET Players, CloseTrades(who)
  PROVE  /\ \A p \in Players : tradeItem'[p] \in {NoItem, tradeItem[p]}
         /\ \A p \in Players : p \in Released(who) => tradeItem'[p] = NoItem
         /\ who \subseteq Released(who)
BY DEF CloseTrades, Released, IInv, TypeOK

(* A move, by whomever, leaves the offers alone that still stand after it. *)
LEMMA RelocateKeeps ==
  ASSUME IInv, IInv', WorldInv, NEW i \in Items, NEW to \in Parents, GoesInto(parent, i, to),
         HasRoom(parent, to), Relocate(i, to)
  PROVE  WorldInv' /\ OfferUntouched
<1>. DEFINE who == CancelledByRemoval(i) \cup CancelledByAdding([parent EXCEPT ![i] = to], i, to)
<1>1. /\ parent' = [parent EXCEPT ![i] = to]
      /\ CloseTrades(who)
      /\ UNCHANGED <<online, place, crashed>>
  BY DEF Relocate
<1>0. parent \in [Items -> Parents] /\ IsWorld(parent) /\ NothingInItself(parent)
  BY DEF IInv, TypeOK, WorldInv, IsWorld
<1>2. who \in SUBSET Players
  <2>1. parent[i] \in Slots => parent[i][1] \in Players
    BY DEF Slots
  <2>2. \A c : Spectators(c) \subseteq Players
    BY DEF Spectators, IInv, TypeOK
  <2>3. CancelledByRemoval(i) \subseteq Players
    BY <2>1, <2>2 DEF CancelledByRemoval, IInv, TypeOK
  <2>4. CancelledByAdding([parent EXCEPT ![i] = to], i, to) \subseteq Players
    BY <2>2 DEF CancelledByAdding
  <2>. QED BY <2>3, <2>4
<1>3. OfferUntouched
  <2>. SUFFICES ASSUME NEW p \in Players, tradeItem[p] # NoItem, tradeItem'[p] = tradeItem[p]
                PROVE  /\ Ancestors(parent', tradeItem[p]) = Ancestors(parent, tradeItem[p])
                       /\ \A j \in Items : IsHoldingItem(parent', tradeItem[p], j) <=> IsHoldingItem(parent, tradeItem[p], j)
    BY DEF OfferUntouched
  <2>1. p \notin who
    <3>. HIDE DEF who
    <3>. QED BY <1>1, <1>2, CloseTradesOnlyDrops
  <2>2. /\ tradeItem[p] # i /\ tradeItem[p] \notin Ancestors(parent, i)
        /\ i \notin Ancestors(parent, tradeItem[p])
        /\ tradeItem[p] \notin Above(parent, to)
    BY <2>1, MoveIsNoticed
  <2>3. tradeItem[p] \in Items
    BY OfferIsNear
  <2>4. LeftAlone(parent, parent', tradeItem[p])
    BY <1>0, <1>1, <2>2, <2>3, MoveLeavesAlone
  <2>. QED BY <2>4 DEF LeftAlone
<1>4. IsWorld(parent')
  BY <1>0, <1>1, MoveKeepsWorld
<1>6. \A p \in Players : tradeItem'[p] \in {NoItem, tradeItem[p]}
  <2>. HIDE DEF who
  <2>. QED BY <1>1, <1>2, CloseTradesOnlyDrops
<1>. QED BY <1>1, <1>3, <1>4, <1>6, WorldStays

-----------------------------------------------------------------------------
(* Where an exchanged item may go: it leads to a slot of the player, there *)
(* is room, and the item is not inside itself afterwards.                  *)
LeadsTo(par, to, p) == \E s \in Above(par, to) : s \in Slots /\ s[1] = p

LEMMA DestinationMeans ==
  ASSUME NEW par \in [Items -> Parents], NothingInItself(par), NEW p \in Players, NEW i \in Items,
         NEW to \in Destinations(par, p, i)
  PROVE  to \in Parents /\ GoesInto(par, i, to) /\ LeadsTo(par, to, p) /\ HasRoom(par, to)
<1>t. Containers \subseteq Items /\ Slots \cap Items = {}
  BY TradeAssumption
<1>1. CASE to \in {p} \X {"back", "hand"}
  <2>1. to \in Slots /\ to[1] = p /\ to \notin Items /\ to \notin Containers
    BY <1>1, <1>t DEF Slots
  <2>2. SlotAccepts(par, to, i)
    BY <1>t, <2>1 DEF Destinations
  <2>. QED BY <2>1, <2>2 DEF Above, GoesInto, LeadsTo, Parents, HasRoom, SlotAccepts
<1>2. CASE to \notin {p} \X {"back", "hand"}
  <2>. DEFINE worn == {c \in Containers \ {tradeItem[p], i} : par[c] \in {p} \X {"back", "hand"}}
  <2>1. /\ to \in Containers /\ ContainerAccepts(par, to, i)
        /\ to \in worn \/ Ancestors(par, to) \cap worn # {}
    BY <1>2 DEF Destinations
  <2>2. \A w \in worn : w \in Items /\ par[w] \in Slots /\ par[w][1] = p
    BY <1>t DEF Slots
  <2>3. \E w \in worn : par[w] \in Ancestors(par, to)
    <3>1. CASE to \in worn
      BY <2>2, <3>1, ParentIsAncestor
    <3>2. CASE Ancestors(par, to) \cap worn # {}
      BY <1>t, <2>1, <2>2, <3>2, AncestorsAreClosed
    <3>. QED BY <2>1, <3>1, <3>2
  <2>4. LeadsTo(par, to, p)
    BY <1>t, <2>1, <2>2, <2>3 DEF LeadsTo, Above
  <2>. QED BY <1>t, <2>1, <2>4 DEF ContainerAccepts, IsHoldingItem, GoesInto, Above, Parents, HasRoom
<1>. QED BY <1>1, <1>2

-----------------------------------------------------------------------------
(* The two slots of a player. *)
SlotsOf(p) == {p} \X {"back", "hand"}

(* The containers that p wears, other than the two that are exchanged. *)
WornBy(par, p, i) == {c \in Containers \ {tradeItem[p], i} : par[c] \in SlotsOf(p)}

(* Containers on p with room. *)
RoomOn(par, p, i) == {c \in Containers : Above(par, c) \cap WornBy(par, p, i) # {} /\ ContainerAccepts(par, c, i)}

(* Player::queryDestination(), in these words. *)
LEMMA DestinationsUnfold ==
  ASSUME NEW par, NEW p \in Players, NEW i \in Items
  PROVE  Destinations(par, p, i) = IF \E s \in SlotsOf(p) : SlotAccepts(par, s, i)
                                   THEN {s \in SlotsOf(p) : SlotAccepts(par, s, i)}
                                   ELSE RoomOn(par, p, i)
<1>. DEFINE slots == {s \in {p} \X {"back", "hand"} : SlotAccepts(par, s, i)}
            worn  == {c \in Containers \ {tradeItem[p], i} : par[c] \in {p} \X {"back", "hand"}}
            inner == {c \in Containers : c \in worn \/ Ancestors(par, c) \cap worn # {}}
            room  == {c \in inner : ContainerAccepts(par, c, i)}
<1>1. Destinations(par, p, i) = IF slots # {} THEN slots ELSE room
  BY DEF Destinations
<1>2. slots = {s \in SlotsOf(p) : SlotAccepts(par, s, i)}
  BY DEF SlotsOf
<1>3. worn = WornBy(par, p, i)
  BY DEF SlotsOf, WornBy
<1>4. inner = {c \in Containers : Above(par, c) \cap worn # {}}
  <2>1. \A c \in Containers : Above(par, c) = Ancestors(par, c) \cup {c}
    BY TradeAssumption DEF Above
  <2>. QED BY <2>1
<1>5. room = RoomOn(par, p, i)
  <2>. HIDE DEF inner, worn
  <2>. QED BY <1>3, <1>4 DEF RoomOn
<1>. HIDE DEF slots, room
<1>. QED BY <1>1, <1>2, <1>5

(* What leads to a slot of one player does not lead to one of another. *)
LEMMA LeadsToOne ==
  ASSUME NEW par, NothingInItself(par), NEW x \in Parents, NEW p, NEW q,
         LeadsTo(par, x, p), LeadsTo(par, x, q)
  PROVE  p = q
<1>1. Slots \cap Items = {}
  BY TradeAssumption
<1>2. CASE x \in Items
  BY <1>1, <1>2, RootIsUnique DEF LeadsTo, Above
<1>3. CASE x \notin Items
  BY <1>3 DEF LeadsTo, Above
<1>. QED BY <1>2, <1>3

(* The second of the two calls of internalMoveItem() finds room, although  *)
(* it is not the world that was looked at: the first has only taken from   *)
(* the player what was offered, and put it where the player has nothing.   *)
LEMMA SecondFits ==
  ASSUME NEW par \in [Items -> Parents], IsWorld(par),
         NEW p \in Players, NEW q \in Players, p # q,
         NEW a \in Items, NEW b \in Items, a = tradeItem[p],
         b \notin Above(par, a),
         par[a] = <<p, "back">> => Contents(par, <<p, "hand">>) = {},
         Destinations(par, p, b) # {},
         NEW to \in Destinations(par, q, a),
         NEW first, first = [par EXCEPT ![a] = to]
  PROVE  Destinations(first, p, b) # {}
<1>t. Containers \subseteq Items /\ Slots \cap Items = {} /\ Capacity \in Nat /\ IsFiniteSet(Items)
  BY TradeAssumption
<1>w. NothingInItself(par) /\ NothingOverfull(par) /\ SlotsHoldOne(par)
  BY DEF IsWorld
<1>0. to \in Parents /\ GoesInto(par, a, to) /\ LeadsTo(par, to, q) /\ HasRoom(par, to)
  BY <1>w, DestinationMeans
<1>1. IsMoved(par, first, a, to) /\ first \in [Items -> Parents]
  BY <1>w, <1>0, AncestorsAfterMove
<1>2. first[a] = to /\ \A x \in Items : x # a => first[x] = par[x]
  OBVIOUS
<1>3. \A s \in SlotsOf(p) : s \in Slots /\ s \notin Items /\ s[1] = p /\ s # to
  <2>1. \A s \in SlotsOf(p) : s \in Slots /\ s[1] = p
    BY DEF SlotsOf, Slots
  <2>2. \A s \in SlotsOf(p) : LeadsTo(par, s, p)
    BY <2>1, <1>t DEF LeadsTo, Above
  <2>. QED BY <2>1, <2>2, <1>t, <1>0, <1>w, LeadsToOne DEF Parents
<1>. SUFFICES ASSUME \A s \in SlotsOf(p) : ~SlotAccepts(first, s, b)
              PROVE  RoomOn(first, p, b) # {}
  <2>1. Destinations(first, p, b) = IF \E s \in SlotsOf(p) : SlotAccepts(first, s, b)
                                    THEN {s \in SlotsOf(p) : SlotAccepts(first, s, b)}
                                    ELSE RoomOn(first, p, b)
    BY DestinationsUnfold
  <2>. QED BY <2>1
(* Nor did a slot accept it before, and what p offers was not worn. *)
<1>4. \A s \in SlotsOf(p) : Contents(first, s) = Contents(par, s) \ {a}
  BY <1>2, <1>3 DEF Contents
<1>5. \A s \in SlotsOf(p) : ~SlotAccepts(par, s, b)
  BY <1>4 DEF SlotAccepts
<1>6. <<p, "back">> \in SlotsOf(p) /\ <<p, "hand">> \in SlotsOf(p) /\ <<p, "hand">>[2] # "back"
      /\ \A s \in SlotsOf(p) : s = <<p, "back">> \/ s = <<p, "hand">>
  BY DEF SlotsOf
<1>7. par[a] \notin SlotsOf(p)
  <2>1. par[a] # <<p, "back">>
    BY <1>5, <1>6 DEF SlotAccepts
  <2>2. par[a] # <<p, "hand">>
    <3>. SUFFICES ASSUME par[a] = <<p, "hand">> PROVE FALSE
      OBVIOUS
    <3>1. Contents(par, <<p, "hand">>) = {a}
      BY <1>3, <1>6, <1>w DEF SlotsHoldOne, Contents
    <3>2. Contents(first, <<p, "hand">>) = {}
      BY <3>1, <1>4, <1>6
    <3>. QED BY <3>2, <1>6 DEF SlotAccepts
  <2>. QED BY <2>1, <2>2, <1>6
<1>8. PICK d \in RoomOn(par, p, b) : TRUE
  BY <1>5, DestinationsUnfold
<1>9. PICK w \in WornBy(par, p, b) : w \in Above(par, d)
  BY <1>8 DEF RoomOn
<1>10. /\ d \in Containers /\ d \in Items /\ ContainerAccepts(par, d, b)
       /\ w \in Containers /\ w \in Items /\ w # a /\ w # b /\ par[w] \in SlotsOf(p)
       /\ Ancestors(par, w) = {par[w]}
  <2>1. d \in Containers /\ ContainerAccepts(par, d, b) /\ w \in Containers /\ w # a /\ w # b /\ par[w] \in SlotsOf(p)
    BY <1>8 DEF RoomOn, WornBy
  <2>2. Ancestors(par, w) = {par[w]}
    BY <2>1, <1>t, <1>w, <1>3, AncestorsUnfold DEF Above
  <2>. QED BY <2>1, <2>2, <1>t
<1>11. w \in WornBy(first, p, b)
  BY <1>10, <1>2 DEF WornBy
<1>12. Root(par, d) = par[w]
  <2>1. w \in Above(par, d) => Root(par, w) = Root(par, d)
    BY <1>10, <1>w, RelatedHaveOneRoot
  <2>2. par[w] = Root(par, w)
    BY <1>10, <1>3, <1>w, RootIsUnique
  <2>. QED BY <2>1, <2>2, <1>9
(* A container that does not hold a stays as it was, but for a itself. *)
<1>13. ASSUME NEW c \in Containers, a \notin Above(par, c), w \in Above(par, c),
              c # b, b \notin Ancestors(par, c),
              Cardinality(Contents(par, c) \ {a}) < Capacity
       PROVE  c \in RoomOn(first, p, b)
  <2>1. c \in Items /\ c # a /\ a \notin Ancestors(par, c)
    BY <1>13, <1>t DEF Above
  <2>2. Ancestors(first, c) = Ancestors(par, c)
    BY <2>1, <1>1 DEF IsMoved
  <2>3. c # to
    <3>1. LeadsTo(par, c, p)
      <4>1. par[w] \in Above(par, c)
        <5>1. CASE w = c
          BY <5>1, <1>10, ParentIsAncestor DEF Above
        <5>2. CASE w \in Ancestors(par, c)
          BY <5>2, <2>1, <1>10, <1>w, AncestorsAreClosed DEF Above
        <5>. QED BY <5>1, <5>2, <2>1, <1>13 DEF Above
      <4>. QED BY <4>1, <1>10, <1>3 DEF LeadsTo
    <3>2. c \in Parents
      BY DEF Parents
    <3>. QED BY <3>1, <3>2, <1>0, <1>w, LeadsToOne
  <2>4. Contents(first, c) = Contents(par, c) \ {a}
    BY <1>2, <2>3 DEF Contents
  <2>5. ContainerAccepts(first, c, b)
    BY <2>2, <2>4, <1>13 DEF ContainerAccepts, IsHoldingItem
  <2>6. w \in Above(first, c)
    BY <2>1, <2>2, <1>13 DEF Above
  <2>. QED BY <2>5, <2>6, <1>11 DEF RoomOn
<1>f. \A c : IsFiniteSet(Contents(par, c)) /\ Cardinality(Contents(par, c)) \in Nat
  BY <1>t, FS_Subset, FS_CardinalityType DEF Contents
<1>r. \A c : Cardinality(Contents(par, c) \ {a}) =
               IF a \in Contents(par, c) THEN Cardinality(Contents(par, c)) - 1 ELSE Cardinality(Contents(par, c))
  BY <1>f, FS_RemoveElement
<1>14. CASE a \notin Above(par, d)
  <2>1. Cardinality(Contents(par, d)) < Capacity /\ d # b /\ b \notin Ancestors(par, d)
    BY <1>10 DEF ContainerAccepts, IsHoldingItem
  <2>2. Cardinality(Contents(par, d) \ {a}) < Capacity
    BY <2>1, <1>f, <1>r, <1>t
  <2>. QED BY <2>1, <2>2, <1>9, <1>10, <1>13, <1>14
(* Else there is room in the container that held a. *)
<1>15. CASE a \in Above(par, d)
  <2>. DEFINE c == par[a]
  <2>1. Ancestors(par, a) = Above(par, c) /\ c \in Ancestors(par, a)
    BY <1>w, AncestorsUnfold, ParentIsAncestor
  <2>2. Root(par, a) = par[w]
    BY <1>10, <1>12, <1>15, <1>w, RelatedHaveOneRoot
  <2>3. c \in Containers
    <3>1. c \notin Items => c = par[w]
      BY <2>1, <2>2, <1>w, RootIsUnique
    <3>2. c \in Items
      BY <3>1, <1>7, <1>10
    <3>. QED BY <3>2, TradeAssumption DEF Parents
  <2>4. a \notin Above(par, c)
    BY <2>1, <1>w DEF NothingInItself, IsHoldingItem
  <2>5. w \in Above(par, c)
    <3>1. a \notin Above(par, w)
      BY <1>10, <1>3 DEF Above
    <3>2. w \in Above(par, a)
      <4>1. CASE d = a
        BY <4>1, <1>9
      <4>2. CASE a \in Ancestors(par, d)
        <5>1. w # d
          BY <4>2, <3>1, <1>10 DEF Above
        <5>2. w \in Ancestors(par, d)
          BY <5>1, <1>9, <1>10 DEF Above
        <5>3. a \in Above(par, w) \/ w \in Above(par, a)
          BY <4>2, <5>2, <1>10, <1>w, AncestorsAreOrdered
        <5>. QED BY <5>3, <3>1
      <4>. QED BY <4>1, <4>2, <1>10, <1>15 DEF Above
    <3>. QED BY <3>2, <2>1, <1>10 DEF Above
  <2>6. c # b /\ b \notin Ancestors(par, c)
    BY <2>1, <2>3, <1>t DEF Above
  <2>7. Cardinality(Contents(par, c) \ {a}) < Capacity
    <3>1. a \in Contents(par, c) /\ Cardinality(Contents(par, c)) <= Capacity
      BY <2>3, <1>w DEF Contents, NothingOverfull
    <3>2. Cardinality(Contents(par, c) \ {a}) = Cardinality(Contents(par, c)) - 1
      BY <3>1, <1>r
    <3>. HIDE DEF c
    <3>. QED BY <3>1, <3>2, <1>f, <1>t
  <2>. QED BY <2>3, <2>4, <2>5, <2>6, <2>7, <1>13
<1>. QED BY <1>14, <1>15

-----------------------------------------------------------------------------
(* What does not lie on p is not above where p puts things. *)
LEMMA ElsewhereIsNotAbove ==
  ASSUME NEW par, NothingInItself(par), NEW o \in Items, NEW p,
         \A s \in Ancestors(par, o) : s \in Slots => s[1] # p,
         NEW to, LeadsTo(par, to, p)
  PROVE  o \notin Above(par, to)
<1>. SUFFICES ASSUME o \in Above(par, to) PROVE FALSE
  OBVIOUS
<1>1. to \in Items
  BY DEF Above
<1>2. PICK s \in Ancestors(par, to) : s \in Slots /\ s[1] = p /\ s \notin Items
  BY <1>1, TradeAssumption DEF LeadsTo, Above
<1>3. s = Root(par, to)
  BY <1>1, <1>2, RootIsUnique
<1>4. Root(par, o) = Root(par, to)
  BY <1>1, RelatedHaveOneRoot
<1>5. s \in Ancestors(par, o)
  BY <1>3, <1>4, RootIsUnique
<1>. QED BY <1>2, <1>5

(* The two that accept have two offers that have nothing to do with each   *)
(* other, and nobody else's is near.                                       *)
LEMMA OffersAreApart ==
  ASSUME IInv, WorldInv, NEW p \in Players, NEW q \in Players, p # q,
         tradeItem[p] # NoItem, tradeItem[q] # NoItem
  PROVE  tradeItem[p] # tradeItem[q] /\ tradeItem[p] \notin Ancestors(parent, tradeItem[q])
<1>1. <<tradeItem[p], p>> \in tradeItems /\ <<tradeItem[q], q>> \in tradeItems
  BY DEF IInv, TradeInv, OffersAreRegistered
<1>2. <<tradeItem[p], p>> # <<tradeItem[q], q>>
  OBVIOUS
<1>. QED BY <1>1, <1>2 DEF WorldInv, OffersAreDisjoint, IsHoldingItem

(* Item a goes to `to', then b to `back'. *)
Swapped(par, par2, a, to, b, back) ==
  /\ to \in Parents /\ GoesInto(par, a, to) /\ HasRoom(par, to)
  /\ b \notin Above(par, to)
  /\ back \in Parents
  /\ GoesInto([par EXCEPT ![a] = to], b, back) /\ HasRoom([par EXCEPT ![a] = to], back)
  /\ par2 = [[par EXCEPT ![a] = to] EXCEPT ![b] = back]

(* Whatever Exchange() changes, it exchanges. *)
LEMMA ExchangeSwaps ==
  ASSUME IInv, WorldInv, NEW p \in Players, NEW q \in Players, p # q,
         tradeItem[p] \in Items, tradeItem[q] \in Items,
         Exchange(p, q), parent' # parent
  PROVE  \E to, back : /\ Swapped(parent, parent', tradeItem[p], to, tradeItem[q], back)
                       /\ LeadsTo(parent, to, q)
                       /\ LeadsTo([parent EXCEPT ![tradeItem[p]] = to], back, p)
<1>. DEFINE a == tradeItem[p]
            b == tradeItem[q]
<1>0. /\ parent \in [Items -> Parents] /\ IsWorld(parent) /\ NothingInItself(parent)
      /\ a # NoItem /\ b # NoItem
  BY TradeAssumption DEF IInv, TypeOK, WorldInv, IsWorld
<1>1. /\ ~NoRoomWithoutBackpack(p, q) /\ BothFit(p, q)
      /\ \E to \in Destinations(parent, q, a) :
           /\ OutsideCounterOffer(parent, to, b)
           /\ LET first  == [parent EXCEPT ![a] = to]
                  second == Destinations(first, p, b)
              IN  IF second = {} THEN parent' = first
                  ELSE \E back \in second : parent' = [first EXCEPT ![b] = back]
  BY DEF Exchange
<1>2. PICK to \in Destinations(parent, q, a) :
           /\ OutsideCounterOffer(parent, to, b)
           /\ LET first  == [parent EXCEPT ![a] = to]
                  second == Destinations(first, p, b)
              IN  IF second = {} THEN parent' = first
                  ELSE \E back \in second : parent' = [first EXCEPT ![b] = back]
  BY <1>1
<1>. DEFINE first == [parent EXCEPT ![a] = to]
<1>3. Destinations(first, p, b) # {}
  <2>1. b \notin Above(parent, a)
    BY <1>0, OffersAreApart DEF Above
  <2>2. parent[a] = <<p, "back">> => Contents(parent, <<p, "hand">>) = {}
    BY <1>1 DEF NoRoomWithoutBackpack, TradesBackpack, HandTaken
  <2>3. Destinations(parent, p, b) # {}
    BY <1>1 DEF BothFit
  <2>. QED BY <1>0, <1>2, <2>1, <2>2, <2>3, SecondFits
<1>4. PICK back \in Destinations(first, p, b) : parent' = [first EXCEPT ![b] = back]
  BY <1>2, <1>3
<1>5. to \in Parents /\ GoesInto(parent, a, to) /\ LeadsTo(parent, to, q) /\ HasRoom(parent, to)
  BY <1>0, <1>2, DestinationMeans
<1>6. IsWorld(first) /\ first \in [Items -> Parents]
  BY <1>0, <1>5, MoveKeepsWorld
<1>7. back \in Parents /\ GoesInto(first, b, back) /\ LeadsTo(first, back, p) /\ HasRoom(first, back)
  <2>1. NothingInItself(first)
    BY <1>6 DEF IsWorld
  <2>. HIDE DEF first
  <2>. QED BY <1>4, <1>6, <2>1, DestinationMeans
<1>8. b \notin Above(parent, to)
  BY <1>2 DEF OutsideCounterOffer, IsHoldingItem, Above
<1>. QED BY <1>4, <1>5, <1>7, <1>8 DEF Swapped

IsSwapped(par, par2, a, to, b, back) ==
  /\ IsWorld(par2)
  /\ Ancestors(par2, a) = Above(par, to)
  /\ Ancestors(par2, b) = Above([par EXCEPT ![a] = to], back)
  /\ \A i \in Items \ {a, b} : par2[i] = par[i]

(* An exchange leaves the world sound, and each item where it was put. *)
LEMMA SwapKeeps ==
  ASSUME NEW par \in [Items -> Parents], IsWorld(par), NEW par2,
         NEW a \in Items, NEW b \in Items, a # b, NEW to, NEW back, Swapped(par, par2, a, to, b, back)
  PROVE  IsSwapped(par, par2, a, to, b, back)
<1>. DEFINE first == [par EXCEPT ![a] = to]
<1>0. /\ to \in Parents /\ GoesInto(par, a, to) /\ HasRoom(par, to)
      /\ b \notin Above(par, to)
      /\ back \in Parents
      /\ GoesInto(first, b, back) /\ HasRoom(first, back)
      /\ par2 = [first EXCEPT ![b] = back]
  BY DEF Swapped
<1>1. IsWorld(first) /\ IsMoved(par, first, a, to) /\ first \in [Items -> Parents]
  BY <1>0, MoveKeepsWorld
<1>2. IsWorld(par2) /\ IsMoved(first, par2, b, back)
  <2>. HIDE DEF first
  <2>. QED BY <1>0, <1>1, MoveKeepsWorld
<1>3. Ancestors(first, a) = Above(par, to)
  BY <1>1 DEF IsMoved
<1>4. Ancestors(par2, a) = Ancestors(first, a)
  BY <1>0, <1>2, <1>3 DEF IsMoved
<1>5. Ancestors(par2, b) = Above(first, back)
  BY <1>2 DEF IsMoved
<1>6. \A i \in Items \ {a, b} : par2[i] = par[i]
  BY <1>0
<1>. QED BY <1>2, <1>3, <1>4, <1>5, <1>6 DEF IsSwapped

LEMMA AcceptExchanges ==
  ASSUME IInv, WorldInv, NEW p \in Players, AcceptLast(p), parent' # parent
  PROVE  LET q == tradePartner[p]
         IN  /\ q \in Players /\ p # q
             /\ tradeItem[p] \in Items /\ tradeItem[q] \in Items
             /\ Exchange(p, q) /\ CloseTrades({p})
BY DEF AcceptLast, IInv, TypeOK, TradeInv, PartnersAreMutual

(* Both or none. *)
LEMMA AcceptIsAtomic == ASSUME IInv, WorldInv PROVE BothOrNone
<1>. SUFFICES ASSUME NEW p \in Players, NEW q \in Players,
                     AcceptLast(p), q = tradePartner[p], parent' # parent
              PROVE  /\ CarriedBy(parent', q, tradeItem[p])
                     /\ CarriedBy(parent', p, tradeItem[q])
                     /\ \A i \in Items \ {tradeItem[p], tradeItem[q]} : parent'[i] = parent[i]
  BY DEF BothOrNone
<1>1. /\ p # q /\ tradeItem[p] \in Items /\ tradeItem[q] \in Items /\ Exchange(p, q)
      /\ tradeItem[p] # NoItem /\ tradeItem[q] # NoItem
      /\ parent \in [Items -> Parents] /\ IsWorld(parent)
  BY AcceptExchanges, TradeAssumption DEF IInv, TypeOK, WorldInv
<1>2. PICK to, back : /\ Swapped(parent, parent', tradeItem[p], to, tradeItem[q], back)
                      /\ LeadsTo(parent, to, q)
                      /\ LeadsTo([parent EXCEPT ![tradeItem[p]] = to], back, p)
  BY <1>1, ExchangeSwaps
<1>3. tradeItem[p] # tradeItem[q]
  BY <1>1, OffersAreApart
<1>4. IsSwapped(parent, parent', tradeItem[p], to, tradeItem[q], back)
  BY <1>1, <1>2, <1>3, SwapKeeps
<1>. QED BY <1>2, <1>4 DEF CarriedBy, LeadsTo, IsSwapped

(* The offers of others are left alone by an exchange. *)
LEMMA AcceptKeeps ==
  ASSUME IInv, IInv', WorldInv, NEW p \in Players, AcceptLast(p)
  PROVE  WorldInv' /\ OfferUntouched
<1>. DEFINE q == tradePartner[p]
            a == tradeItem[p]
            b == tradeItem[q]
<1>0. parent \in [Items -> Parents] /\ IsWorld(parent) /\ NothingInItself(parent)
  BY DEF IInv, TypeOK, WorldInv, IsWorld
<1>1. place' = place /\ \A r \in Players : tradeItem'[r] \in {NoItem, tradeItem[r]}
  <2>1. place' = place
    BY DEF AcceptLast
  <2>2. CASE UNCHANGED trade
    BY <2>1, <2>2 DEF trade
  <2>3. CASE CloseTrades({p})
    BY <2>1, <2>3, CloseTradesOnlyDrops
  <2>. QED BY <2>1, <2>2, <2>3 DEF AcceptLast
<1>2. CASE parent' = parent
  <2>1. OfferUntouched
    BY <1>2 DEF OfferUntouched
  <2>2. IsWorld(parent')
    BY <1>0, <1>2
  <2>. QED BY <1>1, <2>1, <2>2, WorldStays
<1>3. CASE parent' # parent
  <2>1. /\ q \in Players /\ p # q /\ a \in Items /\ b \in Items /\ Exchange(p, q) /\ CloseTrades({p})
        /\ a # NoItem /\ b # NoItem
    BY <1>3, AcceptExchanges, TradeAssumption
  <2>2. PICK to, back : /\ Swapped(parent, parent', a, to, b, back)
                        /\ LeadsTo(parent, to, q)
                        /\ LeadsTo([parent EXCEPT ![a] = to], back, p)
    BY <1>3, <2>1, ExchangeSwaps
  <2>3. a # b
    BY <2>1, OffersAreApart
  <2>4. IsWorld(parent')
    BY <1>0, <2>1, <2>2, <2>3, SwapKeeps DEF IsSwapped
  <2>5. OfferUntouched
    <3>. SUFFICES ASSUME NEW r \in Players, tradeItem[r] # NoItem, tradeItem'[r] = tradeItem[r]
                  PROVE  /\ Ancestors(parent', tradeItem[r]) = Ancestors(parent, tradeItem[r])
                         /\ \A j \in Items : IsHoldingItem(parent', tradeItem[r], j) <=> IsHoldingItem(parent, tradeItem[r], j)
      BY DEF OfferUntouched
    <3>. DEFINE o == tradeItem[r]
                first == [parent EXCEPT ![a] = to]
    <3>1. r # p /\ r # q
      <4>1. p \in Released({p}) /\ q \in Released({p})
        BY <2>1, TradeAssumption DEF Released
      <4>2. \A x \in Players : x \in Released({p}) => tradeItem'[x] = NoItem
        BY <2>1, CloseTradesOnlyDrops
      <4>. QED BY <2>1, <4>1, <4>2
    <3>2. /\ o \in Items /\ o # a /\ o # b
          /\ o \notin Ancestors(parent, a) /\ a \notin Ancestors(parent, o)
          /\ o \notin Ancestors(parent, b) /\ b \notin Ancestors(parent, o)
      BY <2>1, <3>1, OffersAreApart, OfferIsNear
    <3>3. \A s \in Ancestors(parent, o) : s \in Slots => s[1] # p /\ s[1] # q
      <4>1. \A s \in Ancestors(parent, o) : s \in Slots => s = Root(parent, o)
        BY <1>0, <3>2, RootIsUnique, TradeAssumption
      <4>. QED BY <4>1, <3>1, OfferIsNear, TradeAssumption
    <3>4. /\ to \in Parents /\ GoesInto(parent, a, to) /\ HasRoom(parent, to)
          /\ back \in Parents /\ GoesInto(first, b, back) /\ HasRoom(first, back)
          /\ parent' = [first EXCEPT ![b] = back]
      BY <2>2 DEF Swapped
    <3>5. o \notin Above(parent, to)
      BY <1>0, <2>2, <3>2, <3>3, ElsewhereIsNotAbove
    <3>6. LeftAlone(parent, first, o)
      BY <1>0, <2>1, <3>2, <3>4, <3>5, MoveLeavesAlone
    <3>7. IsWorld(first) /\ first \in [Items -> Parents] /\ NothingInItself(first)
      BY <1>0, <2>1, <3>4, MoveKeepsWorld DEF IsWorld
    <3>. HIDE DEF first
    <3>8. o \notin Above(first, back)
      <4>1. \A s \in Ancestors(first, o) : s \in Slots => s[1] # p
        BY <3>3, <3>6 DEF LeftAlone
      <4>2. LeadsTo(first, back, p)
        BY <2>2 DEF first
      <4>. QED BY <3>2, <3>7, <4>1, <4>2, ElsewhereIsNotAbove
    <3>9. o \notin Ancestors(first, b) /\ b \notin Ancestors(first, o)
      BY <2>1, <3>2, <3>6 DEF IsHoldingItem, LeftAlone
    <3>10. LeftAlone(first, parent', o)
      BY <2>1, <3>2, <3>4, <3>7, <3>8, <3>9, MoveLeavesAlone
    <3>. QED BY <3>6, <3>10 DEF LeftAlone
  <2>. QED BY <1>1, <2>4, <2>5, WorldStays
<1>. QED BY <1>2, <1>3

-----------------------------------------------------------------------------
(* playerRequestTrade() takes what is within reach and in no other offer. *)
LEMMA OfferCanBeMade ==
  ASSUME IInv, WorldInv, NEW p \in Players, NEW q \in Players, NEW i \in Items, PlayerRequestTrade(p, q, i)
  PROVE  WorldInv' /\ OfferUntouched
<1>1. /\ tradeItem' = [tradeItem EXCEPT ![p] = i]
      /\ tradeItems' = {t \in tradeItems : t[1] # i} \cup {<<i, p>>}
      /\ Reaches(p, i) /\ ~BeingTraded(i)
      /\ UNCHANGED <<place, parent>>
  BY DEF PlayerRequestTrade, InternalStartTrade
<1>2. tradeItem[p] = NoItem
  BY DEF PlayerRequestTrade, CanTradeWith, InternalStartTrade, AlreadyTrading, IInv, TypeOK, TradeInv,
         AskedHasNoOffer, PartnersAreMutual, TradeStates
<1>3. OfferUntouched
  BY <1>1 DEF OfferUntouched
<1>4. OffersAreWithinReach'
  <2>1. \A r \in Players : tradeItem[r] # NoItem => Reaches(r, tradeItem[r])
    BY DEF WorldInv, OffersAreWithinReach
  <2>2. \A r \in Players : tradeItem'[r] = IF r = p THEN i ELSE tradeItem[r]
    BY <1>1 DEF IInv, TypeOK
  <2>3. ASSUME NEW r \in Players, tradeItem'[r] # NoItem PROVE Reaches(r, tradeItem'[r])
    BY <1>1, <2>1, <2>2, <2>3
  <2>4. \A r \in Players, x \in Items \cup {NoItem} : Reaches(r, x) <=> (LET y == Root(parent', x) IN IF y = Ground THEN place'[r] = "here" ELSE y \in Slots /\ y[1] = r)
    BY <1>1 DEF Reaches
  <2>5. tradeItem' \in [Players -> Items \cup {NoItem}]
    BY <1>1 DEF IInv, TypeOK
  <2>. QED BY <2>3, <2>4, <2>5 DEF OffersAreWithinReach, Reaches
<1>5. OffersAreDisjoint'
  <2>1. \A t \in tradeItems : t[1] # i /\ ~IsHoldingItem(parent, i, t[1]) /\ ~IsHoldingItem(parent, t[1], i)
    BY <1>1 DEF BeingTraded
  <2>2. \A s, t \in tradeItems : s # t => s[1] # t[1] /\ ~IsHoldingItem(parent, s[1], t[1])
    BY DEF WorldInv, OffersAreDisjoint
  <2>3. <<i, p>>[1] = i
    OBVIOUS
  <2>4. \A s, t \in tradeItems' : s # t => s[1] # t[1] /\ ~IsHoldingItem(parent, s[1], t[1])
    BY <1>1, <2>1, <2>2, <2>3
  <2>. QED BY <1>1, <2>4 DEF OffersAreDisjoint, IsHoldingItem
<1>. QED BY <1>1, <1>3, <1>4, <1>5 DEF WorldInv

(* Who walks away from an offer on the ground loses it. *)
LEMMA WalkKeepsReach ==
  ASSUME IInv, WorldInv, NEW p \in Players, Walk(p), IInv'
  PROVE  WorldInv' /\ OfferUntouched
<1>1. PICK there \in Places \ {place[p]} :
        /\ place' = [place EXCEPT ![p] = there]
        /\ CloseTrades(TooFar(p, [place EXCEPT ![p] = there]))
        /\ UNCHANGED <<online, parent, crashed>>
  BY DEF Walk
<1>. DEFINE who == TooFar(p, [place EXCEPT ![p] = there])
<1>2. who \in SUBSET Players
  BY DEF TooFar
<1>3. /\ \A r \in Players : tradeItem'[r] \in {NoItem, tradeItem[r]}
      /\ \A r \in Players : r \in Released(who) => tradeItem'[r] = NoItem
      /\ who \subseteq Released(who)
  <2>1. CloseTrades(who)
    BY <1>1
  <2>. HIDE DEF who
  <2>. QED BY <1>2, <2>1, CloseTradesOnlyDrops
<1>4. OfferUntouched
  BY <1>1 DEF OfferUntouched
<1>5. OffersAreWithinReach'
  <2>. SUFFICES ASSUME NEW r \in Players, tradeItem'[r] # NoItem PROVE Reaches(r, tradeItem[r])' /\ tradeItem'[r] = tradeItem[r]
    BY DEF OffersAreWithinReach, Reaches, Root
  <2>1. tradeItem'[r] = tradeItem[r] /\ tradeItem[r] # NoItem /\ r \notin who
    BY <1>3
  <2>2. Reaches(r, tradeItem[r])
    BY <2>1 DEF WorldInv, OffersAreWithinReach
  <2>3. r # p => place'[r] = place[r]
    BY <1>1 DEF IInv, TypeOK
  <2>4. r = p => Root(parent, tradeItem[r]) # Ground \/ place'[r] = "here"
    BY <1>1, <2>1 DEF TooFar
  <2>5. Root(parent, tradeItem[r])' = Root(parent, tradeItem[r])
    BY <1>1, <2>1 DEF Root
  <2>. QED BY <2>1, <2>2, <2>3, <2>4, <2>5 DEF Reaches
<1>6. OffersAreDisjoint'
  <2>1. tradeItems' \subseteq tradeItems
    BY <1>1 DEF CloseTrades, Unregistered
  <2>. QED BY <1>1, <2>1 DEF WorldInv, OffersAreDisjoint, IsHoldingItem
<1>. QED BY <1>1, <1>4, <1>5, <1>6 DEF WorldInv

(* Every handler keeps the world sound and the offers that stand as made. *)
LEMMA NextKeepsWorld ==
  ASSUME IInv, IInv', WorldInv, [Next]_vars
  PROVE  WorldInv' /\ OfferUntouched
(* A step that moves nothing keeps where everything is. *)
<1>s. ASSUME parent' = parent, place' = place, \A p \in Players : tradeItem'[p] \in {NoItem, tradeItem[p]}
      PROVE  WorldInv' /\ OfferUntouched
  <2>1. OfferUntouched
    BY <1>s DEF OfferUntouched
  <2>2. IsWorld(parent')
    BY <1>s DEF WorldInv
  <2>. QED BY <1>s, <2>1, <2>2, WorldStays
<1>1. CASE UNCHANGED vars
  BY <1>1, <1>s DEF vars, trade
<1>2. ASSUME NEW p \in Players, PlayerCloseTrade(p) \/ AcceptRefused(p)
      PROVE  WorldInv' /\ OfferUntouched
  <2>1. CloseTrades({p}) /\ parent' = parent /\ place' = place
    BY <1>2 DEF PlayerCloseTrade, AcceptRefused
  <2>2. \A r \in Players : tradeItem'[r] \in {NoItem, tradeItem[r]}
    BY <2>1, CloseTradesOnlyDrops
  <2>. QED BY <2>1, <2>2, <1>s
<1>3. ASSUME NEW p \in Players, AcceptFirst(p) \/ Login(p)
      PROVE  WorldInv' /\ OfferUntouched
  <2>1. tradeItem' = tradeItem /\ parent' = parent /\ place' = place
    BY <1>3 DEF AcceptFirst, Login, trade
  <2>. QED BY <2>1, <1>s
<1>4. ASSUME NEW p \in Players, AcceptLast(p)
      PROVE  WorldInv' /\ OfferUntouched
  BY <1>4, AcceptKeeps
<1>5. ASSUME NEW p \in Players, Walk(p)
      PROVE  WorldInv' /\ OfferUntouched
  BY <1>5, WalkKeepsReach
<1>6. ASSUME NEW p \in Players, Logout(p)
      PROVE  WorldInv' /\ OfferUntouched
  <2>1. CloseTrades(ClosedOnLogout(p)) /\ parent' = parent /\ place' = place
    BY <1>6 DEF Logout
  <2>2. ClosedOnLogout(p) \in SUBSET Players
    BY DEF ClosedOnLogout
  <2>3. \A r \in Players : tradeItem'[r] \in {NoItem, tradeItem[r]}
    BY <2>1, <2>2, CloseTradesOnlyDrops
  <2>. QED BY <2>1, <2>3, <1>s
<1>7. ASSUME NEW p \in Players, NEW q \in Players, NEW i \in Items, PlayerRequestTrade(p, q, i)
      PROVE  WorldInv' /\ OfferUntouched
  BY <1>7, OfferCanBeMade
<1>8. ASSUME NEW p \in Players, NEW i \in Items, NEW to \in Parents, MoveItem(p, i, to)
      PROVE  WorldInv' /\ OfferUntouched
  <2>t. /\ Containers \subseteq Items /\ Slots \cap Items = {}
        /\ Ground \notin Items /\ Nowhere \notin Items /\ Ground \notin Slots
    BY TradeAssumption
  <2>1. Relocate(i, to)
    BY <1>8 DEF MoveItem
  <2>2. CASE to = Ground
    <3>1. GoesInto(parent, i, to) /\ HasRoom(parent, to)
      BY <2>t, <2>2 DEF GoesInto, HasRoom, Above
    <3>. QED BY <2>1, <3>1, RelocateKeeps
  <2>3. CASE to \in {p} \X {"back", "hand"} /\ SlotAccepts(parent, to, i)
    <3>1. to \in Slots
      BY <2>3 DEF Slots
    <3>2. GoesInto(parent, i, to) /\ HasRoom(parent, to)
      BY <2>t, <2>3, <3>1 DEF GoesInto, HasRoom, Above, SlotAccepts
    <3>. QED BY <2>1, <3>2, RelocateKeeps
  <2>4. CASE to \in Containers /\ ContainerAccepts(parent, to, i)
    <3>1. GoesInto(parent, i, to) /\ HasRoom(parent, to)
      BY <2>t, <2>4 DEF GoesInto, HasRoom, Above, ContainerAccepts, IsHoldingItem
    <3>. QED BY <2>1, <3>1, RelocateKeeps
  <2>. QED BY <1>8, <2>2, <2>3, <2>4 DEF MoveItem
<1>9. ASSUME NEW i \in Items, RemoveItem(i)
      PROVE  WorldInv' /\ OfferUntouched
  <2>1. Relocate(i, Nowhere) /\ Nowhere \in Parents
    BY <1>9 DEF RemoveItem, Parents
  <2>2. GoesInto(parent, i, Nowhere) /\ HasRoom(parent, Nowhere)
    BY TradeAssumption DEF GoesInto, HasRoom, Above
  <2>. QED BY <2>1, <2>2, RelocateKeeps
<1>. QED BY <1>1, <1>2, <1>3, <1>4, <1>5, <1>6, <1>7, <1>8, <1>9 DEF Next

LEMMA InitIsWorld == Init => WorldInv
BY WorldAssumption DEF Init, WorldInv, OffersAreWithinReach, OffersAreDisjoint

(* The world stays a forest, with room, and every offer within the reach   *)
(* of who makes it and apart from every other.                             *)
THEOREM WorldStaysSound == Spec => []WorldInv
<1>1. WorldInv /\ IInv /\ IInv' /\ [Next]_vars => WorldInv'
  BY NextKeepsWorld
<1>2. Spec => []IInv
  BY TradeSafety, PTL
<1>. QED BY <1>1, <1>2, InitIsWorld, PTL DEF Spec

(* No item is part of two offers, and no handler changes what is inside an *)
(* offer that stands, or where it is: whoever moves or removes items, the  *)
(* listeners of Player close every trade that is concerned.                *)
THEOREM OffersStandAsMade == Spec => OffersStand
<1>1. WorldInv => OffersAreDisjoint
  BY DEF WorldInv
<1>2. WorldInv /\ IInv /\ IInv' /\ [Next]_vars => [OfferUntouched]_vars
  BY NextKeepsWorld
<1>3. Spec => []IInv
  BY TradeSafety, PTL
<1>. QED BY <1>1, <1>2, <1>3, WorldStaysSound, PTL DEF Spec, OffersStand

(* Game::playerAcceptTrade() exchanges both items or none, for any nesting *)
(* and any capacity: the second internalMoveItem(), whose result the code  *)
(* does not look at, cannot fail once the tests before have passed.        *)
THEOREM ExchangeStaysAtomic == Spec => ExchangeIsAtomic
<1>1. WorldInv /\ IInv => [BothOrNone]_vars
  BY AcceptIsAtomic
<1>2. Spec => []IInv
  BY TradeSafety, PTL
<1>. QED BY <1>1, <1>2, WorldStaysSound, PTL DEF ExchangeIsAtomic

-----------------------------------------------------------------------------
(* The types of House's variables, the histories included.                 *)
Writers == [Houses -> [ListIds -> Guids \cup {NoGuid}]]

HouseTypes == /\ HouseTypeOK
              /\ trusted \in [Houses -> SUBSET Guids]
              /\ writer \in Writers /\ saved.writer \in Writers
              /\ restarted \in BOOLEAN

(* Who may write a list of a house has been trusted: the staff, the owner, *)
(* and whoever is a sub-owner now.  After a restart the lists are older.   *)
WritersAreTrusted ==
  \A h \in Houses :
    /\ Editors \subseteq trusted[h]
    /\ owner[h] # NoGuid => owner[h] \in trusted[h]
    /\ ~restarted => lists[h].subowner \subseteq trusted[h]

(* What the last save wrote of the beds can be read back: the two halves   *)
(* of a bed agree, and nobody sleeps in two.                               *)
SavedBedsAgree ==
  /\ \A h \in BedHouses : saved.sleeper[<<h, 1>>] = saved.sleeper[<<h, 2>>]
  /\ \A b, c \in Halves :
       saved.sleeper[b] # NoGuid /\ saved.sleeper[b] = saved.sleeper[c] => b[1] = c[1]

ListsInv == InsideIsInvited /\ ListsAreTrusted /\ WritersAreTrusted

BedsInv == BedsAgree /\ AwakeOnline /\ SavedBedsAgree

HouseInv == HouseTypes /\ ListsInv /\ BedsInv

-----------------------------------------------------------------------------
(* getHouseAccessLevel() is not HOUSE_NOT_INVITED *)
LEMMA InvitedMeans ==
  ASSUME NEW own, NEW ls, NEW h, NEW p
  PROVE  IsInvited(own, ls, h, p) <=>
           p \in Editors \/ own[h] = p \/ p \in ls[h].subowner \/ p \in ls[h].guest
BY DEF IsInvited, AccessLevel

(* canEditAccessList(): the guest list is open to sub-owners too. *)
LEMMA EditorsMeans ==
  ASSUME NEW h, NEW l, NEW p, CanEditAccessList(h, l, p)
  PROVE  p \in Editors \/ owner[h] = p \/ p \in lists[h].subowner
BY DEF CanEditAccessList, AccessLevel

(* wakeUp() of all beds of some houses: beds and map still agree, and who  *)
(* was awake is awake.                                                     *)
LEMMA WakeUpKeeps ==
  ASSUME HouseAssumption, HouseTypeOK, BedsAgree, NEW hs, WakeUp(hs)
  PROVE  /\ sleeper' \in [Halves -> Guids \cup {NoGuid}]
         /\ bedSleepers' \in [Guids -> Halves \cup {NoBed}]
         /\ BedsAgree'
         /\ \A p \in Guids : bedSleepers[p] = NoBed => bedSleepers'[p] = NoBed
         /\ \A p \in Guids : bedSleepers[p] # NoBed /\ bedSleepers[p][1] \in hs => bedSleepers'[p] = NoBed
<1>. USE DEF HouseTypeOK, HouseAssumption
<1>1. sleeper' = [b \in Halves |-> IF b[1] \in hs THEN NoGuid ELSE sleeper[b]]
  BY DEF WakeUp, WokenHalf
<1>2. bedSleepers' = [p \in Guids |-> IF p \in Sleepers(hs) THEN NoBed ELSE bedSleepers[p]]
  BY DEF WakeUp, SleepersForgotten
<1>3. \A p \in Sleepers(hs) : p # NoGuid /\ \E b \in Halves : b[1] \in hs /\ sleeper[b] = p
  BY DEF Sleepers
<1>4. \A b \in Halves : b[1] \in hs /\ sleeper[b] # NoGuid => sleeper[b] \in Sleepers(hs)
  BY DEF Sleepers
<1>5. sleeper' \in [Halves -> Guids \cup {NoGuid}]
  BY <1>1
<1>6. bedSleepers' \in [Guids -> Halves \cup {NoBed}]
  BY <1>2
<1>7. \A h \in BedHouses : sleeper'[<<h, 1>>] = sleeper'[<<h, 2>>]
  <2>1. \A h \in BedHouses : <<h, 1>> \in Halves /\ <<h, 2>> \in Halves
    BY DEF Halves
  <2>2. \A h \in BedHouses : sleeper[<<h, 1>>] = sleeper[<<h, 2>>]
    BY DEF BedsAgree
  <2>. QED BY <1>1, <2>1, <2>2
<1>8. ASSUME NEW b \in Halves, sleeper'[b] # NoGuid
      PROVE  bedSleepers'[sleeper'[b]] # NoBed /\ bedSleepers'[sleeper'[b]][1] = b[1]
  <2>1. b[1] \notin hs /\ sleeper'[b] = sleeper[b] /\ sleeper[b] \in Guids
    BY <1>1, <1>8
  <2>2. bedSleepers[sleeper[b]] # NoBed /\ bedSleepers[sleeper[b]][1] = b[1]
    BY <1>8, <2>1 DEF BedsAgree
  <2>3. sleeper[b] \notin Sleepers(hs)
    <3>1. \A c \in Halves : sleeper[c] = sleeper[b] => c[1] = b[1]
      BY <2>1, <2>2 DEF BedsAgree
    <3>. QED BY <1>3, <2>1, <3>1
  <2>. QED BY <1>2, <2>1, <2>2, <2>3
<1>9. ASSUME NEW p \in Guids, bedSleepers'[p] # NoBed
      PROVE  sleeper'[bedSleepers'[p]] = p
  <2>1. p \notin Sleepers(hs) /\ bedSleepers'[p] = bedSleepers[p] /\ bedSleepers[p] \in Halves
    BY <1>2, <1>9
  <2>2. sleeper[bedSleepers[p]] = p
    BY <1>9, <2>1 DEF BedsAgree
  <2>. QED BY <1>1, <1>4, <2>1, <2>2
<1>10. ASSUME NEW p \in Guids, bedSleepers[p] # NoBed, bedSleepers[p][1] \in hs
       PROVE  bedSleepers'[p] = NoBed
  <2>1. bedSleepers[p] \in Halves /\ sleeper[bedSleepers[p]] = p
    BY <1>10 DEF BedsAgree
  <2>. QED BY <1>2, <1>4, <1>10, <2>1
<1>11. BedsAgree'
  BY <1>7, <1>8, <1>9 DEF BedsAgree
<1>. QED BY <1>2, <1>5, <1>6, <1>10, <1>11

(* setOwner(): who is put out, which lists are emptied and whom the owner  *)
(* trusts go together; who sleeps in the house is woken up.                *)
LEMMA SetOwnerKeeps ==
  ASSUME HouseAssumption, HouseInv, NEW h \in Houses, NEW q \in Guids \cup {NoGuid},
         SetOwner(h, q), UNCHANGED <<inGame, kicks, saved, writer, restarted>>
  PROVE  /\ owner' \in [Houses -> Guids \cup {NoGuid}]
         /\ lists' \in [Houses -> [ListIds -> SUBSET Guids]]
         /\ at' \in [Guids -> Houses \cup {Street}]
         /\ trusted' \in [Houses -> SUBSET Guids]
         /\ sleeper' \in [Halves -> Guids \cup {NoGuid}]
         /\ bedSleepers' \in [Guids -> Halves \cup {NoBed}]
         /\ ListsInv' /\ BedsAgree' /\ AwakeOnline'
<1>. USE DEF HouseInv, HouseTypes, HouseTypeOK, HouseAssumption
<1>1. CASE owner[h] = q
  BY <1>1 DEF SetOwner, ListsInv, InsideIsInvited, ListsAreTrusted, WritersAreTrusted, IsInvited,
              AccessLevel, BedsInv, BedsAgree, AwakeOnline
<1>2. CASE owner[h] # q
  <2>1. /\ owner' = [owner EXCEPT ![h] = q]
        /\ lists' = CleanAccessLists(h)
        /\ trusted'[h] = ({q} \ {NoGuid}) \cup (IF owner[h] = NoGuid THEN trusted[h] ELSE Editors)
        /\ trusted' \in [Houses -> SUBSET Guids]
        /\ \A g \in Houses \ {h} : trusted'[g] = trusted[g]
    <3>. DEFINE t == ({q} \ {NoGuid}) \cup (IF owner[h] = NoGuid THEN trusted[h] ELSE Editors)
    <3>1. owner' = [owner EXCEPT ![h] = q] /\ lists' = CleanAccessLists(h)
      BY <1>2 DEF SetOwner
    <3>2. trusted' = [trusted EXCEPT ![h] = t]
      BY <1>2 DEF SetOwner
    <3>3. t \subseteq Guids
      OBVIOUS
    <3>. HIDE DEF t
    <3>4. /\ trusted'[h] = t /\ trusted' \in [Houses -> SUBSET Guids]
          /\ \A g \in Houses \ {h} : trusted'[g] = trusted[g]
      BY <3>2, <3>3
    <3>. QED BY <3>1, <3>4 DEF t
  <2>2. /\ lists' \in [Houses -> [ListIds -> SUBSET Guids]]
        /\ \A g \in Houses : g # h \/ owner[h] = NoGuid => lists'[g] = lists[g]
        /\ owner[h] # NoGuid => \A l \in ListIds : lists'[h][l] = {}
    BY <2>1 DEF CleanAccessLists
  <2>3. /\ at' \in [Guids -> Houses \cup {Street}]
        /\ \A p \in Guids : at'[p] \in {at[p], Street}
        /\ owner[h] # NoGuid => \A p \in inGame \ Editors : at'[p] # h
    <3>1. CASE owner[h] = NoGuid
      BY <1>2, <3>1 DEF SetOwner
    <3>2. CASE owner[h] # NoGuid
      BY <1>2, <3>2 DEF SetOwner, PutOut
    <3>. QED BY <3>1, <3>2
  <2>4. /\ sleeper' \in [Halves -> Guids \cup {NoGuid}]
        /\ bedSleepers' \in [Guids -> Halves \cup {NoBed}]
        /\ BedsAgree'
        /\ \A p \in Guids : bedSleepers[p] = NoBed => bedSleepers'[p] = NoBed
    <3>1. CASE owner[h] = NoGuid
      BY <1>2, <3>1 DEF SetOwner, BedsInv, BedsAgree
    <3>2. CASE owner[h] # NoGuid
      BY <1>2, <3>2, WakeUpKeeps DEF SetOwner, BedsInv
    <3>. QED BY <3>1, <3>2
  <2>5. AwakeOnline'
    BY <2>4 DEF BedsInv, AwakeOnline
  <2>6. InsideIsInvited'
    <3>. SUFFICES ASSUME NEW p \in inGame, at'[p] \in Houses
                  PROVE  IsInvited(owner', lists', at'[p], p)
      BY DEF InsideIsInvited
    <3>1. at'[p] = at[p] /\ p \in Guids
      BY <2>3
    <3>2. IsInvited(owner, lists, at[p], p)
      BY <3>1 DEF ListsInv, InsideIsInvited
    <3>3. CASE p \in Editors
      BY <3>3, InvitedMeans
    <3>4. CASE p \notin Editors
      <4>1. at[p] # h \/ owner[h] = NoGuid
        BY <2>3, <3>1, <3>4
      <4>2. lists'[at[p]] = lists[at[p]]
        BY <2>2, <3>1, <4>1
      <4>3. owner[at[p]] = p => owner'[at[p]] = p
        BY <2>1, <3>1, <4>1
      <4>. QED BY <3>1, <3>2, <4>2, <4>3, InvitedMeans
    <3>. QED BY <3>3, <3>4
  <2>7. ListsAreTrusted'
    <3>. SUFFICES ASSUME ~restarted, NEW g \in Houses, NEW l \in ListIds, lists'[g][l] # {}
                  PROVE  writer[g][l] \in trusted'[g]
      BY DEF ListsAreTrusted
    <3>1. (g # h \/ owner[h] = NoGuid) /\ lists'[g] = lists[g]
      BY <2>2
    <3>2. writer[g][l] \in trusted[g]
      BY <3>1 DEF ListsInv, ListsAreTrusted
    <3>. QED BY <2>1, <3>1, <3>2
  <2>8. WritersAreTrusted'
    <3>. SUFFICES ASSUME NEW g \in Houses
                  PROVE  /\ Editors \subseteq trusted'[g]
                         /\ owner'[g] # NoGuid => owner'[g] \in trusted'[g]
                         /\ ~restarted => lists'[g].subowner \subseteq trusted'[g]
      BY DEF WritersAreTrusted
    <3>1. /\ Editors \subseteq trusted[g]
          /\ owner[g] # NoGuid => owner[g] \in trusted[g]
          /\ ~restarted => lists[g].subowner \subseteq trusted[g]
      BY DEF ListsInv, WritersAreTrusted
    <3>2. CASE g # h
      BY <2>1, <2>2, <3>1, <3>2
    <3>3. CASE g = h /\ owner[h] = NoGuid
      BY <2>1, <2>2, <3>1, <3>3
    <3>4. CASE g = h /\ owner[h] # NoGuid
      <4>1. lists'[g].subowner = {}
        BY <2>2, <3>4 DEF ListIds
      <4>. QED BY <2>1, <3>4, <4>1
    <3>. QED BY <3>2, <3>3, <3>4
  <2>. QED BY <2>1, <2>2, <2>3, <2>4, <2>5, <2>6, <2>7, <2>8 DEF ListsInv
<1>. QED BY <1>1, <1>2

(* As long as owners and lists stay, only the places of players matter. *)
LEMMA ListsKept ==
  ASSUME HouseInv, UNCHANGED <<owner, lists, history>>,
         \A p \in inGame' : at'[p] \in Houses => IsInvited(owner, lists, at'[p], p)
  PROVE  ListsInv'
<1>1. InsideIsInvited'
  BY DEF InsideIsInvited
<1>2. ListsAreTrusted' /\ WritersAreTrusted'
  BY DEF history, HouseInv, ListsInv, ListsAreTrusted, WritersAreTrusted
<1>. QED BY <1>1, <1>2 DEF ListsInv

(* As long as the beds stay, nobody comes into the game awake. *)
LEMMA BedsKept ==
  ASSUME HouseInv, UNCHANGED <<sleeper, bedSleepers, saved>>, inGame' \ kicks' \subseteq inGame \ kicks
  PROVE  BedsInv'
BY DEF HouseInv, BedsInv, BedsAgree, AwakeOnline, SavedBedsAgree

(* Entering, leaving, being kicked; windows; documents that are offered or *)
(* withdrawn.                                                              *)
LEMMA VisitKeeps ==
  ASSUME HouseAssumption, HouseInv, NEW p \in Guids,
         \/ Exit(p) \/ \E h \in Houses : Enter(p, h)
         \/ \E t \in Guids : KickSpell(p, t)
  PROVE  HouseInv'
<1>. USE DEF HouseAssumption
<1>1. UNCHANGED <<house, inGame, window, beds, saved, history>>
  BY DEF Exit, Enter, KickSpell
<1>2. /\ at' \in [Guids -> Houses \cup {Street}]
      /\ \A q \in Guids : \/ at'[q] = at[q] \/ at'[q] = Street
                          \/ at'[q] \in Houses /\ IsInvited(owner, lists, at'[q], q)
  <2>1. CASE Exit(p)
    BY <2>1 DEF Exit, HouseInv, HouseTypes, HouseTypeOK
  <2>2. ASSUME NEW h \in Houses, Enter(p, h)
        PROVE  /\ at' \in [Guids -> Houses \cup {Street}]
               /\ \A q \in Guids : \/ at'[q] = at[q] \/ at'[q] = Street
                                   \/ at'[q] \in Houses /\ IsInvited(owner, lists, at'[q], q)
    BY <2>2 DEF Enter, HouseInv, HouseTypes, HouseTypeOK
  <2>3. ASSUME NEW t \in Guids, KickSpell(p, t)
        PROVE  /\ at' \in [Guids -> Houses \cup {Street}]
               /\ \A q \in Guids : at'[q] \in {at[q], Street}
    BY <2>3 DEF KickSpell, PutOut, HouseInv, HouseTypes, HouseTypeOK
  <2>. QED BY <2>1, <2>2, <2>3
<1>3. HouseTypes'
  BY <1>1, <1>2 DEF house, beds, history, HouseInv, HouseTypes, HouseTypeOK, Writers
<1>4. \A q \in inGame' : at'[q] \in Houses => IsInvited(owner, lists, at'[q], q)
  <2>1. inGame' = inGame /\ inGame \subseteq Guids /\ Street \notin Houses
    BY <1>1 DEF HouseInv, HouseTypes, HouseTypeOK
  <2>. QED BY <1>2, <2>1 DEF HouseInv, ListsInv, InsideIsInvited
<1>5. ListsInv'
  BY <1>1, <1>4, ListsKept DEF house
<1>6. BedsInv'
  BY <1>1, BedsKept DEF beds
<1>. QED BY <1>3, <1>5, <1>6 DEF HouseInv

LEMMA WindowKeeps ==
  ASSUME HouseAssumption, HouseInv, NEW p \in Guids,
         UpdateOldWindow(p) \/ \E l \in ListIds : EditList(p, l)
  PROVE  HouseInv'
<1>1. UNCHANGED <<house, at, inGame, beds, saved, history>>
  BY DEF UpdateOldWindow, EditList
<1>2. window' \in [Guids -> (Houses \X ListIds) \cup {NoWindow}]
  <2>1. PICK v : v \in (Houses \X ListIds) \cup {NoWindow} /\ window' = [window EXCEPT ![p] = v]
    BY DEF UpdateOldWindow, EditList
  <2>. QED BY <2>1 DEF HouseInv, HouseTypes, HouseTypeOK
<1>3. HouseTypes'
  BY <1>1, <1>2 DEF house, beds, history, HouseInv, HouseTypes, HouseTypeOK, Writers
<1>4. ListsInv'
  BY <1>1, ListsKept DEF house, HouseInv, ListsInv, InsideIsInvited
<1>5. BedsInv'
  BY <1>1, BedsKept DEF beds
<1>. QED BY <1>3, <1>4, <1>5 DEF HouseInv

LEMMA DocumentKeeps ==
  ASSUME HouseAssumption, HouseInv, NEW h \in Houses,
         \/ CancelTrade(h)
         \/ \E p, q \in Guids : StartTrade(p, q, h)
  PROVE  HouseInv'
<1>1. UNCHANGED <<owner, lists, at, inGame, window, beds, saved, history>>
  BY DEF CancelTrade, StartTrade
<1>2. \A g \in Houses : document'[g] \in {NoDocument} \cup [seller : inGame, buyer : inGame]
  <2>1. CASE CancelTrade(h)
    BY <2>1 DEF CancelTrade, HouseInv, HouseTypes, HouseTypeOK
  <2>2. ASSUME NEW p \in Guids, NEW q \in Guids, StartTrade(p, q, h)
        PROVE  \A g \in Houses : document'[g] \in {NoDocument} \cup [seller : inGame, buyer : inGame]
    BY <2>2 DEF StartTrade, HouseInv, HouseTypes, HouseTypeOK
  <2>. QED BY <2>1, <2>2
<1>3. HouseTypes'
  BY <1>1, <1>2 DEF beds, history, HouseInv, HouseTypes, HouseTypeOK, Writers
<1>4. ListsInv'
  BY <1>1, ListsKept DEF HouseInv, ListsInv, InsideIsInvited
<1>5. BedsInv'
  BY <1>1, BedsKept DEF beds
<1>. QED BY <1>3, <1>4, <1>5 DEF HouseInv

(* Buying, leaving and handing over a house. *)
LEMMA OwnerKeeps ==
  ASSUME HouseAssumption, HouseInv, NEW h \in Houses,
         \/ \E p \in Guids : BuyHouse(p, h) \/ LeaveHouse(p, h)
         \/ TransferHouse(h)
  PROVE  HouseInv'
<1>1. UNCHANGED <<inGame, window, kicks, saved, writer, restarted>>
  BY DEF BuyHouse, LeaveHouse, TransferHouse
<1>2. /\ \E q \in Guids \cup {NoGuid} : SetOwner(h, q)
      /\ \A g \in Houses : document'[g] \in {NoDocument} \cup [seller : inGame, buyer : inGame]
  <2>1. CASE \E p \in Guids : BuyHouse(p, h) \/ LeaveHouse(p, h)
    BY <2>1 DEF BuyHouse, LeaveHouse, HouseInv, HouseTypes, HouseTypeOK
  <2>2. CASE TransferHouse(h)
    <3>1. document[h].buyer \in Guids
      BY <2>2 DEF TransferHouse, HouseInv, HouseTypes, HouseTypeOK
    <3>2. \A g \in Houses : document'[g] \in {NoDocument} \cup [seller : inGame, buyer : inGame]
      BY <2>2 DEF TransferHouse, HouseInv, HouseTypes, HouseTypeOK
    <3>. QED BY <2>2, <3>1, <3>2 DEF TransferHouse
  <2>. QED BY <2>1, <2>2
<1>3. /\ owner' \in [Houses -> Guids \cup {NoGuid}]
      /\ lists' \in [Houses -> [ListIds -> SUBSET Guids]]
      /\ at' \in [Guids -> Houses \cup {Street}]
      /\ trusted' \in [Houses -> SUBSET Guids]
      /\ sleeper' \in [Halves -> Guids \cup {NoGuid}]
      /\ bedSleepers' \in [Guids -> Halves \cup {NoBed}]
      /\ ListsInv' /\ BedsAgree' /\ AwakeOnline'
  BY <1>1, <1>2, SetOwnerKeeps
<1>4. HouseTypes'
  BY <1>1, <1>2, <1>3 DEF HouseInv, HouseTypes, HouseTypeOK, Writers
<1>5. SavedBedsAgree'
  BY <1>1 DEF HouseInv, BedsInv, SavedBedsAgree
<1>. QED BY <1>3, <1>4, <1>5 DEF HouseInv, BedsInv

(* A player leaves the game: its documents and its window go. *)
LEMMA LeaveKeeps ==
  ASSUME HouseAssumption, HouseInv, NEW p \in Guids, KickTask(p) \/ LeaveGame(p)
  PROVE  HouseInv'
<1>. USE DEF HouseAssumption
<1>1. /\ kicks' = kicks \ {p} /\ inGame' = inGame \ {p}
      /\ window' = [q \in Guids |-> IF q \in {p} THEN NoWindow ELSE window[q]]
      /\ document' = WithoutDocumentsOf({p})
      /\ UNCHANGED <<owner, lists, at, sleeper, bedSleepers, saved, history>>
  BY DEF KickTask, LeaveGame, RemovePlayers
<1>2. window' \in [Guids -> (Houses \X ListIds) \cup {NoWindow}]
  BY <1>1 DEF HouseInv, HouseTypes, HouseTypeOK
<1>3. ASSUME NEW h \in Houses
      PROVE  document'[h] \in {NoDocument} \cup [seller : inGame', buyer : inGame']
  <2>1. document[h] \in {NoDocument} \cup [seller : inGame, buyer : inGame]
    BY DEF HouseInv, HouseTypes, HouseTypeOK
  <2>2. document'[h] = IF {document[h].seller, document[h].buyer} \cap {p} # {} THEN NoDocument ELSE document[h]
    BY <1>1 DEF WithoutDocumentsOf
  <2>. QED BY <1>1, <2>1, <2>2
<1>4. HouseTypes'
  BY <1>1, <1>2, <1>3 DEF history, HouseInv, HouseTypes, HouseTypeOK, Writers
<1>5. ListsInv'
  BY <1>1, ListsKept DEF HouseInv, ListsInv, InsideIsInvited
<1>6. BedsInv'
  BY <1>1, BedsKept
<1>. QED BY <1>4, <1>5, <1>6 DEF HouseInv

(* Coming back: who is no longer invited does not come back into the       *)
(* house, and the bed of the player is freed.                              *)
LEMMA AppearKeeps ==
  ASSUME HouseAssumption, HouseInv, NEW p \in Guids, OnCreatureAppear(p)
  PROVE  HouseInv'
<1>. USE DEF HouseAssumption
<1>1. /\ p \notin inGame /\ inGame' = inGame \cup {p}
      /\ UNCHANGED <<owner, lists, document, window, kicks, saved, history>>
  BY DEF OnCreatureAppear, house
<1>2. /\ at' \in [Guids -> Houses \cup {Street}]
      /\ \A q \in Guids : at'[q] \in {at[q], Street}
      /\ at'[p] \in Houses => IsInvited(owner, lists, at'[p], p)
  BY DEF OnCreatureAppear, PutOut, HouseInv, HouseTypes, HouseTypeOK
<1>3. /\ sleeper' \in [Halves -> Guids \cup {NoGuid}]
      /\ bedSleepers' \in [Guids -> Halves \cup {NoBed}]
      /\ BedsAgree'
      /\ \A q \in Guids : bedSleepers[q] = NoBed => bedSleepers'[q] = NoBed
      /\ bedSleepers'[p] = NoBed
  <2>1. CASE bedSleepers[p] = NoBed
    BY <2>1 DEF OnCreatureAppear, WakeOnAppear, HouseInv, HouseTypes, HouseTypeOK, BedsInv, BedsAgree
  <2>2. CASE bedSleepers[p] # NoBed
    <3>1. WakeUp({bedSleepers[p][1]})
      BY <2>2 DEF OnCreatureAppear, WakeOnAppear
    <3>. QED BY <2>2, <3>1, WakeUpKeeps DEF HouseInv, HouseTypes, BedsInv
  <2>. QED BY <2>1, <2>2
<1>4. HouseTypes'
  <2>1. kicks' \subseteq inGame' /\ inGame' \subseteq Guids
    BY <1>1 DEF HouseInv, HouseTypes, HouseTypeOK
  <2>2. \A h \in Houses : document'[h] \in {NoDocument} \cup [seller : inGame', buyer : inGame']
    BY <1>1 DEF HouseInv, HouseTypes, HouseTypeOK
  <2>. QED BY <1>1, <1>2, <1>3, <2>1, <2>2 DEF history, HouseInv, HouseTypes, HouseTypeOK, Writers
<1>5. ListsInv'
  <2>1. ASSUME NEW q \in inGame', at'[q] \in Houses
        PROVE  IsInvited(owner, lists, at'[q], q)
    <3>1. CASE q = p
      BY <1>2, <2>1, <3>1
    <3>2. CASE q # p
      <4>1. q \in inGame /\ q \in Guids /\ at'[q] = at[q]
        BY <1>1, <1>2, <2>1, <3>2 DEF HouseInv, HouseTypes, HouseTypeOK
      <4>. QED BY <2>1, <4>1 DEF HouseInv, ListsInv, InsideIsInvited
    <3>. QED BY <3>1, <3>2
  <2>. QED BY <1>1, <2>1, ListsKept
<1>6. AwakeOnline'
  <2>1. inGame \subseteq Guids
    BY DEF HouseInv, HouseTypes, HouseTypeOK
  <2>. QED BY <1>1, <1>3, <2>1 DEF HouseInv, BedsInv, AwakeOnline
<1>7. SavedBedsAgree'
  BY <1>1 DEF HouseInv, BedsInv, SavedBedsAgree
<1>. QED BY <1>3, <1>4, <1>5, <1>6, <1>7 DEF HouseInv, BedsInv

(* Going to bed: who may act is awake and not in another bed. *)
LEMMA SleepKeeps ==
  ASSUME HouseAssumption, HouseInv, NEW p \in Guids, NEW b \in Halves, Sleep(p, b)
  PROVE  HouseInv'
<1>. USE DEF HouseAssumption
<1>1. /\ p \in inGame /\ p \notin kicks /\ sleeper[b] = NoGuid
      /\ sleeper' = [c \in Halves |-> IF c[1] = b[1] THEN p ELSE sleeper[c]]
      /\ bedSleepers' = [bedSleepers EXCEPT ![p] = b]
      /\ kicks' = kicks \cup {p}
      /\ UNCHANGED <<house, at, inGame, window, saved, history>>
  BY DEF Sleep, CanAct
<1>2. bedSleepers[p] = NoBed
  BY <1>1 DEF HouseInv, BedsInv, AwakeOnline
<1>3. HouseTypes'
  <2>1. /\ sleeper' \in [Halves -> Guids \cup {NoGuid}]
        /\ bedSleepers' \in [Guids -> Halves \cup {NoBed}]
        /\ kicks' \subseteq inGame
    BY <1>1 DEF HouseInv, HouseTypes, HouseTypeOK
  <2>. QED BY <1>1, <2>1 DEF house, history, HouseInv, HouseTypes, HouseTypeOK, Writers
<1>4. ListsInv'
  BY <1>1, ListsKept DEF house, HouseInv, ListsInv, InsideIsInvited
<1>5. \A c \in Halves : sleeper[c] # NoGuid => sleeper[c] # p /\ c[1] # b[1]
  <2>1. \A c \in Halves : sleeper[c] # NoGuid => sleeper[c] # p
    BY <1>2 DEF HouseInv, BedsInv, BedsAgree
  <2>2. \A c \in Halves : c[1] = b[1] => sleeper[c] = sleeper[b]
    <3>1. ASSUME NEW c \in Halves, c[1] = b[1]
          PROVE  sleeper[c] = sleeper[b]
      <4>1. PICK g \in BedHouses, m \in {1, 2}, n \in {1, 2} : b = <<g, m>> /\ c = <<g, n>>
        BY <3>1 DEF Halves
      <4>. QED BY <4>1 DEF HouseInv, BedsInv, BedsAgree
    <3>. QED BY <3>1
  <2>. QED BY <1>1, <2>1, <2>2
<1>6. BedsAgree'
  <2>. USE DEF HouseInv, HouseTypes, HouseTypeOK
  <2>1. \A h \in BedHouses : sleeper'[<<h, 1>>] = sleeper'[<<h, 2>>]
    <3>1. \A h \in BedHouses : /\ <<h, 1>> \in Halves /\ <<h, 2>> \in Halves
                               /\ sleeper[<<h, 1>>] = sleeper[<<h, 2>>]
      BY DEF Halves, BedsInv, BedsAgree
    <3>. QED BY <1>1, <3>1
  <2>2. ASSUME NEW c \in Halves, sleeper'[c] # NoGuid
        PROVE  bedSleepers'[sleeper'[c]] # NoBed /\ bedSleepers'[sleeper'[c]][1] = c[1]
    <3>1. CASE c[1] = b[1]
      BY <1>1, <3>1
    <3>2. CASE c[1] # b[1]
      <4>1. sleeper'[c] = sleeper[c] /\ sleeper[c] # p
        BY <1>1, <1>5, <2>2, <3>2
      <4>2. bedSleepers'[sleeper[c]] = bedSleepers[sleeper[c]]
        BY <1>1, <4>1
      <4>. QED BY <2>2, <4>1, <4>2 DEF BedsInv, BedsAgree
    <3>. QED BY <3>1, <3>2
  <2>3. ASSUME NEW q \in Guids, bedSleepers'[q] # NoBed
        PROVE  sleeper'[bedSleepers'[q]] = q
    <3>1. CASE q = p
      BY <1>1, <3>1
    <3>2. CASE q # p
      <4>1. bedSleepers'[q] = bedSleepers[q] /\ bedSleepers[q] \in Halves
        BY <1>1, <2>3, <3>2
      <4>2. sleeper[bedSleepers[q]] = q
        BY <2>3, <4>1 DEF BedsInv, BedsAgree
      <4>3. bedSleepers[q][1] # b[1]
        BY <1>5, <4>1, <4>2
      <4>. QED BY <1>1, <4>1, <4>2, <4>3
    <3>. QED BY <3>1, <3>2
  <2>. QED BY <2>1, <2>2, <2>3 DEF BedsAgree
<1>7. AwakeOnline'
  <2>1. \A q \in Guids : q # p => bedSleepers'[q] = bedSleepers[q]
    BY <1>1
  <2>2. inGame \subseteq Guids
    BY DEF HouseInv, HouseTypes, HouseTypeOK
  <2>. QED BY <1>1, <2>1, <2>2 DEF HouseInv, BedsInv, AwakeOnline
<1>8. SavedBedsAgree'
  BY <1>1 DEF HouseInv, BedsInv, SavedBedsAgree
<1>. QED BY <1>3, <1>4, <1>6, <1>7, <1>8 DEF HouseInv, BedsInv

(* The owner wakes up who sleeps in the bed of the house. *)
LEMMA WakeSleeperKeeps ==
  ASSUME HouseAssumption, HouseInv, NEW p \in Guids, NEW b \in Halves, WakeSleeper(p, b)
  PROVE  HouseInv'
<1>1. WakeUp({b[1]}) /\ UNCHANGED <<house, at, inGame, window, kicks, saved, history>>
  BY DEF WakeSleeper
<1>2. /\ sleeper' \in [Halves -> Guids \cup {NoGuid}]
      /\ bedSleepers' \in [Guids -> Halves \cup {NoBed}]
      /\ BedsAgree'
      /\ \A q \in Guids : bedSleepers[q] = NoBed => bedSleepers'[q] = NoBed
  BY <1>1, WakeUpKeeps DEF HouseInv, HouseTypes, BedsInv
<1>3. HouseTypes'
  BY <1>1, <1>2 DEF house, history, HouseInv, HouseTypes, HouseTypeOK, Writers
<1>4. ListsInv'
  BY <1>1, ListsKept DEF house, HouseInv, ListsInv, InsideIsInvited
<1>5. AwakeOnline' /\ SavedBedsAgree'
  <2>1. inGame \subseteq Guids
    BY DEF HouseInv, HouseTypes, HouseTypeOK
  <2>. QED BY <1>1, <1>2, <2>1 DEF HouseInv, BedsInv, AwakeOnline, SavedBedsAgree
<1>. QED BY <1>2, <1>3, <1>4, <1>5 DEF HouseInv, BedsInv

(* The answer to an edit window: the right is tested again, a list that is *)
(* written has a writer who was trusted, and whom it no longer invites is  *)
(* put out.                                                                *)
LEMMA UpdateKeeps ==
  ASSUME HouseAssumption, HouseInv, NEW p \in Guids, NEW text \in Texts, UpdateHouseWindow(p, text)
  PROVE  HouseInv'
<1>. USE DEF HouseAssumption
<1>1. PICK h \in Houses, l \in ListIds : window[p] = <<h, l>>
  BY DEF UpdateHouseWindow, HouseInv, HouseTypes, HouseTypeOK
<1>2. /\ window' = [window EXCEPT ![p] = NoWindow] /\ p \in inGame
      /\ UNCHANGED <<owner, document, inGame, beds, saved, restarted>>
  BY DEF UpdateHouseWindow
<1>3. window' \in [Guids -> (Houses \X ListIds) \cup {NoWindow}]
  BY <1>2 DEF HouseInv, HouseTypes, HouseTypeOK
<1>4. BedsInv'
  BY <1>2, BedsKept DEF beds
<1>5. CASE ~CanEditAccessList(h, l, p)
  <2>1. UNCHANGED <<lists, at, writer, trusted>>
    BY <1>1, <1>5 DEF UpdateHouseWindow, StillMayEdit
  <2>2. HouseTypes'
    BY <1>2, <1>3, <2>1 DEF beds, HouseInv, HouseTypes, HouseTypeOK, Writers
  <2>3. ListsInv'
    BY <1>2, <2>1, ListsKept DEF history, HouseInv, ListsInv, InsideIsInvited
  <2>. QED BY <1>4, <2>2, <2>3 DEF HouseInv
<1>6. CASE CanEditAccessList(h, l, p)
  <2>. DEFINE ls == [lists EXCEPT ![h][l] = text]
  <2>1. /\ lists' = ls /\ PutOut(Uninvited(ls, h))
        /\ writer' = [writer EXCEPT ![h][l] = p]
        /\ trusted' = [trusted EXCEPT ![h] = IF l = "subowner" THEN @ \cup text ELSE @]
    BY <1>1, <1>6 DEF UpdateHouseWindow, StillMayEdit
  <2>2. /\ ls \in [Houses -> [ListIds -> SUBSET Guids]]
        /\ \A g \in Houses, k \in ListIds : ls[g][k] = IF g = h /\ k = l THEN text ELSE lists[g][k]
        /\ \A g \in Houses : g # h => ls[g] = lists[g]
    BY DEF HouseInv, HouseTypes, HouseTypeOK
  <2>3. /\ writer' \in Writers
        /\ \A g \in Houses, k \in ListIds : writer'[g][k] = IF g = h /\ k = l THEN p ELSE writer[g][k]
    BY <2>1 DEF HouseInv, HouseTypes, Writers
  <2>4. /\ trusted' \in [Houses -> SUBSET Guids]
        /\ \A g \in Houses : trusted[g] \subseteq trusted'[g]
        /\ l = "subowner" => text \subseteq trusted'[h]
    <3>. DEFINE t == IF l = "subowner" THEN trusted[h] \cup text ELSE trusted[h]
    <3>1. trusted' = [trusted EXCEPT ![h] = t]
      BY <2>1
    <3>2. trusted[h] \subseteq t /\ t \subseteq Guids /\ (l = "subowner" => text \subseteq t)
      BY DEF HouseInv, HouseTypes
    <3>. HIDE DEF t
    <3>. QED BY <3>1, <3>2 DEF HouseInv, HouseTypes
  <2>. HIDE DEF ls
  <2>5. /\ at' \in [Guids -> Houses \cup {Street}]
        /\ \A q \in Guids : at'[q] = IF q \in Uninvited(ls, h) THEN Street ELSE at[q]
    BY <2>1 DEF PutOut, HouseInv, HouseTypes, HouseTypeOK
  <2>6. HouseTypes'
    BY <1>2, <1>3, <2>1, <2>2, <2>3, <2>4, <2>5 DEF beds, HouseInv, HouseTypes, HouseTypeOK
  <2>7. InsideIsInvited'
    <3>. SUFFICES ASSUME NEW q \in inGame, at'[q] \in Houses
                  PROVE  IsInvited(owner, ls, at'[q], q)
      BY <1>2, <2>1 DEF InsideIsInvited
    <3>1. q \in Guids
      BY DEF HouseInv, HouseTypes, HouseTypeOK
    <3>2. q \notin Uninvited(ls, h) /\ at'[q] = at[q]
      BY <2>5, <3>1
    <3>3. CASE at[q] = h
      <4>1. q \in Editors \/ IsInvited(owner, ls, h, q)
        BY <3>2, <3>3 DEF Uninvited
      <4>. QED BY <3>2, <3>3, <4>1, InvitedMeans
    <3>4. CASE at[q] # h
      <4>1. IsInvited(owner, lists, at[q], q)
        BY <3>2 DEF HouseInv, ListsInv, InsideIsInvited
      <4>. QED BY <2>2, <3>2, <3>4, <4>1, InvitedMeans
    <3>. QED BY <3>3, <3>4
  <2>8. ListsAreTrusted'
    <3>. SUFFICES ASSUME ~restarted, NEW g \in Houses, NEW k \in ListIds, ls[g][k] # {}
                  PROVE  writer'[g][k] \in trusted'[g]
      BY <1>2, <2>1 DEF ListsAreTrusted
    <3>1. CASE g = h /\ k = l
      <4>1. p \in Editors \/ owner[h] = p \/ p \in lists[h].subowner
        BY <1>6, EditorsMeans
      <4>2. p \in trusted[h]
        BY <4>1 DEF HouseInv, ListsInv, WritersAreTrusted
      <4>. QED BY <2>3, <2>4, <3>1, <4>2
    <3>2. CASE ~(g = h /\ k = l)
      BY <2>2, <2>3, <2>4, <3>2 DEF HouseInv, ListsInv, ListsAreTrusted
    <3>. QED BY <3>1, <3>2
  <2>9. WritersAreTrusted'
    <3>. SUFFICES ASSUME NEW g \in Houses
                  PROVE  /\ Editors \subseteq trusted'[g]
                         /\ owner[g] # NoGuid => owner[g] \in trusted'[g]
                         /\ ~restarted => ls[g].subowner \subseteq trusted'[g]
      BY <1>2, <2>1 DEF WritersAreTrusted
    <3>1. /\ Editors \subseteq trusted[g]
          /\ owner[g] # NoGuid => owner[g] \in trusted[g]
          /\ ~restarted => lists[g].subowner \subseteq trusted[g]
      BY DEF HouseInv, ListsInv, WritersAreTrusted
    <3>2. ls[g]["subowner"] = IF g = h /\ "subowner" = l THEN text ELSE lists[g]["subowner"]
      BY <2>2 DEF ListIds
    <3>. QED BY <2>4, <3>1, <3>2
  <2>. QED BY <1>4, <2>6, <2>7, <2>8, <2>9 DEF HouseInv, ListsInv
<1>. QED BY <1>5, <1>6

LEMMA SaveKeeps ==
  ASSUME HouseAssumption, HouseInv, Save
  PROVE  HouseInv'
<1>1. /\ saved' = [lists |-> lists, writer |-> writer, sleeper |-> sleeper]
      /\ UNCHANGED <<house, at, inGame, window, beds, history>>
  BY DEF Save
<1>2. saved'.lists = lists /\ saved'.writer = writer /\ saved'.sleeper = sleeper
  BY <1>1
<1>3. HouseTypes'
  BY <1>1, <1>2 DEF house, beds, history, HouseInv, HouseTypes, HouseTypeOK, Writers
<1>4. ListsInv'
  BY <1>1, ListsKept DEF house, HouseInv, ListsInv, InsideIsInvited
<1>5. BedsAgree' /\ AwakeOnline'
  BY <1>1 DEF beds, HouseInv, BedsInv, BedsAgree, AwakeOnline
<1>6. SavedBedsAgree'
  BY <1>2 DEF HouseInv, BedsInv, BedsAgree, SavedBedsAgree
<1>. QED BY <1>3, <1>4, <1>5, <1>6 DEF HouseInv, BedsInv

(* A restart: whichever half of a bed is read last, the map finds it.      *)
LEMMA CrashKeeps ==
  ASSUME HouseAssumption, HouseInv, Crash
  PROVE  HouseInv'
<1>. USE DEF HouseAssumption
<1>1. /\ lists' = saved.lists /\ writer' = saved.writer /\ sleeper' = saved.sleeper
      /\ document' = [h \in Houses |-> NoDocument]
      /\ inGame' = {} /\ kicks' = {} /\ window' = [p \in Guids |-> NoWindow]
      /\ restarted' = TRUE
      /\ UNCHANGED <<owner, at, saved, trusted>>
  BY DEF Crash
<1>2. PICK half \in {1, 2} :
        bedSleepers' = [p \in Guids |->
          LET bed == {b \in Halves : saved.sleeper[b] = p /\ b[2] = half}
          IN  IF bed = {} THEN NoBed ELSE CHOOSE b \in bed : TRUE]
  BY DEF Crash
<1>3. ASSUME NEW p \in Guids
      PROVE  \/ /\ bedSleepers'[p] = NoBed
                /\ \A b \in Halves : saved.sleeper[b] = p => b[2] # half
             \/ bedSleepers'[p] \in Halves /\ saved.sleeper[bedSleepers'[p]] = p
  <2>. DEFINE bed == {b \in Halves : saved.sleeper[b] = p /\ b[2] = half}
  <2>1. bedSleepers'[p] = IF bed = {} THEN NoBed ELSE CHOOSE b \in bed : TRUE
    BY <1>2
  <2>2. CASE bed = {}
    BY <2>1, <2>2
  <2>3. CASE bed # {}
    <3>1. (CHOOSE b \in bed : TRUE) \in bed
      BY <2>3
    <3>. QED BY <2>1, <2>3, <3>1
  <2>. QED BY <2>2, <2>3
<1>4. bedSleepers' \in [Guids -> Halves \cup {NoBed}]
  <2>1. \A p \in Guids : bedSleepers'[p] \in Halves \cup {NoBed}
    BY <1>3
  <2>2. \E f : bedSleepers' = [p \in Guids |-> f[p]]
    <3>1. bedSleepers' = [p \in Guids |-> bedSleepers'[p]]
      BY <1>2
    <3>. QED BY <3>1
  <2>. QED BY <2>1, <2>2
<1>5. BedsAgree'
  <2>1. \A h \in BedHouses : sleeper'[<<h, 1>>] = sleeper'[<<h, 2>>]
    BY <1>1 DEF HouseInv, BedsInv, SavedBedsAgree
  <2>2. ASSUME NEW b \in Halves, sleeper'[b] # NoGuid
        PROVE  bedSleepers'[sleeper'[b]] # NoBed /\ bedSleepers'[sleeper'[b]][1] = b[1]
    <3>1. PICK h \in BedHouses, m \in {1, 2} : b = <<h, m>>
      BY DEF Halves
    <3>2. saved.sleeper[b] \in Guids
      BY <1>1, <2>2 DEF HouseInv, HouseTypes, HouseTypeOK
    <3>3. /\ <<h, half>> \in Halves /\ saved.sleeper[<<h, half>>] = saved.sleeper[b]
      BY <3>1 DEF Halves, HouseInv, BedsInv, SavedBedsAgree
    <3>4. <<h, half>>[2] = half
      OBVIOUS
    <3>5. /\ bedSleepers'[saved.sleeper[b]] \in Halves
          /\ saved.sleeper[bedSleepers'[saved.sleeper[b]]] = saved.sleeper[b]
      BY <1>3, <3>2, <3>3, <3>4
    <3>6. bedSleepers'[saved.sleeper[b]][1] = b[1]
      BY <1>1, <2>2, <3>5 DEF HouseInv, BedsInv, SavedBedsAgree
    <3>. QED BY <1>1, <3>5, <3>6
  <2>3. \A p \in Guids : bedSleepers'[p] # NoBed => sleeper'[bedSleepers'[p]] = p
    BY <1>1, <1>3
  <2>. QED BY <2>1, <2>2, <2>3 DEF BedsAgree
<1>6. HouseTypes'
  <2>1. /\ owner' \in [Houses -> Guids \cup {NoGuid}]
        /\ lists' \in [Houses -> [ListIds -> SUBSET Guids]]
        /\ at' \in [Guids -> Houses \cup {Street}]
        /\ trusted' \in [Houses -> SUBSET Guids]
        /\ writer' \in Writers /\ saved'.writer \in Writers
        /\ saved'.lists \in [Houses -> [ListIds -> SUBSET Guids]]
        /\ saved'.sleeper \in [Halves -> Guids \cup {NoGuid}]
        /\ sleeper' \in [Halves -> Guids \cup {NoGuid}]
    BY <1>1 DEF HouseInv, HouseTypes, HouseTypeOK
  <2>2. /\ kicks' \subseteq inGame' /\ inGame' \subseteq Guids
        /\ window' \in [Guids -> (Houses \X ListIds) \cup {NoWindow}]
        /\ \A h \in Houses : document'[h] \in {NoDocument} \cup [seller : inGame', buyer : inGame']
        /\ restarted' \in BOOLEAN
    BY <1>1
  <2>. QED BY <1>4, <2>1, <2>2 DEF HouseTypes, HouseTypeOK
<1>7. ListsInv'
  BY <1>1 DEF HouseInv, ListsInv, InsideIsInvited, ListsAreTrusted, WritersAreTrusted
<1>8. AwakeOnline' /\ SavedBedsAgree'
  BY <1>1 DEF HouseInv, BedsInv, AwakeOnline, SavedBedsAgree
<1>. QED BY <1>5, <1>6, <1>7, <1>8 DEF HouseInv, BedsInv

-----------------------------------------------------------------------------
(* All houses are free, nobody sleeps, everybody is in the street. *)
LEMMA HouseInitHolds == ASSUME HouseAssumption, HouseInit PROVE HouseInv
<1>. USE DEF HouseAssumption, HouseInit
<1>1. saved.lists = lists /\ saved.writer = writer /\ saved.sleeper = sleeper
  OBVIOUS
<1>2. HouseTypeOK
  BY <1>1 DEF HouseTypeOK
<1>3. HouseTypes
  BY <1>1, <1>2 DEF HouseTypes, Writers
<1>4. ListsInv
  BY DEF ListsInv, InsideIsInvited, ListsAreTrusted, WritersAreTrusted, ListIds
<1>5. \A h \in BedHouses, n \in {1, 2} : <<h, n>> \in Halves
  BY DEF Halves
<1>6. BedsInv
  BY <1>1, <1>5 DEF BedsInv, BedsAgree, AwakeOnline, SavedBedsAgree
<1>. QED BY <1>3, <1>4, <1>6 DEF HouseInv

(* Every handler keeps the inductive invariant. *)
LEMMA HouseNextKeeps == ASSUME HouseAssumption, HouseInv, [HouseNext]_houseVars PROVE HouseInv'
<1>1. CASE HouseNext
  BY <1>1, VisitKeeps, WindowKeeps, DocumentKeeps, OwnerKeeps, LeaveKeeps, AppearKeeps, SleepKeeps,
     WakeSleeperKeeps, UpdateKeeps, SaveKeeps, CrashKeeps DEF HouseNext
<1>2. CASE UNCHANGED houseVars
  BY <1>2 DEF houseVars, house, beds, history, HouseInv, HouseTypes, HouseTypeOK, Writers, ListsInv,
              InsideIsInvited, ListsAreTrusted, WritersAreTrusted, IsInvited, AccessLevel, BedsInv,
              BedsAgree, AwakeOnline, SavedBedsAgree
<1>. QED BY <1>1, <1>2

(* The inductive invariant of houses and beds. *)
THEOREM HouseSafety == ASSUME HouseAssumption PROVE HouseSpec => []HouseInv
<1>1. HouseInit => HouseInv
  BY HouseInitHolds
<1>2. HouseInv /\ [HouseNext]_houseVars => HouseInv'
  BY HouseNextKeeps
<1>. QED BY <1>1, <1>2, PTL DEF HouseSpec

(* setOwner(), setAccessList(), the late answer to an edit window, a sale, *)
(* a login after the house was sold: who is inside is invited, and every   *)
(* list was written by somebody the owner trusted, for any number of       *)
(* houses and players.                                                     *)
THEOREM HousesStayPrivate == ASSUME HouseAssumption PROVE HouseSpec => []HousesArePrivate
<1>1. HouseInv => HousesArePrivate
  BY DEF HouseInv, HouseTypes, ListsInv, HousesArePrivate
<1>. QED BY <1>1, HouseSafety, PTL

(* BedItem::sleep() and wakeUp(), Game::bedSleepersMap and the scheduled   *)
(* kick agree after every handler, and after a restart from whatever was   *)
(* saved: no bed is taken by a player whom no login can wake.              *)
THEOREM SleepersStayAgreed == ASSUME HouseAssumption PROVE HouseSpec => []SleepersAgree
<1>1. HouseInv => SleepersAgree
  BY DEF HouseInv, BedsInv, SleepersAgree
<1>. QED BY <1>1, HouseSafety, PTL
-----------------------------------------------------------------------------
(* The entries that the lists have for an item, added up.                  *)
IsSum(s, f, k) == s = [n \in 0..k |-> IF n = 0 THEN 0 ELSE s[n - 1] + f[n - 1]]

LEMMA SumExists ==
  ASSUME NEW f, NEW k \in Nat
  PROVE  \E s : IsSum(s, f, k)
<1>. DEFINE G == {n \in Nat : \E s : IsSum(s, f, n)}
<1>1. 0 \in G
  <2>1. IsSum([n \in 0..0 |-> 0], f, 0)
    BY DEF IsSum
  <2>. QED BY <2>1
<1>2. ASSUME NEW n \in Nat, n \in G
      PROVE  n + 1 \in G
  <2>1. PICK s : IsSum(s, f, n)
    BY <1>2
  <2>. DEFINE last == s[n] + f[n]
              longer == [x \in 0..n + 1 |-> IF x <= n THEN s[x] ELSE last]
  <2>2. (\A x \in 0..n : longer[x] = s[x]) /\ longer[n + 1] = last
    OBVIOUS
  <2>3. \A x \in 0..n + 1 : longer[x] = IF x = 0 THEN 0 ELSE longer[x - 1] + f[x - 1]
    <3>. HIDE DEF longer
    <3>1. ASSUME NEW x \in 0..n + 1, x <= n
          PROVE  longer[x] = IF x = 0 THEN 0 ELSE longer[x - 1] + f[x - 1]
      <4>1. x \in 0..n /\ (x # 0 => x - 1 \in 0..n)
        BY <3>1
      <4>2. s[x] = IF x = 0 THEN 0 ELSE s[x - 1] + f[x - 1]
        BY <4>1, <2>1 DEF IsSum
      <4>. QED BY <4>1, <4>2, <2>2
    <3>2. longer[n] = s[n] /\ (n + 1) - 1 = n /\ n + 1 # 0
      BY <2>2
    <3>3. \A x \in 0..n + 1 : x <= n \/ x = n + 1
      OBVIOUS
    <3>. QED BY <3>1, <3>2, <3>3, <2>2
  <2>4. longer = [x \in 0..n + 1 |-> longer[x]]
    OBVIOUS
  <2>5. IsSum(longer, f, n + 1)
    <3>. HIDE DEF longer
    <3>. QED BY <2>3, <2>4 DEF IsSum
  <2>. QED BY <2>5
<1>3. G = Nat
  <2>. HIDE DEF G
  <2>1. G \subseteq Nat
    BY DEF G
  <2>. QED BY <1>1, <1>2, <2>1, SetInduction
<1>. QED BY <1>3

(* What the recursive function of InBuckets() computes, bucket by bucket.  *)
Sums(s, f) == /\ s[0] = 0
              /\ \A n \in 0..Buckets - 1 : s[n + 1] = s[n] + f[n]
              /\ InBuckets(f) = s[Buckets]

LEMMA SumUnfolds ==
  ASSUME DecayAssumption, NEW f
  PROVE  \E s : Sums(s, f)
<1>. DEFINE s == CHOOSE g : g = [n \in 0..Buckets |-> IF n = 0 THEN 0 ELSE g[n - 1] + f[n - 1]]
<1>1. Buckets \in Nat \ {0}
  BY DEF DecayAssumption
<1>2. IsSum(s, f, Buckets)
  <2>1. \E g : IsSum(g, f, Buckets)
    BY <1>1, SumExists
  <2>. QED BY <2>1 DEF IsSum
<1>3. InBuckets(f) = s[Buckets]
  BY DEF InBuckets
<1>. HIDE DEF s
<1>4. \A n \in 0..Buckets : s[n] = IF n = 0 THEN 0 ELSE s[n - 1] + f[n - 1]
  BY <1>2 DEF IsSum
<1>5. s[0] = 0
  BY <1>1, <1>4
<1>6. ASSUME NEW n \in 0..Buckets - 1 PROVE s[n + 1] = s[n] + f[n]
  <2>1. n + 1 \in 0..Buckets /\ n + 1 # 0 /\ (n + 1) - 1 = n
    BY <1>1
  <2>. QED BY <2>1, <1>4
<1>7. Sums(s, f)
  BY <1>3, <1>5, <1>6 DEF Sums
<1>. QED BY <1>7

(* No bucket has more entries than all of them, and a sum is a number.     *)
LEMMA SumBounds ==
  ASSUME DecayAssumption, NEW f \in [BucketIds -> Nat]
  PROVE  InBuckets(f) \in Nat /\ \A b \in BucketIds : f[b] <= InBuckets(f)
<1>1. Buckets \in Nat \ {0}
  BY DEF DecayAssumption
<1>2. PICK s : Sums(s, f)
  BY SumUnfolds
<1>. DEFINE G == {n \in Nat : n <= Buckets => s[n] \in Nat /\ \A b \in BucketIds : b < n => f[b] <= s[n]}
<1>3. 0 \in G
  BY <1>2 DEF Sums, BucketIds
<1>4. ASSUME NEW n \in Nat, n \in G PROVE n + 1 \in G
  <2>. SUFFICES ASSUME n + 1 <= Buckets
                PROVE  s[n + 1] \in Nat /\ \A b \in BucketIds : b < n + 1 => f[b] <= s[n + 1]
    OBVIOUS
  <2>1. n \in 0..Buckets - 1 /\ n <= Buckets /\ n \in BucketIds
    BY <1>1 DEF BucketIds
  <2>2. s[n] \in Nat /\ f[n] \in Nat /\ s[n + 1] = s[n] + f[n]
    BY <1>2, <1>4, <2>1 DEF Sums
  <2>3. ASSUME NEW b \in BucketIds, b < n + 1 PROVE f[b] <= s[n + 1]
    <3>1. b < n \/ b = n
      BY <2>3, <1>1 DEF BucketIds
    <3>2. b < n => f[b] <= s[n]
      BY <1>4, <2>1
    <3>3. f[b] \in Nat
      OBVIOUS
    <3>. QED BY <3>1, <3>2, <3>3, <2>2
  <2>. QED BY <2>2, <2>3
<1>5. G = Nat
  <2>. HIDE DEF G
  <2>1. G \subseteq Nat
    BY DEF G
  <2>. QED BY <1>3, <1>4, <2>1, SetInduction
<1>6. Buckets \in G
  BY <1>1, <1>5
<1>7. InBuckets(f) = s[Buckets]
  BY <1>2 DEF Sums
<1>8. \A b \in BucketIds : b < Buckets
  BY <1>1 DEF BucketIds
<1>. QED BY <1>1, <1>6, <1>7, <1>8

(* One bucket gets other entries, the rest stays.                          *)
LEMMA SumChanges ==
  ASSUME DecayAssumption, NEW f \in [BucketIds -> Nat], NEW b \in BucketIds, NEW v \in Nat
  PROVE  InBuckets([f EXCEPT ![b] = v]) = InBuckets(f) - f[b] + v
<1>. DEFINE g == [f EXCEPT ![b] = v]
<1>1. Buckets \in Nat \ {0} /\ b \in 0..Buckets - 1
  BY DEF DecayAssumption, BucketIds
<1>2. g \in [BucketIds -> Nat] /\ g[b] = v /\ \A n \in BucketIds : n # b => g[n] = f[n]
  OBVIOUS
<1>. HIDE DEF g
<1>3. PICK s : Sums(s, f)
  BY SumUnfolds
<1>4. PICK r : Sums(r, g)
  BY SumUnfolds
<1>. DEFINE G == {n \in Nat : n <= Buckets => /\ s[n] \in Int
                                              /\ r[n] = s[n] + (IF n > b THEN v - f[b] ELSE 0)}
<1>5. 0 \in G
  BY <1>1, <1>3, <1>4 DEF Sums
<1>6. ASSUME NEW n \in Nat, n \in G PROVE n + 1 \in G
  <2>. SUFFICES ASSUME n + 1 <= Buckets
                PROVE  s[n + 1] \in Int /\ r[n + 1] = s[n + 1] + (IF n + 1 > b THEN v - f[b] ELSE 0)
    OBVIOUS
  <2>1. n \in 0..Buckets - 1 /\ n <= Buckets /\ n \in BucketIds
    BY <1>1 DEF BucketIds
  <2>2. s[n + 1] = s[n] + f[n] /\ r[n + 1] = r[n] + g[n]
    BY <1>3, <1>4, <2>1 DEF Sums
  <2>3. s[n] \in Int /\ r[n] = s[n] + (IF n > b THEN v - f[b] ELSE 0)
    BY <1>6, <2>1
  <2>4. f[n] \in Nat /\ f[b] \in Nat /\ g[n] = IF n = b THEN v ELSE f[n]
    BY <1>2, <2>1
  <2>. QED BY <2>2, <2>3, <2>4, <1>1
<1>7. G = Nat
  <2>. HIDE DEF G
  <2>1. G \subseteq Nat
    BY DEF G
  <2>. QED BY <1>5, <1>6, <2>1, SetInduction
<1>8. Buckets \in G /\ Buckets > b
  BY <1>1, <1>7
<1>9. s[Buckets] \in Int /\ r[Buckets] = s[Buckets] + (v - f[b])
  BY <1>8, <1>1
<1>10. InBuckets(f) = s[Buckets] /\ InBuckets(g) = r[Buckets] /\ f[b] \in Nat
  BY <1>3, <1>4 DEF Sums
<1>11. InBuckets(g) = InBuckets(f) - f[b] + v
  BY <1>9, <1>10
<1>. QED BY <1>11 DEF g

(* No entries, no sum. *)
LEMMA SumOfNone ==
  ASSUME DecayAssumption
  PROVE  InBuckets([b \in BucketIds |-> 0]) = 0
<1>. DEFINE f == [b \in BucketIds |-> 0]
<1>1. Buckets \in Nat \ {0} /\ BucketIds = 0..Buckets - 1
  BY DEF DecayAssumption, BucketIds
<1>2. \A b \in BucketIds : f[b] = 0
  OBVIOUS
<1>. HIDE DEF f
<1>3. PICK s : Sums(s, f)
  BY SumUnfolds
<1>. DEFINE G == {n \in Nat : n <= Buckets => s[n] = 0}
<1>4. 0 \in G
  BY <1>3 DEF Sums
<1>5. ASSUME NEW n \in Nat, n \in G PROVE n + 1 \in G
  <2>. SUFFICES ASSUME n + 1 <= Buckets PROVE s[n + 1] = 0
    OBVIOUS
  <2>1. n \in 0..Buckets - 1 /\ n <= Buckets
    BY <1>1
  <2>2. s[n + 1] = s[n] + f[n] /\ s[n] = 0 /\ f[n] = 0
    BY <1>1, <1>2, <1>3, <1>5, <2>1 DEF Sums
  <2>. QED BY <2>2
<1>6. G = Nat
  <2>. HIDE DEF G
  <2>1. G \subseteq Nat
    BY DEF G
  <2>. QED BY <1>4, <1>5, <2>1, SetInduction
<1>7. s[Buckets] = 0 /\ InBuckets(f) = s[Buckets]
  BY <1>1, <1>3, <1>6 DEF Sums
<1>. QED BY <1>7 DEF f
-----------------------------------------------------------------------------
(* The book-keeping of one item, of which `open' entries are not in a list *)
(* while checkDecay() looks at them.                                       *)
Counted(o, open) ==
  /\ o \in ItemStates
  /\ o.ref = (IF o.inWorld THEN 1 ELSE 0) + Listed(o) + o.toRelease + open
  /\ o.id = NoType <=> o.ref = 0

(* An item that no script has changed: what has a time is listed exactly   *)
(* when it is marked as decaying, and then it has time left.               *)
Tidy(o) ==
  /\ Listed(o) <= 1
  /\ o.inWorld => /\ Plain(o.id) => ~o.decaying /\ o.duration = 0
                  /\ ~Plain(o.id) => (o.decaying <=> Listed(o) = 1)
                  /\ o.decaying => o.duration > 0
                  /\ DecayTime[o.id] > 0 => o.decaying

(* The turns of checkDecay() until it looks at a bucket, and how the time  *)
(* left of an item and the place of its entry stay in step.                *)
TurnsTo(b, last) == IF b > last THEN b - last ELSE b - last + Buckets
Timed(o, last, d, a) ==
  CanDecay(o) => /\ o.toDecay = 1 => a = 0 /\ d = o.duration
                 /\ \A b \in BucketIds : o.bucket[b] = 1 =>
                      d - o.duration - a + Buckets - TurnsTo(b, last) \in -1..Buckets - 1

DecayInv ==
  /\ DecayTypeOK
  /\ \A i \in Things : Counted(game[i], 0)
  /\ \A i \in Things \ scripted : Tidy(game[i]) /\ Timed(game[i], lastBucket, due[i], age[i])

(* Entries of an item are counted once, wherever they are. *)
LEMMA ListedBounds ==
  ASSUME DecayAssumption, NEW o \in ItemStates
  PROVE  /\ Listed(o) \in Nat
         /\ \A b \in BucketIds : o.toDecay + o.bucket[b] <= Listed(o)
         /\ \A b, c \in BucketIds : b # c => o.bucket[b] + o.bucket[c] <= Listed(o)
<1>. DEFINE f == o.bucket
<1>1. f \in [BucketIds -> Nat] /\ o.toDecay \in Nat /\ Listed(o) = o.toDecay + InBuckets(f)
  BY DEF ItemStates, Listed
<1>. HIDE DEF f
<1>2. InBuckets(f) \in Nat /\ \A b \in BucketIds : f[b] <= InBuckets(f)
  BY <1>1, SumBounds
<1>3. ASSUME NEW b \in BucketIds, NEW c \in BucketIds, b # c
      PROVE  f[b] + f[c] <= InBuckets(f)
  <2>. DEFINE g == [f EXCEPT ![b] = 0]
  <2>1. g \in [BucketIds -> Nat] /\ g[c] = f[c]
    BY <1>1, <1>3
  <2>2. InBuckets(g) = InBuckets(f) - f[b] + 0
    BY <1>1, SumChanges
  <2>. HIDE DEF g
  <2>3. InBuckets(g) \in Nat /\ g[c] <= InBuckets(g)
    BY <2>1, SumBounds
  <2>4. f[b] \in Nat /\ f[c] \in Nat
    BY <1>1
  <2>. QED BY <1>2, <2>1, <2>2, <2>3, <2>4
<1>4. \A b \in BucketIds : f[b] \in Nat
  BY <1>1
<1>5. \A b \in BucketIds : o.toDecay + f[b] <= Listed(o)
  BY <1>1, <1>2, <1>4
<1>6. \A b, c \in BucketIds : b # c => f[b] + f[c] <= Listed(o)
  BY <1>1, <1>2, <1>3, <1>4
<1>. QED BY <1>1, <1>2, <1>5, <1>6 DEF f

(* Another number of entries in one bucket. *)
LEMMA ListedChanges ==
  ASSUME DecayAssumption, NEW o \in ItemStates, NEW b \in BucketIds, NEW v \in Nat,
         NEW n \in ItemStates, n.toDecay = o.toDecay, n.bucket = [o.bucket EXCEPT ![b] = v]
  PROVE  Listed(n) = Listed(o) - o.bucket[b] + v
<1>1. o.bucket \in [BucketIds -> Nat] /\ o.toDecay \in Nat
  BY DEF ItemStates
<1>2. InBuckets(n.bucket) = InBuckets(o.bucket) - o.bucket[b] + v
  BY <1>1, SumChanges
<1>3. InBuckets(o.bucket) \in Nat /\ o.bucket[b] \in Nat
  BY <1>1, SumBounds
<1>. QED BY <1>1, <1>2, <1>3 DEF Listed

(* What the operations do to the record of an item. *)
LEMMA EnlistMeans ==
  ASSUME NEW o \in ItemStates
  PROVE  /\ Enlist(o) \in ItemStates
         /\ Enlist(o).id = o.id /\ Enlist(o).inWorld = o.inWorld /\ Enlist(o).duration = o.duration
         /\ Enlist(o).decaying /\ Enlist(o).ref = o.ref + 1 /\ Enlist(o).toDecay = o.toDecay + 1
         /\ Enlist(o).toRelease = o.toRelease /\ Enlist(o).bucket = o.bucket
<1>. DEFINE r == o.ref + 1
            k == o.toDecay + 1
            dec == TRUE
            n == [o EXCEPT !.ref = r, !.decaying = dec, !.toDecay = k]
<1>1. r \in Nat /\ k \in Nat /\ dec \in BOOLEAN
  BY DEF ItemStates
<1>2. Enlist(o) = n
  BY DEF Enlist
<1>. HIDE DEF r, k, dec
<1>3. /\ n \in ItemStates
      /\ n.id = o.id /\ n.inWorld = o.inWorld /\ n.duration = o.duration /\ n.decaying = dec
      /\ n.ref = r /\ n.toDecay = k /\ n.toRelease = o.toRelease /\ n.bucket = o.bucket
  BY <1>1 DEF ItemStates
<1>. QED BY <1>2, <1>3 DEF r, k, dec

LEMMA ReleaseMeans ==
  ASSUME NEW o \in ItemStates
  PROVE  LET n == ReleaseItem(o)
         IN  /\ n \in ItemStates
             /\ n.id = o.id /\ n.inWorld = o.inWorld /\ n.duration = o.duration /\ n.decaying = o.decaying
             /\ n.ref = o.ref /\ n.toDecay = o.toDecay /\ n.toRelease = o.toRelease + 1 /\ n.bucket = o.bucket
BY DEF ReleaseItem, ItemStates

LEMMA RemoveMeans ==
  ASSUME NEW o \in ItemStates
  PROVE  LET n == InternalRemoveItem(o)
         IN  /\ n \in ItemStates
             /\ n.id = o.id /\ ~n.inWorld /\ n.duration = o.duration /\ n.decaying = o.decaying
             /\ n.ref = o.ref /\ n.toDecay = o.toDecay /\ n.toRelease = o.toRelease + 1 /\ n.bucket = o.bucket
<1>. DEFINE out == FALSE
            m == [o EXCEPT !.inWorld = out]
<1>1. out \in BOOLEAN
  OBVIOUS
<1>. HIDE DEF out
<1>2. /\ m \in ItemStates
      /\ m.id = o.id /\ m.inWorld = out /\ m.duration = o.duration /\ m.decaying = o.decaying
      /\ m.ref = o.ref /\ m.toDecay = o.toDecay /\ m.toRelease = o.toRelease /\ m.bucket = o.bucket
  BY <1>1 DEF ItemStates
<1>3. InternalRemoveItem(o) = ReleaseItem(m)
  BY DEF InternalRemoveItem, out
<1>. HIDE DEF m
<1>. QED BY <1>2, <1>3, ReleaseMeans DEF out

LEMMA SetIDMeans ==
  ASSUME DecayAssumption, NEW o \in ItemStates, o.inWorld, o.id \in ItemIds, NEW t \in ItemIds
  PROVE  LET n == SetID(o, t)
         IN  /\ n \in ItemStates
             /\ n.id = t /\ n.inWorld = o.inWorld
             /\ n.duration = IF Renews(o, t) THEN DecayTime[t] ELSE IF Plain(t) THEN 0 ELSE o.duration
             /\ n.decaying <=> o.decaying /\ ~Renews(o, t) /\ ~Plain(t)
             /\ n.ref = o.ref /\ n.toDecay = o.toDecay /\ n.toRelease = o.toRelease /\ n.bucket = o.bucket
<1>. DEFINE dec == o.decaying /\ ~Renews(o, t) /\ ~Plain(t)
            dur == IF Renews(o, t) THEN DecayTime[t] ELSE IF Plain(t) THEN 0 ELSE o.duration
            n == [o EXCEPT !.id = t, !.decaying = dec, !.duration = dur]
<1>1. dec \in BOOLEAN /\ dur \in Nat
  BY DEF ItemStates, DecayAssumption, Renews, Plain
<1>2. SetID(o, t) = n
  BY DEF SetID
<1>. HIDE DEF dec, dur
<1>3. /\ n \in ItemStates
      /\ n.id = t /\ n.inWorld = o.inWorld /\ n.duration = dur /\ n.decaying = dec
      /\ n.ref = o.ref /\ n.toDecay = o.toDecay /\ n.toRelease = o.toRelease /\ n.bucket = o.bucket
  BY <1>1 DEF ItemStates
<1>. QED BY <1>2, <1>3 DEF dec, dur

-----------------------------------------------------------------------------
(* The counters, whatever scripts do. *)
LEMMA SmallQuotient ==
  ASSUME NEW k \in Nat, NEW m \in Nat \ {0}, k < m
  PROVE  k \div m = 0
OBVIOUS

LEMMA SmallRemainder ==
  ASSUME NEW k \in Nat, NEW m \in Nat \ {0}
  PROVE  k % m \in 0..m - 1 /\ (k < m => k % m = k) /\ (k = m => k % m = 0)
OBVIOUS

LEMMA QuotientIsNumber ==
  ASSUME NEW k \in Nat, NEW m \in Nat \ {0}
  PROVE  k \div m \in Nat
OBVIOUS

LEMMA BucketsExist ==
  ASSUME DecayAssumption, NEW o \in ItemStates, NEW last \in BucketIds
  PROVE  /\ BucketFor(o, last) \in BucketIds /\ NewBucket(last, o.duration) \in BucketIds
         /\ (last + 1) % Buckets \in BucketIds
<1>1. Buckets \in Nat \ {0} /\ o.duration \in Nat /\ last \in Nat /\ last < Buckets
  BY DEF DecayAssumption, ItemStates, BucketIds
<1>2. o.duration \div Cycle \in Nat /\ (2 * o.duration + 1) \div (2 * Cycle) \in Nat
  <2>1. 2 * o.duration + 1 \in Nat /\ 2 * Cycle \in Nat \ {0} /\ Cycle \in Nat \ {0}
    BY <1>1 DEF Cycle
  <2>. QED BY <1>1, <2>1, QuotientIsNumber
<1>3. \A k \in Nat : k % Buckets \in BucketIds
  BY <1>1, SmallRemainder DEF BucketIds
<1>4. last + 1 \in Nat /\ last + 1 + o.duration \div Cycle \in Nat
      /\ last + ((2 * o.duration + 1) \div (2 * Cycle)) \in Nat
  BY <1>1, <1>2
<1>. QED BY <1>3, <1>4 DEF BucketFor, NewBucket

LEMMA CountedMeans ==
  ASSUME DecayAssumption, NEW o, NEW open \in Nat, Counted(o, open)
  PROVE  /\ o \in ItemStates /\ Listed(o) \in Nat /\ o.ref \in Nat /\ o.toRelease \in Nat /\ o.toDecay \in Nat
         /\ o.inWorld \in BOOLEAN /\ o.decaying \in BOOLEAN /\ o.duration \in Nat
         /\ o.inWorld => o.id \in ItemIds /\ o.ref > 0
         /\ o.bucket \in [BucketIds -> Nat]
<1>1. o \in ItemStates
  BY DEF Counted
<1>2. Listed(o) \in Nat
  BY <1>1, ListedBounds
<1>3. /\ o.ref \in Nat /\ o.toRelease \in Nat /\ o.toDecay \in Nat /\ o.inWorld \in BOOLEAN
      /\ o.decaying \in BOOLEAN /\ o.duration \in Nat /\ o.id \in ItemIds \cup {NoType}
      /\ o.bucket \in [BucketIds -> Nat]
  BY <1>1 DEF ItemStates
<1>4. o.inWorld => o.ref > 0
  BY <1>2, <1>3 DEF Counted
<1>. QED BY <1>1, <1>2, <1>3, <1>4 DEF Counted

LEMMA EnlistCounts ==
  ASSUME DecayAssumption, NEW o, NEW open \in Nat, Counted(o, open), o.inWorld
  PROVE  Counted(Enlist(o), open) /\ Listed(Enlist(o)) = Listed(o) + 1
<1>1. /\ o \in ItemStates /\ Listed(o) \in Nat /\ o.ref \in Nat /\ o.toRelease \in Nat /\ o.toDecay \in Nat
      /\ o.id \in ItemIds /\ o.bucket \in [BucketIds -> Nat]
  BY CountedMeans
<1>. DEFINE n == Enlist(o)
<1>2. /\ n \in ItemStates /\ n.id = o.id /\ n.inWorld = o.inWorld /\ n.ref = o.ref + 1
      /\ n.toDecay = o.toDecay + 1 /\ n.toRelease = o.toRelease /\ n.bucket = o.bucket
  BY <1>1, EnlistMeans
<1>. HIDE DEF n
<1>3. InBuckets(o.bucket) \in Nat
  BY <1>1, SumBounds
<1>4. Listed(n) = Listed(o) + 1
  BY <1>1, <1>2, <1>3 DEF Listed
<1>5. Counted(n, open)
  BY <1>1, <1>2, <1>4 DEF Counted, DecayAssumption
<1>. QED BY <1>4, <1>5 DEF n

LEMMA RemoveCounts ==
  ASSUME DecayAssumption, NEW o, NEW open \in Nat, Counted(o, open), o.inWorld
  PROVE  Counted(InternalRemoveItem(o), open) /\ Listed(InternalRemoveItem(o)) = Listed(o)
<1>1. /\ o \in ItemStates /\ Listed(o) \in Nat /\ o.ref \in Nat /\ o.toRelease \in Nat
  BY CountedMeans
<1>. DEFINE n == InternalRemoveItem(o)
<1>2. /\ n \in ItemStates /\ n.id = o.id /\ ~n.inWorld /\ n.ref = o.ref
      /\ n.toDecay = o.toDecay /\ n.toRelease = o.toRelease + 1 /\ n.bucket = o.bucket
  BY <1>1, RemoveMeans
<1>. HIDE DEF n
<1>3. Listed(n) = Listed(o)
  BY <1>2 DEF Listed
<1>4. Counted(n, open)
  BY <1>1, <1>2, <1>3 DEF Counted
<1>. QED BY <1>3, <1>4 DEF n

LEMMA ReleaseCounts ==
  ASSUME DecayAssumption, NEW o, NEW open \in Nat, Counted(o, open + 1)
  PROVE  Counted(ReleaseItem(o), open) /\ Listed(ReleaseItem(o)) = Listed(o)
<1>1. /\ o \in ItemStates /\ Listed(o) \in Nat /\ o.ref \in Nat /\ o.toRelease \in Nat
  BY CountedMeans
<1>. DEFINE n == ReleaseItem(o)
<1>2. /\ n \in ItemStates /\ n.id = o.id /\ n.inWorld = o.inWorld /\ n.ref = o.ref
      /\ n.toDecay = o.toDecay /\ n.toRelease = o.toRelease + 1 /\ n.bucket = o.bucket
  BY <1>1, ReleaseMeans
<1>. HIDE DEF n
<1>3. Listed(n) = Listed(o)
  BY <1>2 DEF Listed
<1>4. Counted(n, open)
  BY <1>1, <1>2, <1>3 DEF Counted
<1>. QED BY <1>3, <1>4 DEF n

LEMMA SetIDCounts ==
  ASSUME DecayAssumption, NEW o, NEW open \in Nat, Counted(o, open), o.inWorld, NEW t \in ItemIds
  PROVE  Counted(SetID(o, t), open) /\ Listed(SetID(o, t)) = Listed(o)
<1>1. /\ o \in ItemStates /\ Listed(o) \in Nat /\ o.ref \in Nat /\ o.ref > 0 /\ o.toRelease \in Nat /\ o.id \in ItemIds
  BY CountedMeans
<1>. DEFINE n == SetID(o, t)
<1>2. /\ n \in ItemStates /\ n.id = t /\ n.inWorld = o.inWorld /\ n.ref = o.ref
      /\ n.toDecay = o.toDecay /\ n.toRelease = o.toRelease /\ n.bucket = o.bucket
  BY <1>1, SetIDMeans
<1>. HIDE DEF n
<1>3. Listed(n) = Listed(o)
  BY <1>2 DEF Listed
<1>4. Counted(n, open)
  BY <1>1, <1>2, <1>3 DEF Counted, DecayAssumption
<1>. QED BY <1>3, <1>4 DEF n

LEMMA BecomeCounts ==
  ASSUME DecayAssumption, NEW o, NEW open \in Nat, Counted(o, open), o.inWorld
  PROVE  Counted(Become(o), open) /\ Listed(Become(o)) = Listed(o)
<1>1. o.id \in ItemIds
  BY CountedMeans
<1>2. CASE DecayTo[o.id] = NoType
  <2>1. Become(o) = InternalRemoveItem(o)
    BY <1>2 DEF Become
  <2>. QED BY <2>1, RemoveCounts
<1>3. CASE DecayTo[o.id] # NoType
  <2>1. Become(o) = SetID(o, DecayTo[o.id]) /\ DecayTo[o.id] \in ItemIds
    BY <1>1, <1>3 DEF Become, DecayAssumption
  <2>. QED BY <2>1, SetIDCounts
<1>. QED BY <1>2, <1>3

LEMMA StartDecayCounts ==
  ASSUME DecayAssumption, NEW o, NEW open \in Nat, Counted(o, open)
  PROVE  Counted(StartDecay(o), open)
<1>1. CASE ~MayStart(o)
  BY <1>1 DEF StartDecay
<1>2. CASE MayStart(o)
  <2>1. o.inWorld
    BY <1>2 DEF MayStart, CanDecay
  <2>2. Counted(Enlist(o), open) /\ Counted(Become(o), open)
    BY <2>1, EnlistCounts, BecomeCounts
  <2>3. MayStart(Become(o)) => Counted(Enlist(Become(o)), open)
    <3>1. MayStart(Become(o)) => Become(o).inWorld
      BY DEF MayStart, CanDecay
    <3>. QED BY <3>1, <2>2, EnlistCounts
  <2>4. StartDecay(o) \in {Enlist(o), IF MayStart(Become(o)) THEN Enlist(Become(o)) ELSE Become(o)}
    BY <1>2 DEF StartDecay
  <2>. QED BY <2>2, <2>3, <2>4
<1>. QED BY <1>1, <1>2

LEMMA InternalDecayCounts ==
  ASSUME DecayAssumption, NEW o, NEW open \in Nat, Counted(o, open), o.inWorld
  PROVE  Counted(InternalDecayItem(o), open)
<1>1. Counted(Become(o), open)
  BY BecomeCounts
<1>. QED BY <1>1, StartDecayCounts DEF InternalDecayItem

(* An entry that is put into a bucket is one that was open. *)
LEMMA PutMeans ==
  ASSUME NEW o \in ItemStates, NEW b \in BucketIds, NEW v \in Nat
  PROVE  LET n == [o EXCEPT !.bucket[b] = v]
         IN  /\ n \in ItemStates
             /\ n.id = o.id /\ n.inWorld = o.inWorld /\ n.duration = o.duration /\ n.decaying = o.decaying
             /\ n.ref = o.ref /\ n.toDecay = o.toDecay /\ n.toRelease = o.toRelease
             /\ n.bucket = [o.bucket EXCEPT ![b] = v]
<1>. DEFINE f == [o.bucket EXCEPT ![b] = v]
            n == [o EXCEPT !.bucket = f]
<1>1. f \in [BucketIds -> Nat]
  BY DEF ItemStates
<1>2. [o EXCEPT !.bucket[b] = v] = n
  BY DEF ItemStates
<1>. HIDE DEF f
<1>3. /\ n \in ItemStates
      /\ n.id = o.id /\ n.inWorld = o.inWorld /\ n.duration = o.duration /\ n.decaying = o.decaying
      /\ n.ref = o.ref /\ n.toDecay = o.toDecay /\ n.toRelease = o.toRelease /\ n.bucket = f
  BY <1>1 DEF ItemStates
<1>. QED BY <1>2, <1>3 DEF f

LEMMA BucketChangeCounts ==
  ASSUME DecayAssumption, NEW o, NEW open \in Nat, Counted(o, open), NEW b \in BucketIds, NEW v \in Nat,
         open + o.bucket[b] - v \in Nat
  PROVE  LET n == [o EXCEPT !.bucket[b] = v]
         IN  Counted(n, open + o.bucket[b] - v) /\ Listed(n) = Listed(o) - o.bucket[b] + v
<1>1. /\ o \in ItemStates /\ Listed(o) \in Nat /\ o.ref \in Nat /\ o.toRelease \in Nat /\ o.bucket[b] \in Nat
  BY CountedMeans
<1>. DEFINE n == [o EXCEPT !.bucket[b] = v]
<1>2. /\ n \in ItemStates /\ n.id = o.id /\ n.inWorld = o.inWorld /\ n.ref = o.ref
      /\ n.toDecay = o.toDecay /\ n.toRelease = o.toRelease /\ n.bucket = [o.bucket EXCEPT ![b] = v]
  BY <1>1, PutMeans
<1>. HIDE DEF n
<1>3. Listed(n) = Listed(o) - o.bucket[b] + v
  BY <1>1, <1>2, ListedChanges
<1>4. Counted(n, open + o.bucket[b] - v)
  BY <1>1, <1>2, <1>3 DEF Counted
<1>. QED BY <1>3, <1>4 DEF n

LEMMA DroppedMeans ==
  ASSUME DecayAssumption, NEW o, NEW open \in Nat, Counted(o, open + 1)
  PROVE  LET n == Dropped(o)
         IN  /\ Counted(n, open) /\ Listed(n) = Listed(o)
             /\ n.id = o.id /\ n.inWorld = o.inWorld /\ n.duration = o.duration /\ ~n.decaying
             /\ n.toDecay = o.toDecay /\ n.bucket = o.bucket
<1>. DEFINE no == FALSE
            m == [o EXCEPT !.decaying = no]
<1>1. o \in ItemStates
  BY CountedMeans
<1>2. no \in BOOLEAN /\ ~no
  OBVIOUS
<1>3. Dropped(o) = ReleaseItem(m)
  BY DEF Dropped
<1>. HIDE DEF no
<1>4. /\ m \in ItemStates
      /\ m.id = o.id /\ m.inWorld = o.inWorld /\ m.duration = o.duration /\ m.decaying = no
      /\ m.ref = o.ref /\ m.toDecay = o.toDecay /\ m.toRelease = o.toRelease /\ m.bucket = o.bucket
  BY <1>1, <1>2 DEF ItemStates
<1>. HIDE DEF m
<1>5. Listed(m) = Listed(o)
  BY <1>4 DEF Listed
<1>6. Counted(m, open + 1)
  BY <1>4, <1>5 DEF Counted
<1>7. Counted(ReleaseItem(m), open) /\ Listed(ReleaseItem(m)) = Listed(m)
  BY <1>6, ReleaseCounts
<1>8. LET n == ReleaseItem(m)
      IN  /\ n.id = m.id /\ n.inWorld = m.inWorld /\ n.duration = m.duration /\ n.decaying = m.decaying
          /\ n.toDecay = m.toDecay /\ n.bucket = m.bucket
  BY <1>4, ReleaseMeans
<1>. QED BY <1>2, <1>3, <1>4, <1>5, <1>7, <1>8

LEMMA DecreasedMeans ==
  ASSUME DecayAssumption, NEW o, NEW open \in Nat, Counted(o, open)
  PROVE  LET n == Decreased(o)
         IN  /\ Counted(n, open) /\ Listed(n) = Listed(o)
             /\ n.id = o.id /\ n.inWorld = o.inWorld /\ n.decaying = o.decaying
             /\ n.duration = IF o.duration < Cycle THEN 0 ELSE o.duration - Cycle
             /\ n.toDecay = o.toDecay /\ n.bucket = o.bucket
<1>. DEFINE left == IF o.duration < Cycle THEN 0 ELSE o.duration - Cycle
            n == [o EXCEPT !.duration = left]
<1>1. o \in ItemStates /\ Cycle \in Nat
  BY CountedMeans DEF DecayAssumption, Cycle
<1>2. left \in Nat
  BY <1>1 DEF ItemStates
<1>3. Decreased(o) = n
  BY DEF Decreased
<1>. HIDE DEF left
<1>4. /\ n \in ItemStates
      /\ n.id = o.id /\ n.inWorld = o.inWorld /\ n.duration = left /\ n.decaying = o.decaying
      /\ n.ref = o.ref /\ n.toDecay = o.toDecay /\ n.toRelease = o.toRelease /\ n.bucket = o.bucket
  BY <1>1, <1>2 DEF ItemStates
<1>. HIDE DEF n
<1>5. Listed(n) = Listed(o)
  BY <1>4 DEF Listed
<1>6. Counted(n, open)
  BY <1>4, <1>5 DEF Counted
<1>. QED BY <1>3, <1>4, <1>5, <1>6 DEF left

(* checkDecay() deals with one entry that it took out of the bucket. *)
LEMMA CheckItemCounts ==
  ASSUME DecayAssumption, NEW o, NEW open \in Nat, Counted(o, open + 1), NEW b \in BucketIds
  PROVE  Counted(CheckItem(o, b), open)
<1>1. CASE ~CanDecay(o)
  <2>1. CheckItem(o, b) = Dropped(o)
    BY <1>1 DEF CheckItem
  <2>. QED BY <2>1, DroppedMeans
<1>2. CASE CanDecay(o)
  <2>. DEFINE h == Decreased(o)
  <2>1. CheckItem(o, b) = Later(h, b)
    BY <1>2 DEF CheckItem
  <2>2. Counted(h, open + 1) /\ h.inWorld = o.inWorld
    BY DecreasedMeans
  <2>3. h.inWorld
    BY <1>2, <2>2 DEF CanDecay
  <2>. HIDE DEF h
  <2>4. h \in ItemStates /\ h.bucket \in [BucketIds -> Nat]
    BY <2>2, CountedMeans
  <2>5. NewBucket(b, h.duration) \in BucketIds
    BY <2>4, BucketsExist
  <2>6. ASSUME NEW c \in BucketIds
        PROVE  Counted([h EXCEPT !.bucket[c] = @ + 1], open)
    <3>1. h.bucket[c] \in Nat /\ h.bucket[c] + 1 \in Nat
      BY <2>4
    <3>2. (open + 1) + h.bucket[c] - (h.bucket[c] + 1) = open
      BY <3>1
    <3>. DEFINE v == h.bucket[c] + 1
    <3>3. v \in Nat /\ (open + 1) + h.bucket[c] - v \in Nat
      BY <3>1, <3>2
    <3>. HIDE DEF v
    <3>4. Counted([h EXCEPT !.bucket[c] = v], (open + 1) + h.bucket[c] - v)
      BY <2>2, <3>3, BucketChangeCounts
    <3>. QED BY <3>2, <3>4 DEF v
  <2>7. Counted(ReleaseItem(InternalDecayItem(h)), open)
    <3>1. Counted(InternalDecayItem(h), open + 1)
      BY <2>2, <2>3, InternalDecayCounts
    <3>. QED BY <3>1, ReleaseCounts
  <2>. QED BY <2>1, <2>5, <2>6, <2>7 DEF Later
<1>. QED BY <1>1, <1>2

(* The recursive function of CheckBucket() has a value for any number of   *)
(* entries.                                                                *)
IsChecked(c, e, b, k) == c = [n \in 0..k |-> IF n = 0 THEN e ELSE CheckItem(c[n - 1], b)]

LEMMA CheckedExists ==
  ASSUME NEW e, NEW b, NEW k \in Nat
  PROVE  \E c : IsChecked(c, e, b, k)
<1>. DEFINE G == {n \in Nat : \E c : IsChecked(c, e, b, n)}
<1>1. 0 \in G
  <2>1. IsChecked([n \in 0..0 |-> e], e, b, 0)
    BY DEF IsChecked
  <2>. QED BY <2>1
<1>2. ASSUME NEW n \in Nat, n \in G
      PROVE  n + 1 \in G
  <2>1. PICK c : IsChecked(c, e, b, n)
    BY <1>2
  <2>. DEFINE last == CheckItem(c[n], b)
              longer == [x \in 0..n + 1 |-> IF x <= n THEN c[x] ELSE last]
  <2>2. (\A x \in 0..n : longer[x] = c[x]) /\ longer[n + 1] = last
    <3>. HIDE DEF last
    <3>. QED OBVIOUS
  <2>3. \A x \in 0..n + 1 : longer[x] = IF x = 0 THEN e ELSE CheckItem(longer[x - 1], b)
    <3>. HIDE DEF longer
    <3>1. ASSUME NEW x \in 0..n + 1, x <= n
          PROVE  longer[x] = IF x = 0 THEN e ELSE CheckItem(longer[x - 1], b)
      <4>1. x \in 0..n /\ (x # 0 => x - 1 \in 0..n)
        BY <3>1
      <4>2. c[x] = IF x = 0 THEN e ELSE CheckItem(c[x - 1], b)
        BY <4>1, <2>1 DEF IsChecked
      <4>. QED BY <4>1, <4>2, <2>2
    <3>2. longer[n] = c[n] /\ (n + 1) - 1 = n /\ n + 1 # 0
      BY <2>2
    <3>3. \A x \in 0..n + 1 : x <= n \/ x = n + 1
      OBVIOUS
    <3>. QED BY <3>1, <3>2, <3>3, <2>2
  <2>4. longer = [x \in 0..n + 1 |-> longer[x]]
    <3>. HIDE DEF last
    <3>. QED OBVIOUS
  <2>5. IsChecked(longer, e, b, n + 1)
    <3>. HIDE DEF longer
    <3>. QED BY <2>3, <2>4 DEF IsChecked
  <2>. QED BY <2>5
<1>3. G = Nat
  <2>. HIDE DEF G
  <2>1. G \subseteq Nat
    BY DEF G
  <2>. QED BY <1>1, <1>2, <2>1, SetInduction
<1>. QED BY <1>3

(* Entry by entry, from the item without the entries of the bucket. *)
Checks(c, o, b) == /\ c[0] = [o EXCEPT !.bucket[b] = 0]
                   /\ \A n \in 0..o.bucket[b] - 1 : c[n + 1] = CheckItem(c[n], b)
                   /\ CheckBucket(o, b) = c[o.bucket[b]]

LEMMA CheckBucketUnfolds ==
  ASSUME NEW o, NEW b, o.bucket[b] \in Nat
  PROVE  \E c : Checks(c, o, b)
<1>. DEFINE k == o.bucket[b]
            e == [o EXCEPT !.bucket[b] = 0]
            c == CHOOSE g : g = [n \in 0..k |-> IF n = 0 THEN e ELSE CheckItem(g[n - 1], b)]
<1>1. IsChecked(c, e, b, k)
  <2>1. \E g : IsChecked(g, e, b, k)
    BY CheckedExists
  <2>. QED BY <2>1 DEF IsChecked
<1>2. CheckBucket(o, b) = c[k]
  BY DEF CheckBucket
<1>. HIDE DEF c, e
<1>3. \A n \in 0..k : c[n] = IF n = 0 THEN e ELSE CheckItem(c[n - 1], b)
  BY <1>1 DEF IsChecked
<1>4. c[0] = e
  BY <1>3
<1>5. ASSUME NEW n \in 0..k - 1 PROVE c[n + 1] = CheckItem(c[n], b)
  <2>1. n + 1 \in 0..k /\ n + 1 # 0 /\ (n + 1) - 1 = n
    OBVIOUS
  <2>. QED BY <2>1, <1>3
<1>6. Checks(c, o, b)
  BY <1>2, <1>4, <1>5 DEF Checks, e
<1>. QED BY <1>6

LEMMA CheckBucketCounts ==
  ASSUME DecayAssumption, NEW o, Counted(o, 0), NEW b \in BucketIds
  PROVE  Counted(CheckBucket(o, b), 0)
<1>. DEFINE k == o.bucket[b]
<1>1. k \in Nat
  BY CountedMeans
<1>2. PICK c : Checks(c, o, b)
  BY <1>1, CheckBucketUnfolds
<1>3. CheckBucket(o, b) = c[k] /\ \A n \in 0..k - 1 : c[n + 1] = CheckItem(c[n], b)
  BY <1>2 DEF Checks
<1>4. Counted(c[0], k)
  <2>1. 0 + o.bucket[b] - 0 \in Nat /\ 0 + o.bucket[b] - 0 = k
    BY <1>1
  <2>2. Counted([o EXCEPT !.bucket[b] = 0], 0 + o.bucket[b] - 0)
    BY <2>1, BucketChangeCounts
  <2>. QED BY <2>1, <2>2, <1>2 DEF Checks
<1>. HIDE DEF k
<1>. DEFINE G == {n \in Nat : n <= k => Counted(c[n], k - n)}
<1>5. 0 \in G
  BY <1>1, <1>4
<1>6. ASSUME NEW n \in Nat, n \in G PROVE n + 1 \in G
  <2>. SUFFICES ASSUME n + 1 <= k PROVE Counted(c[n + 1], k - (n + 1))
    OBVIOUS
  <2>1. n \in 0..k - 1 /\ n <= k /\ k - (n + 1) \in Nat /\ k - n = (k - (n + 1)) + 1
    BY <1>1
  <2>2. Counted(c[n], (k - (n + 1)) + 1)
    BY <1>6, <2>1
  <2>3. c[n + 1] = CheckItem(c[n], b)
    BY <1>3, <2>1
  <2>. QED BY <2>1, <2>2, <2>3, CheckItemCounts
<1>7. G = Nat
  <2>. HIDE DEF G
  <2>1. G \subseteq Nat
    BY DEF G
  <2>. QED BY <1>5, <1>6, <2>1, SetInduction
<1>8. Counted(c[k], k - k) /\ k - k = 0
  BY <1>1, <1>7
<1>. QED BY <1>3, <1>8

(* cleanup() gives back what was released and moves what is new. *)
LEMMA CleanupMeans ==
  ASSUME DecayAssumption, NEW o, Counted(o, 0), NEW last \in BucketIds
  PROVE  LET n == Cleanup(o, last)
             b == BucketFor(o, last)
         IN  /\ Counted(n, 0) /\ Listed(n) = Listed(o) /\ b \in BucketIds
             /\ n.inWorld = o.inWorld /\ n.duration = o.duration /\ n.decaying = o.decaying
             /\ o.inWorld => n.id = o.id
             /\ n.toDecay = 0 /\ n.bucket = [o.bucket EXCEPT ![b] = o.bucket[b] + o.toDecay]
<1>. DEFINE b == BucketFor(o, last)
            v == o.bucket[b] + o.toDecay
            r == o.ref - o.toRelease
            i == IF o.ref = o.toRelease THEN NoType ELSE o.id
            m == [o EXCEPT !.bucket[b] = v]
            z == 0
            n == [m EXCEPT !.ref = r, !.id = i, !.toRelease = z, !.toDecay = z]
<1>1. /\ o \in ItemStates /\ Listed(o) \in Nat /\ o.ref \in Nat /\ o.toRelease \in Nat /\ o.toDecay \in Nat
      /\ o.bucket \in [BucketIds -> Nat] /\ o.inWorld \in BOOLEAN
  BY CountedMeans
<1>2. b \in BucketIds
  BY <1>1, BucketsExist
<1>3. v \in Nat /\ z \in Nat
  BY <1>1, <1>2
<1>4. r \in Nat /\ r = (IF o.inWorld THEN 1 ELSE 0) + Listed(o)
  BY <1>1 DEF Counted
<1>5. i \in ItemIds \cup {NoType} /\ (i = NoType <=> r = 0) /\ (o.inWorld => i = o.id)
  BY <1>1, <1>4 DEF ItemStates, Counted
<1>6. Cleanup(o, last) = n
  BY <1>1, <1>2 DEF Cleanup, ItemStates
<1>. HIDE DEF v, r, i, z
<1>7. LET p == m
      IN  /\ p \in ItemStates
          /\ p.inWorld = o.inWorld /\ p.duration = o.duration /\ p.decaying = o.decaying
          /\ p.toDecay = o.toDecay
          /\ p.bucket = [o.bucket EXCEPT ![b] = v]
  BY <1>1, <1>2, <1>3, PutMeans
<1>. HIDE DEF m, b
<1>8. /\ n \in ItemStates
      /\ n.id = i /\ n.inWorld = m.inWorld /\ n.duration = m.duration /\ n.decaying = m.decaying
      /\ n.ref = r /\ n.toDecay = z /\ n.toRelease = z /\ n.bucket = m.bucket
  BY <1>3, <1>4, <1>5, <1>7 DEF ItemStates
<1>. HIDE DEF n
<1>9. Listed(n) = Listed(o)
  <2>1. o.bucket[b] \in Nat /\ InBuckets(o.bucket) \in Nat
    BY <1>1, <1>2, SumBounds
  <2>2. InBuckets(n.bucket) = InBuckets(o.bucket) - o.bucket[b] + v
    BY <1>1, <1>2, <1>3, <1>7, <1>8, SumChanges
  <2>. QED BY <2>1, <2>2, <1>1, <1>8 DEF Listed, v, z
<1>10. Counted(n, 0)
  BY <1>1, <1>4, <1>5, <1>7, <1>8, <1>9 DEF Counted, z
<1>. QED BY <1>2, <1>5, <1>6, <1>7, <1>8, <1>9, <1>10 DEF b, v, z

-----------------------------------------------------------------------------
(* Items that scripts leave alone. *)
LEMMA DataMeans ==
  ASSUME DecayAssumption
  PROVE  /\ Buckets \in Nat \ {0} /\ Cycle = Buckets
         /\ \A t \in ItemIds : /\ DecayTime[t] \in Nat /\ StopTime[t] \in BOOLEAN
                               /\ DecayTo[t] \in ItemIds \cup {NoType}
                               /\ DecayTime[t] > 0 => ~StopTime[t] /\ DecayTo[t] # t /\ ~Plain(t)
                               /\ DecayTime[t] > 0 /\ DecayTo[t] # NoType => ~StopTime[DecayTo[t]]
                               /\ DecayTime[t] = 0 /\ ~Plain(t) => StopTime[t]
                               /\ Plain(t) <=> DecayTime[t] = 0 /\ ~StopTime[t]
         /\ \A s, t \in ItemIds : <<s, t>> \in EquipTo =>
              (DecayTime[t] > 0 => StopTime[s]) /\ (Plain(s) => Plain(t))
BY DEF DecayAssumption, Plain, Cycle

LEMMA TidyIsKept ==
  ASSUME NEW o, NEW n, Tidy(o), Listed(n) = Listed(o), n.inWorld => o.inWorld,
         n.inWorld => n.id = o.id /\ n.duration = o.duration /\ (n.decaying <=> o.decaying)
  PROVE  Tidy(n)
BY DEF Tidy

LEMMA StartTidies ==
  ASSUME DecayAssumption, NEW h, NEW open \in Nat, Counted(h, open), h.inWorld, Listed(h) = 0, ~h.decaying,
         Plain(h.id) => h.duration = 0, DecayTime[h.id] > 0 => h.duration > 0
  PROVE  LET n == StartDecay(h)
         IN  /\ Tidy(n) /\ n.id = h.id /\ n.inWorld = h.inWorld /\ n.duration = h.duration
             /\ CanDecay(h) => n.toDecay = 1
<1>1. h \in ItemStates /\ h.id \in ItemIds /\ h.toDecay \in Nat /\ h.toDecay = 0 /\ h.duration \in Nat
  <2>1. h \in ItemStates /\ h.id \in ItemIds /\ h.toDecay \in Nat /\ h.bucket \in [BucketIds -> Nat] /\ h.duration \in Nat
    BY CountedMeans
  <2>2. InBuckets(h.bucket) \in Nat
    BY <2>1, SumBounds
  <2>. QED BY <2>1, <2>2 DEF Listed
<1>2. CASE DecayTime[h.id] > 0
  <2>1. StartDecay(h) = Enlist(h)
    BY <1>2 DEF StartDecay, MayStart, CanDecay
  <2>. DEFINE n == Enlist(h)
  <2>2. /\ n.id = h.id /\ n.inWorld = h.inWorld /\ n.duration = h.duration /\ n.decaying
        /\ n.toDecay = h.toDecay + 1
    BY <1>1, EnlistMeans
  <2>3. Listed(n) = Listed(h) + 1
    BY EnlistCounts
  <2>. HIDE DEF n
  <2>4. ~Plain(h.id)
    BY <1>2 DEF Plain
  <2>5. Tidy(n)
    BY <1>2, <2>2, <2>3, <2>4 DEF Tidy
  <2>6. n.toDecay = 1
    BY <1>1, <2>2
  <2>. QED BY <2>1, <2>2, <2>5, <2>6 DEF n
<1>3. CASE ~(DecayTime[h.id] > 0)
  <2>1. ~CanDecay(h) /\ StartDecay(h) = h
    BY <1>3 DEF StartDecay, MayStart, CanDecay
  <2>2. Tidy(h)
    BY <1>3 DEF Tidy
  <2>. QED BY <2>1, <2>2
<1>. QED BY <1>2, <1>3

(* internalDecayItem() makes something else of an item, which is listed    *)
(* anew if it has a time.                                                  *)
LEMMA DecayTidies ==
  ASSUME DecayAssumption, NEW h, NEW open \in Nat, Counted(h, open), CanDecay(h), Listed(h) = 0
  PROVE  LET n == InternalDecayItem(h)
         IN  Tidy(n) /\ (CanDecay(n) => n.id # h.id /\ n.toDecay = 1)
<1>1. h \in ItemStates /\ h.inWorld /\ h.id \in ItemIds /\ DecayTime[h.id] > 0
  <2>1. h.inWorld /\ DecayTime[h.id] > 0
    BY DEF CanDecay
  <2>. QED BY <2>1, CountedMeans
<1>2. CASE DecayTo[h.id] = NoType
  <2>. DEFINE n == InternalRemoveItem(h)
  <2>1. Become(h) = n
    BY <1>2 DEF Become
  <2>2. ~n.inWorld
    BY <1>1, RemoveMeans
  <2>3. Listed(n) = Listed(h)
    BY <1>1, RemoveCounts
  <2>. HIDE DEF n
  <2>4. InternalDecayItem(h) = n /\ ~CanDecay(n)
    BY <2>1, <2>2 DEF InternalDecayItem, StartDecay, MayStart, CanDecay
  <2>5. Tidy(n)
    BY <2>2, <2>3 DEF Tidy
  <2>. QED BY <2>4, <2>5
<1>3. CASE DecayTo[h.id] # NoType
  <2>. DEFINE t == DecayTo[h.id]
              m == SetID(h, t)
  <2>1. t \in ItemIds /\ ~StopTime[h.id] /\ t # h.id /\ ~StopTime[t] /\ DecayTime[t] \in Nat
    BY <1>1, <1>3, DataMeans
  <2>. HIDE DEF t
  <2>2. /\ m.id = t /\ m.inWorld = h.inWorld
        /\ m.duration = IF Renews(h, t) THEN DecayTime[t] ELSE IF Plain(t) THEN 0 ELSE h.duration
        /\ m.decaying <=> h.decaying /\ ~Renews(h, t) /\ ~Plain(t)
    BY <1>1, <2>1, SetIDMeans
  <2>3. Counted(m, open) /\ Listed(m) = Listed(h)
    BY <1>1, <2>1, SetIDCounts
  <2>4. Become(h) = m
    BY <1>3 DEF Become, t
  <2>. HIDE DEF m
  <2>5. Renews(h, t) <=> DecayTime[t] > 0
    BY <2>1 DEF Renews
  <2>6. Plain(t) <=> ~(DecayTime[t] > 0)
    BY <2>1 DEF Plain
  <2>7. ~m.decaying /\ (Plain(m.id) => m.duration = 0) /\ (DecayTime[m.id] > 0 => m.duration > 0)
    BY <2>2, <2>5, <2>6
  <2>. DEFINE n == StartDecay(m)
  <2>8. Tidy(n) /\ n.id = m.id /\ n.inWorld = m.inWorld /\ (CanDecay(m) => n.toDecay = 1)
    BY <1>1, <2>2, <2>3, <2>7, StartTidies
  <2>9. InternalDecayItem(h) = n
    BY <2>4 DEF InternalDecayItem
  <2>. HIDE DEF n
  <2>10. CanDecay(n) => CanDecay(m)
    BY <2>8 DEF CanDecay
  <2>. QED BY <2>1, <2>2, <2>8, <2>9, <2>10
<1>. QED BY <1>2, <1>3

(* What checkDecay() makes of the only entry of an item: it stays for      *)
(* another cycle, it is dropped, or the item decays.                       *)
LEMMA OneIsChecked ==
  ASSUME DecayAssumption, NEW o, Counted(o, 0), Tidy(o), NEW b \in BucketIds, o.bucket[b] = 1
  PROVE  LET r == CheckBucket(o, b)
         IN  /\ Tidy(r)
             /\ CanDecay(r) => /\ CanDecay(o)
                               /\ \/ /\ r.id = o.id /\ r.duration = o.duration - Buckets
                                     /\ r.toDecay = 0 /\ r.bucket[b] = 1
                                  \/ r.id # o.id /\ r.toDecay = 1
<1>. DEFINE e == [o EXCEPT !.bucket[b] = 0]
            r == CheckItem(e, b)
<1>1. o \in ItemStates /\ o.bucket \in [BucketIds -> Nat] /\ Listed(o) \in Nat /\ o.duration \in Nat
  BY CountedMeans
<1>2. Buckets \in Nat \ {0} /\ Cycle = Buckets
  BY DataMeans
<1>3. CheckBucket(o, b) = r
  <2>1. PICK c : Checks(c, o, b)
    BY CheckBucketUnfolds
  <2>2. c[0] = e /\ c[0 + 1] = CheckItem(c[0], b) /\ CheckBucket(o, b) = c[1]
    BY <2>1 DEF Checks
  <2>. HIDE DEF e
  <2>. QED BY <2>2
<1>4. Counted(e, 1) /\ Listed(e) = 0
  <2>. DEFINE z == 0
  <2>1. z \in Nat /\ z + o.bucket[b] - z \in Nat /\ z + o.bucket[b] - z = 1 /\ Counted(o, z)
    OBVIOUS
  <2>. HIDE DEF z
  <2>2. Counted([o EXCEPT !.bucket[b] = z], z + o.bucket[b] - z)
        /\ Listed([o EXCEPT !.bucket[b] = z]) = Listed(o) - o.bucket[b] + z
    BY <2>1, BucketChangeCounts
  <2>4. e = [o EXCEPT !.bucket[b] = z] /\ z = 0
    BY DEF z
  <2>. HIDE DEF e
  <2>3. o.toDecay + o.bucket[b] <= Listed(o) /\ o.toDecay \in Nat
    BY <1>1, ListedBounds DEF ItemStates
  <2>. QED BY <2>1, <2>2, <2>3, <2>4, <1>1 DEF Tidy
<1>5. /\ e.id = o.id /\ e.inWorld = o.inWorld /\ e.duration = o.duration /\ e.decaying = o.decaying
      /\ e.toDecay = o.toDecay /\ e.bucket[b] = 0
  BY <1>1, PutMeans
<1>6. CanDecay(e) <=> CanDecay(o)
  BY <1>5 DEF CanDecay
<1>7. o.toDecay = 0
  <2>1. o.toDecay + o.bucket[b] <= Listed(o) /\ o.toDecay \in Nat
    BY <1>1, ListedBounds DEF ItemStates
  <2>. QED BY <2>1, <1>1 DEF Tidy
<1>. HIDE DEF e
<1>8. CASE ~CanDecay(e)
  <2>. DEFINE n == Dropped(e)
  <2>1. r = n
    BY <1>8 DEF CheckItem
  <2>2. /\ Listed(n) = Listed(e) /\ n.id = e.id /\ n.inWorld = e.inWorld /\ n.duration = e.duration /\ ~n.decaying
    BY <1>4, DroppedMeans
  <2>. HIDE DEF n
  <2>3. ~CanDecay(n)
    BY <1>8, <2>2 DEF CanDecay
  <2>4. Tidy(n)
    <3>1. n.inWorld => ~(DecayTime[n.id] > 0)
      BY <2>3 DEF CanDecay
    <3>2. n.inWorld /\ Plain(n.id) => n.duration = 0
      BY <1>5, <2>2 DEF Tidy
    <3>. QED BY <1>4, <2>2, <3>1, <3>2 DEF Tidy
  <2>. QED BY <1>3, <2>1, <2>3, <2>4
<1>9. CASE CanDecay(e)
  <2>. DEFINE h == Decreased(e)
  <2>1. /\ Counted(h, 1) /\ Listed(h) = 0 /\ h.id = e.id /\ h.inWorld = e.inWorld /\ h.decaying = e.decaying
        /\ h.duration = IF e.duration < Cycle THEN 0 ELSE e.duration - Cycle
        /\ h.toDecay = e.toDecay /\ h.bucket = e.bucket
    BY <1>4, DecreasedMeans
  <2>2. r = Later(h, b)
    BY <1>9 DEF CheckItem
  <2>. HIDE DEF h
  <2>3. h \in ItemStates /\ h.duration \in Nat /\ CanDecay(h)
    BY <1>9, <2>1, CountedMeans DEF CanDecay
  <2>4. CASE Keeps(h.duration)
    <3>. DEFINE v == h.bucket[b] + 1
                n == [h EXCEPT !.bucket[b] = v]
    <3>1. v = 1 /\ h.bucket[b] = 0
      BY <1>5, <2>1
    <3>2. r = n
      BY <2>2, <2>4 DEF Later
    <3>. HIDE DEF v
    <3>3. /\ n.id = h.id /\ n.inWorld = h.inWorld /\ n.duration = h.duration /\ n.decaying = h.decaying
          /\ n.toDecay = h.toDecay /\ n.bucket = [h.bucket EXCEPT ![b] = v]
      BY <2>3, <3>1, PutMeans
    <3>4. Listed(n) = 1
      <4>1. v \in Nat /\ 1 + h.bucket[b] - v \in Nat
        BY <3>1
      <4>2. Listed(n) = Listed(h) - h.bucket[b] + v
        BY <2>1, <4>1, BucketChangeCounts
      <4>. QED BY <4>2, <3>1, <2>1
    <3>. HIDE DEF n
    <3>5. h.duration > 0 /\ h.duration = o.duration - Buckets
      BY <1>1, <1>2, <1>5, <2>1, <2>4 DEF Keeps
    <3>6. CanDecay(o) /\ h.decaying
      BY <1>5, <1>6, <1>9, <2>1 DEF Tidy, CanDecay
    <3>7. ~Plain(n.id)
      BY <2>3, <3>3 DEF CanDecay, Plain
    <3>8. Tidy(n)
      BY <3>3, <3>4, <3>5, <3>6, <3>7 DEF Tidy
    <3>9. n.bucket[b] = 1
      <4>1. h.bucket \in [BucketIds -> Nat]
        BY <2>3 DEF ItemStates
      <4>. QED BY <3>1, <3>3, <4>1
    <3>. QED BY <1>3, <1>5, <1>7, <2>1, <3>2, <3>3, <3>5, <3>6, <3>8, <3>9
  <2>5. CASE ~Keeps(h.duration)
    <3>. DEFINE m == InternalDecayItem(h)
                n == ReleaseItem(m)
    <3>1. NewBucket(b, h.duration) = b
      <4>1. h.duration < Buckets
        BY <1>2, <2>3, <2>5 DEF Keeps
      <4>2. 2 * h.duration + 1 \in Nat /\ 2 * Cycle \in Nat \ {0} /\ 2 * h.duration + 1 < 2 * Cycle
        BY <4>1, <1>2, <2>3
      <4>3. (2 * h.duration + 1) \div (2 * Cycle) = 0
        BY <4>2, SmallQuotient
      <4>4. b \in Nat /\ b < Buckets /\ b + 0 = b
        BY <1>2 DEF BucketIds
      <4>5. b % Buckets = b
        BY <4>4, <1>2, SmallRemainder
      <4>. QED BY <4>3, <4>4, <4>5 DEF NewBucket
    <3>2. r = n
      BY <2>2, <2>5, <3>1 DEF Later
    <3>3. Tidy(m) /\ (CanDecay(m) => m.id # h.id /\ m.toDecay = 1)
      BY <2>1, <2>3, DecayTidies
    <3>4. Counted(m, 1)
      BY <2>1, <2>3, InternalDecayCounts DEF CanDecay
    <3>5. m \in ItemStates
      BY <3>4, CountedMeans
    <3>6. Listed(n) = Listed(m)
      <4>1. Counted(m, 0 + 1)
        BY <3>4
      <4>. QED BY <4>1, ReleaseCounts
    <3>. HIDE DEF m
    <3>7. n.id = m.id /\ n.inWorld = m.inWorld /\ n.duration = m.duration /\ n.decaying = m.decaying /\ n.toDecay = m.toDecay
      BY <3>5, ReleaseMeans
    <3>. HIDE DEF n
    <3>8. Tidy(n)
      BY <3>3, <3>6, <3>7, TidyIsKept
    <3>9. CanDecay(n) => CanDecay(m)
      BY <3>7 DEF CanDecay
    <3>. QED BY <1>3, <1>5, <1>6, <1>9, <2>1, <3>2, <3>3, <3>7, <3>8, <3>9
  <2>. QED BY <2>4, <2>5
<1>. QED BY <1>8, <1>9

LEMMA NoneIsChecked ==
  ASSUME DecayAssumption, NEW o, Counted(o, 0), NEW b \in BucketIds, o.bucket[b] = 0
  PROVE  CheckBucket(o, b) = o
<1>1. PICK c : Checks(c, o, b)
  BY CheckBucketUnfolds
<1>2. CheckBucket(o, b) = [o EXCEPT !.bucket[b] = 0]
  BY <1>1 DEF Checks
<1>3. o \in ItemStates
  BY CountedMeans
<1>4. [o EXCEPT !.bucket[b] = 0] = o
  BY <1>3 DEF ItemStates
<1>. QED BY <1>2, <1>4

-----------------------------------------------------------------------------
(* The clock: an entry comes a turn closer with every checkDecay(), and a  *)
(* new one is as far away as the time it has, up to a cycle.               *)
LEMMA TurnsMean ==
  ASSUME DecayAssumption, NEW last \in BucketIds
  PROVE  LET next == (last + 1) % Buckets
         IN  /\ next \in BucketIds
             /\ \A b \in BucketIds : TurnsTo(b, last) \in 1..Buckets
             /\ TurnsTo(next, last) = 1 /\ TurnsTo(last, last) = Buckets
             /\ \A b \in BucketIds \ {next} : TurnsTo(b, next) = TurnsTo(b, last) - 1
<1>. DEFINE next == (last + 1) % Buckets
<1>1. Buckets \in Nat \ {0} /\ last \in Nat /\ last < Buckets /\ BucketIds = 0..Buckets - 1
  BY DataMeans DEF BucketIds
<1>2. next = IF last + 1 < Buckets THEN last + 1 ELSE 0
  <2>1. last + 1 \in Nat /\ (last + 1 < Buckets \/ last + 1 = Buckets)
    BY <1>1
  <2>. QED BY <1>1, <2>1, SmallRemainder
<1>. HIDE DEF next
<1>3. next \in BucketIds
  BY <1>1, <1>2
<1>4. \A b \in BucketIds : TurnsTo(b, last) \in 1..Buckets
  BY <1>1 DEF TurnsTo
<1>5. TurnsTo(next, last) = 1 /\ TurnsTo(last, last) = Buckets
  BY <1>1, <1>2 DEF TurnsTo
<1>6. \A b \in BucketIds \ {next} : TurnsTo(b, next) = TurnsTo(b, last) - 1
  BY <1>1, <1>2 DEF TurnsTo
<1>. QED BY <1>3, <1>4, <1>5, <1>6 DEF next

LEMMA PlaceMeans ==
  ASSUME DecayAssumption, NEW o \in ItemStates, NEW last \in BucketIds
  PROVE  TurnsTo(BucketFor(o, last), last) = IF o.duration >= Buckets THEN Buckets ELSE 1
<1>1. Buckets \in Nat \ {0} /\ Cycle = Buckets /\ o.duration \in Nat /\ last \in Nat
  BY DataMeans DEF ItemStates, BucketIds
<1>2. TurnsTo(last, last) = Buckets /\ TurnsTo((last + 1) % Buckets, last) = 1
  BY TurnsMean
<1>3. o.duration < Buckets => o.duration \div Cycle = 0
  BY <1>1, SmallQuotient
<1>4. last + 1 + 0 = last + 1
  BY <1>1
<1>5. BucketFor(o, last) = IF o.duration >= Buckets THEN last ELSE (last + 1) % Buckets
  BY <1>1, <1>3, <1>4 DEF BucketFor
<1>. QED BY <1>2, <1>5

(* How far the place of an entry and the time left are apart. *)
InStep(o, last, d, a, b) == d - o.duration - a + Buckets - TurnsTo(b, last) \in -1..Buckets - 1

(* cleanup() puts a new entry where it belongs. *)
LEMMA CleanupTimes ==
  ASSUME DecayAssumption, NEW o, Counted(o, 0), Tidy(o), NEW last \in BucketIds, NEW d \in Nat, NEW a \in Nat,
         CanDecay(o) /\ o.toDecay = 1 => d = o.duration /\ a \in {0, 1},
         CanDecay(o) => \A b \in BucketIds : o.bucket[b] = 1 => InStep(o, last, d, a, b)
  PROVE  Tidy(Cleanup(o, last)) /\ Timed(Cleanup(o, last), last, d, a)
<1>. DEFINE n == Cleanup(o, last)
            c == BucketFor(o, last)
<1>1. /\ Listed(n) = Listed(o) /\ c \in BucketIds
      /\ n.inWorld = o.inWorld /\ n.duration = o.duration /\ n.decaying = o.decaying
      /\ o.inWorld => n.id = o.id
      /\ n.toDecay = 0 /\ n.bucket = [o.bucket EXCEPT ![c] = o.bucket[c] + o.toDecay]
  BY CleanupMeans
<1>2. TurnsTo(c, last) = IF o.duration >= Buckets THEN Buckets ELSE 1
  BY PlaceMeans, CountedMeans
<1>. HIDE DEF n, c
<1>3. Tidy(n)
  BY <1>1, TidyIsKept
<1>4. o.bucket \in [BucketIds -> Nat] /\ o.toDecay \in Nat /\ o.duration \in Nat /\ Buckets \in Nat \ {0}
  BY CountedMeans, DataMeans
<1>5. ASSUME CanDecay(n), NEW b \in BucketIds, n.bucket[b] = 1
      PROVE  d - n.duration - a + Buckets - TurnsTo(b, last) \in -1..Buckets - 1
  <2>1. CanDecay(o)
    BY <1>1, <1>5 DEF CanDecay
  <2>2. CASE o.bucket[b] = 1
    <3>1. InStep(o, last, d, a, b)
      BY <2>1, <2>2
    <3>. QED BY <3>1, <1>1 DEF InStep
  <2>3. CASE o.bucket[b] # 1
    <3>1. b = c /\ o.bucket[b] + o.toDecay = 1 /\ o.bucket[b] \in Nat
      BY <1>1, <1>4, <1>5, <2>3
    <3>2. o.toDecay = 1
      BY <3>1, <2>3, <1>4
    <3>3. d = o.duration /\ a \in {0, 1}
      BY <3>2, <2>1
    <3>4. TurnsTo(b, last) = IF o.duration >= Buckets THEN Buckets ELSE 1
      BY <3>1, <1>2
    <3>. DEFINE w == TurnsTo(b, last)
    <3>5. w = Buckets \/ w = 1
      BY <3>4
    <3>. HIDE DEF w
    <3>6. d - n.duration - a + Buckets - w = Buckets - a - w
      BY <3>3, <3>5, <1>1, <1>4
    <3>7. Buckets - a - w \in -1..Buckets - 1
      BY <3>3, <3>5, <1>4
    <3>8. d - n.duration - a + Buckets - w \in -1..Buckets - 1
      BY <3>6, <3>7
    <3>. QED BY <3>8 DEF w
  <2>. QED BY <2>2, <2>3
<1>6. Timed(n, last, d, a)
  BY <1>1, <1>5 DEF Timed
<1>. QED BY <1>3, <1>6 DEF n

-----------------------------------------------------------------------------
(* The steps. *)
LEMMA WatchTypes ==
  ASSUME DecayAssumption, DecayTypeOK, game' \in [Things -> ItemStates], NEW passed \in {0, 1}, Watch(passed)
  PROVE  due' \in [Things -> Nat] /\ age' \in [Things -> Nat]
<1>1. due \in [Things -> Nat] /\ age \in [Things -> Nat]
  BY DEF DecayTypeOK
<1>2. \A i \in Things : game'[i].duration \in Nat
  BY DEF ItemStates
<1>. QED BY <1>1, <1>2 DEF Watch

LEMMA WatchMeans ==
  ASSUME NEW passed, Watch(passed), NEW i \in Things, CanDecay(game'[i])
  PROVE  /\ due'[i] = IF Begins(i) THEN game'[i].duration ELSE due[i]
         /\ age'[i] = IF Begins(i) THEN 0 ELSE IF age[i] > due[i] + Cycle THEN age[i] ELSE age[i] + passed
         /\ Begins(i) <=> \/ ~CanDecay(game[i]) \/ game[i].id # game'[i].id
                          \/ game'[i].duration > game[i].duration
BY DEF Watch, Begins

(* One item changes, and if it can decay now it could not before. *)
LEMMA StepKeeps ==
  ASSUME DecayAssumption, DecayInv, NEW i \in Things, NEW o, Becomes(i, o), Counted(o, 0),
         scripted' \subseteq Things, scripted \subseteq scripted' \cup {i},
         i \notin scripted' => Tidy(o) /\ (CanDecay(o) => ~CanDecay(game[i]))
  PROVE  DecayInv'
<1>1. /\ game' = [game EXCEPT ![i] = o] /\ Watch(0) /\ lastBucket' = lastBucket
      /\ game \in [Things -> ItemStates] /\ lastBucket \in BucketIds
      /\ due \in [Things -> Nat] /\ age \in [Things -> Nat]
  BY DEF Becomes, DecayInv, DecayTypeOK
<1>2. o \in ItemStates
  BY CountedMeans
<1>3. game' \in [Things -> ItemStates] /\ game'[i] = o /\ \A j \in Things \ {i} : game'[j] = game[j]
  BY <1>1, <1>2
<1>4. due' \in [Things -> Nat] /\ age' \in [Things -> Nat]
  <2>1. DecayTypeOK /\ 0 \in {0, 1}
    BY DEF DecayInv
  <2>. QED BY <1>1, <1>3, <2>1, WatchTypes
<1>5. \A j \in Things : Counted(game'[j], 0)
  BY <1>3 DEF DecayInv
<1>6. ASSUME NEW j \in Things \ scripted', j # i
      PROVE  Tidy(game'[j]) /\ Timed(game'[j], lastBucket', due'[j], age'[j])
  <2>1. Tidy(game[j]) /\ Timed(game[j], lastBucket, due[j], age[j]) /\ game'[j] = game[j]
    BY <1>3, <1>6 DEF DecayInv
  <2>2. CASE ~CanDecay(game'[j])
    BY <2>1, <2>2 DEF Timed
  <2>3. CASE CanDecay(game'[j])
    <3>1. game[j].duration \in Nat /\ age[j] \in Nat
      BY <1>1 DEF ItemStates
    <3>2. ~Begins(j)
      BY <1>1, <2>1, <2>3, <3>1 DEF Begins
    <3>3. due'[j] = due[j] /\ age'[j] = age[j]
      BY <1>1, <2>3, <3>1, <3>2, WatchMeans
    <3>. QED BY <1>1, <2>1, <3>3
  <2>. QED BY <2>2, <2>3
<1>7. ASSUME i \notin scripted'
      PROVE  Tidy(game'[i]) /\ Timed(game'[i], lastBucket', due'[i], age'[i])
  <2>1. Tidy(o) /\ (CanDecay(o) => ~CanDecay(game[i]))
    BY <1>7
  <2>2. CASE ~CanDecay(o)
    BY <1>3, <2>1, <2>2 DEF Timed
  <2>3. CASE CanDecay(o)
    <3>1. due'[i] = o.duration /\ age'[i] = 0
      BY <1>1, <1>3, <2>1, <2>3, WatchMeans
    <3>2. o.duration \in Nat /\ Buckets \in Nat \ {0} /\ \A b \in BucketIds : TurnsTo(b, lastBucket) \in 1..Buckets
      BY <1>1, <1>2, TurnsMean, DataMeans DEF ItemStates
    <3>3. ASSUME NEW b \in BucketIds
          PROVE  o.duration - o.duration - 0 + Buckets - TurnsTo(b, lastBucket) \in -1..Buckets - 1
      <4>. DEFINE w == TurnsTo(b, lastBucket)
      <4>1. w \in 1..Buckets
        BY <3>2
      <4>. HIDE DEF w
      <4>2. o.duration - o.duration - 0 + Buckets - w \in -1..Buckets - 1
        BY <3>2, <4>1
      <4>. QED BY <4>2 DEF w
    <3>4. Timed(o, lastBucket, o.duration, 0)
      BY <3>3 DEF Timed
    <3>. QED BY <1>1, <1>3, <2>1, <3>1, <3>4
  <2>. QED BY <2>2, <2>3
<1>8. \A j \in Things \ scripted' : Tidy(game'[j]) /\ Timed(game'[j], lastBucket', due'[j], age'[j])
  BY <1>6, <1>7
<1>9. DecayTypeOK'
  BY <1>1, <1>3, <1>4 DEF DecayTypeOK
<1>. QED BY <1>5, <1>8, <1>9 DEF DecayInv

(* Every item is cleaned up, after what checkDecay() did to it. *)
LEMMA AllKeep ==
  ASSUME DecayAssumption, DecayInv, NEW passed \in {0, 1}, Watch(passed), UNCHANGED scripted,
         lastBucket' \in BucketIds, NEW r, r \in [Things -> ItemStates],
         \A i \in Things : Counted(r[i], 0) /\ game'[i] = Cleanup(r[i], lastBucket'),
         game' = [i \in Things |-> game'[i]],
         \A i \in Things \ scripted :
           /\ Tidy(r[i])
           /\ CanDecay(r[i]) /\ r[i].toDecay = 1 => due'[i] = r[i].duration /\ age'[i] \in {0, 1}
           /\ CanDecay(r[i]) => \A b \in BucketIds : r[i].bucket[b] = 1 =>
                                  InStep(r[i], lastBucket', due'[i], age'[i], b)
  PROVE  DecayInv'
<1>1. ASSUME NEW i \in Things PROVE Counted(game'[i], 0)
  <2>. DEFINE o == r[i]
              last == lastBucket'
  <2>1. Counted(o, 0) /\ last \in BucketIds /\ game'[i] = Cleanup(o, last)
    OBVIOUS
  <2>. HIDE DEF o, last
  <2>2. Counted(Cleanup(o, last), 0)
    BY <2>1, CleanupMeans
  <2>. QED BY <2>1, <2>2
<1>2. game' \in [Things -> ItemStates]
  <2>1. \A i \in Things : game'[i] \in ItemStates
    BY <1>1, CountedMeans
  <2>. QED BY <2>1
<1>3. DecayTypeOK /\ scripted' \subseteq Things
  BY DEF DecayInv, DecayTypeOK
<1>4. due' \in [Things -> Nat] /\ age' \in [Things -> Nat]
  BY <1>2, <1>3, WatchTypes
<1>5. ASSUME NEW i \in Things \ scripted'
      PROVE  Tidy(game'[i]) /\ Timed(game'[i], lastBucket', due'[i], age'[i])
  <2>. DEFINE o == r[i]
              d == due'[i]
              a == age'[i]
              last == lastBucket'
  <2>1. /\ Counted(o, 0) /\ Tidy(o) /\ game'[i] = Cleanup(o, last) /\ last \in BucketIds
        /\ d \in Nat /\ a \in Nat
        /\ CanDecay(o) /\ o.toDecay = 1 => d = o.duration /\ a \in {0, 1}
        /\ CanDecay(o) => \A b \in BucketIds : o.bucket[b] = 1 => InStep(o, last, d, a, b)
    BY <1>4
  <2>. HIDE DEF o, d, a, last
  <2>2. Tidy(Cleanup(o, last)) /\ Timed(Cleanup(o, last), last, d, a)
    BY <2>1, CleanupTimes
  <2>3. Tidy(game'[i]) /\ Timed(game'[i], last, d, a)
    BY <2>1, <2>2
  <2>. QED BY <2>3 DEF d, a, last
<1>6. DecayTypeOK'
  BY <1>2, <1>3, <1>4 DEF DecayTypeOK
<1>. QED BY <1>1, <1>5, <1>6 DEF DecayInv

LEMMA CheckDecayKeeps ==
  ASSUME DecayAssumption, DecayInv, CheckDecay
  PROVE  DecayInv'
<1>. DEFINE b == lastBucket'
            r == [i \in Things |-> CheckBucket(game[i], b)]
<1>1. /\ game \in [Things -> ItemStates] /\ lastBucket \in BucketIds
      /\ due \in [Things -> Nat] /\ age \in [Things -> Nat] /\ Watch(1) /\ UNCHANGED scripted
      /\ game' = [i \in Things |-> Cleanup(CheckBucket(game[i], b), b)]
  BY DEF DecayInv, DecayTypeOK, CheckDecay
<1>2. /\ b \in BucketIds /\ TurnsTo(b, lastBucket) = 1 /\ TurnsTo(b, b) = Buckets
      /\ \A c \in BucketIds : TurnsTo(c, lastBucket) \in 1..Buckets
      /\ \A c \in BucketIds \ {b} : TurnsTo(c, b) = TurnsTo(c, lastBucket) - 1
  <2>1. b = (lastBucket + 1) % Buckets
    BY DEF CheckDecay
  <2>. HIDE DEF b
  <2>2. b \in BucketIds
    BY <1>1, <2>1, TurnsMean
  <2>3. TurnsTo(b, b) = Buckets
    BY <2>2, TurnsMean
  <2>. QED BY <1>1, <2>1, <2>2, <2>3, TurnsMean
<1>3. Buckets \in Nat \ {0} /\ Cycle = Buckets
  BY DataMeans
<1>. HIDE DEF b
<1>4. ASSUME NEW i \in Things
      PROVE  Counted(r[i], 0) /\ r[i] \in ItemStates /\ game'[i] = Cleanup(r[i], b)
  <2>1. Counted(game[i], 0)
    BY DEF DecayInv
  <2>2. Counted(CheckBucket(game[i], b), 0)
    BY <1>2, <2>1, CheckBucketCounts
  <2>. QED BY <1>1, <2>2, CountedMeans
<1>5. ASSUME NEW i \in Things \ scripted
      PROVE  /\ Tidy(r[i])
             /\ CanDecay(r[i]) /\ r[i].toDecay = 1 => due'[i] = r[i].duration /\ age'[i] \in {0, 1}
             /\ CanDecay(r[i]) => \A c \in BucketIds : r[i].bucket[c] = 1 => InStep(r[i], b, due'[i], age'[i], c)
  <2>. DEFINE o == game[i]
              q == CheckBucket(o, b)
              n == Cleanup(q, b)
  <2>1. /\ Counted(o, 0) /\ Tidy(o) /\ Timed(o, lastBucket, due[i], age[i])
        /\ r[i] = q /\ Counted(q, 0) /\ q \in ItemStates /\ game'[i] = n
    BY <1>4 DEF DecayInv
  <2>2. /\ o \in ItemStates /\ Listed(o) \in Nat /\ o.toDecay \in Nat /\ o.duration \in Nat
        /\ o.bucket \in [BucketIds -> Nat]
    BY <2>1, CountedMeans
  <2>3. /\ n.inWorld = q.inWorld /\ n.duration = q.duration /\ (q.inWorld => n.id = q.id)
    BY <1>2, <2>1, CleanupMeans
  <2>4. due[i] \in Nat /\ age[i] \in Nat
    BY <1>1
  <2>. HIDE DEF n
  <2>5. CanDecay(q) => /\ CanDecay(n) /\ n.id = q.id
                       /\ due'[i] = IF Begins(i) THEN n.duration ELSE due[i]
                       /\ age'[i] = IF Begins(i) THEN 0 ELSE IF age[i] > due[i] + Buckets THEN age[i] ELSE age[i] + 1
                       /\ Begins(i) <=> ~CanDecay(o) \/ o.id # n.id \/ n.duration > o.duration
    <3>1. CanDecay(q) => CanDecay(n) /\ n.id = q.id
      BY <2>3 DEF CanDecay
    <3>. QED BY <1>1, <1>3, <2>1, <3>1, WatchMeans
  <2>6. o.bucket[b] = 0 \/ o.bucket[b] = 1
    <3>1. o.toDecay + o.bucket[b] <= Listed(o) /\ o.bucket[b] \in Nat
      BY <1>2, <2>2, ListedBounds
    <3>. QED BY <2>1, <2>2, <3>1 DEF Tidy
  <2>7. CASE o.bucket[b] = 0
    <3>1. q = o
      BY <1>2, <2>1, <2>7, NoneIsChecked
    <3>. HIDE DEF q, o
    <3>2. SUFFICES ASSUME CanDecay(o)
                   PROVE  /\ o.toDecay = 1 => due'[i] = o.duration /\ age'[i] \in {0, 1}
                          /\ \A c \in BucketIds : o.bucket[c] = 1 => InStep(o, b, due'[i], age'[i], c)
      BY <2>1, <3>1
    <3>3. ~Begins(i)
      BY <2>2, <2>3, <2>5, <3>1, <3>2
    <3>4. due'[i] = due[i] /\ age'[i] = IF age[i] > due[i] + Buckets THEN age[i] ELSE age[i] + 1
      BY <2>5, <3>1, <3>2, <3>3
    <3>5. o.toDecay = 1 => due'[i] = o.duration /\ age'[i] \in {0, 1}
      BY <1>3, <2>1, <2>2, <2>4, <3>2, <3>4 DEF Timed
    <3>6. ASSUME NEW c \in BucketIds, o.bucket[c] = 1
          PROVE  InStep(o, b, due'[i], age'[i], c)
      <4>. DEFINE w == TurnsTo(c, lastBucket)
                  x == TurnsTo(c, b)
      <4>1. c # b
        BY <2>7, <3>6
      <4>2. w \in 1..Buckets /\ x = w - 1
        BY <1>2, <4>1
      <4>3. due[i] - o.duration - age[i] + Buckets - w \in -1..Buckets - 1
        BY <2>1, <3>2, <3>6 DEF Timed
      <4>. HIDE DEF w, x
      <4>4. ~(age[i] > due[i] + Buckets)
        BY <1>3, <2>2, <2>4, <4>2, <4>3
      <4>5. due[i] - o.duration - (age[i] + 1) + Buckets - x \in -1..Buckets - 1
        BY <1>3, <2>2, <2>4, <4>2, <4>3
      <4>6. due'[i] - o.duration - age'[i] + Buckets - x \in -1..Buckets - 1
        BY <3>4, <4>4, <4>5
      <4>. QED BY <4>6 DEF InStep, x
    <3>. QED BY <3>5, <3>6
  <2>8. CASE o.bucket[b] = 1
    <3>1. /\ Tidy(q)
          /\ CanDecay(q) => /\ CanDecay(o)
                            /\ \/ /\ q.id = o.id /\ q.duration = o.duration - Buckets
                                  /\ q.toDecay = 0 /\ q.bucket[b] = 1
                               \/ q.id # o.id /\ q.toDecay = 1
      BY <1>2, <2>1, <2>8, OneIsChecked
    <3>2. /\ q \in ItemStates /\ Listed(q) \in Nat /\ Listed(q) <= 1 /\ q.toDecay \in Nat /\ q.duration \in Nat
          /\ q.bucket \in [BucketIds -> Nat]
      BY <2>1, <3>1, CountedMeans DEF Tidy
    <3>3. /\ \A c \in BucketIds : q.toDecay + q.bucket[c] <= Listed(q)
          /\ \A c, e \in BucketIds : c # e => q.bucket[c] + q.bucket[e] <= Listed(q)
      BY <3>2, ListedBounds
    <3>. HIDE DEF q, o
    <3>4. SUFFICES ASSUME CanDecay(q)
                   PROVE  /\ q.toDecay = 1 => due'[i] = q.duration /\ age'[i] \in {0, 1}
                          /\ \A c \in BucketIds : q.bucket[c] = 1 => InStep(q, b, due'[i], age'[i], c)
      BY <2>1, <3>1
    <3>5. CASE q.id # o.id /\ q.toDecay = 1
      <4>1. Begins(i)
        BY <2>5, <3>4, <3>5
      <4>2. due'[i] = q.duration /\ age'[i] = 0
        BY <2>3, <2>5, <3>4, <4>1
      <4>3. \A c \in BucketIds : q.bucket[c] # 1
        <5>1. \A c \in BucketIds : q.bucket[c] \in Nat
          BY <3>2
        <5>. QED BY <3>2, <3>3, <3>5, <5>1
      <4>. QED BY <4>2, <4>3
    <3>6. CASE q.id = o.id /\ q.duration = o.duration - Buckets /\ q.toDecay = 0 /\ q.bucket[b] = 1
      <4>1. ~Begins(i)
        BY <1>3, <2>2, <2>3, <2>5, <3>1, <3>4, <3>6
      <4>2. due'[i] = due[i] /\ age'[i] = IF age[i] > due[i] + Buckets THEN age[i] ELSE age[i] + 1
        BY <2>5, <3>4, <4>1
      <4>3. CanDecay(o)
        BY <3>1, <3>4
      <4>4. due[i] - o.duration - age[i] + Buckets - 1 \in -1..Buckets - 1
        BY <1>2, <2>1, <2>8, <4>3 DEF Timed
      <4>5. ~(age[i] > due[i] + Buckets)
        BY <1>3, <2>2, <2>4, <4>4
      <4>6. due'[i] - q.duration - age'[i] + Buckets - Buckets \in -1..Buckets - 1
        <5>1. due[i] - (o.duration - Buckets) - (age[i] + 1) + Buckets - Buckets
                = due[i] - o.duration - age[i] + Buckets - 1
          BY <1>3, <2>2, <2>4
        <5>. QED BY <3>6, <4>2, <4>4, <4>5, <5>1
      <4>7. InStep(q, b, due'[i], age'[i], b)
        BY <1>2, <4>6 DEF InStep
      <4>8. \A c \in BucketIds : q.bucket[c] = 1 => c = b
        <5>1. \A c \in BucketIds : q.bucket[c] \in Nat
          BY <3>2
        <5>. QED BY <1>2, <3>2, <3>3, <3>6, <5>1
      <4>. QED BY <3>6, <4>7, <4>8
    <3>. QED BY <3>1, <3>4, <3>5, <3>6
  <2>. QED BY <2>6, <2>7, <2>8
<1>. HIDE DEF r
<1>6. r \in [Things -> ItemStates]
  BY <1>4 DEF r
<1>7. game' = [i \in Things |-> game'[i]]
  BY <1>1
<1>. QED BY <1>1, <1>2, <1>4, <1>5, <1>6, <1>7, AllKeep DEF b

LEMMA CheckCreaturesKeeps ==
  ASSUME DecayAssumption, DecayInv, CheckCreatures
  PROVE  DecayInv'
<1>1. /\ game \in [Things -> ItemStates] /\ lastBucket \in BucketIds /\ lastBucket' = lastBucket
      /\ due \in [Things -> Nat] /\ age \in [Things -> Nat] /\ Watch(0) /\ UNCHANGED scripted
      /\ game' = [i \in Things |-> Cleanup(game[i], lastBucket)]
  BY DEF DecayInv, DecayTypeOK, CheckCreatures
<1>2. \A i \in Things : Counted(game[i], 0) /\ game'[i] = Cleanup(game[i], lastBucket')
  BY <1>1 DEF DecayInv
<1>3. ASSUME NEW i \in Things \ scripted
      PROVE  /\ Tidy(game[i])
             /\ CanDecay(game[i]) /\ game[i].toDecay = 1 => due'[i] = game[i].duration /\ age'[i] \in {0, 1}
             /\ CanDecay(game[i]) => \A b \in BucketIds : game[i].bucket[b] = 1 =>
                                       InStep(game[i], lastBucket', due'[i], age'[i], b)
  <2>. DEFINE o == game[i]
              n == Cleanup(o, lastBucket)
  <2>1. Counted(o, 0) /\ Tidy(o) /\ Timed(o, lastBucket, due[i], age[i]) /\ o.duration \in Nat
    BY <1>1 DEF DecayInv, ItemStates
  <2>2. /\ n.inWorld = o.inWorld /\ n.duration = o.duration /\ (o.inWorld => n.id = o.id)
    BY <1>1, <2>1, CleanupMeans
  <2>3. game'[i] = n
    BY <1>1
  <2>. HIDE DEF n
  <2>4. CanDecay(o) => ~Begins(i) /\ CanDecay(n)
    BY <2>1, <2>2, <2>3 DEF CanDecay, Begins
  <2>5. due[i] \in Nat /\ age[i] \in Nat
    BY <1>1
  <2>6. CanDecay(o) => due'[i] = due[i] /\ age'[i] = age[i]
    BY <1>1, <2>3, <2>4, <2>5, WatchMeans
  <2>7. CanDecay(o) /\ o.toDecay = 1 => due'[i] = o.duration /\ age'[i] \in {0, 1}
    BY <2>1, <2>6 DEF Timed
  <2>8. CanDecay(o) => \A b \in BucketIds : o.bucket[b] = 1 => InStep(o, lastBucket', due'[i], age'[i], b)
    BY <1>1, <2>1, <2>6 DEF Timed, InStep
  <2>. QED BY <2>1, <2>7, <2>8
<1>4. game' = [i \in Things |-> game'[i]] /\ lastBucket' \in BucketIds /\ 0 \in {0, 1}
  BY <1>1
<1>. QED BY <1>1, <1>2, <1>3, <1>4, AllKeep

LEMMA CreateKeeps ==
  ASSUME DecayAssumption, DecayInv, NEW i \in Things, NEW t \in ItemIds, Create(i, t)
  PROVE  DecayInv'
<1>. DEFINE f == Fresh(t)
            o == IF DecayTime[t] > 0 THEN Enlist(f) ELSE f
<1>1. game[i].ref = 0 /\ Becomes(i, o) /\ scripted' = scripted \ {i}
  BY DEF Create
<1>2. Counted(game[i], 0) /\ scripted \subseteq Things
  BY DEF DecayInv, DecayTypeOK
<1>3. ~CanDecay(game[i])
  <2>1. ~game[i].inWorld
    BY <1>1, <1>2, CountedMeans
  <2>. QED BY <2>1 DEF CanDecay
<1>4. DecayTime[t] \in Nat /\ t # NoType
  BY DEF DecayAssumption
<1>5. /\ f \in ItemStates /\ f.id = t /\ f.inWorld /\ f.duration = DecayTime[t] /\ ~f.decaying
      /\ f.ref = 1 /\ f.toDecay = 0 /\ f.toRelease = 0 /\ f.bucket = [b \in BucketIds |-> 0]
  BY <1>4 DEF Fresh, Gone, ItemStates
<1>. HIDE DEF f
<1>6. Listed(f) = 0
  BY <1>5, SumOfNone DEF Listed
<1>7. Counted(f, 0)
  BY <1>4, <1>5, <1>6 DEF Counted
<1>8. CASE DecayTime[t] > 0
  <2>. DEFINE n == Enlist(f)
  <2>1. o = n
    BY <1>8
  <2>2. n.id = f.id /\ n.inWorld = f.inWorld /\ n.duration = f.duration /\ n.decaying
    BY <1>5, EnlistMeans
  <2>3. Counted(n, 0) /\ Listed(n) = Listed(f) + 1
    BY <1>5, <1>7, EnlistCounts
  <2>. HIDE DEF n
  <2>4. Tidy(n)
    BY <1>5, <1>6, <1>8, <2>2, <2>3 DEF Tidy, Plain
  <2>. QED BY <1>1, <1>2, <1>3, <2>1, <2>3, <2>4, StepKeeps
<1>9. CASE ~(DecayTime[t] > 0)
  <2>1. o = f
    BY <1>9
  <2>2. Tidy(f)
    BY <1>4, <1>5, <1>6, <1>9 DEF Tidy
  <2>. QED BY <1>1, <1>2, <1>3, <1>7, <2>1, <2>2, StepKeeps
<1>. QED BY <1>8, <1>9

LEMMA MoveKeeps ==
  ASSUME DecayAssumption, DecayInv, NEW i \in Things, Move(i)
  PROVE  DecayInv'
<1>. DEFINE o == game[i]
            n == Enlist(o)
<1>1. o.inWorld /\ o.duration > 0 /\ ~o.decaying /\ Becomes(i, n) /\ scripted' = scripted
  BY DEF Move
<1>2. Counted(o, 0) /\ scripted \subseteq Things /\ (i \notin scripted => Tidy(o))
  BY DEF DecayInv, DecayTypeOK
<1>3. o \in ItemStates /\ Listed(o) \in Nat /\ o.duration \in Nat
  BY <1>2, CountedMeans
<1>. HIDE DEF o
<1>4. Counted(n, 0) /\ Listed(n) = Listed(o) + 1
  BY <1>1, <1>2, EnlistCounts
<1>5. n.id = o.id /\ n.inWorld = o.inWorld /\ n.duration = o.duration /\ n.decaying
  BY <1>3, EnlistMeans
<1>. HIDE DEF n
<1>6. ASSUME i \notin scripted PROVE Tidy(n) /\ ~CanDecay(n)
  <2>1. Tidy(o)
    BY <1>2, <1>6
  <2>2. ~(DecayTime[o.id] > 0) /\ ~Plain(o.id) /\ Listed(o) # 1 /\ Listed(o) <= 1
    BY <1>1, <1>3, <2>1 DEF Tidy
  <2>3. Listed(n) = 1
    BY <1>3, <1>4, <2>2
  <2>. QED BY <1>1, <1>5, <2>2, <2>3 DEF Tidy, CanDecay
<1>. QED BY <1>1, <1>2, <1>4, <1>6, StepKeeps

LEMMA TakeAwayKeeps ==
  ASSUME DecayAssumption, DecayInv, NEW i \in Things, TakeAway(i)
  PROVE  DecayInv'
<1>. DEFINE o == game[i]
            n == InternalRemoveItem(o)
<1>1. o.inWorld /\ Becomes(i, n) /\ scripted' = scripted
  BY DEF TakeAway
<1>2. Counted(o, 0) /\ scripted \subseteq Things /\ (i \notin scripted => Tidy(o))
  BY DEF DecayInv, DecayTypeOK
<1>3. Counted(n, 0) /\ Listed(n) = Listed(o)
  BY <1>1, <1>2, RemoveCounts
<1>4. ~n.inWorld
  BY <1>2, CountedMeans, RemoveMeans
<1>. HIDE DEF n
<1>5. i \notin scripted => Tidy(n) /\ ~CanDecay(n)
  BY <1>2, <1>3, <1>4 DEF Tidy, CanDecay
<1>. QED BY <1>1, <1>2, <1>3, <1>5, StepKeeps

(* A ring that is put on goes on where it stopped, one that is taken off   *)
(* keeps its entry until checkDecay() drops it.                            *)
LEMMA TransformKeeps ==
  ASSUME DecayAssumption, DecayInv, NEW i \in Things, NEW t \in ItemIds, Transform(i, t)
  PROVE  DecayInv'
<1>. DEFINE o == game[i]
            m == SetID(o, t)
            n == StartDecay(m)
<1>1. o.inWorld /\ <<o.id, t>> \in EquipTo /\ Becomes(i, n) /\ scripted' = scripted
  BY DEF Transform
<1>2. Counted(o, 0) /\ scripted \subseteq Things /\ (i \notin scripted => Tidy(o))
  BY DEF DecayInv, DecayTypeOK
<1>3. o \in ItemStates /\ Listed(o) \in Nat /\ o.duration \in Nat /\ o.id \in ItemIds
  BY <1>1, <1>2, CountedMeans
<1>. HIDE DEF o
<1>4. Counted(m, 0) /\ Listed(m) = Listed(o)
  BY <1>1, <1>2, SetIDCounts
<1>5. /\ m.id = t /\ m.inWorld = o.inWorld
      /\ m.duration = IF Renews(o, t) THEN DecayTime[t] ELSE IF Plain(t) THEN 0 ELSE o.duration
      /\ m.decaying <=> o.decaying /\ ~Renews(o, t) /\ ~Plain(t)
  BY <1>1, <1>3, SetIDMeans
<1>. HIDE DEF m
<1>6. Counted(n, 0)
  BY <1>4, StartDecayCounts
<1>7. /\ DecayTime[t] \in Nat /\ (DecayTime[t] > 0 => StopTime[o.id] /\ ~Plain(t) /\ ~StopTime[t])
      /\ (Plain(o.id) => Plain(t)) /\ (StopTime[o.id] => ~(DecayTime[o.id] > 0) /\ ~Plain(o.id))
      /\ Plain(t) => ~(DecayTime[t] > 0)
  BY <1>1, <1>3, DataMeans DEF Plain
<1>8. ASSUME i \notin scripted PROVE Tidy(n) /\ (CanDecay(n) => ~CanDecay(o))
  <2>1. Tidy(o)
    BY <1>2, <1>8
  <2>2. CASE DecayTime[t] > 0 /\ ~m.decaying
    <3>1. Renews(o, t) <=> o.duration = 0
      BY <1>7, <2>2 DEF Renews
    <3>2. ~o.decaying
      BY <1>1, <1>5, <1>7, <2>1, <2>2, <3>1 DEF Tidy
    <3>3. Listed(m) = 0
      BY <1>1, <1>3, <1>4, <1>7, <2>1, <2>2, <3>2 DEF Tidy
    <3>4. m.duration > 0
      BY <1>3, <1>5, <1>7, <2>2, <3>1
    <3>5. Tidy(n)
      <4>1. m.inWorld /\ ~m.decaying /\ ~Plain(m.id) /\ 0 \in Nat
        BY <1>1, <1>5, <1>7, <2>2
      <4>. QED BY <1>4, <3>3, <3>4, <4>1, StartTidies
    <3>6. ~CanDecay(o)
      BY <1>7, <2>2 DEF CanDecay
    <3>. QED BY <3>5, <3>6
  <2>3. CASE DecayTime[t] > 0 /\ m.decaying
    <3>1. n = m
      BY <2>3 DEF StartDecay, MayStart
    <3>2. o.decaying /\ ~Renews(o, t)
      BY <1>5, <2>3
    <3>3. Tidy(m)
      BY <1>1, <1>4, <1>5, <1>7, <2>1, <2>3, <3>2 DEF Tidy
    <3>4. ~CanDecay(o)
      BY <1>7, <2>3 DEF CanDecay
    <3>. QED BY <3>1, <3>3, <3>4
  <2>4. CASE ~(DecayTime[t] > 0)
    <3>1. n = m /\ ~CanDecay(m)
      BY <1>5, <2>4 DEF StartDecay, MayStart, CanDecay
    <3>2. ~Renews(o, t)
      BY <2>4 DEF Renews
    <3>3. Tidy(m)
      <4>1. CASE Plain(t)
        BY <1>4, <1>5, <2>1, <2>4, <3>2, <4>1 DEF Tidy
      <4>2. CASE ~Plain(t)
        <5>1. ~Plain(o.id)
          BY <1>7, <4>2
        <5>. QED BY <1>1, <1>4, <1>5, <2>1, <2>4, <3>2, <4>2, <5>1 DEF Tidy
      <4>. QED BY <4>1, <4>2
    <3>. QED BY <3>1, <3>3
  <2>. QED BY <2>2, <2>3, <2>4
<1>. HIDE DEF n
<1>9. i \notin scripted' => Tidy(n) /\ (CanDecay(n) => ~CanDecay(game[i]))
  BY <1>1, <1>8 DEF o
<1>. QED BY <1>1, <1>2, <1>6, <1>9, StepKeeps

(* Scripts keep the counters, too. *)
LEMMA ScriptTransformKeeps ==
  ASSUME DecayAssumption, DecayInv, NEW i \in Things, NEW decay \in BOOLEAN, ScriptTransform(i, decay)
  PROVE  DecayInv'
<1>. DEFINE t == DecayTo[game[i].id]
            o == SetID(game[i], t)
            n == IF decay THEN StartDecay(o) ELSE o
<1>1. game[i].inWorld /\ DecayTo[game[i].id] # NoType /\ Becomes(i, n) /\ scripted' = scripted \cup {i}
  BY DEF ScriptTransform, CanDecay
<1>2. Counted(game[i], 0) /\ scripted \subseteq Things
  BY DEF DecayInv, DecayTypeOK
<1>3. game[i].id \in ItemIds
  BY <1>1, <1>2, CountedMeans
<1>4. t \in ItemIds
  BY <1>1, <1>3, DataMeans
<1>. HIDE DEF t
<1>5. Counted(o, 0)
  BY <1>1, <1>2, <1>4, SetIDCounts
<1>. HIDE DEF o
<1>6. Counted(n, 0)
  BY <1>5, StartDecayCounts
<1>. HIDE DEF n
<1>. QED BY <1>1, <1>2, <1>6, StepKeeps

LEMMA ScriptDurationKeeps ==
  ASSUME DecayAssumption, DecayInv, NEW i \in Things, NEW d \in Durations, ScriptDuration(i, d)
  PROVE  DecayInv'
<1>. DEFINE o == game[i]
            n == [o EXCEPT !.duration = d]
<1>1. Becomes(i, n) /\ scripted' = scripted \cup {i}
  BY DEF ScriptDuration
<1>2. Counted(o, 0) /\ scripted \subseteq Things
  BY DEF DecayInv, DecayTypeOK
<1>3. o \in ItemStates /\ d \in Nat
  BY <1>2, CountedMeans DEF DecayAssumption
<1>. HIDE DEF o
<1>4. /\ n \in ItemStates /\ n.id = o.id /\ n.inWorld = o.inWorld /\ n.ref = o.ref
      /\ n.toDecay = o.toDecay /\ n.toRelease = o.toRelease /\ n.bucket = o.bucket
  BY <1>3 DEF ItemStates
<1>. HIDE DEF n
<1>5. Counted(n, 0)
  BY <1>2, <1>4 DEF Counted, Listed
<1>. QED BY <1>1, <1>2, <1>5, StepKeeps

LEMMA DecayInitHolds == ASSUME DecayAssumption, DecayInit PROVE DecayInv
<1>1. /\ game = [i \in Things |-> Gone] /\ lastBucket = 0 /\ scripted = {}
      /\ due = [i \in Things |-> 0] /\ age = [i \in Things |-> 0]
  BY DEF DecayInit
<1>2. /\ Gone \in ItemStates /\ Gone.id = NoType /\ ~Gone.inWorld /\ Gone.ref = 0 /\ Gone.toRelease = 0
      /\ Gone.toDecay = 0 /\ Gone.bucket = [b \in BucketIds |-> 0]
  BY DEF Gone, ItemStates
<1>3. Listed(Gone) = 0
  BY <1>2, SumOfNone DEF Listed
<1>4. Counted(Gone, 0) /\ Tidy(Gone) /\ \A last, d, a : Timed(Gone, last, d, a)
  BY <1>2, <1>3 DEF Counted, Tidy, Timed, CanDecay
<1>5. 0 \in BucketIds
  BY DataMeans DEF BucketIds
<1>. QED BY <1>1, <1>2, <1>4, <1>5 DEF DecayInv, DecayTypeOK

LEMMA DecayNextKeeps == ASSUME DecayAssumption, DecayInv, [DecayNext]_decayVars PROVE DecayInv'
<1>1. CASE UNCHANGED decayVars
  BY <1>1 DEF decayVars, DecayInv, DecayTypeOK
<1>2. CASE DecayNext
  BY <1>2, CheckDecayKeeps, CheckCreaturesKeeps, CreateKeeps, MoveKeeps, TakeAwayKeeps, TransformKeeps,
     ScriptTransformKeeps, ScriptDurationKeeps DEF DecayNext
<1>. QED BY <1>1, <1>2

(* The invariant says what the run checks. *)
LEMMA DecayInvSuffices == ASSUME DecayAssumption, DecayInv PROVE DecayAgrees
<1>1. DecayTypeOK
  BY DEF DecayInv
<1>2. RefsAgree
  <2>1. ASSUME NEW i \in Things
        PROVE  /\ game[i].ref = (IF game[i].inWorld THEN 1 ELSE 0) + Listed(game[i]) + game[i].toRelease
               /\ game[i].id = NoType <=> game[i].ref = 0
    <3>. DEFINE o == game[i]
    <3>1. Counted(o, 0)
      BY DEF DecayInv
    <3>. HIDE DEF o
    <3>2. o.toRelease \in Nat /\ Listed(o) \in Nat
      BY <3>1, CountedMeans
    <3>3. o.ref = (IF o.inWorld THEN 1 ELSE 0) + Listed(o) + o.toRelease /\ (o.id = NoType <=> o.ref = 0)
      BY <3>1, <3>2 DEF Counted
    <3>. QED BY <3>3 DEF o
  <2>. QED BY <2>1 DEF RefsAgree
<1>3. ListedOnce
  <2>1. ASSUME NEW i \in Things \ scripted
        PROVE  Listed(game[i]) <= 1 /\ (CanDecay(game[i]) => Listed(game[i]) = 1)
    <3>1. Tidy(game[i]) /\ Counted(game[i], 0)
      BY DEF DecayInv
    <3>2. CanDecay(game[i]) => game[i].decaying /\ ~Plain(game[i].id) /\ game[i].inWorld
      BY <3>1 DEF Tidy, CanDecay, Plain
    <3>. QED BY <3>1, <3>2 DEF Tidy
  <2>. QED BY <2>1 DEF ListedOnce
<1>4. DurationIsTimeLeft
  <2>1. ASSUME NEW i \in Things \ scripted, CanDecay(game[i])
        PROVE  game[i].duration + age[i] <= due[i] + Cycle /\ game[i].duration + age[i] >= due[i] - Cycle
    <3>. DEFINE o == game[i]
                d == due[i]
                a == age[i]
    <3>1. Tidy(o) /\ Counted(o, 0) /\ Timed(o, lastBucket, d, a) /\ d \in Nat /\ a \in Nat
          /\ lastBucket \in BucketIds /\ CanDecay(o)
      BY <2>1 DEF DecayInv, DecayTypeOK
    <3>. HIDE DEF o, d, a
    <3>2. Listed(o) = 1 /\ o.duration \in Nat /\ o.toDecay \in Nat /\ o.bucket \in [BucketIds -> Nat]
      <4>1. o.decaying /\ ~Plain(o.id) /\ o.inWorld
        BY <3>1 DEF Tidy, CanDecay, Plain
      <4>. QED BY <3>1, <4>1, CountedMeans DEF Tidy
    <3>3. Buckets \in Nat \ {0} /\ Cycle = Buckets
      BY DataMeans
    <3>4. ASSUME o.toDecay = 1
          PROVE  o.duration + a <= d + Cycle /\ o.duration + a >= d - Cycle
      <4>1. a = 0 /\ d = o.duration
        BY <3>1, <3>4 DEF Timed
      <4>. QED BY <3>2, <3>3, <4>1
    <3>5. ASSUME o.toDecay # 1
          PROVE  o.duration + a <= d + Cycle /\ o.duration + a >= d - Cycle
      <4>1. \E b \in BucketIds : o.bucket[b] # 0
        <5>1. InBuckets(o.bucket) # 0
          <6>1. InBuckets(o.bucket) \in Nat
            BY <3>2, SumBounds
          <6>. QED BY <3>2, <3>5, <6>1 DEF Listed
        <5>2. o.bucket = [b \in BucketIds |-> o.bucket[b]]
          BY <3>2
        <5>. QED BY <5>1, <5>2, SumOfNone
      <4>2. PICK b \in BucketIds : o.bucket[b] # 0
        BY <4>1
      <4>3. o.toDecay + o.bucket[b] <= Listed(o) /\ o.bucket[b] \in Nat
        BY <3>1, <3>2, CountedMeans, ListedBounds
      <4>4. o.bucket[b] = 1
        BY <3>2, <4>2, <4>3
      <4>. DEFINE w == TurnsTo(b, lastBucket)
      <4>5. d - o.duration - a + Buckets - w \in -1..Buckets - 1 /\ w \in 1..Buckets
        BY <3>1, <4>4, TurnsMean DEF Timed
      <4>. HIDE DEF w
      <4>6. o.duration + a <= d + Buckets /\ o.duration + a >= d - Buckets
        BY <3>1, <3>2, <3>3, <4>5
      <4>. QED BY <3>3, <4>6
    <3>6. o.duration + a <= d + Cycle /\ o.duration + a >= d - Cycle
      BY <3>4, <3>5
    <3>. QED BY <3>6 DEF o, d, a
  <2>. QED BY <2>1 DEF DurationIsTimeLeft
<1>. QED BY <1>1, <1>2, <1>3, <1>4 DEF DecayAgrees

(* For any items, any types of items.xml and any number of buckets: the    *)
(* counters of items agree with what points to them through every sequence *)
(* of handlers, and an item that no script changes is listed once and has  *)
(* the time left that its duration tells, up to a cycle.                   *)
THEOREM DecayStaysAgreed == ASSUME DecayAssumption PROVE DecaySpec => []DecayAgrees
<1>1. DecayInit => DecayInv
  BY DecayInitHolds
<1>2. DecayInv /\ [DecayNext]_decayVars => DecayInv'
  BY DecayNextKeeps
<1>3. DecayInv => DecayAgrees
  BY DecayInvSuffices
<1>. QED BY <1>1, <1>2, <1>3, PTL DEF DecaySpec
=============================================================================
