------------------------- MODULE QueryDeltasProofs -------------------------
(***************************************************************************)
(* Facts about the ranking of QueryDeltas, for any deltas of finitely many *)
(* statements, by either measure and for any limit.                        *)
(***************************************************************************)
EXTENDS QueryDeltas, FiniteSetTheorems, TLAPS

-----------------------------------------------------------------------------
(* The order of a result is a strict linear order.                         *)

Deltas == [Fields -> Int]

LEMMA OtherOf ==
  /\ OtherField("calls") = "total_exec_time_ms"
  /\ OtherField("total_exec_time_ms") = "calls"
<1>1. "calls" # "total_exec_time_ms"
  OBVIOUS
<1> QED BY <1>1 DEF OtherField, Fields

LEMMA AheadIsNoSmaller ==
  ASSUME NEW deltas, NEW sortBy, NEW p, NEW q, AheadOf(deltas, sortBy, p, q)
  PROVE  \/ deltas[p][sortBy] > deltas[q][sortBy]
         \/ deltas[p][sortBy] = deltas[q][sortBy]
BY DEF AheadOf

LEMMA AheadLinear ==
  ASSUME NEW S \in SUBSET Int, NEW deltas \in [S -> Deltas], NEW sortBy \in Fields
  PROVE  /\ \A p \in S : ~AheadOf(deltas, sortBy, p, p)
         /\ \A p, q \in S : p # q => \/ AheadOf(deltas, sortBy, p, q)
                                     \/ AheadOf(deltas, sortBy, q, p)
         /\ \A p, q, r \in S :
              AheadOf(deltas, sortBy, p, q) /\ AheadOf(deltas, sortBy, q, r)
                => AheadOf(deltas, sortBy, p, r)
<1> DEFINE then == OtherField(sortBy)
<1>1. then \in Fields /\ Fields = {sortBy, then}
  BY OtherOf DEF Fields
<1> HIDE DEF then
<1>2. \A p \in S : deltas[p][sortBy] \in Int /\ deltas[p][then] \in Int
  BY <1>1 DEF Deltas
<1>3. \A p, q \in S :
        deltas[p] = deltas[q] <=> /\ deltas[p][sortBy] = deltas[q][sortBy]
                                  /\ deltas[p][then] = deltas[q][then]
  BY <1>1 DEF Deltas
<1>4. \A p, q : AheadOf(deltas, sortBy, p, q) <=>
        \/ deltas[p][sortBy] > deltas[q][sortBy]
        \/ deltas[p][sortBy] = deltas[q][sortBy] /\ deltas[p][then] > deltas[q][then]
        \/ deltas[p] = deltas[q] /\ p < q
  BY DEF AheadOf, then
<1>5. \A p, q \in S : AheadOf(deltas, sortBy, p, q) <=>
        \/ deltas[p][sortBy] > deltas[q][sortBy]
        \/ deltas[p][sortBy] = deltas[q][sortBy] /\ deltas[p][then] > deltas[q][then]
        \/ /\ deltas[p][sortBy] = deltas[q][sortBy] /\ deltas[p][then] = deltas[q][then]
           /\ p < q
  BY <1>3, <1>4
<1>6. \A p \in S : ~AheadOf(deltas, sortBy, p, p)
  BY <1>2, <1>5
<1>7. \A p, q \in S : p # q => AheadOf(deltas, sortBy, p, q) \/ AheadOf(deltas, sortBy, q, p)
  BY <1>2, <1>5
<1>8. \A p, q, r \in S :
        AheadOf(deltas, sortBy, p, q) /\ AheadOf(deltas, sortBy, q, r)
          => AheadOf(deltas, sortBy, p, r)
  BY <1>2, <1>5
<1> QED BY <1>6, <1>7, <1>8

-----------------------------------------------------------------------------
(* In a finite set with a strict linear order each place, the number of    *)
(* elements ahead, is taken by one element, and the places follow the      *)
(* order.                                                                  *)

Before(S, Less, q) == {p \in S : <<p, q>> \in Less}

Place(S, Less) == [q \in S |-> Cardinality(Before(S, Less, q))]

Linear(S, Less) ==
  /\ \A p \in S : <<p, p>> \notin Less
  /\ \A p, q \in S : p # q => <<p, q>> \in Less \/ <<q, p>> \in Less
  /\ \A p, q, r \in S : <<p, q>> \in Less /\ <<q, r>> \in Less => <<p, r>> \in Less

Ranked(S, Less) ==
  /\ Place(S, Less) \in [S -> 0..Cardinality(S) - 1]
  /\ \A p, q \in S : <<p, q>> \in Less <=> Place(S, Less)[p] < Place(S, Less)[q]
  /\ \A p, q \in S : Place(S, Less)[p] = Place(S, Less)[q] => p = q
  /\ \A k \in 0..Cardinality(S) - 1 : \E q \in S : Place(S, Less)[q] = k

LEMMA Places ==
  ASSUME NEW S, IsFiniteSet(S), NEW Less, Linear(S, Less)
  PROVE  Ranked(S, Less)
<1> USE DEF Linear
<1> DEFINE ahead(q) == Before(S, Less, q)
           n == Cardinality(S)
           N == 0..n - 1
           place == Place(S, Less)
<1>1. n \in Nat
  BY FS_CardinalityType
<1>2. ASSUME NEW q \in S
      PROVE  IsFiniteSet(ahead(q)) /\ Cardinality(ahead(q)) \in N
  <2> DEFINE A == ahead(q)
  <2>1. A \in SUBSET S /\ q \notin A
    BY DEF Before
  <2> HIDE DEF ahead
  <2>2. IsFiniteSet(A) /\ Cardinality(A) <= n /\ Cardinality(A) # n
    BY <2>1, FS_Subset
  <2>3. Cardinality(A) \in Nat
    BY <2>2, FS_CardinalityType
  <2> QED BY <1>1, <2>2, <2>3
<1>3. place \in [S -> N] /\ \A q \in S : place[q] = Cardinality(ahead(q))
  BY <1>2 DEF Place
<1>4. ASSUME NEW p \in S, NEW q \in S, <<p, q>> \in Less PROVE place[p] < place[q]
  <2>1. ahead(p) \subseteq ahead(q) /\ p \in ahead(q) /\ p \notin ahead(p)
    BY <1>4 DEF Before
  <2>2. /\ Cardinality(ahead(p)) <= Cardinality(ahead(q))
        /\ Cardinality(ahead(p)) # Cardinality(ahead(q))
    BY <1>2, <2>1, FS_Subset
  <2>3. Cardinality(ahead(p)) \in N /\ Cardinality(ahead(q)) \in N
    BY <1>2
  <2>4. place[p] = Cardinality(ahead(p)) /\ place[q] = Cardinality(ahead(q))
    BY <1>3
  <2> HIDE DEF ahead
  <2> QED BY <1>1, <2>2, <2>3, <2>4
<1> HIDE DEF ahead, place
<1>5. \A q \in S : place[q] \in Int
  BY <1>1, <1>3
<1>6. \A p, q \in S : <<p, q>> \in Less <=> place[p] < place[q]
  <2> SUFFICES ASSUME NEW p \in S, NEW q \in S, place[p] < place[q] PROVE <<p, q>> \in Less
    BY <1>4
  <2>1. ~(place[q] < place[p]) /\ p # q
    BY <1>5
  <2> QED BY <1>4, <2>1
<1>7. \A p, q \in S : place[p] = place[q] => p = q
  <2> SUFFICES ASSUME NEW p \in S, NEW q \in S, place[p] = place[q] PROVE p = q
    OBVIOUS
  <2>1. ~(place[p] < place[q]) /\ ~(place[q] < place[p])
    BY <1>5
  <2> QED BY <1>4, <2>1
<1>8. \A k \in N : \E q \in S : place[q] = k
  <2>1. IsFiniteSet(N) /\ Cardinality(N) = n
    <3>1. n - 1 \in Int /\ IF 0 > n - 1 THEN n = 0 ELSE n - 1 - 0 + 1 = n
      BY <1>1
    <3> HIDE DEF n
    <3> QED BY <3>1, FS_Interval
  <2>2. place \in Injection(S, N)
    BY <1>3, <1>7 DEF Injection, IsInjective
  <2>3. place \in Surjection(S, N)
    BY <2>1, <2>2, FS_Injection
  <2> QED BY <2>3 DEF Surjection
<1> QED BY <1>3, <1>6, <1>7, <1>8 DEF Ranked, place

-----------------------------------------------------------------------------
(***************************************************************************)
(* The limited list, whatever the limit: of the statements with a delta,   *)
(* each at most once, as many as there are or the limit allows, and none   *)
(* that is not listed is ahead of one that is.                             *)
(***************************************************************************)
Length(deltas, limit) ==
  IF limit < Cardinality(DOMAIN deltas) THEN limit ELSE Cardinality(DOMAIN deltas)

THEOREM TopIsAhead ==
  ASSUME NEW S \in SUBSET Int, IsFiniteSet(S), NEW deltas \in [S -> Deltas],
         NEW sortBy \in Fields, NEW limit \in Nat,
         NEW top, top = TopQueries(deltas, sortBy, limit)
  PROVE  /\ top \in [1..Length(deltas, limit) -> S]
         /\ \A i, j \in DOMAIN top : top[i] = top[j] => i = j
         /\ \A i \in DOMAIN top, q \in S :
              (\A j \in 1..i : top[j] # q) => AheadOf(deltas, sortBy, top[i], q)
<1> DEFINE Less == {x \in S \X S : AheadOf(deltas, sortBy, x[1], x[2])}
           place == Place(S, Less)
           n == Cardinality(S)
<1>1. n \in Nat /\ Length(deltas, limit) \in 0..n
  BY FS_CardinalityType DEF Length
<1>2. \A p, q \in S : <<p, q>> \in Less <=> AheadOf(deltas, sortBy, p, q)
  OBVIOUS
<1>3. /\ place \in [S -> 0..n - 1]
      /\ \A p, q \in S : <<p, q>> \in Less <=> place[p] < place[q]
      /\ \A p, q \in S : place[p] = place[q] => p = q
      /\ \A k \in 0..n - 1 : \E q \in S : place[q] = k
  <2>1. \A p \in S : <<p, p>> \notin Less
    BY AheadLinear
  <2> HIDE DEF Less
  <2>2. \A p, q \in S : p # q => <<p, q>> \in Less \/ <<q, p>> \in Less
    BY <1>2, AheadLinear
  <2>3. \A p, q, r \in S : <<p, q>> \in Less /\ <<q, r>> \in Less => <<p, r>> \in Less
    BY <1>2, AheadLinear
  <2>4. Linear(S, Less)
    BY <2>1, <2>2, <2>3 DEF Linear
  <2>5. Ranked(S, Less)
    BY <2>4, Places
  <2> QED BY <2>5 DEF Ranked
<1>4. \A q \in S : Cardinality({p \in S : AheadOf(deltas, sortBy, p, q)}) = place[q]
  <2> SUFFICES ASSUME NEW q \in S
               PROVE  Cardinality({p \in S : AheadOf(deltas, sortBy, p, q)}) = place[q]
    OBVIOUS
  <2>1. {p \in S : AheadOf(deltas, sortBy, p, q)} = Before(S, Less, q)
    BY <1>2 DEF Before
  <2> QED BY <2>1 DEF Place
<1> HIDE DEF place, Less
<1>5. DOMAIN deltas = S
  OBVIOUS
<1>6. top = [i \in 1..Length(deltas, limit) |->
               CHOOSE q \in S : Cardinality({p \in S : AheadOf(deltas, sortBy, p, q)}) = i - 1]
  BY <1>5 DEF TopQueries, Length
<1>7. DOMAIN top = 1..Length(deltas, limit) /\ \A i \in DOMAIN top : i - 1 \in 0..n - 1
  BY <1>1, <1>6
<1>8. \A i \in DOMAIN top : top[i] \in S /\ place[top[i]] = i - 1
  <2> SUFFICES ASSUME NEW i \in DOMAIN top PROVE top[i] \in S /\ place[top[i]] = i - 1
    OBVIOUS
  <2>1. \E q \in S : Cardinality({p \in S : AheadOf(deltas, sortBy, p, q)}) = i - 1
    BY <1>3, <1>4, <1>7
  <2>2. /\ top[i] \in S
        /\ Cardinality({p \in S : AheadOf(deltas, sortBy, p, top[i])}) = i - 1
    BY <1>6, <1>7, <2>1
  <2> QED BY <1>4, <2>2
<1>9. top \in [1..Length(deltas, limit) -> S]
  BY <1>6, <1>7, <1>8
<1>10. \A i, j \in DOMAIN top : top[i] = top[j] => i = j
  BY <1>1, <1>7, <1>8
<1>11. ASSUME NEW i \in DOMAIN top, NEW q \in S, \A j \in 1..i : top[j] # q
       PROVE  AheadOf(deltas, sortBy, top[i], q)
  <2>1. place[q] \in 0..n - 1
    BY <1>3
  <2>2. place[q] + 1 \in 1..i => top[place[q] + 1] = q
    <3> SUFFICES ASSUME place[q] + 1 \in 1..i PROVE top[place[q] + 1] = q
      OBVIOUS
    <3>1. place[q] + 1 \in DOMAIN top
      BY <1>1, <1>7, <2>1
    <3>2. top[place[q] + 1] \in S /\ place[top[place[q] + 1]] = place[q]
      BY <1>8, <2>1, <3>1
    <3> QED BY <1>3, <3>2
  <2>3. place[top[i]] < place[q]
    BY <1>1, <1>7, <1>8, <1>11, <2>1, <2>2
  <2> QED BY <1>2, <1>3, <1>8, <2>3
<1> QED BY <1>9, <1>10, <1>11

=============================================================================
