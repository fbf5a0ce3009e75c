--------------------------- MODULE RegistryProofs ---------------------------
(***************************************************************************)
(* What Registry promises for every set of filters, every way they overlap *)
(* and every order of calls.  Two invariants carry the theorems: Structure *)
(* holds for every server, Apart for one that offers subscription          *)
(* identifiers and grants them.  A step is a join, a change in place, a    *)
(* member leaving others behind or a wire taken out; a lemma says what     *)
(* each makes of the table, and one more that it keeps each invariant.     *)
(* Before them come the facts about sequences that every proof here needs, *)
(* and about what Select keeps of one: the places kept are counted off by  *)
(* Rank, an order isomorphism onto 1..n, so none needs an induction.       *)
(***************************************************************************)
EXTENDS Registry, SequenceTheorems, FiniteSetTheorems, TLAPS

-----------------------------------------------------------------------------
(* Sequences.                                                              *)

\* A function on 1..n is a sequence of length n.
LEMMA FunctionIsSeq ==
  ASSUME NEW S, NEW n \in Nat, NEW s \in [1..n -> S]
  PROVE  s \in Seq(S) /\ Len(s) = n /\ DOMAIN s = 1..n
<1>1. s \in Seq(S)
  BY SeqDef
<1>2. DOMAIN s = 1..n
  OBVIOUS
<1>3. Len(s) = n
  BY <1>1, <1>2, LenProperties
<1> QED BY <1>1, <1>2, <1>3

\* What belonging to Seq(S) says of each place.
LEMMA SeqPlaces ==
  ASSUME NEW S, NEW s \in Seq(S)
  PROVE  /\ Len(s) \in Nat
         /\ DOMAIN s = 1..Len(s)
         /\ \A i \in DOMAIN s : s[i] \in S
         /\ s # <<>> => 1 \in DOMAIN s
<1>1. Len(s) \in Nat /\ s \in [1..Len(s) -> S] /\ DOMAIN s = 1..Len(s)
  BY LenProperties
<1>2. s # <<>> => Len(s) \in Nat \ {0}
  BY EmptySeq
<1> QED BY <1>1, <1>2

-----------------------------------------------------------------------------
(* Counting places off.                                                    *)

\* Places of a sequence are finitely many.
LEMMA PlacesFinite ==
  ASSUME NEW n \in Nat, NEW P \in SUBSET (1..n)
  PROVE  IsFiniteSet(P) /\ Cardinality(P) \in Nat
<1>1. IsFiniteSet(1..n)
  BY FS_Interval
<1>2. IsFiniteSet(P)
  BY <1>1, FS_Subset
<1> QED BY <1>2, FS_CardinalityType

\* Rank counts the places of P off, in their order, from 1 to their number.
LEMMA RankProperties ==
  ASSUME NEW n \in Nat, NEW P \in SUBSET (1..n)
  PROVE  /\ \A p \in P : Rank(P, p) \in 1..Cardinality(P)
         /\ \A p, q \in P : p < q => Rank(P, p) < Rank(P, q)
         /\ \A i \in 1..Cardinality(P) : \E p \in P : Rank(P, p) = i
<1> DEFINE Upto(p) == {q \in P : q <= p}
           c == Cardinality(P)
<1>1. IsFiniteSet(P) /\ c \in Nat
  BY PlacesFinite
<1>2. ASSUME NEW p \in P
      PROVE  IsFiniteSet(Upto(p)) /\ Cardinality(Upto(p)) \in 1..c
  <2>1. Upto(p) \in SUBSET P /\ p \in Upto(p)
    OBVIOUS
  <2>2. IsFiniteSet(Upto(p)) /\ Cardinality(Upto(p)) <= c
    BY <1>1, <2>1, FS_Subset
  <2>3. Cardinality(Upto(p)) \in Nat /\ Cardinality(Upto(p)) # 0
    BY <2>1, <2>2, FS_CardinalityType, FS_EmptySet
  <2> HIDE DEF Upto
  <2> QED BY <1>1, <2>2, <2>3
<1>3. ASSUME NEW p \in P, NEW q \in P, p < q
      PROVE  Cardinality(Upto(p)) < Cardinality(Upto(q))
  <2>1. P \subseteq Nat
    OBVIOUS
  <2>2. p \in Nat /\ q \in Nat /\ ~(q <= p) /\ \A r \in P : r <= p => r <= q
    BY <1>3, <2>1
  <2>3. Upto(p) \in SUBSET Upto(q) /\ q \in Upto(q) /\ q \notin Upto(p)
    <3>1. ASSUME NEW r \in Upto(p) PROVE r \in Upto(q)
      BY <2>2
    <3>2. q \in Upto(q) /\ q \notin Upto(p)
      BY <2>2
    <3> HIDE DEF Upto
    <3> QED BY <3>1, <3>2
  <2>4. /\ Cardinality(Upto(p)) <= Cardinality(Upto(q))
        /\ Cardinality(Upto(p)) # Cardinality(Upto(q))
    BY <1>2, <2>3, FS_Subset
  <2> HIDE DEF Upto
  <2> QED BY <1>2, <2>4
<1> DEFINE rank == [p \in P |-> Cardinality(Upto(p))]
<1>4. rank \in Injection(P, 1..c)
  <2>1. rank \in [P -> 1..c]
    BY <1>2
  <2>2. \A p, q \in P : rank[p] = rank[q] => p = q
    BY <1>2, <1>3
  <2> QED BY <2>1, <2>2 DEF Injection, IsInjective
<1>5. rank \in Surjection(P, 1..c)
  <2>1. IsFiniteSet(1..c) /\ Cardinality(1..c) = c
    BY <1>1, FS_Interval
  <2> HIDE DEF rank
  <2> QED BY <1>4, <2>1, FS_Injection
<1>6. \A i \in 1..c : \E p \in P : rank[p] = i
  BY <1>5 DEF Surjection
<1> QED BY <1>2, <1>3, <1>6 DEF Rank

\* One of the places comes first.
LEMMA FirstPlace ==
  ASSUME NEW n \in Nat, NEW P \in SUBSET (1..n), P # {}
  PROVE  \E p \in P : \A q \in P : p <= q
<1>1. Cardinality(P) \in Nat
  BY PlacesFinite
<1>2. 1 \in 1..Cardinality(P)
  <2>1. PICK q \in P : TRUE
    OBVIOUS
  <2>2. Rank(P, q) \in 1..Cardinality(P)
    BY RankProperties
  <2> QED BY <1>1, <2>2
<1>3. PICK p \in P : Rank(P, p) = 1
  BY <1>2, RankProperties
<1>4. ASSUME NEW q \in P PROVE p <= q
  <2>1. Rank(P, q) \in 1..Cardinality(P)
    BY RankProperties
  <2>2. q < p => Rank(P, q) < Rank(P, p)
    BY RankProperties
  <2> QED BY <1>1, <1>3, <2>1, <2>2
<1> QED BY <1>4

\* What stands at the places P of s, in the order of s.
LEMMA AtProperties ==
  ASSUME NEW S, NEW s \in Seq(S), NEW P \in SUBSET DOMAIN s
  PROVE  /\ Cardinality(P) \in Nat
         /\ At(s, P) \in Seq(S)
         /\ DOMAIN At(s, P) = 1..Cardinality(P)
         /\ Len(At(s, P)) = Cardinality(P)
         /\ \A p \in P : Rank(P, p) \in DOMAIN At(s, P) /\ At(s, P)[Rank(P, p)] = s[p]
         /\ \A i \in DOMAIN At(s, P) : \E p \in P : Rank(P, p) = i /\ At(s, P)[i] = s[p]
         /\ \A i, j \in DOMAIN At(s, P) :
              i < j => \E p, q \in P : p < q /\ At(s, P)[i] = s[p] /\ At(s, P)[j] = s[q]
<1>1. Len(s) \in Nat /\ P \in SUBSET (1..Len(s)) /\ \A p \in P : s[p] \in S /\ p \in Nat
  BY SeqPlaces
<1>2. /\ \A p \in P : Rank(P, p) \in 1..Cardinality(P)
      /\ \A p, q \in P : p < q => Rank(P, p) < Rank(P, q)
      /\ \A i \in 1..Cardinality(P) : \E p \in P : Rank(P, p) = i
  BY <1>1, RankProperties
<1>3. Cardinality(P) \in Nat
  BY <1>1, PlacesFinite
<1> DEFINE place(i) == CHOOSE p \in P : Rank(P, p) = i
<1>4. \A i \in 1..Cardinality(P) : place(i) \in P /\ Rank(P, place(i)) = i
  BY <1>2
<1>5. \A p \in P : place(Rank(P, p)) = p
  <2> SUFFICES ASSUME NEW p \in P, place(Rank(P, p)) # p PROVE FALSE
    OBVIOUS
  <2> DEFINE q == place(Rank(P, p))
  <2>1. q \in P /\ Rank(P, q) = Rank(P, p)
    BY <1>2, <1>4
  <2> HIDE DEF q, place
  <2>2. (p < q \/ q < p) /\ Rank(P, p) \in Nat
    BY <1>1, <1>2, <2>1 DEF q
  <2> QED BY <1>2, <2>1, <2>2
<1>6. At(s, P) = [i \in 1..Cardinality(P) |-> s[place(i)]]
  BY DEF At
<1> HIDE DEF place
<1>7. At(s, P) \in [1..Cardinality(P) -> S]
  BY <1>1, <1>4, <1>6
<1>8. At(s, P) \in Seq(S) /\ DOMAIN At(s, P) = 1..Cardinality(P) /\ Len(At(s, P)) = Cardinality(P)
  BY <1>3, <1>7, FunctionIsSeq
<1>9. \A i \in 1..Cardinality(P) : At(s, P)[i] = s[place(i)]
  BY <1>6
<1>10. ASSUME NEW i \in 1..Cardinality(P), NEW j \in 1..Cardinality(P), i < j
       PROVE  place(i) < place(j)
  <2>1. place(i) \in P /\ place(j) \in P /\ Rank(P, place(i)) = i /\ Rank(P, place(j)) = j
    BY <1>4
  <2>2. place(i) \in Nat /\ place(j) \in Nat /\ i \in Nat /\ j \in Nat
    BY <1>1, <1>3, <2>1
  <2>3. place(i) # place(j)
    BY <1>10, <2>1, <2>2
  <2>4. ~(place(j) < place(i))
    BY <1>2, <1>10, <2>1, <2>2
  <2> QED BY <2>2, <2>3, <2>4
<1> QED BY <1>2, <1>3, <1>4, <1>5, <1>6, <1>8, <1>9, <1>10

-----------------------------------------------------------------------------
(* What Select keeps: its test, over the elements of one sequence, is a set. *)

Passing(s, K) == {i \in DOMAIN s : s[i] \in K}
Keep(s, K)    == At(s, Passing(s, K))

\* The places P of a sequence of n elements and the places Q of the one after it.
Both(P, n, Q) == P \cup {n + q : q \in Q}

\* They are counted off one after the other.
LEMMA RankConcat ==
  ASSUME NEW n \in Nat, NEW P \in SUBSET (1..n), NEW m \in Nat, NEW Q \in SUBSET (1..m)
  PROVE  /\ Cardinality(Both(P, n, Q)) = Cardinality(P) + Cardinality(Q)
         /\ \A p \in P : Rank(Both(P, n, Q), p) = Rank(P, p)
         /\ \A q \in Q : Rank(Both(P, n, Q), n + q) = Cardinality(P) + Rank(Q, q)
<1> DEFINE R == P \cup {n + q : q \in Q}
<1>0. P \subseteq Nat /\ Q \subseteq Nat
  OBVIOUS
<1>1. ASSUME NEW T \in SUBSET Q
      PROVE  /\ IsFiniteSet({n + q : q \in T})
             /\ Cardinality({n + q : q \in T}) = Cardinality(T)
             /\ Cardinality(P \cup {n + q : q \in T}) = Cardinality(P) + Cardinality(T)
  <2> DEFINE U == {n + q : q \in T}
             shift == [q \in T |-> n + q]
  <2>1. T \in SUBSET (1..m)
    OBVIOUS
  <2>2. IsFiniteSet(T) /\ Cardinality(T) \in Nat /\ IsFiniteSet(P) /\ Cardinality(P) \in Nat
    BY <2>1, PlacesFinite
  <2>3. shift \in Bijection(T, U)
    <3>1. shift \in [T -> U] /\ \A u \in U : \E q \in T : shift[q] = u
      OBVIOUS
    <3>2. \A q, r \in T : shift[q] = shift[r] => q = r
      BY <1>0
    <3> QED BY <3>1, <3>2 DEF Bijection, Injection, Surjection, IsInjective
  <2>4. ExistsBijection(T, U)
    BY <2>3 DEF ExistsBijection
  <2>5. P \cap U = {}
    BY <1>0
  <2> HIDE DEF U, shift
  <2>6. IsFiniteSet(U) /\ Cardinality(U) = Cardinality(T)
    BY <2>2, <2>4, FS_Bijection
  <2>7. Cardinality(P \cup U) = Cardinality(P) + Cardinality(U) - Cardinality(P \cap U)
    BY <2>2, <2>6, FS_Union
  <2>8. Cardinality(P \cup U) = Cardinality(P) + Cardinality(T)
    <3>1. Cardinality(P \cap U) = 0
      BY <2>5, FS_EmptySet
    <3> QED BY <2>2, <2>6, <2>7, <3>1
  <2> QED BY <2>6, <2>8 DEF U
<1>2. Cardinality(R) = Cardinality(P) + Cardinality(Q)
  BY <1>1
<1>3. ASSUME NEW p \in P PROVE Rank(R, p) = Rank(P, p)
  <2>1. \A q \in Q : ~(n + q <= p)
    BY <1>0
  <2>2. {r \in R : r <= p} = {r \in P : r <= p}
    BY <2>1
  <2> QED BY <2>2 DEF Rank
<1>4. ASSUME NEW q \in Q PROVE Rank(R, n + q) = Cardinality(P) + Rank(Q, q)
  <2>1. \A p \in P : p <= n + q
    BY <1>0
  <2>2. \A r \in Q : n + r <= n + q <=> r <= q
    BY <1>0
  <2>3. {r \in R : r <= n + q} = P \cup {n + r : r \in {x \in Q : x <= q}}
    BY <2>1, <2>2
  <2>4. {x \in Q : x <= q} \in SUBSET Q
    OBVIOUS
  <2>5. Cardinality(P \cup {n + r : r \in {x \in Q : x <= q}})
          = Cardinality(P) + Cardinality({x \in Q : x <= q})
    BY <1>1, <2>4
  <2> QED BY <2>3, <2>5 DEF Rank
<1> QED BY <1>2, <1>3, <1>4 DEF Both

\* What is kept is a sequence of what passes, and all of it.
LEMMA KeepType ==
  ASSUME NEW S, NEW s \in Seq(S), NEW K
  PROVE  /\ Keep(s, K) \in Seq(S)
         /\ \A i \in DOMAIN Keep(s, K) : \E p \in DOMAIN s : s[p] \in K /\ Keep(s, K)[i] = s[p]
         /\ \A p \in DOMAIN s : s[p] \in K => \E i \in DOMAIN Keep(s, K) : Keep(s, K)[i] = s[p]
<1>1. Passing(s, K) \in SUBSET DOMAIN s
  BY DEF Passing
<1> DEFINE P == Passing(s, K)
<1>2. /\ At(s, P) \in Seq(S)
      /\ \A p \in P : Rank(P, p) \in DOMAIN At(s, P) /\ At(s, P)[Rank(P, p)] = s[p]
      /\ \A i \in DOMAIN At(s, P) : \E p \in P : Rank(P, p) = i /\ At(s, P)[i] = s[p]
  <2> HIDE DEF P
  <2>1. P \in SUBSET DOMAIN s
    BY <1>1 DEF P
  <2> QED BY <2>1, AtProperties
<1>3. \A p \in DOMAIN s : p \in P <=> s[p] \in K
  BY DEF Passing
<1>4. P \subseteq DOMAIN s
  BY <1>1
<1> HIDE DEF P
<1>5. Keep(s, K) = At(s, P)
  BY DEF Keep, P
<1> QED BY <1>2, <1>3, <1>4, <1>5

\* What is kept of one sequence after another.
LEMMA KeepConcat ==
  ASSUME NEW S, NEW s \in Seq(S), NEW t \in Seq(S), NEW K
  PROVE  Keep(s \o t, K) = Keep(s, K) \o Keep(t, K)
<1> DEFINE n == Len(s)
           P == Passing(s, K)
           Q == Passing(t, K)
           R == Passing(s \o t, K)
<1>1. /\ n \in Nat /\ Len(t) \in Nat /\ DOMAIN s = 1..n /\ DOMAIN t = 1..Len(t)
      /\ s \o t \in Seq(S) /\ Len(s \o t) = n + Len(t) /\ DOMAIN (s \o t) = 1..(n + Len(t))
      /\ \A i \in 1..n : (s \o t)[i] = s[i]
      /\ \A i \in 1..Len(t) : (s \o t)[n + i] = t[i]
  <2>1. s \o t \in Seq(S) /\ Len(s \o t) = n + Len(t)
    BY ConcatProperties
  <2>2. n \in Nat /\ Len(t) \in Nat /\ DOMAIN s = 1..n /\ DOMAIN t = 1..Len(t)
    BY SeqPlaces
  <2>3. \A i \in 1..(n + Len(t)) : (s \o t)[i] = IF i <= n THEN s[i] ELSE t[i - n]
    BY ConcatProperties
  <2>4. ASSUME NEW i \in 1..Len(t) PROVE (s \o t)[n + i] = t[i]
    <3>1. n + i \in 1..(n + Len(t)) /\ ~(n + i <= n) /\ (n + i) - n = i
      BY <2>2
    <3> QED BY <2>3, <3>1
  <2> QED BY <2>1, <2>2, <2>3, <2>4, SeqPlaces
<1>2. P \in SUBSET (1..n) /\ Q \in SUBSET (1..Len(t)) /\ R \in SUBSET (1..(n + Len(t)))
  BY <1>1 DEF Passing
<1>3. R = Both(P, n, Q)
  <2>1. ASSUME NEW r \in R PROVE r \in P \cup {n + q : q \in Q}
    <3>1. CASE r <= n
      BY <1>1, <1>2, <3>1 DEF Passing
    <3>2. CASE ~(r <= n)
      <4>1. r - n \in 1..Len(t) /\ r = n + (r - n)
        BY <1>1, <1>2, <3>2
      <4>2. r - n \in Q
        BY <1>1, <4>1 DEF Passing
      <4> QED BY <4>1, <4>2
    <3> QED BY <3>1, <3>2
  <2>2. ASSUME NEW p \in P PROVE p \in R
    BY <1>1 DEF Passing
  <2>3. ASSUME NEW q \in Q PROVE n + q \in R
    <3>1. n + q \in 1..(n + Len(t))
      BY <1>1, <1>2
    <3> QED BY <1>1, <3>1 DEF Passing
  <2> QED BY <2>1, <2>2, <2>3 DEF Both
<1>4. /\ Cardinality(R) = Cardinality(P) + Cardinality(Q)
      /\ \A p \in P : Rank(R, p) = Rank(P, p)
      /\ \A q \in Q : Rank(R, n + q) = Cardinality(P) + Rank(Q, q)
  <2> DEFINE m == Len(t)
  <2>1. n \in Nat /\ m \in Nat /\ P \in SUBSET (1..n) /\ Q \in SUBSET (1..m)
    BY <1>1, <1>2
  <2> HIDE DEF n, m, P, Q, R
  <2>2. /\ Cardinality(Both(P, n, Q)) = Cardinality(P) + Cardinality(Q)
        /\ \A p \in P : Rank(Both(P, n, Q), p) = Rank(P, p)
        /\ \A q \in Q : Rank(Both(P, n, Q), n + q) = Cardinality(P) + Rank(Q, q)
    BY <2>1, RankConcat
  <2> QED BY <1>3, <2>2, Zenon
<1> DEFINE a == At(s, P)
           b == At(t, Q)
           c == At(s \o t, R)
<1>5. /\ a \in Seq(S) /\ Len(a) = Cardinality(P) /\ Cardinality(P) \in Nat
      /\ \A i \in 1..Cardinality(P) : \E p \in P : Rank(P, p) = i /\ a[i] = s[p]
  BY <1>1, <1>2, AtProperties
<1>6. /\ b \in Seq(S) /\ Len(b) = Cardinality(Q) /\ Cardinality(Q) \in Nat
      /\ \A i \in 1..Cardinality(Q) : \E q \in Q : Rank(Q, q) = i /\ b[i] = t[q]
  BY <1>1, <1>2, AtProperties
<1>7. /\ c \in Seq(S) /\ Len(c) = Cardinality(R)
      /\ \A r \in R : c[Rank(R, r)] = (s \o t)[r]
  <2> DEFINE u == s \o t
  <2>1. u \in Seq(S) /\ R \in SUBSET DOMAIN u
    BY <1>1, <1>2
  <2>2. c = At(u, R)
    OBVIOUS
  <2> HIDE DEF u, c, R
  <2>3. /\ c \in Seq(S) /\ Len(c) = Cardinality(R)
        /\ \A r \in R : c[Rank(R, r)] = u[r]
    BY <2>1, <2>2, AtProperties
  <2> QED BY <2>3 DEF u
<1> HIDE DEF a, b, c, P, Q, R, n
<1>8. /\ a \o b \in Seq(S) /\ Len(a \o b) = Cardinality(P) + Cardinality(Q)
      /\ \A i \in 1..(Cardinality(P) + Cardinality(Q)) :
           (a \o b)[i] = IF i <= Cardinality(P) THEN a[i] ELSE b[i - Cardinality(P)]
  <2>1. /\ a \o b \in Seq(S) /\ Len(a \o b) = Len(a) + Len(b)
        /\ \A i \in 1..(Len(a) + Len(b)) :
             (a \o b)[i] = IF i <= Len(a) THEN a[i] ELSE b[i - Len(a)]
    BY <1>5, <1>6, ConcatProperties
  <2>2. Len(a) = Cardinality(P) /\ Len(b) = Cardinality(Q)
    BY <1>5, <1>6
  <2> QED BY <2>1, <2>2, Zenon
<1>9. ASSUME NEW i \in 1..(Cardinality(P) + Cardinality(Q)) PROVE c[i] = (a \o b)[i]
  <2>1. CASE i <= Cardinality(P)
    <3>1. PICK p \in P : Rank(P, p) = i /\ a[i] = s[p]
      BY <1>5, <2>1
    <3>2. Rank(R, p) = i /\ p \in R /\ p \in 1..n
      BY <1>2, <1>3, <1>4, <3>1 DEF Both
    <3>3. c[i] = s[p]
      BY <1>1, <1>7, <3>2
    <3> QED BY <1>8, <2>1, <3>1, <3>3
  <2>2. CASE ~(i <= Cardinality(P))
    <3> DEFINE j == i - Cardinality(P)
    <3>1. j \in 1..Cardinality(Q) /\ i = Cardinality(P) + j
      BY <1>5, <1>6, <2>2
    <3> HIDE DEF j
    <3>2. PICK q \in Q : Rank(Q, q) = j /\ b[j] = t[q]
      BY <1>6, <3>1
    <3>3. Rank(R, n + q) = i /\ n + q \in R /\ q \in 1..Len(t)
      BY <1>2, <1>3, <1>4, <3>1, <3>2 DEF Both
    <3>4. c[i] = t[q]
      BY <1>1, <1>7, <3>3
    <3>5. (a \o b)[i] = b[j]
      BY <1>8, <2>2 DEF j
    <3> QED BY <3>2, <3>4, <3>5
  <2> QED BY <2>1, <2>2
<1>10. c = a \o b
  BY <1>4, <1>7, <1>8, <1>9, SeqEqual
<1> QED BY <1>10 DEF Keep, a, b, c, P, Q, R

\* Nothing is kept of what does not pass.
LEMMA KeepNone ==
  ASSUME NEW S, NEW s \in Seq(S), NEW K, \A i \in DOMAIN s : s[i] \notin K
  PROVE  Keep(s, K) = <<>>
<1>1. Passing(s, K) = {}
  BY DEF Passing
<1>2. Keep(s, K) \in Seq(S) /\ Len(Keep(s, K)) = 0
  BY <1>1, AtProperties, FS_EmptySet DEF Keep
<1> QED BY <1>2, EmptySeq

\* One element is kept or not.
LEMMA KeepOne ==
  ASSUME NEW S, NEW e \in S, NEW K
  PROVE  Keep(<<e>>, K) = IF e \in K THEN <<e>> ELSE <<>>
<1>1. <<e>> \in Seq(S) /\ DOMAIN <<e>> = {1} /\ <<e>>[1] = e /\ Len(<<e>>) = 1
  OBVIOUS
<1>2. CASE e \notin K
  BY <1>1, <1>2, KeepNone
<1>3. CASE e \in K
  <2>1. Passing(<<e>>, K) = {1}
    BY <1>1, <1>3 DEF Passing
  <2>2. Cardinality({1}) = 1
    BY FS_Singleton
  <2>3. /\ Keep(<<e>>, K) \in Seq(S) /\ Len(Keep(<<e>>, K)) = 1
        /\ \A i \in DOMAIN Keep(<<e>>, K) : \E p \in {1} : Keep(<<e>>, K)[i] = <<e>>[p]
    <3> DEFINE s == <<e>>
               P == {1}
    <3>1. s \in Seq(S) /\ P \in SUBSET DOMAIN s
      BY <1>1
    <3> HIDE DEF s, P
    <3>2. /\ At(s, P) \in Seq(S) /\ Len(At(s, P)) = Cardinality(P)
          /\ \A i \in DOMAIN At(s, P) : \E p \in P : Rank(P, p) = i /\ At(s, P)[i] = s[p]
      BY <3>1, AtProperties
    <3>3. Keep(s, K) = At(s, P)
      BY <2>1 DEF Keep, s, P
    <3> QED BY <2>2, <3>2, <3>3 DEF s, P
  <2>4. DOMAIN Keep(<<e>>, K) = 1..1
    BY <2>3, SeqPlaces
  <2>5. \A i \in 1..1 : Keep(<<e>>, K)[i] = <<e>>[i]
    BY <1>1, <2>3, <2>4
  <2>6. Keep(<<e>>, K) = <<e>>
    BY <1>1, <2>3, <2>5, SeqEqual
  <2> QED BY <1>3, <2>6
<1> QED BY <1>2, <1>3

-----------------------------------------------------------------------------
(* Sequences of whatever they hold.                                        *)

Elements(s) == {s[i] : i \in DOMAIN s}
Vector(s)   == s \in Seq(Elements(s))

\* A sequence of some set is one, and a part of that set is what it holds.
LEMMA VectorOf ==
  ASSUME NEW S, NEW s \in Seq(S)
  PROVE  Vector(s) /\ Elements(s) \subseteq S
<1>1. s \in [1..Len(s) -> S] /\ Len(s) \in Nat /\ DOMAIN s = 1..Len(s)
  BY LenProperties
<1>2. Elements(s) \subseteq S
  BY <1>1 DEF Elements
<1>3. s \in [1..Len(s) -> Elements(s)]
  BY <1>1 DEF Elements
<1>4. Vector(s)
  BY <1>1, <1>3, FunctionIsSeq DEF Vector
<1> QED BY <1>2, <1>4

\* And of every set that has what it holds.
LEMMA VectorIn ==
  ASSUME NEW s, Vector(s), NEW S, Elements(s) \subseteq S
  PROVE  s \in Seq(S)
<1>1. s \in [1..Len(s) -> Elements(s)] /\ Len(s) \in Nat
  BY LenProperties DEF Vector
<1>2. s \in [1..Len(s) -> S]
  BY <1>1
<1> QED BY <1>1, <1>2, FunctionIsSeq

\* The places of a sequence.
LEMMA VectorPlaces ==
  ASSUME NEW s, Vector(s)
  PROVE  /\ Len(s) \in Nat
         /\ DOMAIN s = 1..Len(s)
         /\ \A i \in DOMAIN s : s[i] \in Elements(s)
  BY SeqPlaces DEF Vector

\* The empty one holds nothing.
LEMMA VectorEmpty == Vector(<<>>) /\ Elements(<<>>) = {}
<1>1. Elements(<<>>) = {}
  BY DEF Elements
<1> QED BY <1>1, EmptySeq DEF Vector

\* No other holds nothing.
LEMMA VectorNone ==
  ASSUME NEW s, Vector(s), Elements(s) = {}
  PROVE  s = <<>>
<1>1. s \in Seq({})
  BY DEF Vector
<1>2. s # <<>> => s[1] \in {}
  BY <1>1, SeqPlaces
<1> QED BY <1>2

\* One after another.
LEMMA VectorConcat ==
  ASSUME NEW s, Vector(s), NEW t, Vector(t)
  PROVE  /\ Vector(s \o t)
         /\ Elements(s \o t) = Elements(s) \cup Elements(t)
         /\ Len(s \o t) = Len(s) + Len(t)
         /\ \A i \in DOMAIN (s \o t) :
              (s \o t)[i] = IF i <= Len(s) THEN s[i] ELSE t[i - Len(s)]
<1> DEFINE S == Elements(s) \cup Elements(t)
<1>1. s \in Seq(S) /\ t \in Seq(S)
  BY VectorIn
<1> HIDE DEF S
<1>2. /\ s \o t \in Seq(S) /\ Len(s \o t) = Len(s) + Len(t)
      /\ \A i \in 1..(Len(s) + Len(t)) :
           (s \o t)[i] = IF i <= Len(s) THEN s[i] ELSE t[i - Len(s)]
  BY <1>1, ConcatProperties
<1>3. /\ DOMAIN (s \o t) = 1..(Len(s) + Len(t))
      /\ DOMAIN s = 1..Len(s) /\ DOMAIN t = 1..Len(t)
      /\ Len(s) \in Nat /\ Len(t) \in Nat
  BY <1>1, <1>2, LenProperties
<1>4. ASSUME NEW i \in DOMAIN s PROVE s[i] \in Elements(s \o t)
  <2>1. i \in DOMAIN (s \o t) /\ (s \o t)[i] = s[i]
    BY <1>2, <1>3
  <2> QED BY <2>1 DEF Elements
<1>5. ASSUME NEW i \in DOMAIN t PROVE t[i] \in Elements(s \o t)
  <2> DEFINE j == Len(s) + i
  <2>1. j \in DOMAIN (s \o t) /\ ~(j <= Len(s)) /\ j - Len(s) = i
    BY <1>3
  <2>2. (s \o t)[j] = t[i]
    BY <1>2, <1>3, <2>1
  <2> QED BY <2>1, <2>2 DEF Elements
<1>6. Elements(s \o t) \subseteq S /\ Vector(s \o t)
  BY <1>2, VectorOf
<1>7. S \subseteq Elements(s \o t)
  BY <1>4, <1>5 DEF S, Elements
<1> QED BY <1>2, <1>3, <1>6, <1>7 DEF S

\* One more at the end.
LEMMA VectorAppend ==
  ASSUME NEW s, Vector(s), NEW e
  PROVE  /\ Vector(Append(s, e))
         /\ Elements(Append(s, e)) = Elements(s) \cup {e}
         /\ Append(s, e) = s \o <<e>>
         /\ Vector(<<e>>) /\ Elements(<<e>>) = {e}
<1> DEFINE one == <<e>>
<1>1. one \in Seq({e}) /\ DOMAIN one = {1} /\ one[1] = e
  OBVIOUS
<1> HIDE DEF one
<1>2. Vector(one) /\ Elements(one) = {e}
  BY <1>1, VectorOf DEF Elements
<1> DEFINE S == Elements(s) \cup {e}
<1>3. s \in Seq(S) /\ e \in S
  BY VectorIn
<1> HIDE DEF S
<1>4. Append(s, e) = s \o one
  BY <1>3, AppendIsConcat DEF one
<1>5. Vector(s \o one) /\ Elements(s \o one) = Elements(s) \cup {e}
  BY <1>2, VectorConcat
<1> QED BY <1>2, <1>4, <1>5 DEF one

\* The first and the rest.
LEMMA VectorHeadTail ==
  ASSUME NEW s, Vector(s), s # <<>>
  PROVE  /\ Vector(Tail(s))
         /\ Elements(s) = {Head(s)} \cup Elements(Tail(s))
         /\ s = <<Head(s)>> \o Tail(s)
<1>1. Head(s) \in Elements(s) /\ Tail(s) \in Seq(Elements(s))
  BY HeadTailProperties DEF Vector
<1>2. s = <<Head(s)>> \o Tail(s)
  <2>1. s \in Seq(Elements(s))
    BY DEF Vector
  <2>2. /\ Len(Tail(s)) = Len(s) - 1 /\ Len(s) \in Nat \ {0}
        /\ \A i \in 1..(Len(s) - 1) : Tail(s)[i] = s[i + 1]
        /\ Head(s) = s[1]
    BY <2>1, HeadTailProperties, EmptySeq, LenProperties
  <2> DEFINE h == <<Head(s)>>
  <2>3. h \in Seq(Elements(s)) /\ Len(h) = 1 /\ h[1] = Head(s)
    BY <1>1
  <2> HIDE DEF h
  <2> DEFINE t == Tail(s)
  <2>4. t \in Seq(Elements(s)) /\ Len(t) = Len(s) - 1 /\ \A i \in 1..(Len(s) - 1) : t[i] = s[i + 1]
    BY <1>1, <2>2
  <2> HIDE DEF t
  <2>5. /\ h \o t \in Seq(Elements(s)) /\ Len(h \o t) = Len(s)
        /\ \A i \in 1..Len(s) : (h \o t)[i] = IF i <= 1 THEN h[i] ELSE t[i - 1]
    <3>1. /\ h \o t \in Seq(Elements(s)) /\ Len(h \o t) = Len(h) + Len(t)
          /\ \A i \in 1..(Len(h) + Len(t)) :
               (h \o t)[i] = IF i <= Len(h) THEN h[i] ELSE t[i - Len(h)]
      BY <2>3, <2>4, ConcatProperties
    <3>2. Len(h) + Len(t) = Len(s)
      BY <2>2, <2>3, <2>4
    <3> QED BY <2>3, <3>1, <3>2
  <2>6. \A i \in 1..Len(s) : (h \o t)[i] = s[i]
    BY <2>2, <2>3, <2>4, <2>5
  <2>7. s = h \o t
    BY <2>1, <2>5, <2>6, SeqEqual
  <2> QED BY <2>7 DEF h, t
<1>3. Vector(Tail(s))
  BY <1>1, VectorOf
<1>4. Vector(<<Head(s)>>) /\ Elements(<<Head(s)>>) = {Head(s)}
  BY VectorAppend, VectorEmpty
<1>5. Elements(<<Head(s)>> \o Tail(s)) = {Head(s)} \cup Elements(Tail(s))
  BY <1>3, <1>4, VectorConcat
<1> QED BY <1>2, <1>3, <1>5

\* What is kept, as a set, and in its order.
LEMMA VectorKeep ==
  ASSUME NEW s, Vector(s), NEW K
  PROVE  /\ Vector(Keep(s, K))
         /\ Elements(Keep(s, K)) = Elements(s) \cap K
<1>1. /\ Keep(s, K) \in Seq(Elements(s))
      /\ \A i \in DOMAIN Keep(s, K) : \E p \in DOMAIN s : s[p] \in K /\ Keep(s, K)[i] = s[p]
      /\ \A p \in DOMAIN s : s[p] \in K => \E i \in DOMAIN Keep(s, K) : Keep(s, K)[i] = s[p]
  BY KeepType DEF Vector
<1> DEFINE k == Keep(s, K)
<1> HIDE DEF k
<1>2. /\ \A i \in DOMAIN k : \E p \in DOMAIN s : s[p] \in K /\ k[i] = s[p]
      /\ \A p \in DOMAIN s : s[p] \in K => \E i \in DOMAIN k : k[i] = s[p]
  BY <1>1 DEF k
<1>3. Elements(k) = Elements(s) \cap K
  BY <1>2 DEF Elements
<1> QED BY <1>1, <1>3, VectorOf DEF k

\* Concatenation is associative, and the empty sequence changes nothing.
LEMMA VectorConcats ==
  ASSUME NEW s, Vector(s), NEW t, Vector(t), NEW u, Vector(u)
  PROVE  /\ (s \o t) \o u = s \o (t \o u)
         /\ s \o <<>> = s /\ <<>> \o s = s
<1> DEFINE S == Elements(s) \cup Elements(t) \cup Elements(u)
<1>1. s \in Seq(S) /\ t \in Seq(S) /\ u \in Seq(S)
  BY VectorIn
<1> HIDE DEF S
<1> QED BY <1>1, ConcatAssociative, ConcatEmptySeq

\* What is kept of one sequence after another, of one element and of none.
LEMMA VectorKeeps ==
  ASSUME NEW K
  PROVE  /\ \A s, t : Vector(s) /\ Vector(t) => Keep(s \o t, K) = Keep(s, K) \o Keep(t, K)
         /\ \A e : Keep(<<e>>, K) = IF e \in K THEN <<e>> ELSE <<>>
         /\ \A s : Vector(s) /\ Elements(s) \cap K = {} => Keep(s, K) = <<>>
<1>1. ASSUME NEW s, NEW t, Vector(s), Vector(t)
      PROVE  Keep(s \o t, K) = Keep(s, K) \o Keep(t, K)
  <2> DEFINE S == Elements(s) \cup Elements(t)
  <2>1. s \in Seq(S) /\ t \in Seq(S)
    BY <1>1, VectorIn
  <2> HIDE DEF S
  <2> QED BY <2>1, KeepConcat
<1>2. ASSUME NEW e PROVE Keep(<<e>>, K) = IF e \in K THEN <<e>> ELSE <<>>
  <2>1. e \in {e}
    OBVIOUS
  <2> QED BY <2>1, KeepOne
<1>3. ASSUME NEW s, Vector(s), Elements(s) \cap K = {} PROVE Keep(s, K) = <<>>
  <2>1. Vector(Keep(s, K)) /\ Elements(Keep(s, K)) = {}
    BY <1>3, VectorKeep
  <2> DEFINE k == Keep(s, K)
  <2> HIDE DEF k
  <2>2. Vector(k) /\ Elements(k) = {}
    BY <2>1 DEF k
  <2>3. k = <<>>
    BY <2>2, VectorNone
  <2> QED BY <2>3 DEF k
<1> QED BY <1>1, <1>2, <1>3

\* Two with the same elements at the same places are one.
LEMMA VectorSame ==
  ASSUME NEW s, Vector(s), NEW t, Vector(t), Len(s) = Len(t), \A i \in DOMAIN s : s[i] = t[i]
  PROVE  s = t
<1> DEFINE S == Elements(s) \cup Elements(t)
<1>1. s \in Seq(S) /\ t \in Seq(S)
  BY VectorIn
<1> HIDE DEF S
<1>2. s \in [1..Len(s) -> S] /\ t \in [1..Len(t) -> S] /\ DOMAIN s = 1..Len(s)
  BY <1>1, LenProperties
<1> QED BY <1>2

\* A sequence around one of its places, and with another element there.
LEMMA VectorAround ==
  ASSUME NEW s, Vector(s), NEW n \in DOMAIN s
  PROVE  \E a, b :
           /\ Vector(a) /\ Vector(b)
           /\ Len(a) = n - 1 /\ Len(b) = Len(s) - n
           /\ \A i \in DOMAIN a : a[i] = s[i]
           /\ \A i \in DOMAIN b : b[i] = s[n + i]
           /\ s = a \o (<<s[n]>> \o b)
           /\ \A e : [s EXCEPT ![n] = e] = a \o (<<e>> \o b)
<1> DEFINE l == Len(s)
           a == [i \in 1..(n - 1) |-> s[i]]
           b == [i \in 1..(l - n) |-> s[n + i]]
<1>1. l \in Nat /\ DOMAIN s = 1..l /\ n \in 1..l /\ \A i \in 1..l : s[i] \in Elements(s)
  BY VectorPlaces
<1>2. n - 1 \in Nat /\ l - n \in Nat
  BY <1>1
<1>3. a \in Seq(Elements(s)) /\ Len(a) = n - 1
  <2>1. a \in [1..(n - 1) -> Elements(s)]
    BY <1>1
  <2> HIDE DEF a
  <2> QED BY <1>2, <2>1, FunctionIsSeq
<1>4. b \in Seq(Elements(s)) /\ Len(b) = l - n
  <2>1. b \in [1..(l - n) -> Elements(s)]
    BY <1>1
  <2> HIDE DEF b
  <2> QED BY <1>2, <2>1, FunctionIsSeq
<1>5. DOMAIN a = 1..(n - 1) /\ DOMAIN b = 1..(l - n)
  OBVIOUS
<1>6. /\ \A i \in DOMAIN a : a[i] = s[i]
      /\ \A i \in DOMAIN b : b[i] = s[n + i]
  OBVIOUS
<1> HIDE DEF a, b
<1>7. Vector(a) /\ Vector(b)
  BY <1>3, <1>4, VectorOf
<1>8. ASSUME NEW e PROVE [s EXCEPT ![n] = e] = a \o (<<e>> \o b)
  <2> DEFINE one == <<e>>
             r == [s EXCEPT ![n] = e]
             S == Elements(s) \cup {e}
             tail == one \o b
             t == a \o tail
  <2>1. /\ r \in [1..l -> S] /\ r[n] = e /\ \A i \in 1..l : i # n => r[i] = s[i]
    BY <1>1
  <2>2. Vector(one) /\ DOMAIN one = 1..1 /\ one[1] = e /\ Len(one) = 1
    BY <1>7, VectorAppend
  <2> HIDE DEF r, one, S
  <2>3. r \in Seq(S) /\ Len(r) = l
    BY <1>1, <2>1, FunctionIsSeq
  <2>4. Vector(r) /\ DOMAIN r = 1..l
    BY <2>1, <2>3, VectorOf
  <2>5. /\ Vector(tail) /\ Len(tail) = 1 + (l - n)
        /\ \A i \in DOMAIN tail : tail[i] = IF i <= 1 THEN one[i] ELSE b[i - 1]
    BY <1>4, <1>7, <2>2, VectorConcat
  <2>6. DOMAIN tail = 1..(1 + (l - n))
    BY <2>5, VectorPlaces
  <2> HIDE DEF tail
  <2>7. /\ Vector(t) /\ Len(t) = l
        /\ \A i \in DOMAIN t : t[i] = IF i <= n - 1 THEN a[i] ELSE tail[i - (n - 1)]
    <3>1. /\ Vector(t) /\ Len(t) = Len(a) + Len(tail)
          /\ \A i \in DOMAIN t : t[i] = IF i <= Len(a) THEN a[i] ELSE tail[i - Len(a)]
      BY <1>7, <2>5, VectorConcat
    <3> HIDE DEF t
    <3>2. Len(t) = l
      BY <1>1, <1>3, <2>5, <3>1
    <3> QED BY <1>3, <3>1, <3>2
  <2>8. DOMAIN t = 1..l
    BY <2>7, VectorPlaces
  <2> HIDE DEF t
  <2>9. ASSUME NEW i \in 1..l PROVE r[i] = t[i]
    <3>1. CASE i < n
      <4>1. i \in 1..(n - 1) /\ i <= n - 1 /\ i # n
        BY <1>1, <3>1
      <4>2. t[i] = a[i] /\ a[i] = s[i] /\ r[i] = s[i]
        BY <1>5, <1>6, <2>1, <2>7, <2>8, <4>1
      <4> QED BY <4>2
    <3>2. CASE i = n
      <4>1. ~(i <= n - 1) /\ i - (n - 1) = 1 /\ 1 \in DOMAIN tail
        BY <1>1, <2>6, <3>2
      <4>2. t[i] = tail[1] /\ tail[1] = e
        BY <2>2, <2>5, <2>7, <2>8, <4>1
      <4> QED BY <2>1, <3>2, <4>2
    <3>3. CASE i > n
      <4> DEFINE j == i - n
      <4>1. /\ ~(i <= n - 1) /\ i - (n - 1) = j + 1 /\ j + 1 \in DOMAIN tail
            /\ j \in 1..(l - n) /\ n + j = i /\ ~(j + 1 <= 1) /\ (j + 1) - 1 = j /\ i # n
        BY <1>1, <2>6, <3>3
      <4> HIDE DEF j
      <4>2. t[i] = tail[j + 1] /\ tail[j + 1] = b[j]
        BY <2>5, <2>7, <2>8, <4>1
      <4>3. b[j] = s[i] /\ r[i] = s[i]
        BY <1>5, <1>6, <2>1, <4>1
      <4> QED BY <4>2, <4>3
    <3> QED BY <1>1, <3>1, <3>2, <3>3
  <2>10. r = t
    BY <2>3, <2>4, <2>7, <2>9, VectorSame
  <2> QED BY <2>10 DEF r, t, tail, one
<1>9. s = a \o (<<s[n]>> \o b)
  <2>1. [s EXCEPT ![n] = s[n]] = s
    <3>1. s \in [1..l -> Elements(s)]
      BY VectorPlaces, LenProperties DEF Vector
    <3> QED BY <1>1, <3>1
  <2> QED BY <1>8, <2>1
<1> WITNESS a, b
<1> QED BY <1>3, <1>4, <1>6, <1>7, <1>8, <1>9

\* What comes after the same element.
LEMMA VectorCancel ==
  ASSUME NEW x, NEW y, NEW s, Vector(s), NEW t, Vector(t), <<x>> \o s = <<y>> \o t
  PROVE  x = y /\ s = t
<1> DEFINE p == <<x>>
           q == <<y>>
           u == p \o s
           v == q \o t
<1>0. u = v
  OBVIOUS
<1>1. Vector(p) /\ Len(p) = 1 /\ p[1] = x /\ Vector(q) /\ Len(q) = 1 /\ q[1] = y
  BY VectorAppend
<1> HIDE DEF p, q
<1>2. /\ Vector(u) /\ Len(u) = 1 + Len(s)
      /\ \A i \in DOMAIN u : u[i] = IF i <= 1 THEN p[i] ELSE s[i - 1]
  BY <1>1, VectorConcat
<1>3. /\ Len(v) = 1 + Len(t)
      /\ \A i \in DOMAIN v : v[i] = IF i <= 1 THEN q[i] ELSE t[i - 1]
  BY <1>1, VectorConcat
<1> HIDE DEF u, v
<1>4. Len(s) \in Nat /\ Len(t) \in Nat /\ DOMAIN s = 1..Len(s) /\ DOMAIN u = 1..Len(u)
  BY <1>2, VectorPlaces
<1>5. Len(s) = Len(t)
  BY <1>0, <1>2, <1>3, <1>4
<1>6. x = y
  <2>1. 1 \in DOMAIN u
    BY <1>2, <1>4
  <2>2. u[1] = p[1] /\ v[1] = q[1]
    BY <1>0, <1>2, <1>3, <2>1
  <2> QED BY <1>0, <1>1, <2>2
<1>7. ASSUME NEW i \in DOMAIN s PROVE s[i] = t[i]
  <2>1. i + 1 \in DOMAIN u /\ ~(i + 1 <= 1) /\ (i + 1) - 1 = i
    BY <1>2, <1>4
  <2>2. u[i + 1] = s[i] /\ v[i + 1] = t[i]
    BY <1>0, <1>2, <1>3, <2>1
  <2> QED BY <1>0, <2>2
<1> QED BY <1>5, <1>6, <1>7, VectorSame

\* What is kept stands in the order it stood in before, at places of its own.
LEMMA VectorKeepOrder ==
  ASSUME NEW s, Vector(s), NEW K
  PROVE  /\ Len(Keep(s, K)) <= Len(s)
         /\ \A i \in DOMAIN Keep(s, K) : \E p \in DOMAIN s : s[p] \in K /\ Keep(s, K)[i] = s[p]
         /\ \A i, j \in DOMAIN Keep(s, K) :
              i < j => \E p, q \in DOMAIN s :
                         /\ p < q /\ s[p] \in K /\ s[q] \in K
                         /\ Keep(s, K)[i] = s[p] /\ Keep(s, K)[j] = s[q]
<1> DEFINE S == Elements(s)
           P == Passing(s, K)
<1>1. s \in Seq(S) /\ P \in SUBSET DOMAIN s /\ \A p \in P : p \in DOMAIN s /\ s[p] \in K
  BY DEF Vector, Passing
<1>2. Keep(s, K) = At(s, P)
  BY DEF Keep
<1> HIDE DEF S, P
<1>3. /\ Len(At(s, P)) = Cardinality(P)
      /\ \A i \in DOMAIN At(s, P) : \E p \in P : At(s, P)[i] = s[p]
      /\ \A i, j \in DOMAIN At(s, P) :
           i < j => \E p, q \in P : p < q /\ At(s, P)[i] = s[p] /\ At(s, P)[j] = s[q]
  BY <1>1, AtProperties
<1>4. Cardinality(P) <= Len(s)
  <2>1. Len(s) \in Nat /\ DOMAIN s = 1..Len(s)
    BY <1>1, SeqPlaces
  <2>2. \A n \in Nat : IsFiniteSet(1..n) /\ Cardinality(1..n) = n
    BY FS_Interval
  <2>3. IsFiniteSet(1..Len(s)) /\ Cardinality(1..Len(s)) = Len(s) /\ P \in SUBSET (1..Len(s))
    BY <1>1, <2>1, <2>2
  <2> QED BY <2>3, FS_Subset
<1> QED BY <1>1, <1>2, <1>3, <1>4

\* What is left without the first, place by place.
LEMMA VectorTail ==
  ASSUME NEW s, Vector(s), s # <<>>
  PROVE  /\ Vector(Tail(s))
         /\ Len(s) \in Nat \ {0} /\ DOMAIN s = 1..Len(s)
         /\ Len(Tail(s)) = Len(s) - 1 /\ DOMAIN Tail(s) = 1..(Len(s) - 1)
         /\ Head(s) = s[1] /\ 1 \in DOMAIN s
         /\ \A i \in DOMAIN Tail(s) : i + 1 \in DOMAIN s /\ Tail(s)[i] = s[i + 1]
<1> DEFINE S == Elements(s)
<1>1. s \in Seq(S) /\ s # <<>>
  BY DEF Vector
<1> HIDE DEF S
<1>2. Len(s) \in Nat \ {0} /\ DOMAIN s = 1..Len(s)
  BY <1>1, SeqPlaces, EmptySeq
<1>3. /\ Tail(s) \in Seq(S) /\ Len(Tail(s)) = Len(s) - 1 /\ Head(s) = s[1]
      /\ \A i \in 1..(Len(s) - 1) : Tail(s)[i] = s[i + 1]
  BY <1>1, <1>2
<1>4. DOMAIN Tail(s) = 1..(Len(s) - 1)
  BY <1>3, SeqPlaces
<1>5. Vector(Tail(s))
  BY <1>3, VectorOf
<1> QED BY <1>2, <1>3, <1>4, <1>5

\* What there is with one more at the end, place by place.
LEMMA VectorLonger ==
  ASSUME NEW s, Vector(s), NEW e
  PROVE  /\ Vector(Append(s, e))
         /\ Len(s) \in Nat /\ DOMAIN s = 1..Len(s)
         /\ Len(Append(s, e)) = Len(s) + 1 /\ DOMAIN Append(s, e) = 1..(Len(s) + 1)
         /\ \A i \in DOMAIN s : Append(s, e)[i] = s[i]
         /\ Append(s, e)[Len(s) + 1] = e
<1> DEFINE S == Elements(s) \cup {e}
<1>1. s \in Seq(S) /\ e \in S
  BY VectorIn
<1> HIDE DEF S
<1>2. Len(s) \in Nat /\ DOMAIN s = 1..Len(s)
  BY <1>1, SeqPlaces
<1>3. /\ Append(s, e) \in Seq(S) /\ Len(Append(s, e)) = Len(s) + 1
      /\ \A i \in 1..Len(s) : Append(s, e)[i] = s[i]
      /\ Append(s, e)[Len(s) + 1] = e
  BY <1>1, <1>2
<1>4. DOMAIN Append(s, e) = 1..(Len(s) + 1)
  BY <1>3, SeqPlaces
<1>5. Vector(Append(s, e))
  BY VectorAppend
<1> QED BY <1>2, <1>3, <1>4, <1>5

\* A function on the first numbers is a sequence.
LEMMA VectorFunction ==
  ASSUME NEW n \in Nat, NEW s, s = [i \in 1..n |-> s[i]]
  PROVE  Vector(s) /\ Len(s) = n /\ DOMAIN s = 1..n
<1> DEFINE S == {s[i] : i \in 1..n}
<1>1. s \in [1..n -> S]
  OBVIOUS
<1> HIDE DEF S
<1> QED BY <1>1, FunctionIsSeq, VectorOf

\* What stands at some places of a sequence is a sequence, in the order of the places.
LEMMA VectorAt ==
  ASSUME NEW s, Vector(s), NEW P \in SUBSET DOMAIN s
  PROVE  /\ Vector(At(s, P))
         /\ Cardinality(P) \in Nat /\ Cardinality(P) <= Len(s) /\ Len(At(s, P)) = Cardinality(P)
         /\ DOMAIN At(s, P) = 1..Cardinality(P)
         /\ \A i \in DOMAIN At(s, P) : \E p \in P : At(s, P)[i] = s[p]
         /\ \A i, j \in DOMAIN At(s, P) :
              i < j => \E p, q \in P : p < q /\ At(s, P)[i] = s[p] /\ At(s, P)[j] = s[q]
<1> DEFINE S == Elements(s)
<1>1. s \in Seq(S)
  BY DEF Vector
<1> HIDE DEF S
<1>2. /\ Cardinality(P) \in Nat
      /\ At(s, P) \in Seq(S)
      /\ DOMAIN At(s, P) = 1..Cardinality(P)
      /\ Len(At(s, P)) = Cardinality(P)
      /\ \A i \in DOMAIN At(s, P) : \E p \in P : At(s, P)[i] = s[p]
      /\ \A i, j \in DOMAIN At(s, P) :
           i < j => \E p, q \in P : p < q /\ At(s, P)[i] = s[p] /\ At(s, P)[j] = s[q]
  BY <1>1, AtProperties
<1>3. Vector(At(s, P))
  BY <1>2, VectorOf
<1>4. Cardinality(P) <= Len(s)
  <2>1. Len(s) \in Nat /\ DOMAIN s = 1..Len(s)
    BY <1>1, SeqPlaces
  <2>2. \A n \in Nat : IsFiniteSet(1..n) /\ Cardinality(1..n) = n
    BY FS_Interval
  <2>3. IsFiniteSet(1..Len(s)) /\ Cardinality(1..Len(s)) = Len(s) /\ P \in SUBSET (1..Len(s))
    BY <2>1, <2>2
  <2> QED BY <2>3, FS_Subset
<1> QED BY <1>2, <1>3, <1>4

\* t is s, or s without its oldest, and then e.
Taking(s, e, t) ==
  \E d \in {0, 1} :
    /\ DOMAIN t = 1..(Len(s) + 1 - d) /\ Len(s) \in Nat
    /\ DOMAIN s = 1..Len(s) /\ d <= Len(s)
    /\ t[Len(s) + 1 - d] = e
    /\ \A i \in 1..(Len(s) - d) : t[i] = s[i + d]

\* A buffer of limited size makes room before it takes another.
LEMMA VectorRoom ==
  ASSUME NEW s, Vector(s), NEW room \in Nat \ {0}, Len(s) <= room, NEW e,
         NEW t,
         \/ Len(s) >= room /\ t = Append(Tail(s), e)
         \/ ~(Len(s) >= room) /\ t = Append(s, e)
  PROVE  /\ Vector(t) /\ Len(t) <= room
         /\ Taking(s, e, t)
<1>1. CASE Len(s) >= room
  <2>1. s # <<>>
    BY <1>1, EmptySeq
  <2>2. /\ Vector(Tail(s)) /\ Len(s) \in Nat \ {0} /\ DOMAIN s = 1..Len(s)
        /\ Len(Tail(s)) = Len(s) - 1 /\ DOMAIN Tail(s) = 1..(Len(s) - 1)
        /\ \A i \in DOMAIN Tail(s) : Tail(s)[i] = s[i + 1]
    BY <2>1, VectorTail
  <2> DEFINE rest == Tail(s)
  <2>3. Vector(rest) /\ t = Append(rest, e)
    BY <1>1, <2>2
  <2> HIDE DEF rest
  <2>4. /\ Vector(Append(rest, e)) /\ Len(Append(rest, e)) = Len(rest) + 1
        /\ DOMAIN Append(rest, e) = 1..(Len(rest) + 1)
        /\ \A i \in DOMAIN rest : Append(rest, e)[i] = rest[i]
        /\ Append(rest, e)[Len(rest) + 1] = e
    BY <2>3, VectorLonger
  <2>5. /\ Len(rest) = Len(s) - 1 /\ DOMAIN rest = 1..(Len(s) - 1)
        /\ \A i \in DOMAIN rest : rest[i] = s[i + 1]
    BY <2>2 DEF rest
  <2>6. /\ DOMAIN t = 1..(Len(s) + 1 - 1) /\ 1 <= Len(s) /\ Len(t) <= room
        /\ t[Len(s) + 1 - 1] = e
        /\ \A i \in 1..(Len(s) - 1) : t[i] = s[i + 1]
    <3>1. Len(rest) + 1 = Len(s) /\ Len(s) + 1 - 1 = Len(s) /\ 1 <= Len(s)
      BY <2>2, <2>5
    <3>2. Vector(t) /\ DOMAIN t = 1..Len(s) /\ Len(t) = Len(s) /\ t[Len(s)] = e
      BY <2>3, <2>4, <3>1
    <3>3. \A i \in 1..(Len(s) - 1) : t[i] = s[i + 1]
      BY <2>3, <2>4, <2>5
    <3> QED BY <3>1, <3>2, <3>3
  <2>7. Vector(t)
    BY <2>3, <2>4
  <2> QED BY <2>2, <2>6, <2>7 DEF Taking
<1>2. CASE ~(Len(s) >= room)
  <2>1. t = Append(s, e)
    BY <1>2
  <2>2. /\ Vector(t) /\ Len(s) \in Nat /\ DOMAIN s = 1..Len(s)
        /\ Len(t) = Len(s) + 1 /\ DOMAIN t = 1..(Len(s) + 1)
        /\ \A i \in DOMAIN s : t[i] = s[i]
        /\ t[Len(s) + 1] = e
    BY <2>1, VectorLonger
  <2>3. /\ DOMAIN t = 1..(Len(s) + 1 - 0) /\ 0 <= Len(s) /\ Len(t) <= room
        /\ t[Len(s) + 1 - 0] = e
        /\ \A i \in 1..(Len(s) - 0) : t[i] = s[i + 0]
    BY <1>2, <2>2
  <2> QED BY <2>2, <2>3 DEF Taking
<1> QED BY <1>1, <1>2

-----------------------------------------------------------------------------
(* What Vec::swap_remove and Vec::retain leave.                            *)

\* The place SwapRemove took the element at place i of its result from.
Origin(s, n, i) == IF i = n THEN Len(s) ELSE i

\* swap_remove drops one element and keeps every other once.
LEMMA SwapRemoveProperties ==
  ASSUME NEW S, NEW s \in Seq(S), NEW n \in DOMAIN s
  PROVE  /\ SwapRemove(s, n) \in Seq(S)
         /\ DOMAIN SwapRemove(s, n) = 1..(Len(s) - 1)
         /\ \A i \in DOMAIN SwapRemove(s, n) :
              /\ Origin(s, n, i) \in DOMAIN s \ {n}
              /\ SwapRemove(s, n)[i] = s[Origin(s, n, i)]
         /\ \A i, j \in DOMAIN SwapRemove(s, n) :
              Origin(s, n, i) = Origin(s, n, j) => i = j
<1>1. DOMAIN s = 1..Len(s) /\ Len(s) \in Nat /\ Len(s) - 1 \in Nat
  BY LenProperties
<1>2. SwapRemove(s, n) \in [1..(Len(s) - 1) -> S]
  BY <1>1, SeqPlaces DEF SwapRemove
<1>3. SwapRemove(s, n) \in Seq(S) /\ DOMAIN SwapRemove(s, n) = 1..(Len(s) - 1)
  BY <1>1, <1>2, FunctionIsSeq
<1> QED BY <1>1, <1>3 DEF SwapRemove, Origin

\* The place Without took the element at place i of its result from.
Shifted(n, i) == IF i < n THEN i ELSE i + 1

\* retain drops one element and keeps the others in order.
LEMMA WithoutProperties ==
  ASSUME NEW S, NEW s \in Seq(S), NEW n \in DOMAIN s
  PROVE  /\ Without(s, n) \in Seq(S)
         /\ DOMAIN Without(s, n) = 1..(Len(s) - 1)
         /\ \A i \in DOMAIN Without(s, n) :
              /\ Shifted(n, i) \in DOMAIN s \ {n}
              /\ Without(s, n)[i] = s[Shifted(n, i)]
         /\ \A i, j \in DOMAIN Without(s, n) : Shifted(n, i) = Shifted(n, j) => i = j
<1>1. DOMAIN s = 1..Len(s) /\ Len(s) \in Nat /\ Len(s) - 1 \in Nat
  BY LenProperties
<1>2. Without(s, n) \in [1..(Len(s) - 1) -> S]
  BY <1>1, SeqPlaces DEF Without
<1>3. Without(s, n) \in Seq(S) /\ DOMAIN Without(s, n) = 1..(Len(s) - 1)
  BY <1>1, <1>2, FunctionIsSeq
<1> QED BY <1>1, <1>3 DEF Without, Shifted

\* Members that are some have a highest quality of service, which one of them
\* has and none exceeds.
LEMMA HighestProperties ==
  ASSUME NEW ms \in Seq(Member), ms # <<>>
  PROVE  /\ Highest(ms) \in Qos
         /\ \E i \in DOMAIN ms : ms[i].qos = Highest(ms)
         /\ \A i \in DOMAIN ms : ms[i].qos <= Highest(ms)
<1> DEFINE Top(q) == /\ \E i \in DOMAIN ms : ms[i].qos = q
                     /\ \A i \in DOMAIN ms : ms[i].qos <= q
<1>1. /\ DOMAIN ms # {}
      /\ \A i \in DOMAIN ms : ms[i].qos \in Qos
  <2>1. \A i \in DOMAIN ms : ms[i] \in Member
    BY SeqPlaces
  <2>2. DOMAIN ms # {}
    BY SeqPlaces
  <2> QED BY <2>1, <2>2 DEF Member
<1>2. \E q \in Qos : Top(q)
  <2>1. CASE \E i \in DOMAIN ms : ms[i].qos = 2
    BY <1>1, <2>1 DEF Qos
  <2>2. CASE /\ \A i \in DOMAIN ms : ms[i].qos # 2
             /\ \E i \in DOMAIN ms : ms[i].qos = 1
    BY <1>1, <2>2 DEF Qos
  <2>3. CASE \A i \in DOMAIN ms : ms[i].qos = 0
    BY <1>1, <2>3 DEF Qos
  <2> QED BY <1>1, <2>1, <2>2, <2>3 DEF Qos
<1>3. Highest(ms) = CHOOSE q \in Qos : Top(q)
  BY DEF Highest
<1> HIDE DEF Top
<1>4. Highest(ms) \in Qos /\ Top(Highest(ms))
  BY <1>2, <1>3
<1> QED BY <1>4 DEF Top

\* ... and it is the only value that is.
LEMMA HighestUnique ==
  ASSUME NEW ms \in Seq(Member), NEW q \in Qos,
         \E i \in DOMAIN ms : ms[i].qos = q,
         \A i \in DOMAIN ms : ms[i].qos <= q
  PROVE  Highest(ms) = q
<1>1. ms # <<>>
  OBVIOUS
<1>2. \A i \in DOMAIN ms : ms[i].qos \in Qos
  <2>1. \A i \in DOMAIN ms : ms[i] \in Member
    BY SeqPlaces
  <2> QED BY <2>1 DEF Member
<1> QED BY <1>1, <1>2, HighestProperties DEF Qos

-----------------------------------------------------------------------------
(* What each method makes of the table.                                    *)

\* Wires changed in place are as many as before.
LEMMA InPlace ==
  ASSUME RegistryTypeOK, NEW ws, DOMAIN ws = DOMAIN wires,
         ws = [n \in DOMAIN wires |-> ws[n]],
         \A n \in DOMAIN wires : ws[n] \in Wire
  PROVE  ws \in Seq(Wire) /\ Len(ws) = Len(wires)
<1>1. DOMAIN wires = 1..Len(wires) /\ Len(wires) \in Nat
  BY SeqPlaces DEF RegistryTypeOK
<1>2. ws \in [1..Len(wires) -> Wire]
  BY <1>1
<1> QED BY <1>1, <1>2, FunctionIsSeq

\* The wires once a member is seated: f's has it as its last member and asks for
\* the higher quality of service, every other one is as it was.
LEMMA SeatedProperties ==
  ASSUME RegistryTypeOK, NEW f \in Filters, NEW q \in Qos
  PROVE  /\ Seated(f, q) \in Seq(Wire)
         /\ DOMAIN Seated(f, q) = IF Holds(f) THEN 1..Len(wires) ELSE 1..(Len(wires) + 1)
         /\ \A n \in DOMAIN wires :
              /\ n \in DOMAIN Seated(f, q)
              /\ wires[n].filter # f => Seated(f, q)[n] = wires[n]
              /\ wires[n].filter = f =>
                   Seated(f, q)[n] =
                     [wires[n] EXCEPT !.members = Append(wires[n].members,
                                                         [id |-> nextMember, qos |-> q]),
                                      !.qos = Higher(wires[n].qos, q)]
         /\ ~Holds(f) => Seated(f, q)[Len(wires) + 1] =
              [filter |-> f, qos |-> q, identifier |-> NoIdentifier, unnamed |-> FALSE,
               members |-> <<[id |-> nextMember, qos |-> q]>>, turn |-> 0]
<1> DEFINE entry == [id |-> nextMember, qos |-> q]
<1>1. DOMAIN wires = 1..Len(wires) /\ Len(wires) \in Nat /\ wires \in Seq(Wire)
      /\ \A n \in DOMAIN wires : wires[n] \in Wire
  BY SeqPlaces DEF RegistryTypeOK
<1>2. entry \in Member
  BY DEF Member, RegistryTypeOK
<1>3. CASE Holds(f)
  <2> DEFINE ws == [n \in DOMAIN wires |->
                      IF wires[n].filter = f
                      THEN [wires[n] EXCEPT !.members = Append(@, entry),
                                            !.qos     = Higher(@, q)]
                      ELSE wires[n]]
  <2>1. Seated(f, q) = ws
    BY <1>3 DEF Seated
  <2>2. ASSUME NEW n \in DOMAIN wires PROVE ws[n] \in Wire
    <3>1. wires[n] \in Wire
      BY <1>1
    <3>2. Append(wires[n].members, entry) \in Seq(Member)
      BY <1>2, <3>1, AppendProperties DEF Wire
    <3>3. Higher(wires[n].qos, q) \in Qos
      BY <3>1 DEF Wire, Higher
    <3> HIDE DEF entry
    <3> QED BY <3>1, <3>2, <3>3 DEF Wire
  <2>3. ws \in Seq(Wire) /\ DOMAIN ws = DOMAIN wires
    BY <2>2, InPlace
  <2>4. \A n \in DOMAIN wires :
          ws[n] = IF wires[n].filter = f
                  THEN [wires[n] EXCEPT !.members = Append(wires[n].members, entry),
                                        !.qos     = Higher(wires[n].qos, q)]
                  ELSE wires[n]
    OBVIOUS
  <2> HIDE DEF ws
  <2> QED BY <1>1, <1>3, <2>1, <2>3, <2>4
<1>4. CASE ~Holds(f)
  <2> DEFINE new == [filter |-> f, qos |-> q, identifier |-> NoIdentifier,
                     unnamed |-> FALSE, members |-> <<entry>>, turn |-> 0]
  <2>1. Seated(f, q) = Append(wires, new)
    BY <1>4 DEF Seated
  <2>2. new \in Wire
    <3>1. <<entry>> \in Seq(Member)
      BY <1>2
    <3>2. 0 \in 0..(TurnRange - 1)
      BY RegistryAssumption
    <3> HIDE DEF entry
    <3> QED BY <3>1, <3>2 DEF Wire, NoIdentifier
  <2>3. \A n \in DOMAIN wires : wires[n].filter # f
    BY <1>4 DEF Holds
  <2> HIDE DEF new
  <2>4. Append(wires, new) \in Seq(Wire) /\ Len(Append(wires, new)) = Len(wires) + 1
        /\ Append(wires, new)[Len(wires) + 1] = new
        /\ \A n \in 1..Len(wires) : Append(wires, new)[n] = wires[n]
    BY <1>1, <2>2, AppendProperties
  <2>5. DOMAIN Append(wires, new) = 1..(Len(wires) + 1)
    BY <2>4, SeqPlaces
  <2>6. \A n \in DOMAIN wires : n \in 1..(Len(wires) + 1)
    BY <1>1
  <2>7. new = [filter |-> f, qos |-> q, identifier |-> NoIdentifier, unnamed |-> FALSE,
               members |-> <<[id |-> nextMember, qos |-> q]>>, turn |-> 0]
    BY DEF new, entry
  <2> HIDE DEF entry
  <2> QED BY <1>1, <1>4, <2>1, <2>3, <2>4, <2>5, <2>6, <2>7
<1> QED BY <1>3, <1>4

\* The identifiers a join gives out are free, and no two are the same.
LEMMA GivenFree ==
  ASSUME NEW ws \in Seq(Wire), NEW f \in Filters,
         NEW ids, DOMAIN ids \subseteq DOMAIN ws,
         Given(ws, f, ids)
  PROVE  /\ \A n \in DOMAIN ids : ids[n] \notin Taken(ws)
         /\ \A m, n \in DOMAIN ids : ids[m] = ids[n] => m = n
<1> DEFINE Before(m, n) == IF ws[n].filter = f THEN m # n
                           ELSE ws[m].filter # f /\ m < n
           Seen(n) == Taken(ws) \cup {ids[m] : m \in {k \in DOMAIN ids : Before(k, n)}}
<1>1. \A n \in DOMAIN ids : FreeIdentifier(ws[n].filter, Seen(n), ids[n])
  BY DEF Given
<1> HIDE DEF Seen
<1>2. \A n \in DOMAIN ids : ids[n] \notin Seen(n)
  BY <1>1 DEF FreeIdentifier
<1>3. ASSUME NEW m \in DOMAIN ids, NEW n \in DOMAIN ids, m # n
      PROVE  Before(m, n) \/ Before(n, m)
  <2>1. m \in Nat /\ n \in Nat
    BY SeqPlaces
  <2> QED BY <1>3, <2>1
<1> HIDE DEF Before
<1> QED BY <1>2, <1>3 DEF Seen

\* What a wire is after a join, from what it is once the member is seated.
IdentifiedAs(seated, w, f) ==
  /\ w.filter = seated.filter /\ w.qos = seated.qos /\ w.members = seated.members
  /\ \/ w.identifier = seated.identifier /\ w.unnamed = seated.unnamed
     \/ /\ seated.identifier = NoIdentifier /\ w.identifier # NoIdentifier
        /\ w.unnamed = (seated.filter # f \/ seated.unnamed)

\* join seats the member, leaves every identifier where it was and gives free,
\* different ones to wires that had none: all that meet f, on a server offering
\* identifiers.
LEMMA JoinProperties ==
  ASSUME RegistryTypeOK, NEW f \in Filters, NEW q \in Qos, NEW offered \in BOOLEAN,
         Join(f, q, offered),
         NEW seated, seated = Seated(f, q)
  PROVE  /\ wires' \in Seq(Wire) /\ nextMember' = nextMember + 1
         /\ DOMAIN wires' = DOMAIN seated
         /\ \A n \in DOMAIN seated : IdentifiedAs(seated[n], wires'[n], f)
         /\ \A n \in DOMAIN seated :
              wires'[n].identifier # seated[n].identifier =>
                /\ wires'[n].identifier \notin Taken(seated)
                /\ \A m \in DOMAIN seated :
                     /\ wires'[m].identifier # seated[m].identifier
                     /\ wires'[m].identifier = wires'[n].identifier
                     => m = n
                /\ seated[n].filter = f \/ Overlap(seated[n].filter, f)
         /\ offered /\ Met(f) # {} =>
              \A n \in DOMAIN seated :
                seated[n].filter = f \/ Overlap(seated[n].filter, f)
                  => wires'[n].identifier # NoIdentifier
<1>1. /\ seated \in Seq(Wire)
      /\ DOMAIN seated = 1..Len(seated) /\ Len(seated) \in Nat
      /\ \A n \in DOMAIN seated : seated[n] \in Wire
  BY SeatedProperties, SeqPlaces
<1>2. nextMember' = nextMember + 1
  BY DEF Join
<1>3. CASE offered /\ Met(f) # {}
  <2> DEFINE gaining == Gaining(seated, f)
  <2>1. PICK ids \in [gaining -> Identifiers] :
          Given(seated, f, ids) /\ wires' = Identify(seated, f, ids)
    BY <1>3 DEF Join
  <2>2. /\ gaining \subseteq DOMAIN seated
        /\ \A n \in gaining : /\ seated[n].identifier = NoIdentifier
                              /\ seated[n].filter = f \/ Overlap(seated[n].filter, f)
        /\ \A n \in DOMAIN seated \ gaining :
             seated[n].filter = f \/ Overlap(seated[n].filter, f)
               => seated[n].identifier # NoIdentifier
    BY DEF Gaining
  <2> HIDE DEF gaining
  <2>3. DOMAIN ids = gaining /\ \A n \in gaining : ids[n] \in Identifiers
    BY <2>1
  <2>4. /\ \A n \in gaining : ids[n] \notin Taken(seated)
        /\ \A m, n \in gaining : ids[m] = ids[n] => m = n
    BY <1>1, <2>1, <2>2, <2>3, GivenFree
  <2>5. DOMAIN wires' = DOMAIN seated
    BY <2>1 DEF Identify
  <2>6. ASSUME NEW n \in gaining
        PROVE  wires'[n] = [seated[n] EXCEPT !.identifier = ids[n],
                                             !.unnamed = IF seated[n].filter = f
                                                         THEN seated[n].unnamed ELSE TRUE]
    BY <2>1, <2>2, <2>3 DEF Identify
  <2>7. ASSUME NEW n \in DOMAIN seated \ gaining PROVE wires'[n] = seated[n]
    BY <2>1, <2>3 DEF Identify
  <2>8. \A id \in Identifiers : id # NoIdentifier
    BY RegistryAssumption DEF Identifiers, NoIdentifier
  <2>9. ASSUME NEW n \in DOMAIN seated
        PROVE  wires'[n] \in Wire /\ IdentifiedAs(seated[n], wires'[n], f)
    <3>1. seated[n] \in Wire
      BY <1>1
    <3>2. CASE n \in gaining
      <4>1. ids[n] \in Identifiers /\ ids[n] # NoIdentifier
            /\ seated[n].identifier = NoIdentifier
        BY <2>2, <2>3, <2>8, <3>2
      <4> QED BY <2>6, <3>1, <3>2, <4>1 DEF Wire, IdentifiedAs
    <3>3. CASE n \notin gaining
      BY <2>7, <3>1, <3>3 DEF IdentifiedAs
    <3> QED BY <3>2, <3>3
  <2>10. wires' \in Seq(Wire)
    <3>1. wires' = [n \in 1..Len(seated) |-> wires'[n]]
      BY <1>1, <2>1 DEF Identify
    <3>2. wires' \in [1..Len(seated) -> Wire]
      BY <1>1, <2>9, <3>1
    <3> QED BY <1>1, <3>2, FunctionIsSeq
  <2>11. ASSUME NEW n \in gaining PROVE wires'[n].identifier = ids[n]
    <3>1. seated[n] \in Wire
      BY <1>1, <2>2
    <3> QED BY <2>6, <3>1 DEF Wire
  <2> QED BY <1>2, <1>3, <2>2, <2>3, <2>4, <2>5, <2>7, <2>8, <2>9, <2>10, <2>11
<1>4. CASE ~offered \/ Met(f) = {}
  <2>1. wires' = seated
    BY <1>4 DEF Join
  <2> QED BY <1>1, <1>2, <1>4, <2>1 DEF IdentifiedAs
<1> QED BY <1>3, <1>4

\* What a wire may become without its members changing: it loses its identifier
\* or keeps it.
RetoldAs(before, w) ==
  /\ w \in Wire
  /\ w.filter = before.filter /\ w.qos = before.qos /\ w.members = before.members
  /\ w.identifier \in {before.identifier, NoIdentifier}

\* The methods that change wires in place and none of their members.
Retelling ==
  \/ \E f \in Filters, accepted \in BOOLEAN : Identified(f, accepted)
  \/ \E offered \in BOOLEAN : Resubscribing(offered)
  \/ \E t \in Topics, ids \in SUBSET Identifiers : Route(t, ids)

\* They change wires in place, and no more of each than RetoldAs says.
LEMMA RetellingProperties ==
  ASSUME RegistryTypeOK, Retelling
  PROVE  /\ wires' \in Seq(Wire) /\ nextMember' = nextMember
         /\ DOMAIN wires' = DOMAIN wires
         /\ \A n \in DOMAIN wires : RetoldAs(wires[n], wires'[n])
<1>1. DOMAIN wires = 1..Len(wires) /\ \A n \in DOMAIN wires : wires[n] \in Wire
  BY SeqPlaces DEF RegistryTypeOK
<1>2. SUFFICES /\ nextMember' = nextMember
               /\ wires' = [n \in DOMAIN wires |-> wires'[n]]
               /\ \A n \in DOMAIN wires : RetoldAs(wires[n], wires'[n])
  <2>1. DOMAIN wires' = DOMAIN wires /\ \A n \in DOMAIN wires : wires'[n] \in Wire
    BY <1>2 DEF RetoldAs
  <2> QED BY <1>2, <2>1, InPlace
<1>3. ASSUME NEW f \in Filters, NEW accepted \in BOOLEAN, Identified(f, accepted)
      PROVE  /\ nextMember' = nextMember
             /\ wires' = [n \in DOMAIN wires |-> wires'[n]]
             /\ \A n \in DOMAIN wires : RetoldAs(wires[n], wires'[n])
  <2>1. nextMember' = nextMember /\ wires' = [n \in DOMAIN wires |-> wires'[n]]
    BY <1>3 DEF Identified
  <2>2. ASSUME NEW n \in DOMAIN wires PROVE RetoldAs(wires[n], wires'[n])
    <3>1. wires'[n] = IF wires[n].filter = f
                      THEN [wires[n] EXCEPT !.unnamed = FALSE,
                              !.identifier = IF accepted THEN wires[n].identifier
                                             ELSE NoIdentifier]
                      ELSE wires[n]
      BY <1>3 DEF Identified
    <3> QED BY <1>1, <3>1 DEF Wire, RetoldAs
  <2> QED BY <2>1, <2>2
<1>4. ASSUME NEW offered \in BOOLEAN, Resubscribing(offered)
      PROVE  /\ nextMember' = nextMember
             /\ wires' = [n \in DOMAIN wires |-> wires'[n]]
             /\ \A n \in DOMAIN wires : RetoldAs(wires[n], wires'[n])
  <2>1. nextMember' = nextMember /\ wires' = [n \in DOMAIN wires |-> wires'[n]]
    BY <1>4 DEF Resubscribing
  <2>2. ASSUME NEW n \in DOMAIN wires PROVE RetoldAs(wires[n], wires'[n])
    <3>1. wires'[n] = [wires[n] EXCEPT
                         !.unnamed = wires[n].identifier # NoIdentifier /\ ~offered]
      BY <1>4 DEF Resubscribing
    <3>2. (wires[n].identifier # NoIdentifier /\ ~offered) \in BOOLEAN
      OBVIOUS
    <3> QED BY <1>1, <3>1, <3>2 DEF Wire, RetoldAs
  <2> QED BY <2>1, <2>2
<1>5. ASSUME NEW t \in Topics, NEW ids \in SUBSET Identifiers, Route(t, ids)
      PROVE  /\ nextMember' = nextMember
             /\ wires' = [n \in DOMAIN wires |-> wires'[n]]
             /\ \A n \in DOMAIN wires : RetoldAs(wires[n], wires'[n])
  <2>1. nextMember' = nextMember /\ wires' = [n \in DOMAIN wires |-> wires'[n]]
    BY <1>5 DEF Route
  <2>2. ASSUME NEW n \in DOMAIN wires PROVE RetoldAs(wires[n], wires'[n])
    <3>1. wires'[n] = IF n \in Targets(t, ids)
                      THEN [wires[n] EXCEPT !.turn = (wires[n].turn + 1) % TurnRange]
                      ELSE wires[n]
      BY <1>5 DEF Route
    <3>2. wires[n].turn \in Nat
      BY <1>1 DEF Wire
    <3>3. (wires[n].turn + 1) % TurnRange \in 0..(TurnRange - 1)
      BY <3>2, RegistryAssumption
    <3> QED BY <1>1, <3>1, <3>3 DEF Wire, RetoldAs
  <2> QED BY <2>1, <2>2
<1> QED BY <1>3, <1>4, <1>5 DEF Retelling

\* The methods that take a wire out.
Removal(n) ==
  /\ n \in DOMAIN wires
  /\ wires' = SwapRemove(wires, n)
  /\ nextMember' = nextMember

\* leave with another member left: only wire n changes, by its member at place i.
Parting(n, i) ==
  /\ n \in DOMAIN wires /\ i \in DOMAIN wires[n].members
  /\ Without(wires[n].members, i) # <<>>
  /\ wires' = [wires EXCEPT ![n] =
                 [wires[n] EXCEPT !.members = Without(wires[n].members, i),
                                  !.qos = Highest(Without(wires[n].members, i))]]
  /\ nextMember' = nextMember

\* A member leaves one of several, or takes its wire with it, or sat nowhere.
LEMMA LeaveCases ==
  ASSUME NEW m, Leave(m)
  PROVE  \/ \E n \in DOMAIN wires : \E i \in DOMAIN wires[n].members : Parting(n, i)
         \/ \E n \in DOMAIN wires : Removal(n)
         \/ UNCHANGED registryVars
<1>1. nextMember' = nextMember
  BY DEF Leave
<1>2. ASSUME NEW n \in DOMAIN wires, NEW i \in DOMAIN wires[n].members,
             LET rest == Without(wires[n].members, i)
             IN wires' = IF rest = <<>> THEN SwapRemove(wires, n)
                         ELSE [wires EXCEPT ![n] = [@ EXCEPT !.members = rest,
                                                             !.qos = Highest(rest)]]
      PROVE  Parting(n, i) \/ Removal(n)
  BY <1>1, <1>2 DEF Parting, Removal
<1> QED BY <1>1, <1>2 DEF Leave, registryVars

\* Every step is one of four kinds.
LEMMA StepCases ==
  ASSUME [RegistryNext]_registryVars
  PROVE  \/ \E f \in Filters, q \in Qos, offered \in Offers : Join(f, q, offered)
         \/ Retelling
         \/ \E n \in DOMAIN wires : \E i \in DOMAIN wires[n].members : Parting(n, i)
         \/ \E n \in DOMAIN wires : Removal(n)
         \/ wires' = <<>> /\ nextMember' = nextMember
         \/ UNCHANGED registryVars
<1>1. (\E f \in Filters, accepted \in Answers : Identified(f, accepted)) => Retelling
  BY RegistryAssumption DEF Retelling
<1>2. (\E offered \in Offers : Resubscribing(offered)) => Retelling
  BY RegistryAssumption DEF Retelling
<1>3. (\E t \in Topics, ids \in SUBSET Identifiers : Route(t, ids)) => Retelling
  BY DEF Retelling
<1>4. (\E f \in Filters : EndFilter(f)) => \E n \in DOMAIN wires : Removal(n)
  BY DEF EndFilter, Removal
<1> QED BY <1>1, <1>2, <1>3, <1>4, LeaveCases DEF RegistryNext, End

\* leave keeps the type of the wire it takes a member out of.
LEMMA PartingProperties ==
  ASSUME RegistryTypeOK, NEW n, NEW i, Parting(n, i)
  PROVE  /\ wires' \in Seq(Wire) /\ nextMember' = nextMember
         /\ DOMAIN wires' = DOMAIN wires
         /\ \A k \in DOMAIN wires \ {n} : wires'[k] = wires[k]
         /\ wires'[n].filter = wires[n].filter
         /\ wires'[n].identifier = wires[n].identifier
         /\ wires'[n].unnamed = wires[n].unnamed
         /\ wires'[n].members = Without(wires[n].members, i)
         /\ wires'[n].qos = Highest(Without(wires[n].members, i))
         /\ Without(wires[n].members, i) \in Seq(Member)
<1>1. DOMAIN wires = 1..Len(wires) /\ \A k \in DOMAIN wires : wires[k] \in Wire
  BY SeqPlaces DEF RegistryTypeOK
<1>2. wires[n] \in Wire /\ wires[n].members \in Seq(Member)
  BY <1>1 DEF Parting, Wire
<1> DEFINE rest == Without(wires[n].members, i)
<1>3. rest \in Seq(Member) /\ rest # <<>>
  BY <1>2, WithoutProperties DEF Parting
<1>4. Highest(rest) \in Qos
  BY <1>3, HighestProperties
<1>5. wires' = [wires EXCEPT ![n] = [wires[n] EXCEPT !.members = rest, !.qos = Highest(rest)]]
      /\ n \in DOMAIN wires /\ nextMember' = nextMember
  BY DEF Parting
<1> HIDE DEF rest
<1>6. wires'[n] = [wires[n] EXCEPT !.members = rest, !.qos = Highest(rest)]
      /\ \A k \in DOMAIN wires \ {n} : wires'[k] = wires[k]
  BY <1>5
<1>7. wires'[n] \in Wire /\ wires'[n].members = rest /\ wires'[n].qos = Highest(rest)
      /\ wires'[n].filter = wires[n].filter
      /\ wires'[n].identifier = wires[n].identifier
      /\ wires'[n].unnamed = wires[n].unnamed
  BY <1>2, <1>3, <1>4, <1>6 DEF Wire
<1>8. DOMAIN wires' = DOMAIN wires /\ wires' = [k \in DOMAIN wires |-> wires'[k]]
  BY <1>5
<1>9. \A k \in DOMAIN wires : wires'[k] \in Wire
  BY <1>1, <1>6, <1>7
<1>10. wires' \in Seq(Wire)
  BY <1>8, <1>9, InPlace
<1> QED BY <1>3, <1>5, <1>6, <1>7, <1>8, <1>10 DEF rest

-----------------------------------------------------------------------------
(* Type correctness.                                                       *)

\* The empty table has its type.
LEMMA TypeInit == RegistryInit => RegistryTypeOK
  BY DEF RegistryInit, RegistryTypeOK

\* Every method keeps the type.
LEMMA TypeStep == RegistryTypeOK /\ [RegistryNext]_registryVars => RegistryTypeOK'
<1> SUFFICES ASSUME RegistryTypeOK, [RegistryNext]_registryVars PROVE RegistryTypeOK'
  OBVIOUS
<1>1. nextMember \in Nat /\ wires \in Seq(Wire)
  BY DEF RegistryTypeOK
<1>2. ASSUME NEW f \in Filters, NEW q \in Qos, NEW offered \in Offers, Join(f, q, offered)
      PROVE  RegistryTypeOK'
  <2>1. offered \in BOOLEAN
    BY RegistryAssumption
  <2> QED BY <1>1, <1>2, <2>1, JoinProperties DEF RegistryTypeOK
<1>3. CASE Retelling
  BY <1>1, <1>3, RetellingProperties DEF RegistryTypeOK
<1>4. ASSUME NEW n \in DOMAIN wires, NEW i \in DOMAIN wires[n].members, Parting(n, i)
      PROVE  RegistryTypeOK'
  BY <1>1, <1>4, PartingProperties DEF RegistryTypeOK
<1>5. ASSUME NEW n \in DOMAIN wires, Removal(n) PROVE RegistryTypeOK'
  BY <1>1, <1>5, SwapRemoveProperties DEF RegistryTypeOK, Removal
<1>6. CASE wires' = <<>> /\ nextMember' = nextMember
  BY <1>1, <1>6 DEF RegistryTypeOK
<1>7. CASE UNCHANGED registryVars
  BY <1>7 DEF RegistryTypeOK, registryVars
<1> QED BY <1>2, <1>3, <1>4, <1>5, <1>6, <1>7, StepCases

\* Every method keeps the table well formed: identifiers within the protocol's
\* range, turns within the counter's, a quality of service that is one.
THEOREM TypeCorrect == RegistrySpec => []RegistryTypeOK
BY TypeInit, TypeStep, PTL DEF RegistrySpec

-----------------------------------------------------------------------------
(* The structure of the table.  The parts need one another: a quality of   *)
(* service is some member's only while every wire has one, and an id is    *)
(* new only while those handed out stay below the counter.                 *)

Structure ==
  RegistryTypeOK /\ OneWirePerFilter /\ OneSeatPerMember /\ QosOfMembers /\ DistinctIdentifiers

\* The empty table is well structured.
LEMMA StructureInit == RegistryInit => Structure
<1> SUFFICES ASSUME RegistryInit PROVE Structure
  OBVIOUS
<1>1. DOMAIN wires = {}
  BY DEF RegistryInit
<1> QED BY <1>1, TypeInit DEF Structure, OneWirePerFilter, OneSeatPerMember, QosOfMembers,
           DistinctIdentifiers

\* Taking a wire out leaves the others as they were, each once.
LEMMA RemovalStructure ==
  ASSUME Structure, NEW n, Removal(n)
  PROVE  Structure'
<1>1. RegistryTypeOK'
  BY SwapRemoveProperties DEF Structure, RegistryTypeOK, Removal
<1>2. /\ \A i \in DOMAIN wires' : /\ Origin(wires, n, i) \in DOMAIN wires
                                  /\ wires'[i] = wires[Origin(wires, n, i)]
      /\ \A i, j \in DOMAIN wires' : Origin(wires, n, i) = Origin(wires, n, j) => i = j
      /\ nextMember' = nextMember
  BY SwapRemoveProperties DEF Structure, RegistryTypeOK, Removal
<1>3. OneWirePerFilter'
  BY <1>2 DEF Structure, OneWirePerFilter
<1>4. OneSeatPerMember'
  BY <1>2 DEF Structure, OneSeatPerMember
<1>5. QosOfMembers'
  BY <1>2 DEF Structure, QosOfMembers, Highest
<1>6. DistinctIdentifiers'
  BY <1>2 DEF Structure, DistinctIdentifiers
<1> QED BY <1>1, <1>3, <1>4, <1>5, <1>6 DEF Structure

\* The server's answers and deliveries move no member and give no identifier.
LEMMA RetellingStructure ==
  ASSUME Structure, Retelling
  PROVE  Structure'
<1>1. /\ wires' \in Seq(Wire) /\ nextMember' = nextMember
      /\ DOMAIN wires' = DOMAIN wires
      /\ \A n \in DOMAIN wires : RetoldAs(wires[n], wires'[n])
  BY RetellingProperties DEF Structure
<1>2. RegistryTypeOK'
  BY <1>1 DEF Structure, RegistryTypeOK
<1>3. OneWirePerFilter'
  BY <1>1 DEF RetoldAs, Structure, OneWirePerFilter
<1>4. OneSeatPerMember'
  BY <1>1 DEF RetoldAs, Structure, OneSeatPerMember
<1>5. QosOfMembers'
  BY <1>1 DEF RetoldAs, Structure, QosOfMembers, Highest
<1>6. DistinctIdentifiers'
  BY <1>1 DEF RetoldAs, Structure, DistinctIdentifiers
<1> QED BY <1>2, <1>3, <1>4, <1>5, <1>6 DEF Structure

\* A member that leaves others behind: they keep their ids, and the wire's
\* quality of service becomes theirs.
LEMMA PartingStructure ==
  ASSUME Structure, NEW n, NEW i, Parting(n, i)
  PROVE  Structure'
<1>1. /\ wires' \in Seq(Wire) /\ nextMember' = nextMember
      /\ DOMAIN wires' = DOMAIN wires
      /\ \A k \in DOMAIN wires \ {n} : wires'[k] = wires[k]
      /\ wires'[n].filter = wires[n].filter
      /\ wires'[n].identifier = wires[n].identifier
      /\ wires'[n].members = Without(wires[n].members, i)
      /\ wires'[n].qos = Highest(Without(wires[n].members, i))
      /\ n \in DOMAIN wires /\ i \in DOMAIN wires[n].members
      /\ Without(wires[n].members, i) # <<>>
  BY PartingProperties DEF Structure, Parting
<1>2. RegistryTypeOK'
  BY <1>1 DEF Structure, RegistryTypeOK
<1>3. OneWirePerFilter'
  BY <1>1 DEF Structure, OneWirePerFilter
<1>4. OneSeatPerMember'
  <2> DEFINE Place(k, j) == IF k = n THEN Shifted(i, j) ELSE j
  <2>1. /\ \A j \in DOMAIN wires'[n].members :
             /\ Shifted(i, j) \in DOMAIN wires[n].members
             /\ wires'[n].members[j] = wires[n].members[Shifted(i, j)]
        /\ \A j, l \in DOMAIN wires'[n].members : Shifted(i, j) = Shifted(i, l) => j = l
    <3>1. wires[n].members \in Seq(Member)
      <4>1. wires[n] \in Wire
        BY <1>1, SeqPlaces DEF Structure, RegistryTypeOK
      <4> QED BY <4>1 DEF Wire
    <3> DEFINE ms == wires[n].members
    <3>2. ms \in Seq(Member) /\ i \in DOMAIN ms /\ wires'[n].members = Without(ms, i)
      BY <1>1, <3>1
    <3> HIDE DEF ms
    <3>3. /\ \A j \in DOMAIN Without(ms, i) : /\ Shifted(i, j) \in DOMAIN ms \ {i}
                                              /\ Without(ms, i)[j] = ms[Shifted(i, j)]
          /\ \A j, l \in DOMAIN Without(ms, i) : Shifted(i, j) = Shifted(i, l) => j = l
      BY <3>2, WithoutProperties
    <3> QED BY <3>2, <3>3 DEF ms
  <2>2. \A k \in DOMAIN wires : \A j \in DOMAIN wires'[k].members :
          /\ Place(k, j) \in DOMAIN wires[k].members
          /\ wires'[k].members[j] = wires[k].members[Place(k, j)]
    BY <1>1, <2>1
  <2>3. \A k \in DOMAIN wires : \A j, l \in DOMAIN wires'[k].members :
          Place(k, j) = Place(k, l) => j = l
    BY <1>1, <2>1
  <2> HIDE DEF Place
  <2> QED BY <1>1, <2>2, <2>3 DEF Structure, OneSeatPerMember
<1>5. QosOfMembers'
  BY <1>1 DEF Structure, QosOfMembers, Highest
<1>6. DistinctIdentifiers'
  BY <1>1 DEF Structure, DistinctIdentifiers
<1> QED BY <1>2, <1>3, <1>4, <1>5, <1>6 DEF Structure

\* A member that joins: its id is new, it raises its wire's quality of service
\* to its own at least, and what identifiers are given are free.
LEMMA JoiningStructure ==
  ASSUME Structure, NEW f \in Filters, NEW q \in Qos, NEW offered \in BOOLEAN,
         Join(f, q, offered)
  PROVE  Structure'
<1> DEFINE entry  == [id |-> nextMember, qos |-> q]
           seated == Seated(f, q)
<1>1. /\ wires' \in Seq(Wire) /\ nextMember' = nextMember + 1
      /\ DOMAIN wires' = DOMAIN seated
      /\ \A n \in DOMAIN seated : IdentifiedAs(seated[n], wires'[n], f)
      /\ \A n \in DOMAIN seated :
           wires'[n].identifier # seated[n].identifier =>
             /\ wires'[n].identifier \notin Taken(seated)
             /\ \A m \in DOMAIN seated :
                  /\ wires'[m].identifier # seated[m].identifier
                  /\ wires'[m].identifier = wires'[n].identifier
                  => m = n
  BY JoinProperties DEF Structure
<1>2. /\ seated \in Seq(Wire)
      /\ DOMAIN seated = IF Holds(f) THEN 1..Len(wires) ELSE 1..(Len(wires) + 1)
      /\ \A n \in DOMAIN wires :
           /\ n \in DOMAIN seated
           /\ wires[n].filter # f => seated[n] = wires[n]
           /\ wires[n].filter = f =>
                seated[n] = [wires[n] EXCEPT !.members = Append(wires[n].members, entry),
                                             !.qos = Higher(wires[n].qos, q)]
      /\ ~Holds(f) => seated[Len(wires) + 1] =
           [filter |-> f, qos |-> q, identifier |-> NoIdentifier, unnamed |-> FALSE,
            members |-> <<entry>>, turn |-> 0]
  BY SeatedProperties DEF Structure
<1>3. /\ DOMAIN wires = 1..Len(wires) /\ Len(wires) \in Nat /\ nextMember \in Nat
      /\ \A n \in DOMAIN wires : wires[n] \in Wire /\ wires[n].members \in Seq(Member)
  <2>1. \A n \in DOMAIN wires : wires[n] \in Wire
    BY SeqPlaces DEF Structure, RegistryTypeOK
  <2> QED BY <2>1, SeqPlaces DEF Structure, RegistryTypeOK, Wire
<1>4. entry \in Member /\ entry.id = nextMember /\ entry.qos = q
  BY <1>3 DEF Member
<1> HIDE DEF seated, entry
\* f's wire, once the member is seated.
<1>5. ASSUME NEW n \in DOMAIN wires, wires[n].filter = f
      PROVE  /\ seated[n].filter = f /\ seated[n].identifier = wires[n].identifier
             /\ seated[n].qos = Higher(wires[n].qos, q)
             /\ seated[n].members = Append(wires[n].members, entry)
  BY <1>2, <1>3, <1>5 DEF Wire
<1>6. ASSUME NEW n \in DOMAIN seated, n \notin DOMAIN wires
      PROVE  /\ n = Len(wires) + 1 /\ ~Holds(f)
             /\ seated[n].filter = f /\ seated[n].identifier = NoIdentifier
             /\ seated[n].qos = q /\ seated[n].members = <<entry>>
  <2>1. ~Holds(f)
    BY <1>2, <1>3, <1>6
  <2>2. n = Len(wires) + 1
    <3>1. n \in 1..(Len(wires) + 1) /\ n \notin 1..Len(wires)
      BY <1>2, <1>3, <1>6, <2>1
    <3> QED BY <1>3, <3>1
  <2>3. seated[n] = [filter |-> f, qos |-> q, identifier |-> NoIdentifier, unnamed |-> FALSE,
                     members |-> <<entry>>, turn |-> 0]
    BY <1>2, <2>1, <2>2
  <2> QED BY <2>1, <2>2, <2>3
<1>7. RegistryTypeOK'
  BY <1>1, <1>3 DEF RegistryTypeOK
<1>8. \A n \in DOMAIN seated :
        wires'[n].filter = seated[n].filter /\ wires'[n].qos = seated[n].qos
        /\ wires'[n].members = seated[n].members
  BY <1>1 DEF IdentifiedAs
<1>9. ASSUME NEW n \in DOMAIN wires, wires[n].filter = f
      PROVE  /\ seated[n].members # <<>>
             /\ DOMAIN seated[n].members = DOMAIN wires[n].members \cup {Len(wires[n].members) + 1}
             /\ Len(wires[n].members) + 1 \notin DOMAIN wires[n].members
             /\ seated[n].members[Len(wires[n].members) + 1] = entry
             /\ \A i \in DOMAIN wires[n].members : seated[n].members[i] = wires[n].members[i]
             /\ seated[n].members \in Seq(Member)
  <2>1. wires[n].members \in Seq(Member) /\ seated[n].members = Append(wires[n].members, entry)
    BY <1>3, <1>5, <1>9
  <2>2. DOMAIN wires[n].members = 1..Len(wires[n].members) /\ Len(wires[n].members) \in Nat
    BY <2>1, SeqPlaces
  <2>3. /\ seated[n].members \in Seq(Member)
        /\ Len(seated[n].members) = Len(wires[n].members) + 1
        /\ seated[n].members[Len(wires[n].members) + 1] = entry
        /\ \A i \in 1..Len(wires[n].members) : seated[n].members[i] = wires[n].members[i]
    BY <1>4, <2>1, AppendProperties
  <2>4. DOMAIN seated[n].members = 1..(Len(wires[n].members) + 1)
    BY <2>3, SeqPlaces
  <2> QED BY <2>2, <2>3, <2>4
<1>10. DOMAIN <<entry>> = {1} /\ <<entry>>[1] = entry /\ <<entry>> \in Seq(Member)
  BY <1>4
<1>11. OneWirePerFilter'
  <2>1. ASSUME NEW i \in DOMAIN seated, NEW j \in DOMAIN seated,
               seated[i].filter = seated[j].filter
        PROVE  i = j
    <3>1. \A n \in DOMAIN wires : seated[n].filter = wires[n].filter
      BY <1>2, <1>5
    <3>2. CASE i \in DOMAIN wires /\ j \in DOMAIN wires
      BY <2>1, <3>1, <3>2 DEF Structure, OneWirePerFilter
    <3>3. CASE i \notin DOMAIN wires \/ j \notin DOMAIN wires
      BY <1>6, <2>1, <3>1, <3>3 DEF Holds
    <3> QED BY <3>2, <3>3
  <2>2. \A n \in DOMAIN seated : seated[n].members # <<>>
    <3>1. \A n \in DOMAIN wires : seated[n].members # <<>>
      BY <1>2, <1>9 DEF Structure, OneWirePerFilter
    <3>2. \A n \in DOMAIN seated : n \notin DOMAIN wires => seated[n].members # <<>>
      BY <1>6, <1>10
    <3> QED BY <3>1, <3>2
  <2> QED BY <1>1, <1>8, <2>1, <2>2 DEF OneWirePerFilter
<1>12. OneSeatPerMember'
  \* A seat is one that was there, or the one the new member took.
  <2>1. \A n \in DOMAIN seated : \A i \in DOMAIN seated[n].members :
          \/ /\ n \in DOMAIN wires /\ i \in DOMAIN wires[n].members
             /\ seated[n].members[i] = wires[n].members[i]
          \/ /\ seated[n].filter = f /\ seated[n].members[i] = entry
             /\ n \in DOMAIN wires => i = Len(wires[n].members) + 1
             /\ n \notin DOMAIN wires => i = 1
    <3>1. ASSUME NEW n \in DOMAIN wires, wires[n].filter = f,
                 NEW i \in DOMAIN seated[n].members
          PROVE  \/ /\ i \in DOMAIN wires[n].members
                    /\ seated[n].members[i] = wires[n].members[i]
                 \/ /\ seated[n].filter = f /\ seated[n].members[i] = entry
                    /\ i = Len(wires[n].members) + 1
      BY <1>5, <1>9, <3>1
    <3>2. ASSUME NEW n \in DOMAIN seated, n \notin DOMAIN wires,
                 NEW i \in DOMAIN seated[n].members
          PROVE  seated[n].filter = f /\ seated[n].members[i] = entry /\ i = 1
      BY <1>6, <1>10, <3>2
    <3>3. \A n \in DOMAIN wires : wires[n].filter # f => seated[n] = wires[n]
      BY <1>2
    <3> QED BY <3>1, <3>2, <3>3
  <2>2. \A n \in DOMAIN wires : \A i \in DOMAIN wires[n].members :
          wires[n].members[i].id < nextMember /\ wires[n].members[i].id \in Nat
    <3>1. ASSUME NEW n \in DOMAIN wires, NEW i \in DOMAIN wires[n].members
          PROVE  wires[n].members[i].id \in Nat
      <4>1. wires[n].members[i] \in Member
        BY <1>3, SeqPlaces
      <4> QED BY <4>1 DEF Member
    <3> QED BY <3>1 DEF Structure, OneSeatPerMember
  <2>3. ASSUME NEW n1 \in DOMAIN seated, NEW i1 \in DOMAIN seated[n1].members
        PROVE  seated[n1].members[i1].id < nextMember + 1
    BY <1>3, <1>4, <2>1, <2>2
  <2>4. ASSUME NEW n1 \in DOMAIN seated, NEW i1 \in DOMAIN seated[n1].members,
               NEW n2 \in DOMAIN seated, NEW i2 \in DOMAIN seated[n2].members,
               seated[n1].members[i1].id = seated[n2].members[i2].id
        PROVE  n1 = n2 /\ i1 = i2
    <3>1. CASE /\ n1 \in DOMAIN wires /\ i1 \in DOMAIN wires[n1].members
               /\ n2 \in DOMAIN wires /\ i2 \in DOMAIN wires[n2].members
               /\ seated[n1].members[i1] = wires[n1].members[i1]
               /\ seated[n2].members[i2] = wires[n2].members[i2]
      BY <2>4, <3>1 DEF Structure, OneSeatPerMember
    <3>2. CASE seated[n1].members[i1] = entry /\ seated[n2].members[i2] = entry
               /\ seated[n1].filter = f /\ seated[n2].filter = f
      <4>1. n1 = n2
        BY <1>1, <1>8, <1>11, <3>2 DEF OneWirePerFilter
      <4>2. \A n \in DOMAIN wires : \A i \in DOMAIN wires[n].members :
              wires[n].members[i] # entry
        BY <1>3, <1>4, <2>2
      <4> QED BY <2>1, <3>2, <4>1, <4>2
    <3> QED BY <1>3, <1>4, <2>1, <2>2, <2>4, <3>1, <3>2
  <2> QED BY <1>1, <1>8, <2>3, <2>4 DEF OneSeatPerMember
<1>13. QosOfMembers'
  <2>1. ASSUME NEW n \in DOMAIN wires, wires[n].filter = f
        PROVE  seated[n].qos = Highest(seated[n].members)
    <3>1. /\ wires[n].members \in Seq(Member) /\ wires[n].members # <<>>
          /\ wires[n].qos = Highest(wires[n].members)
      BY <1>3 DEF Structure, OneWirePerFilter, QosOfMembers
    <3>2. /\ wires[n].qos \in Qos
          /\ \E i \in DOMAIN wires[n].members : wires[n].members[i].qos = wires[n].qos
          /\ \A i \in DOMAIN wires[n].members : wires[n].members[i].qos <= wires[n].qos
      BY <3>1, HighestProperties
    <3>3. \A i \in DOMAIN wires[n].members : wires[n].members[i].qos \in Qos
      <4>1. \A i \in DOMAIN wires[n].members : wires[n].members[i] \in Member
        BY <3>1, SeqPlaces
      <4> QED BY <4>1 DEF Member
    <3>4. /\ Higher(wires[n].qos, q) \in Qos
          /\ Higher(wires[n].qos, q) \in {wires[n].qos, q}
          /\ wires[n].qos <= Higher(wires[n].qos, q) /\ q <= Higher(wires[n].qos, q)
      BY <3>2 DEF Higher, Qos
    <3>5. \E i \in DOMAIN seated[n].members :
            seated[n].members[i].qos = Higher(wires[n].qos, q)
      BY <1>4, <1>9, <2>1, <3>2, <3>4
    <3>6. \A i \in DOMAIN seated[n].members :
            seated[n].members[i].qos <= Higher(wires[n].qos, q)
      BY <1>4, <1>9, <2>1, <3>2, <3>3, <3>4 DEF Qos
    <3> QED BY <1>5, <1>9, <2>1, <3>4, <3>5, <3>6, HighestUnique
  <2>2. ASSUME NEW n \in DOMAIN seated, n \notin DOMAIN wires
        PROVE  seated[n].qos = Highest(seated[n].members)
    <3>1. seated[n].qos = q /\ seated[n].members = <<entry>>
      BY <1>6, <2>2
    <3>2. q <= q
      BY DEF Qos
    <3>3. /\ \E i \in DOMAIN <<entry>> : <<entry>>[i].qos = q
          /\ \A i \in DOMAIN <<entry>> : <<entry>>[i].qos <= q
      BY <1>4, <1>10, <3>2
    <3> QED BY <1>10, <3>1, <3>3, HighestUnique
  <2>3. \A n \in DOMAIN wires : wires[n].filter # f =>
          seated[n].qos = Highest(seated[n].members)
    BY <1>2 DEF Structure, QosOfMembers
  <2>4. \A n \in DOMAIN seated : seated[n].qos = Highest(seated[n].members)
    BY <2>1, <2>2, <2>3
  <2> QED BY <1>1, <1>8, <2>4 DEF QosOfMembers, Highest
<1>14. DistinctIdentifiers'
  <2>1. \A n \in DOMAIN wires : seated[n].identifier = wires[n].identifier
    BY <1>2, <1>5
  <2>2. ASSUME NEW i \in DOMAIN seated, NEW j \in DOMAIN seated,
               seated[i].identifier # NoIdentifier,
               seated[i].identifier = seated[j].identifier
        PROVE  i = j
    <3>1. i \in DOMAIN wires /\ j \in DOMAIN wires
      BY <1>6, <2>2
    <3> QED BY <2>1, <2>2, <3>1 DEF Structure, DistinctIdentifiers
  <2>3. \A n \in DOMAIN seated : seated[n].identifier \in Taken(seated)
    BY DEF Taken
  <2> QED BY <1>1, <2>2, <2>3 DEF DistinctIdentifiers
<1> QED BY <1>7, <1>11, <1>12, <1>13, <1>14 DEF Structure

\* Every method keeps the structure.
LEMMA StructureStep == Structure /\ [RegistryNext]_registryVars => Structure'
<1> SUFFICES ASSUME Structure, [RegistryNext]_registryVars PROVE Structure'
  OBVIOUS
<1>1. ASSUME NEW f \in Filters, NEW q \in Qos, NEW offered \in Offers, Join(f, q, offered)
      PROVE  Structure'
  BY <1>1, RegistryAssumption, JoiningStructure
<1>2. CASE Retelling
  BY <1>2, RetellingStructure
<1>3. ASSUME NEW n, NEW i, Parting(n, i) PROVE Structure'
  BY <1>3, PartingStructure
<1>4. ASSUME NEW n, Removal(n) PROVE Structure'
  BY <1>4, RemovalStructure
<1>5. CASE wires' = <<>> /\ nextMember' = nextMember
  <2>1. DOMAIN wires' = {}
    BY <1>5
  <2> QED BY <1>5, <2>1, TypeStep DEF Structure, OneWirePerFilter, OneSeatPerMember,
             QosOfMembers, DistinctIdentifiers
<1>6. CASE UNCHANGED registryVars
  BY <1>6 DEF registryVars, Structure, RegistryTypeOK, OneWirePerFilter, OneSeatPerMember,
             QosOfMembers, Highest, DistinctIdentifiers
<1> QED BY <1>1, <1>2, <1>3, <1>4, <1>5, <1>6, StepCases

\* So the structure is an invariant, and with it each of its parts.
LEMMA Structured == RegistrySpec => []Structure
BY StructureInit, StructureStep, PTL DEF RegistrySpec

\* A filter is on one wire and every wire has a member, for every order of
\* joins, leaves and answers: the server is asked for each filter once.
THEOREM WireUnique == RegistrySpec => []OneWirePerFilter
<1>1. Structure => OneWirePerFilter
  BY DEF Structure
<1> QED BY <1>1, Structured, PTL

\* leave takes out the one member that asked, whoever joined and left before.
THEOREM SeatUnique == RegistrySpec => []OneSeatPerMember
<1>1. Structure => OneSeatPerMember
  BY DEF Structure
<1> QED BY <1>1, Structured, PTL

\* A wire asks the server for the highest quality of service of its members.
THEOREM QosHighest == RegistrySpec => []QosOfMembers
<1>1. Structure => QosOfMembers
  BY DEF Structure
<1> QED BY <1>1, Structured, PTL

\* No identifier is on two wires, whatever the filters derive.
THEOREM IdentifiersDistinct == RegistrySpec => []DistinctIdentifiers
<1>1. Structure => DistinctIdentifiers
  BY DEF Structure
<1> QED BY <1>1, Structured, PTL

-----------------------------------------------------------------------------
(* Telling copies apart.  On a server that offers identifiers and grants   *)
(* them (what overlaps.md promises for), wires that can match one topic    *)
(* always carry different identifiers, and at most one of them is held     *)
(* without its own: that is what makes route's rule decide.                *)

Apart == Structure /\ MeetingIdentified /\ OneUnnamed

\* The methods in place, on such a server: no identifier goes, and a wire that
\* is unnamed was unnamed before.
Granting ==
  \/ \E f \in Filters : Identified(f, TRUE)
  \/ Resubscribing(TRUE)
  \/ \E t \in Topics, ids \in SUBSET Identifiers : Route(t, ids)

\* They are methods in place that leave each wire told apart as it was.
LEMMA GrantingProperties ==
  ASSUME RegistryTypeOK, Granting
  PROVE  /\ Retelling
         /\ DOMAIN wires' = DOMAIN wires
         /\ \A n \in DOMAIN wires : /\ wires'[n].filter = wires[n].filter
                                    /\ wires'[n].identifier = wires[n].identifier
                                    /\ wires'[n].unnamed => wires[n].unnamed
<1>1. Retelling
  BY DEF Granting, Retelling
<1>2. DOMAIN wires' = DOMAIN wires
      /\ \A n \in DOMAIN wires : wires'[n].filter = wires[n].filter
  BY <1>1, RetellingProperties DEF RetoldAs
<1>3. \A n \in DOMAIN wires : wires[n] \in Wire
  BY SeqPlaces DEF RegistryTypeOK
<1>4. ASSUME NEW n \in DOMAIN wires
      PROVE  /\ wires'[n].identifier = wires[n].identifier
             /\ wires'[n].unnamed => wires[n].unnamed
  <2>1. ASSUME NEW f \in Filters, Identified(f, TRUE)
        PROVE  /\ wires'[n].identifier = wires[n].identifier
               /\ wires'[n].unnamed => wires[n].unnamed
    <3>1. wires'[n] = IF wires[n].filter = f
                      THEN [wires[n] EXCEPT !.unnamed = FALSE,
                                            !.identifier = wires[n].identifier]
                      ELSE wires[n]
      BY <2>1 DEF Identified
    <3> QED BY <1>3, <3>1 DEF Wire
  <2>2. CASE Resubscribing(TRUE)
    <3>1. wires'[n] = [wires[n] EXCEPT !.unnamed = FALSE]
      BY <2>2 DEF Resubscribing
    <3> QED BY <1>3, <3>1 DEF Wire
  <2>3. ASSUME NEW t \in Topics, NEW ids \in SUBSET Identifiers, Route(t, ids)
        PROVE  /\ wires'[n].identifier = wires[n].identifier
               /\ wires'[n].unnamed => wires[n].unnamed
    <3>1. wires'[n] = IF n \in Targets(t, ids)
                      THEN [wires[n] EXCEPT !.turn = (wires[n].turn + 1) % TurnRange]
                      ELSE wires[n]
      BY <2>3 DEF Route
    <3> QED BY <1>3, <3>1 DEF Wire
  <2> QED BY <2>1, <2>2, <2>3 DEF Granting
<1> QED BY <1>1, <1>2, <1>4

\* The kinds of step on a server that offers and grants identifiers.
LEMMA OfferedStepCases ==
  ASSUME Offers = {TRUE}, Answers = {TRUE}, [RegistryNext]_registryVars
  PROVE  \/ \E f \in Filters, q \in Qos : Join(f, q, TRUE)
         \/ Granting
         \/ \E n \in DOMAIN wires : \E i \in DOMAIN wires[n].members : Parting(n, i)
         \/ \E n \in DOMAIN wires : Removal(n)
         \/ wires' = <<>>
         \/ UNCHANGED registryVars
<1>1. (\E f \in Filters, accepted \in Answers : Identified(f, accepted)) => Granting
  BY DEF Granting
<1>2. (\E offered \in Offers : Resubscribing(offered)) => Granting
  BY DEF Granting
<1>3. (\E t \in Topics, ids \in SUBSET Identifiers : Route(t, ids)) => Granting
  BY DEF Granting
<1>4. (\E f \in Filters : EndFilter(f)) => \E n \in DOMAIN wires : Removal(n)
  BY DEF EndFilter, Removal
<1>5. (\E f \in Filters, q \in Qos, offered \in Offers : Join(f, q, offered))
        => \E f \in Filters, q \in Qos : Join(f, q, TRUE)
  OBVIOUS
<1> QED BY <1>1, <1>2, <1>3, <1>4, <1>5, LeaveCases DEF RegistryNext, End

\* A join gives an identifier to every wire f meets and to f's own, and makes
\* unnamed only wires that meet f and met nothing before.
LEMMA JoiningApart ==
  ASSUME Apart, NEW f \in Filters, NEW q \in Qos, Join(f, q, TRUE), Structure'
  PROVE  Apart'
<1> DEFINE seated == Seated(f, q)
<1>1. /\ DOMAIN wires' = DOMAIN seated
      /\ \A n \in DOMAIN seated : IdentifiedAs(seated[n], wires'[n], f)
      /\ Met(f) # {} =>
           \A n \in DOMAIN seated :
             seated[n].filter = f \/ Overlap(seated[n].filter, f)
               => wires'[n].identifier # NoIdentifier
  BY JoinProperties DEF Apart, Structure
<1>2. \A n \in DOMAIN wires : wires[n] \in Wire
  BY SeqPlaces DEF Apart, Structure, RegistryTypeOK
<1>3. /\ \A n \in DOMAIN wires : /\ n \in DOMAIN seated
                                 /\ seated[n].filter = wires[n].filter
                                 /\ seated[n].identifier = wires[n].identifier
                                 /\ seated[n].unnamed = wires[n].unnamed
      /\ \A n \in DOMAIN seated \ DOMAIN wires :
           seated[n].filter = f /\ seated[n].unnamed = FALSE
  <2>1. /\ DOMAIN seated = IF Holds(f) THEN 1..Len(wires) ELSE 1..(Len(wires) + 1)
        /\ \A n \in DOMAIN wires :
             /\ n \in DOMAIN seated
             /\ wires[n].filter # f => seated[n] = wires[n]
             /\ wires[n].filter = f =>
                  seated[n] =
                    [wires[n] EXCEPT !.members = Append(wires[n].members,
                                                        [id |-> nextMember, qos |-> q]),
                                     !.qos = Higher(wires[n].qos, q)]
        /\ ~Holds(f) => seated[Len(wires) + 1] =
             [filter |-> f, qos |-> q, identifier |-> NoIdentifier, unnamed |-> FALSE,
              members |-> <<[id |-> nextMember, qos |-> q]>>, turn |-> 0]
    BY SeatedProperties DEF Apart, Structure
  <2>2. DOMAIN wires = 1..Len(wires) /\ Len(wires) \in Nat
    BY SeqPlaces DEF Apart, Structure, RegistryTypeOK
  <2> HIDE DEF seated
  <2>3. ASSUME NEW n \in DOMAIN wires
        PROVE  /\ seated[n].filter = wires[n].filter
               /\ seated[n].identifier = wires[n].identifier
               /\ seated[n].unnamed = wires[n].unnamed
    BY <1>2, <2>1 DEF Wire
  <2>4. ASSUME NEW n \in DOMAIN seated \ DOMAIN wires
        PROVE  seated[n].filter = f /\ seated[n].unnamed = FALSE
    <3>1. ~Holds(f)
      BY <2>1, <2>2
    <3>2. n = Len(wires) + 1
      <4>1. n \in 1..(Len(wires) + 1) /\ n \notin 1..Len(wires)
        BY <2>1, <2>2, <3>1
      <4> QED BY <2>2, <4>1
    <3>3. seated[n] = [filter |-> f, qos |-> q, identifier |-> NoIdentifier,
                       unnamed |-> FALSE,
                       members |-> <<[id |-> nextMember, qos |-> q]>>, turn |-> 0]
      BY <2>1, <3>1, <3>2
    <3> QED BY <3>3
  <2> QED BY <2>1, <2>3, <2>4
<1> HIDE DEF seated
<1>4. \A n \in DOMAIN seated : wires'[n].filter = seated[n].filter
  BY <1>1 DEF IdentifiedAs
\* Only a wire without an identifier changes what it is told apart by.
<1>5. \A n \in DOMAIN seated : seated[n].identifier # NoIdentifier =>
        wires'[n].identifier # NoIdentifier /\ wires'[n].unnamed = seated[n].unnamed
  BY <1>1 DEF IdentifiedAs
<1>6. \A i, j \in DOMAIN wires : i # j /\ Overlap(wires[i].filter, wires[j].filter) =>
        wires[i].identifier # NoIdentifier /\ wires[j].identifier # NoIdentifier
  BY DEF Apart, MeetingIdentified, Overlap
<1>7. MeetingIdentified'
  <2>1. SUFFICES ASSUME NEW i \in DOMAIN seated, NEW j \in DOMAIN seated, i # j,
                        Overlap(seated[i].filter, seated[j].filter)
                 PROVE  wires'[i].identifier # NoIdentifier
    BY <1>1, <1>4 DEF MeetingIdentified, Overlap
  <2>2. CASE seated[i].filter # f /\ seated[j].filter # f
    <3>1. i \in DOMAIN wires /\ j \in DOMAIN wires
      BY <1>3, <2>2
    <3> QED BY <1>3, <1>5, <1>6, <2>1, <3>1
  <2>3. CASE seated[i].filter = f \/ seated[j].filter = f
    <3>1. Overlap(seated[i].filter, f) \/ seated[i].filter = f
      BY <2>1, <2>3 DEF Overlap
    <3>2. seated[i].filter # seated[j].filter
      BY <1>1, <1>4, <2>1 DEF Structure, OneWirePerFilter
    <3>3. Met(f) # {}
      <4>1. CASE seated[i].filter = f
        <5>1. seated[j].filter # f /\ j \in DOMAIN wires
          BY <1>3, <3>2, <4>1
        <5>2. j \in Met(f)
          BY <1>3, <2>1, <4>1, <5>1 DEF Met, Overlap
        <5> QED BY <5>2
      <4>2. CASE seated[j].filter = f
        <5>1. seated[i].filter # f /\ i \in DOMAIN wires
          BY <1>3, <3>2, <4>2
        <5>2. i \in Met(f)
          BY <1>3, <2>1, <4>2, <5>1 DEF Met
        <5> QED BY <5>2
      <4> QED BY <2>3, <4>1, <4>2
    <3> QED BY <1>1, <3>1, <3>3
  <2> QED BY <2>2, <2>3
<1>8. OneUnnamed'
  <2>1. SUFFICES ASSUME NEW i \in DOMAIN seated, NEW j \in DOMAIN seated, i # j,
                        Overlap(seated[i].filter, seated[j].filter),
                        wires'[i].unnamed, wires'[j].unnamed
                 PROVE  FALSE
    BY <1>1, <1>4 DEF OneUnnamed, Overlap
  <2>2. \A n \in DOMAIN seated : wires'[n].unnamed => n \in DOMAIN wires
    BY <1>1, <1>3 DEF IdentifiedAs
  <2>3. i \in DOMAIN wires /\ j \in DOMAIN wires
    BY <2>1, <2>2
  <2>4. Overlap(wires[i].filter, wires[j].filter)
    BY <1>3, <2>1, <2>3
  <2>5. wires[i].unnamed /\ wires[j].unnamed
    BY <1>3, <1>5, <1>6, <2>1, <2>3, <2>4
  <2> QED BY <2>1, <2>3, <2>4, <2>5 DEF Apart, OneUnnamed
<1> QED BY <1>7, <1>8 DEF Apart

\* The empty table has nothing to tell apart.
LEMMA ApartInit == RegistryInit => Apart
<1> SUFFICES ASSUME RegistryInit PROVE Apart
  OBVIOUS
<1>1. DOMAIN wires = {}
  BY DEF RegistryInit
<1> QED BY <1>1, StructureInit DEF Apart, MeetingIdentified, OneUnnamed

\* Every method keeps the wires told apart.
LEMMA ApartStep ==
  ASSUME Offers = {TRUE}, Answers = {TRUE}
  PROVE  Apart /\ [RegistryNext]_registryVars => Apart'
<1> SUFFICES ASSUME Apart, [RegistryNext]_registryVars PROVE Apart'
  OBVIOUS
<1>1. Structure'
  BY StructureStep DEF Apart
<1>2. ASSUME NEW f \in Filters, NEW q \in Qos, Join(f, q, TRUE) PROVE Apart'
  BY <1>1, <1>2, JoiningApart
<1>3. CASE Granting
  BY <1>1, <1>3, GrantingProperties DEF Apart, Structure, MeetingIdentified, OneUnnamed, Overlap
<1>4. ASSUME NEW n, NEW i, Parting(n, i) PROVE Apart'
  <2>1. /\ DOMAIN wires' = DOMAIN wires
        /\ \A k \in DOMAIN wires : /\ wires'[k].filter = wires[k].filter
                                   /\ wires'[k].identifier = wires[k].identifier
                                   /\ wires'[k].unnamed = wires[k].unnamed
    BY <1>4, PartingProperties DEF Apart, Structure
  <2> QED BY <1>1, <2>1 DEF Apart, MeetingIdentified, OneUnnamed, Overlap
<1>5. ASSUME NEW n, Removal(n) PROVE Apart'
  <2>1. /\ \A i \in DOMAIN wires' : /\ Origin(wires, n, i) \in DOMAIN wires
                                    /\ wires'[i] = wires[Origin(wires, n, i)]
        /\ \A i, j \in DOMAIN wires' : Origin(wires, n, i) = Origin(wires, n, j) => i = j
    BY <1>5, SwapRemoveProperties DEF Apart, Structure, RegistryTypeOK, Removal
  <2> QED BY <1>1, <2>1 DEF Apart, MeetingIdentified, OneUnnamed, Overlap
<1>6. CASE wires' = <<>>
  <2>1. DOMAIN wires' = {}
    BY <1>6
  <2> QED BY <1>1, <2>1 DEF Apart, MeetingIdentified, OneUnnamed
<1>7. CASE UNCHANGED registryVars
  BY <1>1, <1>7 DEF registryVars, Apart, MeetingIdentified, OneUnnamed, Overlap
<1> QED BY <1>2, <1>3, <1>4, <1>5, <1>6, <1>7, OfferedStepCases

\* With its wires told apart, the registry hands a copy to the one it is for.
LEMMA ApartRoutes == Apart => RoutedHome
<1> SUFFICES ASSUME Apart, NEW n \in DOMAIN wires, NEW t \in Topics,
                    wires[n].filter \in Matching[t]
             PROVE  Targets(t, Names(n)) = {n}
  BY DEF RoutedHome
<1> DEFINE matching == {k \in DOMAIN wires : wires[k].filter \in Matching[t]}
           named(ids) == {k \in matching :
                            IF ids = {}
                            THEN wires[k].identifier = NoIdentifier \/ wires[k].unnamed
                            ELSE wires[k].identifier \in ids}
<1>1. \A k \in matching : Overlap(wires[k].filter, wires[n].filter)
                          /\ Overlap(wires[n].filter, wires[k].filter)
  BY DEF Overlap
<1>2. SUFFICES named(Names(n)) = {n}
  BY <1>2 DEF Targets
<1>3. \A k \in matching \ {n} : wires[k].identifier # NoIdentifier
                                /\ wires[n].identifier # NoIdentifier
                                /\ ~(wires[k].unnamed /\ wires[n].unnamed)
                                /\ wires[k].identifier # wires[n].identifier
  BY <1>1 DEF Apart, MeetingIdentified, OneUnnamed, Structure, DistinctIdentifiers
<1>4. CASE wires[n].identifier = NoIdentifier \/ wires[n].unnamed
  <2>1. Names(n) = {}
    BY <1>4 DEF Names
  <2> QED BY <1>3, <1>4, <2>1
<1>5. CASE ~(wires[n].identifier = NoIdentifier \/ wires[n].unnamed)
  <2>1. Names(n) = {wires[n].identifier}
    BY <1>5 DEF Names
  <2> QED BY <1>3, <1>5, <2>1
<1> QED BY <1>4, <1>5

\* So on such a server the wires are told apart always.
LEMMA ToldApart ==
  ASSUME Offers = {TRUE}, Answers = {TRUE}
  PROVE  RegistrySpec => []Apart
BY ApartInit, ApartStep, PTL DEF RegistrySpec

\* Two wires that can match one topic both carry an identifier.
THEOREM MeetingWiresIdentified ==
  ASSUME Offers = {TRUE}, Answers = {TRUE}
  PROVE  RegistrySpec => []MeetingIdentified
<1>1. Apart => MeetingIdentified
  BY DEF Apart
<1> QED BY <1>1, ToldApart, PTL

\* Of such wires at most one is on the server without its identifier.
THEOREM UnnamedOnce ==
  ASSUME Offers = {TRUE}, Answers = {TRUE}
  PROVE  RegistrySpec => []OneUnnamed
<1>1. Apart => OneUnnamed
  BY DEF Apart
<1> QED BY <1>1, ToldApart, PTL

\* The copy the server sends for a filter reaches that filter and no other,
\* however many filters overlap, whatever they derive and whoever comes and goes.
THEOREM CopiesRoutedHome ==
  ASSUME Offers = {TRUE}, Answers = {TRUE}
  PROVE  RegistrySpec => []RoutedHome
<1> QED BY ToldApart, ApartRoutes, PTL

-----------------------------------------------------------------------------
(* Methods as the rest of the crate calls them.  What a call is made with   *)
(* has no type of its own there: a member may have left, an answer may be   *)
(* of a filter no longer held.  Each call is a step of RegistrySpec or none.*)

Called == [RegistryNext]_registryVars

\* No member beyond the bound.
Bounded == nextMember <= MaxMember

\* Whoever leaves, whether a member or not.
LEMMA LeaveCalled ==
  ASSUME Structure, Bounded, NEW m, Leave(m)
  PROVE  Called
<1>1. CASE \E n \in DOMAIN wires : \E i \in DOMAIN wires[n].members : Seat(m, n, i)
  <2>0. PICK n \in DOMAIN wires : \E i \in DOMAIN wires[n].members : Seat(m, n, i)
    BY <1>1
  <2>1. PICK i \in DOMAIN wires[n].members : Seat(m, n, i)
    BY <2>0
  <2>2. wires[n] \in Wire
    BY SeqPlaces DEF Structure, RegistryTypeOK
  <2>3. wires[n].members \in Seq(Member)
    BY <2>2 DEF Wire
  <2>4. wires[n].members[i] \in Member
    BY <2>3, SeqPlaces
  <2>5. m \in Nat /\ m < nextMember
    BY <2>1, <2>4 DEF Member, Seat, Structure, OneSeatPerMember
  <2>6. m \in 0..(MaxMember - 1)
    BY <2>5, RegistryAssumption DEF Bounded, Structure, RegistryTypeOK
  <2> QED BY <2>6 DEF Called, RegistryNext
<1>2. CASE \A n \in DOMAIN wires : \A i \in DOMAIN wires[n].members : ~Seat(m, n, i)
  <2>1. UNCHANGED registryVars
    BY <1>2 DEF Leave, registryVars
  <2> QED BY <2>1 DEF Called
<1> QED BY <1>1, <1>2

\* The answer to a refresh of any filter, held or not.
LEMMA IdentifiedCalled ==
  ASSUME Structure, NEW f, NEW accepted \in Answers, Identified(f, accepted)
  PROVE  Called
<1>1. CASE f \in Filters
  BY <1>1 DEF Called, RegistryNext
<1>2. CASE f \notin Filters
  <2>1. ASSUME NEW n \in DOMAIN wires PROVE wires[n].filter # f
    <3>1. wires[n] \in Wire
      BY SeqPlaces DEF Structure, RegistryTypeOK
    <3> QED BY <1>2, <3>1 DEF Wire
  <2>2. wires' = [n \in DOMAIN wires |-> wires[n]]
    BY <2>1 DEF Identified
  <2>3. wires = [n \in DOMAIN wires |-> wires[n]]
    BY SeqPlaces, InPlace DEF Structure, RegistryTypeOK
  <2> QED BY <2>2, <2>3 DEF Called, Identified, registryVars
<1> QED BY <1>1, <1>2

\* A packet with any identifiers, known to this side or not, that has targets.
LEMMA RouteCalled ==
  ASSUME Structure, NEW t \in Topics, NEW ids, NoIdentifier \notin ids,
         Targets(t, ids) # {}, Route(t, ids)
  PROVE  Called
<1> DEFINE known == ids \cap Identifiers
<1>1. /\ \A n \in DOMAIN wires : /\ wires[n].filter \in Filters
                                 /\ wires[n].identifier \in Identifiers \cup {NoIdentifier}
      /\ Derived \in [Filters -> Identifiers]
  <2>1. \A n \in DOMAIN wires : wires[n] \in Wire
    BY SeqPlaces DEF Structure, RegistryTypeOK
  <2> QED BY <2>1, RegistryAssumption DEF Wire
<1>2. \A n \in DOMAIN wires : /\ wires[n].identifier \in ids <=> wires[n].identifier \in known
                              /\ Derived[wires[n].filter] \in ids <=> Derived[wires[n].filter] \in known
  BY <1>1
<1>3. ids # {} => known # {}
  <2>1. ASSUME ids # {}, known = {} PROVE FALSE
    <3>1. Targets(t, ids) = {}
      BY <1>2, <2>1 DEF Targets
    <3> QED BY <3>1
  <2> QED BY <2>1
<1>4. Targets(t, known) = Targets(t, ids)
  <2>1. CASE ids = {}
    BY <2>1
  <2>2. CASE ids # {}
    <3>1. known # {}
      BY <1>3, <2>2
    <3> HIDE DEF known
    <3> QED BY <1>2, <2>2, <3>1 DEF Targets
  <2> QED BY <2>1, <2>2
<1>5. known \in SUBSET Identifiers
  OBVIOUS
<1> HIDE DEF known
<1>6. Route(t, known)
  BY <1>4 DEF Route
<1> QED BY <1>5, <1>6 DEF Called, RegistryNext

\* Calls keep the bound.
LEMMA BoundedStep ==
  ASSUME Structure, Bounded, Called
  PROVE  Bounded'
<1>1. nextMember \in Nat /\ MaxMember \in Nat
  BY RegistryAssumption DEF Structure, RegistryTypeOK
<1>2. nextMember' = nextMember \/ (nextMember < MaxMember /\ nextMember' = nextMember + 1)
  BY DEF Called, RegistryNext, Join, Leave, Identified, Resubscribing, Route, EndFilter, End,
         registryVars
<1> QED BY <1>1, <1>2 DEF Bounded

-----------------------------------------------------------------------------
(* Who sits at the table.                                                  *)

Sits(m) == \E n \in DOMAIN wires : \E i \in DOMAIN wires[n].members : Seat(m, n, i)

\* Nobody sits at the empty table.
LEMMA SitsInit == RegistryInit => \A m : ~Sits(m)
  BY DEF RegistryInit, Sits

\* A method that names no member leaves each in its seat.
LEMMA SitsSame ==
  ASSUME Structure,
         \/ UNCHANGED registryVars
         \/ \E t, ids : Route(t, ids)
         \/ \E f, accepted : Identified(f, accepted)
  PROVE  \A m : Sits(m)' <=> Sits(m)
<1>1. \A n \in DOMAIN wires : wires[n] \in Wire
  BY SeqPlaces DEF Structure, RegistryTypeOK
<1>2. DOMAIN wires' = DOMAIN wires /\ \A n \in DOMAIN wires : wires'[n].members = wires[n].members
  <2>1. CASE UNCHANGED registryVars
    BY <2>1 DEF registryVars
  <2>2. ASSUME NEW t, NEW ids, Route(t, ids)
        PROVE  DOMAIN wires' = DOMAIN wires /\ \A n \in DOMAIN wires : wires'[n].members = wires[n].members
    BY <1>1, <2>2 DEF Route, Wire
  <2>3. ASSUME NEW f, NEW accepted, Identified(f, accepted)
        PROVE  DOMAIN wires' = DOMAIN wires /\ \A n \in DOMAIN wires : wires'[n].members = wires[n].members
    BY <1>1, <2>3 DEF Identified, Wire
  <2> QED BY <2>1, <2>2, <2>3
<1> QED BY <1>2 DEF Sits, Seat

\* After a leave the one who left sits nowhere, and nobody sits who did not before.
LEMMA SitsLeft ==
  ASSUME Structure, NEW m, Leave(m)
  PROVE  /\ \A k : Sits(k)' => Sits(k)
         /\ ~Sits(m)'
<1>1. /\ DOMAIN wires = 1..Len(wires) /\ Len(wires) \in Nat /\ wires \in Seq(Wire)
      /\ \A n \in DOMAIN wires : wires[n].members \in Seq(Member)
  <2>1. \A n \in DOMAIN wires : wires[n] \in Wire
    BY SeqPlaces DEF Structure, RegistryTypeOK
  <2> QED BY <2>1, SeqPlaces DEF Structure, RegistryTypeOK, Wire
<1>2. ASSUME NEW n \in DOMAIN wires, NEW i \in DOMAIN wires[n].members, Seat(m, n, i),
             Without(wires[n].members, i) = <<>>, wires' = SwapRemove(wires, n)
      PROVE  /\ \A k : Sits(k)' => Sits(k)
             /\ ~Sits(m)'
  <2>1. \A j \in DOMAIN wires' : /\ Origin(wires, n, j) \in DOMAIN wires \ {n}
                                 /\ wires'[j] = wires[Origin(wires, n, j)]
    BY <1>1, <1>2, SwapRemoveProperties
  <2>2. \A k : Sits(k)' => \E j \in DOMAIN wires \ {n} : \E l \in DOMAIN wires[j].members : Seat(k, j, l)
    BY <2>1 DEF Sits, Seat
  <2>3. \A k : Sits(k)' => Sits(k)
    BY <2>2 DEF Sits
  <2>4. \A j \in DOMAIN wires \ {n} : \A l \in DOMAIN wires[j].members : ~Seat(m, j, l)
    BY <1>2 DEF Seat, Structure, OneSeatPerMember
  <2> QED BY <2>2, <2>3, <2>4
<1>3. ASSUME NEW n \in DOMAIN wires, NEW i \in DOMAIN wires[n].members, Seat(m, n, i),
             Parting(n, i)
      PROVE  /\ \A k : Sits(k)' => Sits(k)
             /\ ~Sits(m)'
  <2> DEFINE ms == wires[n].members
  <2>1. /\ DOMAIN wires' = DOMAIN wires
        /\ \A k \in DOMAIN wires \ {n} : wires'[k] = wires[k]
        /\ wires'[n].members = Without(ms, i)
    BY <1>3, PartingProperties DEF Structure
  <2>2. ms \in Seq(Member) /\ i \in DOMAIN ms
    BY <1>1
  <2> HIDE DEF ms
  <2>3. \A j \in DOMAIN Without(ms, i) : /\ Shifted(i, j) \in DOMAIN ms \ {i}
                                         /\ Without(ms, i)[j] = ms[Shifted(i, j)]
    BY <2>2, WithoutProperties
  <2>4. \A k : Sits(k)' => \E j \in DOMAIN wires : \E l \in DOMAIN wires[j].members :
                             Seat(k, j, l) /\ (j = n => l # i)
    <3>1. SUFFICES ASSUME NEW k, NEW j \in DOMAIN wires', NEW l \in DOMAIN wires'[j].members,
                          wires'[j].members[l].id = k
                   PROVE  \E x \in DOMAIN wires : \E y \in DOMAIN wires[x].members :
                             Seat(k, x, y) /\ (x = n => y # i)
      BY DEF Sits, Seat
    <3>2. CASE j = n
      BY <2>1, <2>3, <3>1, <3>2 DEF ms, Seat
    <3>3. CASE j # n
      BY <2>1, <3>1, <3>3 DEF Seat
    <3> QED BY <3>2, <3>3
  <2>5. \A k : Sits(k)' => Sits(k)
    BY <2>4 DEF Sits
  <2>6. \A j \in DOMAIN wires : \A l \in DOMAIN wires[j].members : Seat(m, j, l) => j = n /\ l = i
    BY <1>3 DEF Seat, Structure, OneSeatPerMember
  <2> QED BY <2>4, <2>5, <2>6
<1>4. CASE (\A n \in DOMAIN wires : \A i \in DOMAIN wires[n].members : ~Seat(m, n, i))
           /\ UNCHANGED wires
  BY <1>4 DEF Sits, Seat
<1>5. nextMember' = nextMember
  BY DEF Leave
<1>6. CASE \E n \in DOMAIN wires : \E i \in DOMAIN wires[n].members :
             /\ Seat(m, n, i)
             /\ LET rest == Without(wires[n].members, i)
                IN wires' = IF rest = <<>>
                            THEN SwapRemove(wires, n)
                            ELSE [wires EXCEPT ![n] = [@ EXCEPT !.members = rest,
                                                                !.qos = Highest(rest)]]
  <2>0. PICK n \in DOMAIN wires : \E i \in DOMAIN wires[n].members :
             /\ Seat(m, n, i)
             /\ LET rest == Without(wires[n].members, i)
                IN wires' = IF rest = <<>>
                            THEN SwapRemove(wires, n)
                            ELSE [wires EXCEPT ![n] = [@ EXCEPT !.members = rest,
                                                                !.qos = Highest(rest)]]
    BY <1>6
  <2>1. PICK i \in DOMAIN wires[n].members :
             /\ Seat(m, n, i)
             /\ LET rest == Without(wires[n].members, i)
                IN wires' = IF rest = <<>>
                            THEN SwapRemove(wires, n)
                            ELSE [wires EXCEPT ![n] = [@ EXCEPT !.members = rest,
                                                                !.qos = Highest(rest)]]
    BY <2>0
  <2>2. CASE Without(wires[n].members, i) = <<>>
    BY <1>2, <2>1, <2>2
  <2>3. CASE Without(wires[n].members, i) # <<>>
    <3>1. Parting(n, i)
      BY <1>5, <2>1, <2>3 DEF Parting
    <3> QED BY <1>3, <2>1, <3>1
  <2> QED BY <2>2, <2>3
<1> QED BY <1>4, <1>6 DEF Leave

\* Member m has a seat after the step only on a filter on which it had one before.
Backed(m) ==
  \A n \in DOMAIN wires' : \A i \in DOMAIN wires'[n].members :
    wires'[n].members[i].id = m =>
      \E k \in DOMAIN wires : \E j \in DOMAIN wires[k].members :
        Seat(m, k, j) /\ wires[k].filter = wires'[n].filter

LEMMA BackedSits == \A m : Backed(m) => (Sits(m)' => Sits(m))
BY DEF Backed, Sits, Seat

\* A join seats one member, under the number that was next, and moves no other.
LEMMA BackedJoined ==
  ASSUME Structure, NEW f \in Filters, NEW q \in Qos, NEW offered \in BOOLEAN,
         Join(f, q, offered)
  PROVE  \A m : m # nextMember => Backed(m)
<1>0. /\ Seated(f, q) \in Seq(Wire)
      /\ DOMAIN Seated(f, q) = IF Holds(f) THEN 1..Len(wires) ELSE 1..(Len(wires) + 1)
      /\ \A n \in DOMAIN wires :
           /\ n \in DOMAIN Seated(f, q)
           /\ wires[n].filter # f => Seated(f, q)[n] = wires[n]
           /\ wires[n].filter = f =>
                Seated(f, q)[n] = [wires[n] EXCEPT !.members = Append(wires[n].members, [id |-> nextMember, qos |-> q]),
                                             !.qos = Higher(wires[n].qos, q)]
      /\ ~Holds(f) => Seated(f, q)[Len(wires) + 1] =
           [filter |-> f, qos |-> q, identifier |-> NoIdentifier, unnamed |-> FALSE,
            members |-> <<[id |-> nextMember, qos |-> q]>>, turn |-> 0]
  BY SeatedProperties DEF Structure
<1> DEFINE entry  == [id |-> nextMember, qos |-> q]
           seated == Seated(f, q)
<1>1. /\ DOMAIN wires' = DOMAIN seated
      /\ \A n \in DOMAIN seated : /\ wires'[n].members = seated[n].members
                                 /\ wires'[n].filter = seated[n].filter
  BY JoinProperties DEF Structure, IdentifiedAs
<1>2. /\ seated \in Seq(Wire)
      /\ DOMAIN seated = IF Holds(f) THEN 1..Len(wires) ELSE 1..(Len(wires) + 1)
      /\ \A n \in DOMAIN wires :
           /\ wires[n].filter # f => seated[n] = wires[n]
           /\ wires[n].filter = f =>
                seated[n] = [wires[n] EXCEPT !.members = Append(wires[n].members, entry),
                                             !.qos = Higher(wires[n].qos, q)]
      /\ ~Holds(f) => seated[Len(wires) + 1] =
           [filter |-> f, qos |-> q, identifier |-> NoIdentifier, unnamed |-> FALSE,
            members |-> <<entry>>, turn |-> 0]
  BY <1>0
<1>3. /\ DOMAIN wires = 1..Len(wires) /\ Len(wires) \in Nat
      /\ \A n \in DOMAIN wires : wires[n] \in Wire /\ wires[n].members \in Seq(Member)
  <2>1. \A n \in DOMAIN wires : wires[n] \in Wire
    BY SeqPlaces DEF Structure, RegistryTypeOK
  <2> QED BY <2>1, SeqPlaces DEF Structure, RegistryTypeOK, Wire
<1> HIDE DEF seated
<1>4. ASSUME NEW n \in DOMAIN wires
      PROVE  /\ seated[n].filter = wires[n].filter
             /\ wires[n].filter = f => seated[n].members = Append(wires[n].members, entry)
  BY <1>2, <1>3 DEF Wire
<1>5. entry.id = nextMember /\ entry \in Member
  BY DEF Structure, RegistryTypeOK, Member
<1> HIDE DEF entry
<1>6. ASSUME NEW n \in DOMAIN wires, NEW i \in DOMAIN seated[n].members
      PROVE  \/ seated[n].members[i].id = nextMember
             \/ i \in DOMAIN wires[n].members /\ seated[n].members[i] = wires[n].members[i]
  <2>1. CASE wires[n].filter = f
    <3> DEFINE ms == wires[n].members
    <3>1. ms \in Seq(Member) /\ seated[n].members = Append(ms, entry)
      BY <1>3, <1>4, <2>1
    <3> HIDE DEF ms
    <3>2. \/ i \in DOMAIN ms /\ Append(ms, entry)[i] = ms[i]
          \/ Append(ms, entry)[i] = entry
      BY <1>5, <3>1
    <3> QED BY <1>5, <3>1, <3>2 DEF ms
  <2>2. CASE wires[n].filter # f
    BY <1>2, <2>2
  <2> QED BY <2>1, <2>2
<1>7. ASSUME ~Holds(f), NEW i \in DOMAIN seated[Len(wires) + 1].members
      PROVE  seated[Len(wires) + 1].members[i].id = nextMember
  <2>0. seated[Len(wires) + 1] =
          [filter |-> f, qos |-> q, identifier |-> NoIdentifier, unnamed |-> FALSE,
           members |-> <<entry>>, turn |-> 0]
    BY <1>2, <1>7
  <2>1. seated[Len(wires) + 1].members = <<entry>>
    BY <2>0
  <2>2. DOMAIN <<entry>> = {1} /\ <<entry>>[1] = entry
    OBVIOUS
  <2> QED BY <1>5, <2>1, <2>2
<1>8. ASSUME NEW m, m # nextMember, NEW n \in DOMAIN wires', NEW i \in DOMAIN wires'[n].members,
             wires'[n].members[i].id = m
      PROVE  \E k \in DOMAIN wires : \E j \in DOMAIN wires[k].members :
               Seat(m, k, j) /\ wires[k].filter = wires'[n].filter
  <2>1. /\ n \in DOMAIN seated /\ i \in DOMAIN seated[n].members /\ seated[n].members[i].id = m
        /\ wires'[n].filter = seated[n].filter
    BY <1>1, <1>8
  <2>2. CASE n \in DOMAIN wires
    BY <1>4, <1>6, <1>8, <2>1, <2>2 DEF Seat
  <2>3. CASE n \notin DOMAIN wires
    <3>1. ~Holds(f)
      <4>1. Holds(f) => DOMAIN seated = DOMAIN wires
        BY <1>2, <1>3
      <4> QED BY <2>1, <2>3, <4>1
    <3>2. DOMAIN seated = 1..(Len(wires) + 1)
      BY <1>2, <3>1
    <3>3. n = Len(wires) + 1
      BY <1>3, <2>1, <2>3, <3>2
    <3> QED BY <1>7, <1>8, <2>1, <3>1, <3>3
  <2> QED BY <2>2, <2>3
<1> QED BY <1>8 DEF Backed

\* So who sits after a join sat before it, or is the one who joined.
LEMMA SitsJoined ==
  ASSUME Structure, NEW f \in Filters, NEW q \in Qos, NEW offered \in BOOLEAN,
         Join(f, q, offered)
  PROVE  \A m : Sits(m)' => Sits(m) \/ m = nextMember
BY BackedJoined, BackedSits

\* No other method moves anyone to another filter.
LEMMA BackedOtherwise ==
  ASSUME Structure,
         \/ UNCHANGED registryVars
         \/ Retelling
         \/ \E m : Leave(m)
         \/ \E f : EndFilter(f)
         \/ End
  PROVE  \A m : Backed(m)
<1>0. /\ DOMAIN wires = 1..Len(wires) /\ Len(wires) \in Nat /\ wires \in Seq(Wire)
      /\ \A n \in DOMAIN wires : wires[n].members \in Seq(Member)
  <2>1. \A n \in DOMAIN wires : wires[n] \in Wire
    BY SeqPlaces DEF Structure, RegistryTypeOK
  <2> QED BY <2>1, SeqPlaces DEF Structure, RegistryTypeOK, Wire
<1>1. ASSUME UNCHANGED registryVars PROVE \A m : Backed(m)
  BY <1>1 DEF registryVars, Backed, Seat
<1>2. CASE Retelling
  <2>1. /\ DOMAIN wires' = DOMAIN wires
        /\ \A n \in DOMAIN wires : /\ wires'[n].filter = wires[n].filter
                                   /\ wires'[n].members = wires[n].members
    BY <1>2, RetellingProperties DEF Structure, RetoldAs
  <2> QED BY <2>1 DEF Backed, Seat
<1>3. ASSUME NEW n, Removal(n) PROVE \A m : Backed(m)
  <2>1. \A j \in DOMAIN wires' : /\ Origin(wires, n, j) \in DOMAIN wires \ {n}
                                 /\ wires'[j] = wires[Origin(wires, n, j)]
    BY <1>0, <1>3, SwapRemoveProperties DEF Removal
  <2> QED BY <2>1 DEF Backed, Seat
<1>4. ASSUME NEW n, NEW i, Parting(n, i) PROVE \A m : Backed(m)
  <2> DEFINE ms == wires[n].members
  <2>1. /\ DOMAIN wires' = DOMAIN wires
        /\ \A k \in DOMAIN wires \ {n} : wires'[k] = wires[k]
        /\ wires'[n].members = Without(ms, i) /\ wires'[n].filter = wires[n].filter
    BY <1>4, PartingProperties DEF Structure
  <2>2. ms \in Seq(Member) /\ i \in DOMAIN ms /\ n \in DOMAIN wires
    BY <1>0, <1>4 DEF Parting
  <2> HIDE DEF ms
  <2>3. \A j \in DOMAIN Without(ms, i) : /\ Shifted(i, j) \in DOMAIN ms \ {i}
                                         /\ Without(ms, i)[j] = ms[Shifted(i, j)]
    BY <2>2, WithoutProperties
  <2> SUFFICES ASSUME NEW m, NEW k \in DOMAIN wires', NEW j \in DOMAIN wires'[k].members,
                      wires'[k].members[j].id = m
               PROVE  \E x \in DOMAIN wires : \E y \in DOMAIN wires[x].members :
                        Seat(m, x, y) /\ wires[x].filter = wires'[k].filter
    BY DEF Backed
  <2>4. CASE k = n
    BY <2>1, <2>2, <2>3, <2>4 DEF ms, Seat
  <2>5. CASE k # n
    BY <2>1, <2>5 DEF Seat
  <2> QED BY <2>4, <2>5
<1>5. ASSUME NEW m, Leave(m) PROVE \A k : Backed(k)
  BY <1>1, <1>3, <1>4, <1>5, LeaveCases
<1>6. ASSUME NEW f, EndFilter(f) PROVE \A m : Backed(m)
  BY <1>3, <1>6 DEF EndFilter, Removal
<1>7. CASE End
  <2>1. DOMAIN wires' = {}
    BY <1>7 DEF End
  <2> QED BY <2>1 DEF Backed
<1> QED BY <1>1, <1>2, <1>5, <1>6, <1>7

\* The member whose turn it is sits on the wire, and on that one only.
LEMMA TakerSits ==
  ASSUME Structure
  PROVE  /\ \A n \in DOMAIN wires : Sits(Taker(n)) /\ Taker(n) \in Nat
         /\ \A n, k \in DOMAIN wires : Taker(n) = Taker(k) => n = k
         /\ \A n \in DOMAIN wires : \E i \in DOMAIN wires[n].members : Seat(Taker(n), n, i)
<1>1. ASSUME NEW n \in DOMAIN wires
      PROVE  \E i \in DOMAIN wires[n].members : Taker(n) = wires[n].members[i].id /\ Taker(n) \in Nat
  <2>1. wires[n] \in Wire /\ wires[n].members # <<>>
    BY SeqPlaces DEF Structure, RegistryTypeOK, OneWirePerFilter
  <2> DEFINE ms == wires[n].members
  <2>2. /\ ms \in Seq(Member) /\ DOMAIN ms = 1..Len(ms) /\ Len(ms) \in Nat \ {0}
        /\ \A i \in DOMAIN ms : ms[i].id \in Nat
    <3>1. ms \in Seq(Member)
      BY <2>1 DEF Wire
    <3>2. ms # <<>>
      BY <2>1
    <3> HIDE DEF ms
    <3>3. DOMAIN ms = 1..Len(ms) /\ Len(ms) \in Nat /\ \A i \in DOMAIN ms : ms[i] \in Member
      BY <3>1, SeqPlaces
    <3> QED BY <3>1, <3>2, <3>3, EmptySeq DEF Member
  <2>3. wires[n].turn \in Nat
    BY <2>1, RegistryAssumption DEF Wire
  <2>4. (wires[n].turn % Len(ms)) + 1 \in 1..Len(ms)
    BY <2>2, <2>3
  <2> QED BY <2>2, <2>4 DEF Taker
<1>2. \A n \in DOMAIN wires : Sits(Taker(n)) /\ Taker(n) \in Nat
  BY <1>1 DEF Sits, Seat
<1>3. \A n, k \in DOMAIN wires : Taker(n) = Taker(k) => n = k
  BY <1>1 DEF Structure, OneSeatPerMember
<1>4. \A n \in DOMAIN wires : \E i \in DOMAIN wires[n].members : Seat(Taker(n), n, i)
  BY <1>1 DEF Seat
<1> QED BY <1>2, <1>3, <1>4

\* Whoever sits was given its number before.
LEMMA SitsBefore == Structure => \A m : Sits(m) => m < nextMember /\ m \in Nat
<1> SUFFICES ASSUME Structure, NEW n \in DOMAIN wires, NEW i \in DOMAIN wires[n].members
             PROVE  wires[n].members[i].id < nextMember /\ wires[n].members[i].id \in Nat
  BY DEF Sits, Seat
<1>1. wires[n] \in Wire
  BY SeqPlaces DEF Structure, RegistryTypeOK
<1>2. wires[n].members[i] \in Member
  BY <1>1, SeqPlaces DEF Wire
<1> QED BY <1>2 DEF Member, Structure, OneSeatPerMember

-----------------------------------------------------------------------------
(* The wires a call leaves, against those the server was asked for.         *)

\* Each wire was there before, under its filter and its identifier, at no lower a
\* quality of service and no more on the server than it is now.
Subsiding ==
  \A n \in DOMAIN wires' : \E k \in DOMAIN wires :
    /\ wires'[n].filter = wires[k].filter /\ wires'[n].identifier = wires[k].identifier
    /\ wires'[n].qos <= wires[k].qos /\ (wires'[n].unnamed => wires[k].unnamed)

\* A packet and the answer to a refresh leave every wire where it is, and the filter of
\* the answer has its identifier.
LEMMA InPlaceSubsides ==
  ASSUME RegistryTypeOK,
         \/ UNCHANGED wires
         \/ \E t, ids : Route(t, ids)
         \/ \E f : Identified(f, TRUE)
  PROVE  /\ Subsiding
         /\ \A f : Identified(f, TRUE) =>
              \A n \in DOMAIN wires' : wires'[n].filter = f => ~wires'[n].unnamed
<1>1. \A n \in DOMAIN wires : wires[n] \in Wire /\ wires[n].qos \in Int
  <2>1. \A n \in DOMAIN wires : wires[n] \in Wire
    BY SeqPlaces DEF RegistryTypeOK
  <2> QED BY <2>1 DEF Wire, Qos
<1>2. ASSUME UNCHANGED wires PROVE Subsiding
  BY <1>1, <1>2 DEF Subsiding
<1>3. ASSUME NEW t, NEW ids, Route(t, ids) PROVE Subsiding
  <2>1. /\ DOMAIN wires' = DOMAIN wires
        /\ \A n \in DOMAIN wires :
             wires'[n] = IF n \in Targets(t, ids)
                         THEN [wires[n] EXCEPT !.turn = (wires[n].turn + 1) % TurnRange]
                         ELSE wires[n]
    BY <1>3 DEF Route
  <2>2. \A n \in DOMAIN wires :
          /\ wires'[n].filter = wires[n].filter /\ wires'[n].identifier = wires[n].identifier
          /\ wires'[n].qos = wires[n].qos /\ wires'[n].unnamed = wires[n].unnamed
    BY <1>1, <2>1 DEF Wire
  <2> QED BY <1>1, <2>1, <2>2 DEF Subsiding
<1>4. ASSUME NEW f, Identified(f, TRUE)
      PROVE  Subsiding /\ \A n \in DOMAIN wires' : wires'[n].filter = f => ~wires'[n].unnamed
  <2>1. /\ DOMAIN wires' = DOMAIN wires
        /\ \A n \in DOMAIN wires :
             wires'[n] = IF wires[n].filter = f
                         THEN [wires[n] EXCEPT !.unnamed = FALSE,
                                               !.identifier = wires[n].identifier]
                         ELSE wires[n]
    BY <1>4 DEF Identified
  <2>2. \A n \in DOMAIN wires :
          /\ wires'[n].filter = wires[n].filter /\ wires'[n].identifier = wires[n].identifier
          /\ wires'[n].qos = wires[n].qos /\ (wires'[n].unnamed => wires[n].unnamed)
          /\ wires[n].filter = f => ~wires'[n].unnamed
    BY <1>1, <2>1 DEF Wire
  <2>3. Subsiding
    <3>1. SUFFICES ASSUME NEW n \in DOMAIN wires
                   PROVE  wires'[n].qos <= wires[n].qos
      BY <2>1, <2>2 DEF Subsiding
    <3> QED BY <1>1, <2>2
  <2>4. \A n \in DOMAIN wires' : wires'[n].filter = f => ~wires'[n].unnamed
    BY <2>1, <2>2
  <2> QED BY <2>3, <2>4
<1>5. Subsiding
  BY <1>2, <1>3, <1>4
<1> QED BY <1>4, <1>5

\* So does a leave, of the filters it does not take off the server.
LEMMA LeaveSubsides ==
  ASSUME Structure, NEW m, Leave(m)
  PROVE  Subsiding /\ \A n \in DOMAIN wires' : wires'[n].filter \notin TakenOff(m)
<1>1. /\ wires \in Seq(Wire)
      /\ \A n \in DOMAIN wires : /\ wires[n].members \in Seq(Member) /\ wires[n].qos \in Int
                                 /\ DOMAIN wires[n].members = 1..Len(wires[n].members)
                                 /\ Len(wires[n].members) \in Nat /\ wires[n].members # <<>>
  <2>1. \A n \in DOMAIN wires : wires[n] \in Wire
    BY SeqPlaces DEF Structure, RegistryTypeOK
  <2>2. \A n \in DOMAIN wires : wires[n].members \in Seq(Member) /\ wires[n].qos \in Int
    BY <2>1 DEF Wire, Qos
  <2> QED BY <2>2, SeqPlaces DEF Structure, RegistryTypeOK, OneWirePerFilter
<1>2. \A k \in DOMAIN wires : \A i \in DOMAIN wires[k].members :
        \A n \in DOMAIN wires : Seat(m, k, i) =>
          (Len(wires[n].members) = 1 /\ wires[n].members[1].id = m => n = k /\ i = 1)
  BY <1>1 DEF Seat, Structure, OneSeatPerMember
<1>3. ASSUME NEW n \in DOMAIN wires, NEW i \in DOMAIN wires[n].members, Seat(m, n, i),
             wires' = SwapRemove(wires, n)
      PROVE  Subsiding /\ \A j \in DOMAIN wires' : wires'[j].filter \notin TakenOff(m)
  <2>1. \A j \in DOMAIN wires' : /\ Origin(wires, n, j) \in DOMAIN wires \ {n}
                                 /\ wires'[j] = wires[Origin(wires, n, j)]
    BY <1>1, <1>3, SwapRemoveProperties
  <2>2. TakenOff(m) \subseteq {wires[n].filter}
    BY <1>2, <1>3 DEF TakenOff
  <2>3. \A j \in DOMAIN wires' : wires'[j].filter # wires[n].filter
    BY <2>1 DEF Structure, OneWirePerFilter
  <2>4. Subsiding
    BY <1>1, <2>1 DEF Subsiding
  <2> QED BY <2>2, <2>3, <2>4
<1>4. ASSUME NEW n \in DOMAIN wires, NEW i \in DOMAIN wires[n].members, Seat(m, n, i),
             Parting(n, i)
      PROVE  Subsiding /\ \A j \in DOMAIN wires' : wires'[j].filter \notin TakenOff(m)
  <2> DEFINE ms == wires[n].members
  <2>1. /\ DOMAIN wires' = DOMAIN wires
        /\ \A k \in DOMAIN wires \ {n} : wires'[k] = wires[k]
        /\ wires'[n].filter = wires[n].filter /\ wires'[n].identifier = wires[n].identifier
        /\ wires'[n].unnamed = wires[n].unnamed
        /\ wires'[n].qos = Highest(Without(ms, i)) /\ Without(ms, i) \in Seq(Member)
    BY <1>4, PartingProperties DEF Structure
  <2>2. ms \in Seq(Member) /\ i \in DOMAIN ms /\ ms # <<>> /\ Without(ms, i) # <<>>
    BY <1>1, <1>4 DEF Parting
  <2>3. wires[n].qos = Highest(ms)
    BY DEF Structure, QosOfMembers
  <2> HIDE DEF ms
  <2>4. \A j \in DOMAIN Without(ms, i) : /\ Shifted(i, j) \in DOMAIN ms \ {i}
                                         /\ Without(ms, i)[j] = ms[Shifted(i, j)]
    BY <2>2, WithoutProperties
  <2>5. Highest(Without(ms, i)) <= Highest(ms)
    <3>1. PICK j \in DOMAIN Without(ms, i) : Without(ms, i)[j].qos = Highest(Without(ms, i))
      BY <2>1, <2>2, HighestProperties
    <3>2. \A k \in DOMAIN ms : ms[k].qos <= Highest(ms)
      BY <2>2, HighestProperties
    <3> QED BY <2>4, <3>1, <3>2
  <2>6. Subsiding
    BY <1>1, <2>1, <2>3, <2>5 DEF Subsiding
  <2>7. TakenOff(m) = {}
    <3>1. SUFFICES ASSUME NEW k \in DOMAIN wires, Len(wires[k].members) = 1,
                          wires[k].members[1].id = m
                   PROVE  FALSE
      <4>1. TakenOff(m) = {wires[k].filter : k \in {x \in DOMAIN wires :
                             Len(wires[x].members) = 1 /\ wires[x].members[1].id = m}}
        BY DEF TakenOff
      <4> QED BY <4>1
    <3>2. k = n /\ i = 1
      BY <1>2, <1>4, <3>1
    <3>3. Len(ms) = 1 /\ DOMAIN ms = 1..1
      BY <1>1, <3>1, <3>2 DEF ms
    <3>4. \A j \in DOMAIN Without(ms, i) : FALSE
      BY <2>4, <3>2, <3>3
    <3> QED BY <2>1, <2>2, <3>4, SeqPlaces
  <2> QED BY <2>6, <2>7
<1>5. CASE (\A n \in DOMAIN wires : \A i \in DOMAIN wires[n].members : ~Seat(m, n, i))
           /\ UNCHANGED wires
  <2>1. TakenOff(m) = {}
    BY <1>1, <1>5 DEF TakenOff, Seat
  <2> QED BY <1>1, <1>5, <2>1 DEF Subsiding
<1>6. nextMember' = nextMember
  BY DEF Leave
<1>7. CASE \E n \in DOMAIN wires : \E i \in DOMAIN wires[n].members :
             /\ Seat(m, n, i)
             /\ LET rest == Without(wires[n].members, i)
                IN wires' = IF rest = <<>>
                            THEN SwapRemove(wires, n)
                            ELSE [wires EXCEPT ![n] = [@ EXCEPT !.members = rest,
                                                                !.qos = Highest(rest)]]
  <2>0. PICK n \in DOMAIN wires : \E i \in DOMAIN wires[n].members :
             /\ Seat(m, n, i)
             /\ LET rest == Without(wires[n].members, i)
                IN wires' = IF rest = <<>>
                            THEN SwapRemove(wires, n)
                            ELSE [wires EXCEPT ![n] = [@ EXCEPT !.members = rest,
                                                                !.qos = Highest(rest)]]
    BY <1>7
  <2>1. PICK i \in DOMAIN wires[n].members :
             /\ Seat(m, n, i)
             /\ LET rest == Without(wires[n].members, i)
                IN wires' = IF rest = <<>>
                            THEN SwapRemove(wires, n)
                            ELSE [wires EXCEPT ![n] = [@ EXCEPT !.members = rest,
                                                                !.qos = Highest(rest)]]
    BY <2>0
  <2>2. CASE Without(wires[n].members, i) = <<>>
    BY <1>3, <2>1, <2>2
  <2>3. CASE Without(wires[n].members, i) # <<>>
    <3>1. Parting(n, i)
      BY <1>6, <2>1, <2>3 DEF Parting
    <3> QED BY <1>4, <2>1, <3>1
  <2> QED BY <2>2, <2>3
<1> QED BY <1>5, <1>7 DEF Leave

\* Each request is for a wire as it is now, that of f last and the refreshes before it, and
\* one is made for every wire that is not what it was.  Where the server offers none, the
\* last one names no identifier.
AsksFor(asked, f, offered) ==
  /\ Vector(asked) /\ asked # <<>>
  /\ \A i \in DOMAIN asked :
       /\ asked[i].refresh <=> i < Len(asked)
       /\ \E n \in DOMAIN wires' : /\ asked[i].filter = wires'[n].filter
                                   /\ offered => asked[i].identifier = wires'[n].identifier
                                   /\ asked[i].identifier \in {wires'[n].identifier, NoIdentifier}
                                   /\ asked[i].qos = wires'[n].qos
       /\ asked[i].refresh =>
            /\ asked[i].filter # f
            /\ \E k \in DOMAIN wires : /\ wires[k].filter = asked[i].filter
                                       /\ wires[k].identifier # asked[i].identifier
  /\ asked[Len(asked)].filter = f
  /\ \A n \in DOMAIN wires' :
       \/ wires'[n].filter = f /\ (wires'[n].unnamed =>
            \E k \in DOMAIN wires : wires[k].filter = f /\ wires[k].unnamed)
       \/ \E i \in DOMAIN asked : asked[i].refresh /\ asked[i].filter = wires'[n].filter
       \/ \E k \in DOMAIN wires : /\ wires'[n].filter = wires[k].filter
                                  /\ wires'[n].identifier = wires[k].identifier
                                  /\ wires'[n].qos = wires[k].qos
                                  /\ wires'[n].unnamed = wires[k].unnamed

\* So does a join ask.
LEMMA JoinAsks ==
  ASSUME Structure, Structure', NEW f \in Filters, NEW q \in Qos, NEW offered \in BOOLEAN,
         Join(f, q, offered), NEW asked, asked = JoinRequests(wires, wires', f, offered)
  PROVE  AsksFor(asked, f, offered)
<1> DEFINE Gained(w) == /\ w.filter # f
                        /\ \E n \in DOMAIN wires : /\ wires[n].filter = w.filter
                                                   /\ wires[n].identifier # w.identifier
           P == {i \in DOMAIN wires' : Gained(wires'[i])}
           gained == At(wires', P)
           own == CHOOSE n \in DOMAIN wires' : wires'[n].filter = f
           Request(w, id, refresh) == [filter |-> w.filter, qos |-> w.qos,
                                       identifier |-> id, refresh |-> refresh]
           first == [n \in DOMAIN gained |-> Request(gained[n], gained[n].identifier, TRUE)]
           last == Request(wires'[own],
                           IF offered THEN wires'[own].identifier ELSE NoIdentifier, FALSE)
<1>1. asked = first \o <<last>>
  BY DEF JoinRequests, Select
<1>2. PICK after : after = wires'
  OBVIOUS
<1>3. after \in Seq(Wire) /\ wires \in Seq(Wire)
  BY <1>2 DEF Structure, RegistryTypeOK
<1>4. P \in SUBSET DOMAIN after
  BY <1>2
<1>5. gained = At(after, P)
  BY <1>2
<1> HIDE DEF P
<1>6. /\ gained \in Seq(Wire) /\ Cardinality(P) \in Nat
      /\ DOMAIN gained = 1..Cardinality(P) /\ Len(gained) = Cardinality(P)
      /\ \A i \in P : \E j \in DOMAIN gained : gained[j] = after[i]
      /\ \A i \in DOMAIN gained : \E p \in P : gained[i] = after[p]
  <2> HIDE DEF gained
  <2> QED BY <1>3, <1>4, <1>5, AtProperties
<1> HIDE DEF gained
<1>7. DOMAIN first = DOMAIN gained /\ \A i \in DOMAIN first :
        /\ first[i].filter = gained[i].filter /\ first[i].qos = gained[i].qos
        /\ first[i].identifier = gained[i].identifier /\ first[i].refresh = TRUE
  OBVIOUS
<1>8. /\ last.filter = wires'[own].filter /\ last.qos = wires'[own].qos
      /\ offered => last.identifier = wires'[own].identifier
      /\ last.identifier \in {wires'[own].identifier, NoIdentifier}
      /\ last.refresh = FALSE
  OBVIOUS
<1>9. Vector(first) /\ Len(first) = Cardinality(P) /\ DOMAIN first = 1..Len(first)
  <2>1. first = [i \in 1..Cardinality(P) |-> first[i]]
    BY <1>6
  <2> HIDE DEF first
  <2> QED BY <1>6, <2>1, VectorFunction
<1> HIDE DEF first, last
<1>9a. PICK many \in Nat : many = Len(first)
  BY <1>6, <1>9
<1>10. /\ Vector(asked) /\ Len(asked) = many + 1 /\ DOMAIN asked = 1..(many + 1)
       /\ DOMAIN first = 1..many
       /\ \A i \in DOMAIN first : i \in DOMAIN asked /\ asked[i] = first[i]
       /\ asked[many + 1] = last
  <2>1. asked = Append(first, last)
    BY <1>1, <1>9, VectorAppend
  <2>2. /\ Vector(Append(first, last)) /\ Len(Append(first, last)) = Len(first) + 1
        /\ DOMAIN Append(first, last) = 1..(Len(first) + 1)
        /\ Len(first) \in Nat /\ DOMAIN first = 1..Len(first)
        /\ \A i \in DOMAIN first : Append(first, last)[i] = first[i]
        /\ Append(first, last)[Len(first) + 1] = last
    BY <1>9, VectorLonger
  <2>3. PICK longer : longer = Append(first, last)
    OBVIOUS
  <2>4. longer = asked
    BY <2>1, <2>3
  <2>5. \A i \in DOMAIN first : i \in 1..(many + 1)
    BY <1>9, <1>9a
  <2> QED BY <1>9a, <2>2, <2>3, <2>4, <2>5
<1> HIDE DEF own
<1>11. PICK seated : seated = Seated(f, q)
  OBVIOUS
<1>12. /\ DOMAIN wires' = DOMAIN seated
       /\ \A n \in DOMAIN seated : IdentifiedAs(seated[n], wires'[n], f)
  BY <1>11, JoinProperties DEF Structure
<1>13. /\ DOMAIN seated = IF Holds(f) THEN 1..Len(wires) ELSE 1..(Len(wires) + 1)
       /\ \A n \in DOMAIN wires :
            /\ n \in DOMAIN seated
            /\ wires[n].filter # f => seated[n] = wires[n]
            /\ wires[n].filter = f => /\ seated[n].filter = f
                                      /\ seated[n].unnamed = wires[n].unnamed
       /\ ~Holds(f) => /\ seated[Len(wires) + 1].filter = f
                       /\ seated[Len(wires) + 1].unnamed = FALSE
       /\ DOMAIN wires = 1..Len(wires) /\ Len(wires) \in Nat
  <2>1. /\ \A n \in DOMAIN wires : wires[n] \in Wire
        /\ DOMAIN wires = 1..Len(wires) /\ Len(wires) \in Nat
    BY <1>3, SeqPlaces
  <2>2. /\ DOMAIN seated = IF Holds(f) THEN 1..Len(wires) ELSE 1..(Len(wires) + 1)
        /\ \A n \in DOMAIN wires :
             /\ n \in DOMAIN seated
             /\ wires[n].filter # f => seated[n] = wires[n]
             /\ wires[n].filter = f =>
                  seated[n] = [wires[n] EXCEPT !.members = Append(wires[n].members,
                                                            [id |-> nextMember, qos |-> q]),
                                               !.qos = Higher(wires[n].qos, q)]
        /\ ~Holds(f) => seated[Len(wires) + 1] =
             [filter |-> f, qos |-> q, identifier |-> NoIdentifier, unnamed |-> FALSE,
              members |-> <<[id |-> nextMember, qos |-> q]>>, turn |-> 0]
    <3>1. /\ DOMAIN Seated(f, q) = IF Holds(f) THEN 1..Len(wires) ELSE 1..(Len(wires) + 1)
          /\ \A n \in DOMAIN wires :
               /\ n \in DOMAIN Seated(f, q)
               /\ wires[n].filter # f => Seated(f, q)[n] = wires[n]
               /\ wires[n].filter = f =>
                    Seated(f, q)[n] =
                      [wires[n] EXCEPT !.members = Append(wires[n].members,
                                                          [id |-> nextMember, qos |-> q]),
                                       !.qos = Higher(wires[n].qos, q)]
          /\ ~Holds(f) => Seated(f, q)[Len(wires) + 1] =
               [filter |-> f, qos |-> q, identifier |-> NoIdentifier, unnamed |-> FALSE,
                members |-> <<[id |-> nextMember, qos |-> q]>>, turn |-> 0]
      BY SeatedProperties DEF Structure
    <3> QED BY <1>11, <3>1
  <2>3. \A n \in DOMAIN wires : wires[n].filter = f =>
          /\ seated[n].filter = f /\ seated[n].unnamed = wires[n].unnamed
    BY <2>1, <2>2 DEF Wire
  <2>4. ~Holds(f) => seated[Len(wires) + 1].filter = f /\ seated[Len(wires) + 1].unnamed = FALSE
    <3>1. ASSUME ~Holds(f)
          PROVE  seated[Len(wires) + 1] =
                   [filter |-> f, qos |-> q, identifier |-> NoIdentifier, unnamed |-> FALSE,
                    members |-> <<[id |-> nextMember, qos |-> q]>>, turn |-> 0]
      BY <2>2, <3>1
    <3> QED BY <3>1
  <2> QED BY <2>1, <2>2, <2>3, <2>4
<1>14. \E n \in DOMAIN wires' : wires'[n].filter = f
  <2>1. \E n \in DOMAIN seated : seated[n].filter = f
    <3>1. CASE Holds(f)
      BY <1>13, <3>1 DEF Holds
    <3>2. CASE ~Holds(f)
      BY <1>13, <3>2
    <3> QED BY <3>1, <3>2
  <2> QED BY <1>12, <2>1 DEF IdentifiedAs
<1>15. own \in DOMAIN wires' /\ wires'[own].filter = f
  BY <1>14 DEF own
<1>16. ASSUME NEW i \in DOMAIN asked
       PROVE  /\ asked[i].refresh <=> i < Len(asked)
              /\ \E n \in DOMAIN wires' : /\ asked[i].filter = wires'[n].filter
                                          /\ offered => asked[i].identifier = wires'[n].identifier
                                          /\ asked[i].identifier \in {wires'[n].identifier, NoIdentifier}
                                          /\ asked[i].qos = wires'[n].qos
              /\ asked[i].refresh =>
                   /\ asked[i].filter # f
                   /\ \E k \in DOMAIN wires : /\ wires[k].filter = asked[i].filter
                                              /\ wires[k].identifier # asked[i].identifier
  <2>1. CASE i \in DOMAIN first
    <3>1. PICK n \in P : gained[i] = after[n]
      BY <1>6, <1>7, <2>1
    <3>5. Gained(wires'[n])
      BY <3>1 DEF P
    <3>2. asked[i].refresh /\ i < Len(asked)
      <4>1. asked[i].refresh = TRUE
        BY <1>7, <1>10, <2>1
      <4>2. i < Len(asked)
        BY <1>9a, <1>10, <2>1
      <4> QED BY <4>1, <4>2
    <3>3. n \in DOMAIN wires' /\ gained[i] = wires'[n]
      BY <1>2, <1>4, <3>1
    <3>4. /\ asked[i].filter = wires'[n].filter /\ asked[i].identifier = wires'[n].identifier
          /\ asked[i].qos = wires'[n].qos
      BY <1>7, <1>10, <2>1, <3>3
    <3> QED BY <3>2, <3>3, <3>4, <3>5
  <2>2. CASE i = many + 1
    <3>1. ~asked[i].refresh /\ ~(i < Len(asked))
      <4>1. asked[i].refresh = FALSE
        BY <1>8, <1>10, <2>2
      <4>2. ~(i < Len(asked))
        BY <1>9a, <1>10, <2>2
      <4> QED BY <4>1, <4>2
    <3>2. /\ asked[i].filter = wires'[own].filter
          /\ offered => asked[i].identifier = wires'[own].identifier
          /\ asked[i].identifier \in {wires'[own].identifier, NoIdentifier}
          /\ asked[i].qos = wires'[own].qos
      BY <1>8, <1>10, <2>2
    <3> QED BY <1>15, <3>1, <3>2
  <2>3. i \in DOMAIN first \/ i = many + 1
    BY <1>9a, <1>10
  <2> QED BY <2>1, <2>2, <2>3
<1>17. ASSUME NEW n \in DOMAIN wires'
       PROVE  \/ wires'[n].filter = f /\ (wires'[n].unnamed =>
                   \E k \in DOMAIN wires : wires[k].filter = f /\ wires[k].unnamed)
              \/ \E i \in DOMAIN asked : asked[i].refresh /\ asked[i].filter = wires'[n].filter
              \/ \E k \in DOMAIN wires : /\ wires'[n].filter = wires[k].filter
                                         /\ wires'[n].identifier = wires[k].identifier
                                         /\ wires'[n].qos = wires[k].qos
                                         /\ wires'[n].unnamed = wires[k].unnamed
  <2>1. n \in DOMAIN seated /\ IdentifiedAs(seated[n], wires'[n], f)
    BY <1>12
  <2>2. CASE wires'[n].filter = f
    <3>1. wires'[n].unnamed => seated[n].unnamed /\ seated[n].filter = f
      BY <2>1, <2>2 DEF IdentifiedAs
    <3>2. CASE n \in DOMAIN wires
      <4>1. wires[n].filter = f
        BY <1>13, <2>1, <2>2, <3>2 DEF IdentifiedAs
      <4> QED BY <1>13, <2>2, <3>1, <3>2, <4>1
    <3>3. CASE n \notin DOMAIN wires
      <4>1. ~Holds(f) /\ n = Len(wires) + 1
        BY <1>13, <2>1, <3>3
      <4> QED BY <1>13, <2>2, <3>1, <4>1
    <3> QED BY <3>2, <3>3
  <2>3. CASE wires'[n].filter # f
    <3>1. n \in DOMAIN wires
      <4>1. seated[n].filter # f
        BY <2>1, <2>3 DEF IdentifiedAs
      <4> QED BY <1>13, <2>1, <4>1
    <3>2. wires[n].filter # f /\ seated[n] = wires[n]
      BY <1>13, <2>1, <2>3, <3>1 DEF IdentifiedAs
    <3>3. CASE wires'[n].identifier = wires[n].identifier /\ wires'[n].unnamed = wires[n].unnamed
      BY <2>1, <3>1, <3>2, <3>3 DEF IdentifiedAs
    <3>4. CASE wires'[n].identifier # wires[n].identifier
      <4>1. wires'[n].filter = wires[n].filter
        BY <2>1, <3>2 DEF IdentifiedAs
      <4>2. n \in P
        BY <2>3, <3>1, <3>4, <4>1 DEF P
      <4>3. PICK j \in DOMAIN gained : gained[j] = wires'[n]
        BY <1>2, <1>6, <4>2
      <4> QED BY <1>7, <1>10, <4>3
    <3> QED BY <2>1, <3>2, <3>3, <3>4 DEF IdentifiedAs
  <2> QED BY <2>2, <2>3
<1>18. asked # <<>>
  <2>1. DOMAIN asked # {}
    BY <1>9a, <1>10
  <2>2. DOMAIN <<>> = {}
    OBVIOUS
  <2> QED BY <2>1, <2>2, Zenon
<1>20. asked[Len(asked)].filter = f
  BY <1>8, <1>10, <1>15
<1> QED BY <1>10, <1>16, <1>17, <1>18, <1>20 DEF AsksFor

\* Wires told apart stay so where none is added and none is less on the server.
LEMMA SubsidingApart ==
  ASSUME Apart, Structure', Subsiding
  PROVE  Apart'
<1>1. MeetingIdentified'
  <2>1. SUFFICES ASSUME NEW i \in DOMAIN wires', NEW j \in DOMAIN wires', i # j,
                        Overlap(wires'[i].filter, wires'[j].filter)
                 PROVE  wires'[i].identifier # NoIdentifier
    BY DEF MeetingIdentified, Overlap
  <2>2. PICK k \in DOMAIN wires : wires'[i].filter = wires[k].filter
                                  /\ wires'[i].identifier = wires[k].identifier
    BY DEF Subsiding
  <2>3. PICK l \in DOMAIN wires : wires'[j].filter = wires[l].filter
    BY DEF Subsiding
  <2>4. k # l
    BY <2>1, <2>2, <2>3 DEF Structure, OneWirePerFilter
  <2> QED BY <2>1, <2>2, <2>3, <2>4 DEF Apart, MeetingIdentified
<1>2. OneUnnamed'
  <2>1. SUFFICES ASSUME NEW i \in DOMAIN wires', NEW j \in DOMAIN wires', i # j,
                        Overlap(wires'[i].filter, wires'[j].filter)
                 PROVE  ~(wires'[i].unnamed /\ wires'[j].unnamed)
    BY DEF OneUnnamed, Overlap
  <2>2. PICK k \in DOMAIN wires : wires'[i].filter = wires[k].filter
                                  /\ (wires'[i].unnamed => wires[k].unnamed)
    BY DEF Subsiding
  <2>3. PICK l \in DOMAIN wires : wires'[j].filter = wires[l].filter
                                  /\ (wires'[j].unnamed => wires[l].unnamed)
    BY DEF Subsiding
  <2>4. k # l
    BY <2>1, <2>2, <2>3 DEF Structure, OneWirePerFilter
  <2> QED BY <2>1, <2>2, <2>3, <2>4 DEF Apart, OneUnnamed
<1> QED BY <1>1, <1>2 DEF Apart

-----------------------------------------------------------------------------
(* Where the members sit.                                                  *)

\* Member m sits on f's wire and needs the quality of service q.
SitsOn(m, f, q) ==
  \E n \in DOMAIN wires : \E i \in DOMAIN wires[n].members :
    Seat(m, n, i) /\ wires[n].filter = f /\ wires[n].members[i].qos = q

\* A packet and the answer to a refresh leave each member where it sits.
LEMMA SitsOnSame ==
  ASSUME Structure,
         \/ UNCHANGED registryVars
         \/ \E t, ids : Route(t, ids)
         \/ \E f, accepted : Identified(f, accepted)
  PROVE  \A m, f, q : SitsOn(m, f, q) => SitsOn(m, f, q)'
<1>1. \A n \in DOMAIN wires : wires[n] \in Wire
  BY SeqPlaces DEF Structure, RegistryTypeOK
<1>2. /\ DOMAIN wires' = DOMAIN wires
      /\ \A n \in DOMAIN wires : /\ wires'[n].members = wires[n].members
                                 /\ wires'[n].filter = wires[n].filter
  <2>1. CASE UNCHANGED registryVars
    BY <2>1 DEF registryVars
  <2>2. ASSUME NEW t, NEW ids, Route(t, ids)
        PROVE  /\ DOMAIN wires' = DOMAIN wires
               /\ \A n \in DOMAIN wires : /\ wires'[n].members = wires[n].members
                                          /\ wires'[n].filter = wires[n].filter
    BY <1>1, <2>2 DEF Route, Wire
  <2>3. ASSUME NEW f, NEW accepted, Identified(f, accepted)
        PROVE  /\ DOMAIN wires' = DOMAIN wires
               /\ \A n \in DOMAIN wires : /\ wires'[n].members = wires[n].members
                                          /\ wires'[n].filter = wires[n].filter
    BY <1>1, <2>3 DEF Identified, Wire
  <2> QED BY <2>1, <2>2, <2>3
<1> QED BY <1>2 DEF SitsOn, Seat

\* A leave takes nobody else from a seat.
LEMMA SitsOnLeft ==
  ASSUME Structure, NEW m, Leave(m)
  PROVE  \A k, f, q : k # m /\ SitsOn(k, f, q) => SitsOn(k, f, q)'
<1>1. /\ DOMAIN wires = 1..Len(wires) /\ Len(wires) \in Nat /\ wires \in Seq(Wire)
      /\ \A n \in DOMAIN wires : /\ wires[n].members \in Seq(Member)
                                 /\ DOMAIN wires[n].members = 1..Len(wires[n].members)
                                 /\ Len(wires[n].members) \in Nat
  <2>1. \A n \in DOMAIN wires : wires[n] \in Wire
    BY SeqPlaces DEF Structure, RegistryTypeOK
  <2> QED BY <2>1, SeqPlaces DEF Structure, RegistryTypeOK, Wire
<1>2. ASSUME NEW n \in DOMAIN wires, NEW i \in DOMAIN wires[n].members, Seat(m, n, i),
             Without(wires[n].members, i) = <<>>, wires' = SwapRemove(wires, n),
             NEW k, k # m, NEW j \in DOMAIN wires, NEW l \in DOMAIN wires[j].members, Seat(k, j, l)
      PROVE  \E x \in DOMAIN wires' : wires'[x] = wires[j]
  <2>1. j # n
    <3> DEFINE ms == wires[n].members
    <3>1. ms \in Seq(Member) /\ i \in DOMAIN ms /\ Without(ms, i) = <<>>
      BY <1>1, <1>2
    <3> HIDE DEF ms
    <3>2. DOMAIN Without(ms, i) = 1..(Len(ms) - 1) /\ DOMAIN <<>> = {}
      BY <3>1, WithoutProperties
    <3>3. DOMAIN ms = 1..Len(ms) /\ Len(ms) \in Nat
      BY <3>1, SeqPlaces
    <3>4. \A p, q \in DOMAIN ms : p = q
      BY <3>1, <3>2, <3>3
    <3> QED BY <1>2, <3>1, <3>4 DEF Seat, ms
  <2>2. /\ DOMAIN wires' = 1..(Len(wires) - 1)
        /\ \A x \in 1..(Len(wires) - 1) : wires'[x] = IF x = n THEN wires[Len(wires)] ELSE wires[x]
    BY <1>2 DEF SwapRemove
  <2>3. CASE j = Len(wires)
    <3>1. n \in DOMAIN wires'
      BY <1>1, <1>2, <2>1, <2>2, <2>3
    <3> QED BY <2>2, <2>3, <3>1
  <2>4. CASE j # Len(wires)
    <3>1. j \in DOMAIN wires'
      BY <1>1, <1>2, <2>2, <2>4
    <3> QED BY <2>1, <2>2, <3>1
  <2> QED BY <2>3, <2>4
<1>3. ASSUME NEW n \in DOMAIN wires, NEW i \in DOMAIN wires[n].members, Seat(m, n, i), Parting(n, i),
             NEW k, k # m, NEW j \in DOMAIN wires, NEW l \in DOMAIN wires[j].members, Seat(k, j, l)
      PROVE  /\ DOMAIN wires' = DOMAIN wires /\ wires'[j].filter = wires[j].filter
             /\ \E y \in DOMAIN wires'[j].members : wires'[j].members[y] = wires[j].members[l]
  <2>1. /\ DOMAIN wires' = DOMAIN wires
        /\ \A x \in DOMAIN wires \ {n} : wires'[x] = wires[x]
        /\ wires'[n].filter = wires[n].filter
        /\ wires'[n].members = Without(wires[n].members, i)
    BY <1>3, PartingProperties DEF Structure
  <2>2. CASE j # n
    BY <2>1, <2>2
  <2>3. CASE j = n
    <3> DEFINE ms == wires[n].members
    <3>1. l # i
      BY <1>3, <2>3 DEF Seat
    <3>2. ms \in Seq(Member) /\ i \in 1..Len(ms) /\ l \in 1..Len(ms) /\ Len(ms) \in Nat
      BY <1>1, <1>3, <2>3
    <3> HIDE DEF ms
    <3>3. /\ DOMAIN Without(ms, i) = 1..(Len(ms) - 1)
          /\ \A x \in 1..(Len(ms) - 1) : Without(ms, i)[x] = IF x < i THEN ms[x] ELSE ms[x + 1]
      BY DEF Without
    <3>4. CASE l < i
      <4>1. l \in 1..(Len(ms) - 1)
        BY <3>2, <3>4
      <4> QED BY <2>1, <2>3, <3>3, <3>4, <4>1 DEF ms
    <3>5. CASE ~(l < i)
      <4>1. l - 1 \in 1..(Len(ms) - 1) /\ ~(l - 1 < i) /\ (l - 1) + 1 = l
        BY <3>1, <3>2, <3>5
      <4> QED BY <2>1, <2>3, <3>3, <4>1 DEF ms
    <3> QED BY <3>4, <3>5
  <2> QED BY <2>2, <2>3
<1> SUFFICES ASSUME NEW k, NEW f, NEW q, k # m, SitsOn(k, f, q) PROVE SitsOn(k, f, q)'
  OBVIOUS
<1>4. PICK j \in DOMAIN wires : \E l \in DOMAIN wires[j].members :
        Seat(k, j, l) /\ wires[j].filter = f /\ wires[j].members[l].qos = q
  BY DEF SitsOn
<1>5. PICK l \in DOMAIN wires[j].members :
        Seat(k, j, l) /\ wires[j].filter = f /\ wires[j].members[l].qos = q
  BY <1>4
<1>6. CASE UNCHANGED wires
  BY <1>4, <1>6 DEF SitsOn, Seat
<1>7. ASSUME NEW n \in DOMAIN wires, NEW i \in DOMAIN wires[n].members, Seat(m, n, i),
             LET rest == Without(wires[n].members, i)
             IN wires' = IF rest = <<>> THEN SwapRemove(wires, n)
                         ELSE [wires EXCEPT ![n] = [@ EXCEPT !.members = rest,
                                                             !.qos = Highest(rest)]]
      PROVE  SitsOn(k, f, q)'
  <2>1. CASE Without(wires[n].members, i) = <<>>
    <3>1. wires' = SwapRemove(wires, n)
      BY <1>7, <2>1
    <3>2. \E x \in DOMAIN wires' : wires'[x] = wires[j]
      BY <1>2, <1>5, <1>7, <2>1, <3>1
    <3> QED BY <1>5, <3>2 DEF SitsOn, Seat
  <2>2. CASE Without(wires[n].members, i) # <<>>
    <3>1. Parting(n, i)
      BY <1>7, <2>2 DEF Parting, Leave
    <3>2. /\ DOMAIN wires' = DOMAIN wires /\ wires'[j].filter = wires[j].filter
          /\ \E y \in DOMAIN wires'[j].members : wires'[j].members[y] = wires[j].members[l]
      BY <1>3, <1>5, <1>7, <3>1
    <3> QED BY <1>5, <3>2 DEF SitsOn, Seat
  <2> QED BY <2>1, <2>2
<1> QED BY <1>6, <1>7 DEF Leave

\* A join seats its member on the filter's wire and leaves the others where they sit.
LEMMA SitsOnJoined ==
  ASSUME Structure, NEW f \in Filters, NEW q \in Qos, NEW offered \in BOOLEAN,
         Join(f, q, offered)
  PROVE  /\ \A m, g, r : SitsOn(m, g, r) => SitsOn(m, g, r)'
         /\ \A m : m = nextMember => SitsOn(m, f, q)'
<1> DEFINE entry  == [id |-> nextMember, qos |-> q]
           seated == Seated(f, q)
<1>0. /\ seated \in Seq(Wire)
      /\ DOMAIN seated = IF Holds(f) THEN 1..Len(wires) ELSE 1..(Len(wires) + 1)
      /\ \A n \in DOMAIN wires :
           /\ n \in DOMAIN seated
           /\ wires[n].filter # f => seated[n] = wires[n]
           /\ wires[n].filter = f =>
                seated[n] = [wires[n] EXCEPT !.members = Append(wires[n].members, entry),
                                             !.qos = Higher(wires[n].qos, q)]
      /\ ~Holds(f) => seated[Len(wires) + 1] =
           [filter |-> f, qos |-> q, identifier |-> NoIdentifier, unnamed |-> FALSE,
            members |-> <<entry>>, turn |-> 0]
  BY SeatedProperties DEF Structure
<1>1. /\ DOMAIN wires' = DOMAIN seated
      /\ \A n \in DOMAIN seated : /\ wires'[n].members = seated[n].members
                                  /\ wires'[n].filter = seated[n].filter
  BY JoinProperties DEF Structure, IdentifiedAs
<1>2. \A n \in DOMAIN wires : wires[n] \in Wire /\ wires[n].members \in Seq(Member)
  <2>1. \A n \in DOMAIN wires : wires[n] \in Wire
    BY SeqPlaces DEF Structure, RegistryTypeOK
  <2> QED BY <2>1 DEF Wire
<1>3. Len(wires) \in Nat
  BY SeqPlaces DEF Structure, RegistryTypeOK
<1> HIDE DEF seated
<1>4. entry.id = nextMember /\ entry.qos = q /\ entry \in Member
  BY DEF Structure, RegistryTypeOK, Member
<1> HIDE DEF entry
<1>5. ASSUME NEW n \in DOMAIN wires, wires[n].filter = f
      PROVE  seated[n].members = Append(wires[n].members, entry) /\ seated[n].filter = f
  BY <1>0, <1>2, <1>5 DEF Wire
<1>6. ASSUME NEW n \in DOMAIN wires
      PROVE  /\ n \in DOMAIN wires' /\ wires'[n].filter = wires[n].filter
             /\ \A i \in DOMAIN wires[n].members : /\ i \in DOMAIN wires'[n].members
                                                   /\ wires'[n].members[i] = wires[n].members[i]
  <2>1. CASE wires[n].filter = f
    <3> DEFINE ms == wires[n].members
    <3>1. wires'[n].members = Append(ms, entry) /\ ms \in Seq(Member) /\ wires'[n].filter = f
      BY <1>0, <1>1, <1>2, <1>5, <2>1
    <3> HIDE DEF ms
    <3>2. \A i \in DOMAIN ms : i \in DOMAIN Append(ms, entry) /\ Append(ms, entry)[i] = ms[i]
      BY <1>4, <3>1
    <3> QED BY <1>0, <1>1, <2>1, <3>1, <3>2 DEF ms
  <2>2. CASE wires[n].filter # f
    BY <1>0, <1>1, <2>2
  <2> QED BY <2>1, <2>2
<1>7. \A m, g, r : SitsOn(m, g, r) => SitsOn(m, g, r)'
  BY <1>6 DEF SitsOn, Seat
<1>8. \E n \in DOMAIN wires' : \E i \in DOMAIN wires'[n].members :
        wires'[n].filter = f /\ wires'[n].members[i] = entry
  <2>1. CASE Holds(f)
    <3>1. PICK n \in DOMAIN wires : wires[n].filter = f
      BY <2>1 DEF Holds
    <3> DEFINE ms == wires[n].members
    <3>2. wires'[n].members = Append(ms, entry) /\ ms \in Seq(Member) /\ wires'[n].filter = f
          /\ n \in DOMAIN wires'
      BY <1>0, <1>1, <1>2, <1>5, <3>1
    <3> HIDE DEF ms
    <3>3. Len(ms) + 1 \in DOMAIN Append(ms, entry) /\ Append(ms, entry)[Len(ms) + 1] = entry
      BY <1>4, <3>2
    <3> QED BY <3>2, <3>3
  <2>2. CASE ~Holds(f)
    <3>0. /\ DOMAIN seated = 1..(Len(wires) + 1)
          /\ seated[Len(wires) + 1] =
               [filter |-> f, qos |-> q, identifier |-> NoIdentifier, unnamed |-> FALSE,
                members |-> <<entry>>, turn |-> 0]
      BY <1>0, <2>2
    <3>1. Len(wires) + 1 \in DOMAIN wires' /\ Len(wires) + 1 \in DOMAIN seated
      BY <1>1, <1>3, <3>0
    <3>2. wires'[Len(wires) + 1].filter = f /\ wires'[Len(wires) + 1].members = <<entry>>
      <4>1. seated[Len(wires) + 1].filter = f /\ seated[Len(wires) + 1].members = <<entry>>
        BY <3>0
      <4> QED BY <1>1, <3>1, <4>1
    <3>3. 1 \in DOMAIN <<entry>> /\ <<entry>>[1] = entry
      OBVIOUS
    <3> QED BY <3>1, <3>2, <3>3
  <2> QED BY <2>1, <2>2
<1> QED BY <1>4, <1>7, <1>8 DEF SitsOn, Seat

\* A wire serves each of its members at the quality of service it needs or above.
LEMMA SitsServed ==
  ASSUME Structure, NEW m, NEW f, NEW q, SitsOn(m, f, q), NEW n \in DOMAIN wires, wires[n].filter = f
  PROVE  wires[n].qos >= q
<1>1. PICK k \in DOMAIN wires : \E i \in DOMAIN wires[k].members :
        Seat(m, k, i) /\ wires[k].filter = f /\ wires[k].members[i].qos = q
  BY DEF SitsOn
<1>2. k = n
  BY <1>1 DEF Structure, OneWirePerFilter
<1>3. PICK i \in DOMAIN wires[n].members : wires[n].members[i].qos = q
  BY <1>1, <1>2
<1>4. wires[n] \in Wire
  BY SeqPlaces DEF Structure, RegistryTypeOK
<1> DEFINE ms == wires[n].members
<1>5. ms \in Seq(Member) /\ ms # <<>> /\ wires[n].qos = Highest(ms)
  BY <1>4 DEF Wire, Structure, OneWirePerFilter, QosOfMembers
<1>6. i \in DOMAIN ms /\ ms[i].qos = q
  BY <1>3
<1> HIDE DEF ms
<1>7. Highest(ms) \in Int /\ ms[i].qos <= Highest(ms) /\ ms[i].qos \in Int
  <2>1. Highest(ms) \in Qos /\ \A x \in DOMAIN ms : ms[x].qos <= Highest(ms)
    BY <1>5, HighestProperties
  <2>2. ms[i] \in Member
    BY <1>5, <1>6, SeqPlaces
  <2> QED BY <1>6, <2>1, <2>2 DEF Member, Qos
<1> QED BY <1>5, <1>6, <1>7

\* A filter on a wire that another joins keeps its identifier: where it meets
\* another it had one.
LEMMA JoinKeepsOwn ==
  ASSUME Structure, Structure', MeetingIdentified, NEW f \in Filters, NEW q \in Qos,
         NEW offered \in BOOLEAN, Join(f, q, offered),
         NEW k \in DOMAIN wires, wires[k].filter = f
  PROVE  \A n \in DOMAIN wires' : wires'[n].filter = f => wires'[n].identifier = wires[k].identifier
<1> DEFINE seated == Seated(f, q)
<1>0. /\ k \in DOMAIN seated
      /\ seated[k] = [wires[k] EXCEPT !.members = Append(wires[k].members,
                                                         [id |-> nextMember, qos |-> q]),
                                      !.qos = Higher(wires[k].qos, q)]
  <2>1. /\ seated \in Seq(Wire)
        /\ \A n \in DOMAIN wires :
             /\ n \in DOMAIN seated
             /\ wires[n].filter # f => seated[n] = wires[n]
             /\ wires[n].filter = f =>
                  seated[n] = [wires[n] EXCEPT !.members = Append(wires[n].members,
                                                                  [id |-> nextMember, qos |-> q]),
                                               !.qos = Higher(wires[n].qos, q)]
    BY SeatedProperties DEF Structure
  <2> HIDE DEF seated
  <2> QED BY <2>1
<1>1. wires[k] \in Wire
  BY SeqPlaces DEF Structure, RegistryTypeOK
<1>2. seated[k].identifier = wires[k].identifier /\ seated[k].filter = f
  BY <1>0, <1>1 DEF Wire
<1>3. DOMAIN wires' = DOMAIN seated /\ IdentifiedAs(seated[k], wires'[k], f)
  BY <1>0, JoinProperties DEF Structure
<1>4. wires'[k].identifier = wires[k].identifier
  <2>1. CASE ~offered \/ Met(f) = {}
    <3>1. wires' = seated
      BY <2>1 DEF Join
    <3> QED BY <1>2, <3>1
  <2>2. CASE Met(f) # {}
    <3>1. PICK m \in DOMAIN wires : wires[m].filter # f /\ Overlap(wires[m].filter, f)
      BY <2>2 DEF Met
    <3>2. wires[k].identifier # NoIdentifier
      BY <3>1 DEF MeetingIdentified, Overlap
    <3> QED BY <1>2, <1>3, <3>2 DEF IdentifiedAs
  <2> QED BY <2>1, <2>2
<1>5. wires'[k].filter = f /\ k \in DOMAIN wires'
  BY <1>0, <1>2, <1>3 DEF IdentifiedAs
<1>6. \A n \in DOMAIN wires' : wires'[n].filter = f => n = k
  BY <1>5 DEF Structure, OneWirePerFilter
<1> QED BY <1>4, <1>6

\* Some member sits on each filter held.
LEMMA HeldSits ==
  ASSUME Structure
  PROVE  \A f : Holds(f) <=> \E m, q : SitsOn(m, f, q)
<1>1. ASSUME NEW n \in DOMAIN wires PROVE 1 \in DOMAIN wires[n].members
  <2>0. wires[n] \in Wire
    BY SeqPlaces DEF Structure, RegistryTypeOK
  <2>1. wires[n].members \in Seq(Member) /\ wires[n].members # <<>>
    BY <2>0 DEF Structure, OneWirePerFilter, Wire
  <2> QED BY <2>1
<1>2. ASSUME NEW f, Holds(f) PROVE \E m, q : SitsOn(m, f, q)
  <2>1. PICK n \in DOMAIN wires : wires[n].filter = f
    BY <1>2 DEF Holds
  <2> QED BY <1>1, <2>1 DEF SitsOn, Seat
<1> QED BY <1>2 DEF SitsOn, Holds

\* After a step as well.
LEMMA HeldSitsNext == (Structure => \A f : Holds(f) <=> \E m, q : SitsOn(m, f, q))'
  BY HeldSits, PTL

\* A join holds its own filter besides those held before.
LEMMA HoldsJoined ==
  ASSUME Structure, NEW f \in Filters, NEW q \in Qos, NEW offered \in BOOLEAN, Join(f, q, offered)
  PROVE  \A g : Holds(g)' <=> Holds(g) \/ g = f
<1> DEFINE seated == Seated(f, q)
<1>1. /\ seated \in Seq(Wire)
      /\ DOMAIN seated = IF Holds(f) THEN 1..Len(wires) ELSE 1..(Len(wires) + 1)
      /\ \A n \in DOMAIN wires :
           /\ n \in DOMAIN seated
           /\ wires[n].filter # f => seated[n] = wires[n]
           /\ wires[n].filter = f =>
                seated[n] = [wires[n] EXCEPT !.members = Append(wires[n].members,
                                                                [id |-> nextMember, qos |-> q]),
                                             !.qos = Higher(wires[n].qos, q)]
      /\ ~Holds(f) => seated[Len(wires) + 1] =
           [filter |-> f, qos |-> q, identifier |-> NoIdentifier, unnamed |-> FALSE,
            members |-> <<[id |-> nextMember, qos |-> q]>>, turn |-> 0]
  BY SeatedProperties DEF Structure
<1>2. /\ DOMAIN wires' = DOMAIN seated
      /\ \A n \in DOMAIN seated : wires'[n].filter = seated[n].filter
  BY JoinProperties DEF Structure, IdentifiedAs
<1> HIDE DEF seated
<1>3. /\ \A n \in DOMAIN wires : wires[n] \in Wire
      /\ DOMAIN wires = 1..Len(wires) /\ Len(wires) \in Nat
  BY SeqPlaces DEF Structure, RegistryTypeOK
<1>4. \A n \in DOMAIN wires : seated[n].filter = wires[n].filter
  BY <1>1, <1>3 DEF Wire
<1>5. ~Holds(f) => seated[Len(wires) + 1].filter = f /\ Len(wires) + 1 \in DOMAIN seated
  <2>1. ASSUME ~Holds(f) PROVE seated[Len(wires) + 1].filter = f /\ Len(wires) + 1 \in DOMAIN seated
    <3>1. /\ DOMAIN seated = 1..(Len(wires) + 1)
          /\ seated[Len(wires) + 1] =
               [filter |-> f, qos |-> q, identifier |-> NoIdentifier, unnamed |-> FALSE,
                members |-> <<[id |-> nextMember, qos |-> q]>>, turn |-> 0]
      BY <1>1, <2>1
    <3>2. seated[Len(wires) + 1].filter = f
      BY <3>1
    <3> QED BY <1>3, <3>1, <3>2
  <2> QED BY <2>1
<1>6. \A n \in DOMAIN seated : n \in DOMAIN wires \/ (~Holds(f) /\ n = Len(wires) + 1)
  <2>1. \A k \in Nat : \A n \in 1..(k + 1) : n \in 1..k \/ n = k + 1
    OBVIOUS
  <2>2. CASE Holds(f)
    BY <1>1, <1>3, <2>2
  <2>3. CASE ~Holds(f)
    <3>1. DOMAIN seated = 1..(Len(wires) + 1)
      BY <1>1, <2>3
    <3> QED BY <1>3, <2>1, <2>3, <3>1
  <2> QED BY <2>2, <2>3
<1> QED BY <1>1, <1>2, <1>4, <1>5, <1>6 DEF Holds

\* A leave takes off the filter its member was alone on, and no other.
LEMMA HoldsLeft ==
  ASSUME Structure, Structure', NEW m, Leave(m)
  PROVE  /\ \A g : Holds(g)' => Holds(g)
         /\ \A g : Holds(g) /\ ~Holds(g)' <=> g \in TakenOff(m)
         /\ \A f, q : SitsOn(m, f, q) => TakenOff(m) \subseteq {f}
         /\ \A f, g \in TakenOff(m) : f = g
<1>1. Subsiding /\ \A n \in DOMAIN wires' : wires'[n].filter \notin TakenOff(m)
  BY LeaveSubsides
<1>2. \A g : Holds(g)' => Holds(g)
  BY <1>1 DEF Subsiding, Holds
<1>3. ASSUME NEW n \in DOMAIN wires
      PROVE  /\ wires[n].members \in Seq(Member) /\ wires[n].members # <<>>
             /\ DOMAIN wires[n].members = 1..Len(wires[n].members) /\ Len(wires[n].members) \in Nat
             /\ 1 \in DOMAIN wires[n].members
  <2>0. wires[n] \in Wire
    BY SeqPlaces DEF Structure, RegistryTypeOK
  <2>1. wires[n].members \in Seq(Member) /\ wires[n].members # <<>>
    BY <2>0 DEF Structure, OneWirePerFilter, Wire
  <2> QED BY <2>1
<1>4. ASSUME NEW g, Holds(g), ~Holds(g)' PROVE g \in TakenOff(m)
  <2>1. PICK n \in DOMAIN wires : wires[n].filter = g
    BY <1>4 DEF Holds
  <2>2. ASSUME NEW i \in DOMAIN wires[n].members PROVE Seat(m, n, i)
    <3>1. PICK k, q : k = wires[n].members[i].id /\ SitsOn(k, g, q)
      BY <2>1 DEF SitsOn, Seat
    <3>2. k # m => SitsOn(k, g, q)'
      BY <3>1, SitsOnLeft
    <3>3. ~SitsOn(k, g, q)'
      BY <1>4, HeldSitsNext
    <3> QED BY <3>1, <3>2, <3>3 DEF Seat
  <2>3. \A i \in DOMAIN wires[n].members : i = 1
    BY <1>3, <2>2 DEF Seat, Structure, OneSeatPerMember
  <2>4. Len(wires[n].members) = 1
    <3>1. \A k \in Nat : 1 \in 1..k /\ (\A i \in 1..k : i = 1) => k = 1
      OBVIOUS
    <3> QED BY <1>3, <2>3, <3>1
  <2> QED BY <1>3, <2>1, <2>2, <2>4 DEF TakenOff, Seat
<1>5. \A g \in TakenOff(m) : Holds(g) /\ ~Holds(g)'
  BY <1>1 DEF TakenOff, Holds
<1>6. \A f, q : SitsOn(m, f, q) => TakenOff(m) \subseteq {f}
  BY <1>3 DEF SitsOn, Seat, TakenOff, Structure, OneSeatPerMember
<1>7. \A f, g \in TakenOff(m) : f = g
  BY <1>3 DEF TakenOff, Structure, OneSeatPerMember
<1> QED BY <1>2, <1>4, <1>5, <1>6, <1>7

\* The other methods hold the filters that were held.
LEMMA HoldsSame ==
  ASSUME \/ UNCHANGED registryVars
         \/ \E t, ids : Route(t, ids)
         \/ \E f, accepted : Identified(f, accepted),
         RegistryTypeOK
  PROVE  \A g : Holds(g)' <=> Holds(g)
<1>1. CASE UNCHANGED registryVars
  BY <1>1 DEF registryVars, Holds
<1>2. ASSUME DOMAIN wires' = DOMAIN wires, \A n \in DOMAIN wires : wires'[n].filter = wires[n].filter
      PROVE  \A g : Holds(g)' <=> Holds(g)
  BY <1>2 DEF Holds
<1>3. \A n \in DOMAIN wires : wires[n] \in Wire
  BY SeqPlaces DEF RegistryTypeOK
<1>4. ASSUME NEW t, NEW ids, Route(t, ids) PROVE \A g : Holds(g)' <=> Holds(g)
  <2>1. DOMAIN wires' = DOMAIN wires /\ \A n \in DOMAIN wires : wires'[n].filter = wires[n].filter
    BY <1>3, <1>4 DEF Route, Wire
  <2> QED BY <1>2, <2>1
<1>5. ASSUME NEW f, NEW accepted, Identified(f, accepted) PROVE \A g : Holds(g)' <=> Holds(g)
  <2>1. DOMAIN wires' = DOMAIN wires /\ \A n \in DOMAIN wires : wires'[n].filter = wires[n].filter
    BY <1>3, <1>5 DEF Identified, Wire
  <2> QED BY <1>2, <2>1
<1> QED BY <1>1, <1>4, <1>5

-----------------------------------------------------------------------------
(* What a filter's identifier is told to be.                               *)

\* A join leaves a wire as it is, or gives it an identifier it did not have, which the
\* others' wires wait for; its own is told.
LEMMA JoinTells ==
  ASSUME Structure, NEW f \in Filters, NEW q \in Qos, NEW offered \in BOOLEAN, Join(f, q, offered)
  PROVE  \A n \in DOMAIN wires' :
           \/ ~Holds(f) /\ wires'[n].filter = f /\ ~wires'[n].unnamed
           \/ /\ n \in DOMAIN wires /\ wires'[n].filter = wires[n].filter
              /\ \/ wires'[n].identifier = wires[n].identifier /\ wires'[n].unnamed = wires[n].unnamed
                 \/ /\ wires[n].identifier = NoIdentifier /\ wires'[n].identifier # NoIdentifier
                    /\ \/ wires[n].filter = f
                       \/ wires'[n].unnamed /\ Overlap(wires[n].filter, f)
<1>1. PICK seated : seated = Seated(f, q)
  OBVIOUS
<1>2. /\ DOMAIN wires' = DOMAIN seated
      /\ \A n \in DOMAIN seated :
           /\ IdentifiedAs(seated[n], wires'[n], f)
           /\ wires'[n].identifier # seated[n].identifier =>
                seated[n].filter = f \/ Overlap(seated[n].filter, f)
  BY <1>1, JoinProperties DEF Structure
<1>3. /\ \A n \in DOMAIN wires : wires[n] \in Wire
      /\ DOMAIN wires = 1..Len(wires) /\ Len(wires) \in Nat
  BY SeqPlaces DEF Structure, RegistryTypeOK
<1>4. /\ DOMAIN seated = IF Holds(f) THEN 1..Len(wires) ELSE 1..(Len(wires) + 1)
      /\ \A n \in DOMAIN wires :
           /\ wires[n].filter # f => seated[n] = wires[n]
           /\ wires[n].filter = f =>
                seated[n] = [wires[n] EXCEPT !.members = Append(wires[n].members,
                                                          [id |-> nextMember, qos |-> q]),
                                             !.qos = Higher(wires[n].qos, q)]
      /\ ~Holds(f) => seated[Len(wires) + 1] =
           [filter |-> f, qos |-> q, identifier |-> NoIdentifier, unnamed |-> FALSE,
            members |-> <<[id |-> nextMember, qos |-> q]>>, turn |-> 0]
  <2>1. /\ DOMAIN Seated(f, q) = IF Holds(f) THEN 1..Len(wires) ELSE 1..(Len(wires) + 1)
        /\ \A n \in DOMAIN wires :
             /\ n \in DOMAIN Seated(f, q)
             /\ wires[n].filter # f => Seated(f, q)[n] = wires[n]
             /\ wires[n].filter = f =>
                  Seated(f, q)[n] =
                    [wires[n] EXCEPT !.members = Append(wires[n].members,
                                                        [id |-> nextMember, qos |-> q]),
                                     !.qos = Higher(wires[n].qos, q)]
        /\ ~Holds(f) => Seated(f, q)[Len(wires) + 1] =
             [filter |-> f, qos |-> q, identifier |-> NoIdentifier, unnamed |-> FALSE,
              members |-> <<[id |-> nextMember, qos |-> q]>>, turn |-> 0]
    BY SeatedProperties DEF Structure
  <2> QED BY <1>1, <2>1
<1>5. ASSUME NEW n \in DOMAIN wires, n \in DOMAIN wires'
      PROVE  /\ wires'[n].filter = wires[n].filter
             /\ \/ wires'[n].identifier = wires[n].identifier /\ wires'[n].unnamed = wires[n].unnamed
                \/ /\ wires[n].identifier = NoIdentifier /\ wires'[n].identifier # NoIdentifier
                   /\ \/ wires[n].filter = f
                      \/ wires'[n].unnamed /\ Overlap(wires[n].filter, f)
  <2>1. /\ seated[n].filter = wires[n].filter /\ seated[n].identifier = wires[n].identifier
        /\ seated[n].unnamed = wires[n].unnamed
    BY <1>3, <1>4 DEF Wire
  <2>2. /\ IdentifiedAs(seated[n], wires'[n], f)
        /\ wires'[n].identifier # seated[n].identifier =>
             seated[n].filter = f \/ Overlap(seated[n].filter, f)
    BY <1>2, <1>5
  <2> QED BY <2>1, <2>2 DEF IdentifiedAs
<1>6. ASSUME NEW n \in DOMAIN wires', n \notin DOMAIN wires
      PROVE  ~Holds(f) /\ wires'[n].filter = f /\ ~wires'[n].unnamed
  <2>1. ~Holds(f) /\ n = Len(wires) + 1
    <3>1. DOMAIN wires' = IF Holds(f) THEN 1..Len(wires) ELSE 1..(Len(wires) + 1)
      BY <1>2, <1>4
    <3> QED BY <1>3, <1>6, <3>1
  <2>2. seated[n].filter = f /\ seated[n].unnamed = FALSE
    <3>1. seated[n] = [filter |-> f, qos |-> q, identifier |-> NoIdentifier, unnamed |-> FALSE,
                       members |-> <<[id |-> nextMember, qos |-> q]>>, turn |-> 0]
      BY <1>4, <2>1
    <3> QED BY <3>1
  <2>3. IdentifiedAs(seated[n], wires'[n], f)
    BY <1>2, <1>6
  <2> QED BY <2>1, <2>2, <2>3 DEF IdentifiedAs
<1> QED BY <1>5, <1>6

-----------------------------------------------------------------------------
(* The identifier a filter's packets name.                                 *)

\* f's wire has the identifier id.
Named(f, id) == \A n \in DOMAIN wires : wires[n].filter = f => wires[n].identifier = id

\* A server that holds f with the identifier id agrees with f's wire: it has the wire's, or
\* none while the wire is unnamed.
Fits(f, id) ==
  \A n \in DOMAIN wires : wires[n].filter = f =>
    wires[n].identifier = id \/ (wires[n].unnamed /\ id = NoIdentifier)

\* Every wire is told as one was.
Telling ==
  \A n \in DOMAIN wires' : \E k \in DOMAIN wires :
    /\ wires'[n].filter = wires[k].filter /\ wires'[n].identifier = wires[k].identifier
    /\ wires'[n].unnamed = wires[k].unnamed

\* Then what fitted a filter fits it.
LEMMA FitsTold ==
  ASSUME Telling
  PROVE  \A f, id : (Named(f, id) => Named(f, id)') /\ (Fits(f, id) => Fits(f, id)')
<1> SUFFICES ASSUME NEW f, NEW id
             PROVE  (Named(f, id) => Named(f, id)') /\ (Fits(f, id) => Fits(f, id)')
  OBVIOUS
<1>1. ASSUME NEW n \in DOMAIN wires', wires'[n].filter = f
      PROVE  /\ Named(f, id) => wires'[n].identifier = id
             /\ Fits(f, id) => wires'[n].identifier = id \/ (wires'[n].unnamed /\ id = NoIdentifier)
  <2>1. PICK k \in DOMAIN wires :
          /\ wires'[n].filter = wires[k].filter /\ wires'[n].identifier = wires[k].identifier
          /\ wires'[n].unnamed = wires[k].unnamed
    BY DEF Telling
  <2> QED BY <1>1, <2>1 DEF Named, Fits
<1> QED BY <1>1 DEF Named, Fits

\* A packet tells nothing anew.
LEMMA RouteTells ==
  ASSUME RegistryTypeOK, UNCHANGED wires \/ \E t, ids : Route(t, ids)
  PROVE  Telling
<1>1. CASE UNCHANGED wires
  BY <1>1 DEF Telling
<1>2. ASSUME NEW t, NEW ids, Route(t, ids) PROVE Telling
  <2>1. \A n \in DOMAIN wires : wires[n] \in Wire
    BY SeqPlaces DEF RegistryTypeOK
  <2>2. /\ DOMAIN wires' = DOMAIN wires
        /\ \A n \in DOMAIN wires :
             wires'[n] = IF n \in Targets(t, ids)
                         THEN [wires[n] EXCEPT !.turn = (wires[n].turn + 1) % TurnRange]
                         ELSE wires[n]
    BY <1>2 DEF Route
  <2>3. \A n \in DOMAIN wires : /\ wires'[n].filter = wires[n].filter
                                /\ wires'[n].identifier = wires[n].identifier
                                /\ wires'[n].unnamed = wires[n].unnamed
    BY <2>1, <2>2 DEF Wire
  <2> QED BY <2>2, <2>3 DEF Telling
<1> QED BY <1>1, <1>2

\* Nor does a member that leaves.
LEMMA LeaveTells ==
  ASSUME RegistryTypeOK, NEW m, Leave(m)
  PROVE  Telling
<1>1. ASSUME NEW n \in DOMAIN wires, NEW i \in DOMAIN wires[n].members, Parting(n, i) PROVE Telling
  <2>1. /\ DOMAIN wires' = DOMAIN wires
        /\ \A k \in DOMAIN wires : /\ wires'[k].filter = wires[k].filter
                                   /\ wires'[k].identifier = wires[k].identifier
                                   /\ wires'[k].unnamed = wires[k].unnamed
    BY <1>1, PartingProperties
  <2> QED BY <2>1 DEF Telling
<1>2. ASSUME NEW n \in DOMAIN wires, Removal(n) PROVE Telling
  <2>1. \A i \in DOMAIN wires' : /\ Origin(wires, n, i) \in DOMAIN wires
                                /\ wires'[i] = wires[Origin(wires, n, i)]
    BY <1>2, SwapRemoveProperties DEF RegistryTypeOK, Removal
  <2> QED BY <2>1 DEF Telling
<1>3. CASE UNCHANGED registryVars
  BY <1>3, RouteTells DEF registryVars
<1> QED BY <1>1, <1>2, <1>3, LeaveCases

\* The answer to a refresh of f tells no other filter's wire anew, and none its identifier
\* unless it refuses.
LEMMA IdentifiedTells ==
  ASSUME RegistryTypeOK, NEW f, NEW accepted, Identified(f, accepted)
  PROVE  /\ \A g : Holds(g)' => Holds(g)
         /\ \A g, id : g # f => (Named(g, id) => Named(g, id)') /\ (Fits(g, id) => Fits(g, id)')
         /\ \A id : accepted = TRUE => (Named(f, id) => Named(f, id)')
<1>1. \A n \in DOMAIN wires : wires[n] \in Wire
  BY SeqPlaces DEF RegistryTypeOK
<1>2. /\ DOMAIN wires' = DOMAIN wires
      /\ \A n \in DOMAIN wires :
           wires'[n] = IF wires[n].filter = f
                       THEN [wires[n] EXCEPT !.unnamed = FALSE,
                               !.identifier = IF accepted THEN wires[n].identifier ELSE NoIdentifier]
                       ELSE wires[n]
  BY DEF Identified
<1>3. \A n \in DOMAIN wires :
        /\ wires'[n].filter = wires[n].filter
        /\ wires[n].filter # f => wires'[n] = wires[n]
        /\ accepted = TRUE => wires'[n].identifier = wires[n].identifier
  BY <1>1, <1>2 DEF Wire
<1> QED BY <1>2, <1>3 DEF Named, Fits, Holds

\* On a server that grants every refresh: where it offers identifiers the wires are told
\* apart, and where it offers none no wire has one.
Lettered(offers) ==
  IF offers THEN Apart ELSE Structure /\ \A n \in DOMAIN wires : wires[n].identifier = NoIdentifier

LEMMA LetteredInit ==
  ASSUME RegistryInit, NEW offers
  PROVE  Lettered(offers)
<1>1. DOMAIN wires = {}
  BY DEF RegistryInit
<1> QED BY <1>1, ApartInit DEF Lettered, Apart

LEMMA LetteredSubsides ==
  ASSUME NEW offers, Lettered(offers), Structure', Subsiding
  PROVE  Lettered(offers)'
<1>1. CASE offers
  BY <1>1, SubsidingApart DEF Lettered
<1>2. CASE ~offers
  BY <1>2 DEF Lettered, Subsiding
<1> QED BY <1>1, <1>2

\* A wire that was there keeps its identifier as a filter is joined, or had none and is
\* unnamed; the joining filter's keeps it anyway.
LEMMA JoinLetters ==
  ASSUME NEW offers \in BOOLEAN, Lettered(offers), Structure', NEW f \in Filters, NEW q \in Qos,
         Join(f, q, offers)
  PROVE  /\ Lettered(offers)'
         /\ \A g, id : Holds(g) /\ Fits(g, id) => Fits(g, id)'
         /\ \A g, id : Holds(g) /\ Named(g, id) /\ (id # NoIdentifier \/ g = f) => Named(g, id)'
         /\ ~offers => \A n \in DOMAIN wires' : wires'[n].identifier = NoIdentifier
<1>1. Structure /\ (offers => MeetingIdentified /\ Apart)
  BY DEF Lettered, Apart
<1>2. \A n \in DOMAIN wires' :
        \/ ~Holds(f) /\ wires'[n].filter = f /\ ~wires'[n].unnamed
        \/ /\ n \in DOMAIN wires /\ wires'[n].filter = wires[n].filter
           /\ \/ wires'[n].identifier = wires[n].identifier /\ wires'[n].unnamed = wires[n].unnamed
              \/ /\ wires[n].identifier = NoIdentifier /\ wires'[n].identifier # NoIdentifier
                 /\ wires[n].filter = f \/ wires'[n].unnamed
  BY <1>1, JoinTells
<1>3. ASSUME ~offers PROVE \A n \in DOMAIN wires' : wires'[n].identifier = NoIdentifier
  <2>1. \A n \in DOMAIN wires : wires[n].identifier = NoIdentifier
    BY <1>3 DEF Lettered
  <2>2. wires' = Seated(f, q)
    BY <1>3 DEF Join
  <2>3. /\ DOMAIN Seated(f, q) = IF Holds(f) THEN 1..Len(wires) ELSE 1..(Len(wires) + 1)
        /\ \A n \in DOMAIN wires :
             /\ n \in DOMAIN Seated(f, q)
             /\ wires[n].filter # f => Seated(f, q)[n] = wires[n]
             /\ wires[n].filter = f =>
                  Seated(f, q)[n] =
                    [wires[n] EXCEPT !.members = Append(wires[n].members,
                                                        [id |-> nextMember, qos |-> q]),
                                     !.qos = Higher(wires[n].qos, q)]
        /\ ~Holds(f) => Seated(f, q)[Len(wires) + 1] =
             [filter |-> f, qos |-> q, identifier |-> NoIdentifier, unnamed |-> FALSE,
              members |-> <<[id |-> nextMember, qos |-> q]>>, turn |-> 0]
    <3>1. RegistryTypeOK
      BY <1>1 DEF Structure
    <3> QED BY <3>1, SeatedProperties
  <2>4. /\ \A n \in DOMAIN wires : wires[n] \in Wire
        /\ DOMAIN wires = 1..Len(wires) /\ Len(wires) \in Nat
    BY <1>1, SeqPlaces DEF Structure, RegistryTypeOK
  <2>5. ASSUME NEW n \in DOMAIN wires PROVE wires'[n].identifier = NoIdentifier
    BY <2>1, <2>2, <2>3, <2>4, <2>5 DEF Wire
  <2>6. ASSUME NEW n \in DOMAIN wires', n \notin DOMAIN wires PROVE wires'[n].identifier = NoIdentifier
    <3>1. n \in (IF Holds(f) THEN 1..Len(wires) ELSE 1..(Len(wires) + 1)) /\ n \notin 1..Len(wires)
      BY <2>2, <2>3, <2>4, <2>6
    <3>2. ~Holds(f) /\ n = Len(wires) + 1
      <4>1. ~Holds(f) /\ n \in 1..(Len(wires) + 1)
        BY <3>1
      <4> QED BY <2>4, <3>1, <4>1
    <3>3. wires'[n] = [filter |-> f, qos |-> q, identifier |-> NoIdentifier, unnamed |-> FALSE,
                       members |-> <<[id |-> nextMember, qos |-> q]>>, turn |-> 0]
      BY <2>2, <2>3, <3>2
    <3> QED BY <3>3
  <2> QED BY <2>5, <2>6
<1>4. Lettered(offers)'
  <2>1. CASE offers
    <3>1. offers = TRUE
      BY <2>1
    <3>2. Apart'
      BY <1>1, <3>1, JoiningApart
    <3> QED BY <2>1, <3>2 DEF Lettered
  <2>2. CASE ~offers
    BY <1>3, <2>2 DEF Lettered
  <2> QED BY <2>1, <2>2
\* The joining filter's wire had an identifier already if it meets another.
<1>5. ASSUME NEW k \in DOMAIN wires, wires[k].filter = f
      PROVE  \A n \in DOMAIN wires' : wires'[n].filter = f => wires'[n].identifier = wires[k].identifier
  <2>1. CASE offers
    BY <1>1, <1>5, <2>1, JoinKeepsOwn
  <2>2. CASE ~offers
    BY <1>3, <2>2 DEF Lettered
  <2> QED BY <2>1, <2>2
<1>6. ASSUME NEW g, Holds(g), NEW n \in DOMAIN wires', wires'[n].filter = g
      PROVE  /\ n \in DOMAIN wires /\ wires[n].filter = g
             /\ \/ wires'[n].identifier = wires[n].identifier /\ wires'[n].unnamed = wires[n].unnamed
                \/ /\ wires[n].identifier = NoIdentifier /\ wires'[n].identifier # NoIdentifier
                   /\ wires'[n].unnamed /\ g # f
  <2>1. n \in DOMAIN wires /\ wires[n].filter = g
    BY <1>2, <1>6
  <2>2. g = f => wires'[n].identifier = wires[n].identifier
    BY <1>5, <1>6, <2>1
  <2> QED BY <1>2, <1>6, <2>1, <2>2
<1>7. ASSUME NEW g, NEW id, Holds(g), Fits(g, id), NEW n \in DOMAIN wires', wires'[n].filter = g
      PROVE  wires'[n].identifier = id \/ (wires'[n].unnamed /\ id = NoIdentifier)
  BY <1>6, <1>7 DEF Fits
<1>8. ASSUME NEW g, NEW id, Holds(g), Named(g, id), id # NoIdentifier \/ g = f,
             NEW n \in DOMAIN wires', wires'[n].filter = g
      PROVE  wires'[n].identifier = id
  BY <1>6, <1>8 DEF Named
<1> QED BY <1>3, <1>4, <1>7, <1>8 DEF Fits, Named
=============================================================================
