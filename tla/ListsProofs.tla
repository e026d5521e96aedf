---------------------------- MODULE ListsProofs ----------------------------
(***************************************************************************)
(* What the components' proofs need to know of Lists.  The theorems of the *)
(* library about recursion and induction take operators as parameters,     *)
(* which the provers cannot instantiate; the least element of a set of     *)
(* numbers (WFMin) takes none, and induction over a set follows from it.   *)
(***************************************************************************)
EXTENDS Lists, SequenceTheorems, WellFoundedInduction, TLAPS

(* A set of natural numbers has a least element.                           *)
LEMMA LeastElement ==
  ASSUME NEW T \in SUBSET Nat, T # {}
  PROVE  \E x \in T : \A y \in T : x <= y
  <1>1. PICK x \in T : \A y \in T : ~(<<y, x>> \in OpToRel(<, Nat))
    BY NatLessThanWellFounded, WFMin, Zenon
  <1>2. \A y \in T : ~(y < x)
    BY <1>1 DEF OpToRel
  <1> QED
    BY <1>2

(* Induction over the natural numbers, for a set.                          *)
LEMMA SetInduction ==
  ASSUME NEW T, 0 \in T, \A n \in Nat : n \in T => n + 1 \in T
  PROVE  Nat \subseteq T
  <1> SUFFICES ASSUME Nat \ T # {} PROVE FALSE
    OBVIOUS
  <1>1. PICK x \in Nat \ T : \A y \in Nat \ T : x <= y
    BY LeastElement
  <1>2. x # 0 /\ x - 1 \in Nat /\ (x - 1) + 1 = x
    BY <1>1
  <1> QED
    BY <1>1, <1>2

(* The same up to a bound: what holds of the empty prefix and goes on to   *)
(* each longer one holds of all prefixes of a list of length m.            *)
LEMMA PrefixInduction ==
  ASSUME NEW m \in Nat, NEW T, 0 \in T,
         \A n \in 1..m : n - 1 \in T => n \in T
  PROVE  0..m \subseteq T
  <1> DEFINE U == {n \in Nat : n <= m => n \in T}
  <1>1. 0 \in U
    OBVIOUS
  <1>2. ASSUME NEW n \in Nat, n \in U PROVE n + 1 \in U
    <2> SUFFICES ASSUME n + 1 <= m PROVE n + 1 \in T
      OBVIOUS
    <2>1. n \in T
      BY <1>2
    <2>2. n + 1 \in 1..m /\ (n + 1) - 1 = n
      OBVIOUS
    <2> QED
      BY <2>1, <2>2
  <1> HIDE DEF U
  <1>3. Nat \subseteq U
    BY <1>1, <1>2, SetInduction
  <1> QED
    BY <1>3 DEF U

-----------------------------------------------------------------------------
(* Keep.                                                                   *)

(* f is the recursive function that Kept defines, up to n.                 *)
KeptUpTo(f, n, list, S) ==
  f = [i \in 0..n |-> IF i = 0 THEN <<>>
                      ELSE IF list[i] \in S THEN Append(f[i - 1], list[i])
                      ELSE f[i - 1]]

LEMMA KeptExists ==
  ASSUME NEW list, NEW S
  PROVE  \A n \in Nat : \E f : KeptUpTo(f, n, list, S)
  <1> DEFINE T == {n \in Nat : \E f : KeptUpTo(f, n, list, S)}
  <1>1. 0 \in T
    <2>1. KeptUpTo([i \in 0..0 |-> <<>>], 0, list, S)
      BY DEF KeptUpTo
    <2> QED
      BY <2>1
  <1>2. ASSUME NEW n \in Nat, n \in T PROVE n + 1 \in T
    <2>1. PICK f : KeptUpTo(f, n, list, S)
      BY <1>2
    <2>2. /\ DOMAIN f = 0..n
          /\ \A i \in 0..n : f[i] = (IF i = 0 THEN <<>>
                                    ELSE IF list[i] \in S THEN Append(f[i - 1], list[i])
                                    ELSE f[i - 1])
      BY <2>1 DEF KeptUpTo
    <2> DEFINE x == IF list[n + 1] \in S THEN Append(f[n], list[n + 1]) ELSE f[n]
               g == [i \in 0..(n + 1) |-> IF i = n + 1 THEN x ELSE f[i]]
    <2>3. \A i \in 0..n : g[i] = f[i]
      OBVIOUS
    <2>4. g[n + 1] = x
      OBVIOUS
    <2>5. \A i \in 0..(n + 1) :
            g[i] = (IF i = 0 THEN <<>>
                    ELSE IF list[i] \in S THEN Append(g[i - 1], list[i])
                    ELSE g[i - 1])
      <3>1. TAKE i \in 0..(n + 1)
      <3> HIDE DEF g
      <3>2. CASE i = n + 1
        <4>1. i # 0 /\ i - 1 = n /\ g[i - 1] = f[n]
          BY <2>3, <3>2
        <4> QED
          BY <2>4, <3>2, <4>1
      <3>3. CASE i # n + 1
        <4>1. i \in 0..n /\ (i # 0 => i - 1 \in 0..n)
          BY <3>3
        <4>2. g[i] = f[i] /\ (i # 0 => g[i - 1] = f[i - 1])
          BY <2>3, <4>1
        <4> QED
          BY <2>2, <4>1, <4>2
      <3> QED
        BY <3>2, <3>3
    <2>6. g = [i \in 0..(n + 1) |-> g[i]]
      OBVIOUS
    <2> HIDE DEF g
    <2>7. KeptUpTo(g, n + 1, list, S)
      BY <2>5, <2>6 DEF KeptUpTo
    <2> QED
      BY <2>7
  <1> HIDE DEF T
  <1>3. Nat \subseteq T
    BY <1>1, <1>2, SetInduction
  <1> QED
    BY <1>3 DEF T

(* The equations that define Kept.                                         *)
LEMMA KeptStep ==
  ASSUME NEW list, NEW S, Len(list) \in Nat
  PROVE  /\ Kept(list, S)[0] = <<>>
         /\ \A n \in 1..Len(list) :
              Kept(list, S)[n] = (IF list[n] \in S THEN Append(Kept(list, S)[n - 1], list[n])
                                  ELSE Kept(list, S)[n - 1])
  <1>1. Kept(list, S) = CHOOSE f : KeptUpTo(f, Len(list), list, S)
    BY DEF Kept, KeptUpTo
  <1>2. KeptUpTo(Kept(list, S), Len(list), list, S)
    BY <1>1, KeptExists
  <1> DEFINE kept == Kept(list, S)
  <1> HIDE DEF kept
  <1>3. \A i \in 0..Len(list) :
          kept[i] = (IF i = 0 THEN <<>>
                     ELSE IF list[i] \in S THEN Append(kept[i - 1], list[i])
                     ELSE kept[i - 1])
    BY <1>2 DEF KeptUpTo, kept
  <1>4. 0 \in 0..Len(list) /\ \A n \in 1..Len(list) : n \in 0..Len(list) /\ n # 0
    OBVIOUS
  <1> QED
    BY <1>3, <1>4 DEF kept

LEMMA KeptType ==
  ASSUME NEW A, NEW list \in Seq(A), NEW S
  PROVE  \A n \in 0..Len(list) : Kept(list, S)[n] \in Seq(A \cap S)
  <1> DEFINE kept == Kept(list, S)
             B == A \cap S
             T == {n \in Nat : kept[n] \in Seq(B)}
  <1>0. Len(list) \in Nat /\ <<>> \in Seq(B)
    BY EmptySeq
  <1>1. /\ kept[0] = <<>>
        /\ \A n \in 1..Len(list) :
             kept[n] = (IF list[n] \in S THEN Append(kept[n - 1], list[n]) ELSE kept[n - 1])
    BY <1>0, KeptStep
  <1>2. \A n \in 1..Len(list) : list[n] \in S => list[n] \in B
    OBVIOUS
  <1> HIDE DEF kept, B
  <1>3. 0 \in T
    BY <1>0, <1>1
  <1>4. ASSUME NEW n \in 1..Len(list), n - 1 \in T PROVE n \in T
    <2>1. kept[n - 1] \in Seq(B)
      BY <1>4
    <2>2. list[n] \in B => Append(kept[n - 1], list[n]) \in Seq(B)
      BY <2>1, AppendProperties
    <2>3. kept[n] \in Seq(B)
      BY <1>1, <1>2, <2>1, <2>2
    <2> QED
      BY <2>3
  <1> HIDE DEF T
  <1>5. 0..Len(list) \subseteq T
    BY <1>0, <1>3, <1>4, PrefixInduction
  <1> QED
    BY <1>5 DEF T, kept, B

LEMMA KeepType ==
  ASSUME NEW A, NEW list \in Seq(A), NEW S
  PROVE  Keep(list, S) \in Seq(A \cap S)
  <1>1. Len(list) \in 0..Len(list)
    BY LenProperties
  <1> QED
    BY <1>1, KeptType DEF Keep

LEMMA KeepEmpty == ASSUME NEW S PROVE Keep(<<>>, S) = <<>>
  BY KeptStep DEF Keep

LEMMA KeepAppend ==
  ASSUME NEW A, NEW list \in Seq(A), NEW x \in A, NEW S
  PROVE  Keep(Append(list, x), S) =
           IF x \in S THEN Append(Keep(list, S), x) ELSE Keep(list, S)
  <1> DEFINE longer == Append(list, x)
             T == {n \in Nat : n <= Len(list) => Kept(longer, S)[n] = Kept(list, S)[n]}
  <1>1. /\ longer \in Seq(A) /\ Len(longer) = Len(list) + 1 /\ longer[Len(list) + 1] = x
        /\ \A i \in 1..Len(list) : longer[i] = list[i]
    BY AppendProperties
  <1> HIDE DEF longer
  <1>2. /\ Kept(longer, S)[0] = <<>>
        /\ \A n \in 1..Len(longer) :
             Kept(longer, S)[n] = (IF longer[n] \in S
                                   THEN Append(Kept(longer, S)[n - 1], longer[n])
                                   ELSE Kept(longer, S)[n - 1])
    BY <1>1, KeptStep
  <1>3. /\ Kept(list, S)[0] = <<>>
        /\ \A n \in 1..Len(list) :
             Kept(list, S)[n] = (IF list[n] \in S
                                 THEN Append(Kept(list, S)[n - 1], list[n])
                                 ELSE Kept(list, S)[n - 1])
    BY KeptStep
  <1>4. 0 \in T
    BY <1>2, <1>3
  <1>5. ASSUME NEW n \in 1..Len(list), n - 1 \in T PROVE n \in T
    <2>1. Kept(longer, S)[n - 1] = Kept(list, S)[n - 1] /\ longer[n] = list[n]
      BY <1>1, <1>5
    <2>2. n \in 1..Len(longer)
      BY <1>1
    <2> QED
      BY <1>2, <1>3, <2>1, <2>2
  <1> HIDE DEF T
  <1>6. Len(list) \in T
    <2>1. Len(list) \in Nat
      OBVIOUS
    <2>2. 0..Len(list) \subseteq T
      BY <1>4, <1>5, <2>1, PrefixInduction
    <2> QED
      BY <2>1, <2>2
  <1>7. Kept(longer, S)[Len(list)] = Keep(list, S)
    BY <1>6 DEF T, Keep
  <1>8. /\ Len(list) + 1 \in 1..Len(longer) /\ (Len(list) + 1) - 1 = Len(list)
    BY <1>1
  <1>9. Keep(longer, S) = (IF x \in S THEN Append(Kept(longer, S)[Len(list)], x)
                           ELSE Kept(longer, S)[Len(list)])
    BY <1>1, <1>2, <1>8 DEF Keep
  <1> QED
    BY <1>7, <1>9 DEF longer

(* The first element of a list comes before what is kept of the others.    *)
LEMMA KeepTail ==
  ASSUME NEW A, NEW list \in Seq(A), list # <<>>, NEW S
  PROVE  Keep(list, S) =
           IF Head(list) \in S THEN <<Head(list)>> \o Keep(Tail(list), S)
                               ELSE Keep(Tail(list), S)
  <1> DEFINE rest == Tail(list)
             first == IF Head(list) \in S THEN <<Head(list)>> ELSE <<>>
             T == {n \in Nat : n <= Len(rest) =>
                                Kept(list, S)[n + 1] = first \o Kept(rest, S)[n]}
  <1>1. /\ rest \in Seq(A) /\ Len(list) \in Nat /\ Len(list) = Len(rest) + 1
        /\ \A i \in 1..Len(rest) : rest[i] = list[i + 1]
        /\ Head(list) = list[1] /\ Head(list) \in A
    BY HeadTailProperties
  <1>0. first \in Seq(A)
    BY <1>1
  <1> HIDE DEF rest, first
  <1>2. /\ Kept(list, S)[0] = <<>>
        /\ \A n \in 1..Len(list) :
             Kept(list, S)[n] = (IF list[n] \in S
                                 THEN Append(Kept(list, S)[n - 1], list[n])
                                 ELSE Kept(list, S)[n - 1])
    BY KeptStep
  <1>3. /\ Kept(rest, S)[0] = <<>>
        /\ \A n \in 1..Len(rest) :
             Kept(rest, S)[n] = (IF rest[n] \in S
                                 THEN Append(Kept(rest, S)[n - 1], rest[n])
                                 ELSE Kept(rest, S)[n - 1])
    BY <1>1, KeptStep
  <1>4. \A n \in 0..Len(rest) : Kept(rest, S)[n] \in Seq(A)
    <2>1. \A n \in 0..Len(rest) : Kept(rest, S)[n] \in Seq(A \cap S)
      BY <1>1, KeptType
    <2> QED
      BY <2>1
  <1>5. 0 \in T
    <2>1. 1 \in 1..Len(list) /\ 1 - 1 = 0
      BY <1>1
    <2>2. Kept(list, S)[1] = (IF list[1] \in S THEN Append(<<>>, list[1]) ELSE <<>>)
      BY <1>2, <2>1
    <2>3. Kept(list, S)[1] = first
      BY <1>1, <2>2 DEF first
    <2>4. first \o <<>> = first
      BY <1>0, ConcatEmptySeq
    <2>5. Kept(list, S)[0 + 1] = first \o Kept(rest, S)[0]
      BY <1>3, <2>3, <2>4
    <2> QED
      BY <2>5
  <1>6. ASSUME NEW n \in 1..Len(rest), n - 1 \in T PROVE n \in T
    <2>1. /\ Kept(list, S)[n] = first \o Kept(rest, S)[n - 1]
      BY <1>6, <1>1
    <2>2. n + 1 \in 1..Len(list) /\ (n + 1) - 1 = n /\ list[n + 1] = rest[n]
      BY <1>1
    <2>3. Kept(list, S)[n + 1] = (IF rest[n] \in S
                                  THEN Append(first \o Kept(rest, S)[n - 1], rest[n])
                                  ELSE first \o Kept(rest, S)[n - 1])
      BY <1>2, <2>1, <2>2
    <2>4. Kept(rest, S)[n - 1] \in Seq(A) /\ rest[n] \in A
      BY <1>1, <1>4
    <2>5. Append(first \o Kept(rest, S)[n - 1], rest[n])
            = first \o Append(Kept(rest, S)[n - 1], rest[n])
      <3> DEFINE k == Kept(rest, S)[n - 1]
                 x == rest[n]
      <3> HIDE DEF k, x
      <3>1. k \in Seq(A) /\ x \in A /\ <<x>> \in Seq(A)
        BY <2>4 DEF k, x
      <3>2. first \o k \in Seq(A)
        BY <1>0, <3>1, ConcatProperties
      <3>3. Append(first \o k, x) = (first \o k) \o <<x>>
        BY <3>1, <3>2, AppendIsConcat
      <3>4. Append(k, x) = k \o <<x>>
        BY <3>1, AppendIsConcat
      <3>5. (first \o k) \o <<x>> = first \o (k \o <<x>>)
        BY <1>0, <3>1, ConcatAssociative
      <3> QED
        BY <3>3, <3>4, <3>5 DEF k, x
    <2>6. Kept(list, S)[n + 1] = first \o Kept(rest, S)[n]
      BY <1>3, <2>3, <2>5
    <2> QED
      BY <2>6
  <1> HIDE DEF T
  <1>7. Len(rest) \in T
    <2>1. Len(rest) \in Nat
      BY <1>1
    <2>2. 0..Len(rest) \subseteq T
      BY <1>5, <1>6, <2>1, PrefixInduction
    <2> QED
      BY <2>1, <2>2
  <1>8. Keep(list, S) = first \o Keep(rest, S)
    BY <1>1, <1>7 DEF T, Keep
  <1>9. Keep(rest, S) \in Seq(A) /\ <<>> \o Keep(rest, S) = Keep(rest, S)
    BY <1>1, <1>4, ConcatEmptySeq DEF Keep
  <1> QED
    BY <1>8, <1>9 DEF rest, first

(* What is kept are the elements of the list that are in S.                *)
LEMMA KeepRange ==
  ASSUME NEW A, NEW list \in Seq(A), NEW S
  PROVE  {Keep(list, S)[i] : i \in 1..Len(Keep(list, S))} = {list[i] : i \in 1..Len(list)} \cap S
  <1> DEFINE kept == Kept(list, S)
             T == {n \in Nat : n <= Len(list) =>
                     {kept[n][i] : i \in 1..Len(kept[n])} = {list[i] : i \in 1..n} \cap S}
  <1>0. Len(list) \in Nat /\ \A n \in 0..Len(list) : kept[n] \in Seq(A)
    <2>1. \A n \in 0..Len(list) : kept[n] \in Seq(A \cap S)
      BY KeptType
    <2> QED
      BY <2>1
  <1>1. /\ kept[0] = <<>>
        /\ \A n \in 1..Len(list) :
             kept[n] = (IF list[n] \in S THEN Append(kept[n - 1], list[n]) ELSE kept[n - 1])
    BY <1>0, KeptStep
  <1> HIDE DEF kept
  <1>2. 0 \in T
    <2>1. {kept[0][i] : i \in 1..Len(kept[0])} = {} /\ {list[i] : i \in 1..0} = {}
      BY <1>1
    <2> QED
      BY <2>1
  <1>3. ASSUME NEW n \in 1..Len(list), n - 1 \in T PROVE n \in T
    <2> DEFINE k == kept[n - 1]
               x == list[n]
    <2>1. k \in Seq(A) /\ x \in A /\ {k[i] : i \in 1..Len(k)} = {list[i] : i \in 1..(n - 1)} \cap S
      <3>1. n - 1 \in 0..Len(list) /\ n - 1 <= Len(list)
        BY <1>0
      <3>2. k \in Seq(A) /\ x \in A
        BY <1>0, <3>1
      <3>3. {k[i] : i \in 1..Len(k)} = {list[i] : i \in 1..(n - 1)} \cap S
        BY <1>3, <3>1
      <3> QED
        BY <3>2, <3>3
    <2>2. {list[i] : i \in 1..n} = {list[i] : i \in 1..(n - 1)} \cup {x}
      OBVIOUS
    <2>3. kept[n] = (IF x \in S THEN Append(k, x) ELSE k)
      BY <1>1
    <2> HIDE DEF k, x
    <2>4. {Append(k, x)[i] : i \in 1..Len(Append(k, x))} = {k[i] : i \in 1..Len(k)} \cup {x}
      <3>1. Len(k) \in Nat
        BY <2>1
      <3>2. /\ Len(Append(k, x)) = Len(k) + 1
            /\ \A i \in 1..Len(k) : Append(k, x)[i] = k[i]
            /\ Append(k, x)[Len(k) + 1] = x
        BY <2>1, AppendProperties
      <3>3. \A i \in 1..(Len(k) + 1) : i = Len(k) + 1 \/ i \in 1..Len(k)
        BY <3>1
      <3>4. Len(k) + 1 \in 1..(Len(k) + 1) /\ \A i \in 1..Len(k) : i \in 1..(Len(k) + 1)
        BY <3>1
      <3> QED
        BY <3>2, <3>3, <3>4
    <2>5. {kept[n][i] : i \in 1..Len(kept[n])} = {list[i] : i \in 1..n} \cap S
      <3>1. CASE x \in S
        BY <2>1, <2>2, <2>3, <2>4, <3>1
      <3>2. CASE x \notin S
        BY <2>1, <2>2, <2>3, <3>2
      <3> QED
        BY <3>1, <3>2
    <2> QED
      BY <2>5
  <1> HIDE DEF T
  <1>4. 0..Len(list) \subseteq T
    BY <1>0, <1>2, <1>3, PrefixInduction
  <1>5. Len(list) \in 0..Len(list)
    BY <1>0
  <1>6. {kept[Len(list)][i] : i \in 1..Len(kept[Len(list)])} = {list[i] : i \in 1..Len(list)} \cap S
    BY <1>4, <1>5 DEF T
  <1> QED
    BY <1>6 DEF Keep, kept

(* It is kept in the order of the list.                                    *)
LEMMA KeepOrder ==
  ASSUME NEW A, NEW list \in Seq(A), NEW S,
         NEW i \in 1..Len(Keep(list, S)), NEW j \in 1..Len(Keep(list, S)), i < j
  PROVE  \E p, q \in 1..Len(list) :
           p < q /\ Keep(list, S)[i] = list[p] /\ Keep(list, S)[j] = list[q]
  <1> DEFINE kept == Kept(list, S)
             From(n) == /\ \A u \in 1..Len(kept[n]) : \E p \in 1..n : kept[n][u] = list[p]
                        /\ \A u, v \in 1..Len(kept[n]) : u < v =>
                             \E p, q \in 1..n : p < q /\ kept[n][u] = list[p]
                                                      /\ kept[n][v] = list[q]
             T == {n \in Nat : n <= Len(list) => From(n)}
  <1>0. Len(list) \in Nat /\ \A n \in 0..Len(list) : kept[n] \in Seq(A)
    <2>1. \A n \in 0..Len(list) : kept[n] \in Seq(A \cap S)
      BY KeptType
    <2> QED
      BY <2>1
  <1>1. /\ kept[0] = <<>>
        /\ \A n \in 1..Len(list) :
             kept[n] = (IF list[n] \in S THEN Append(kept[n - 1], list[n]) ELSE kept[n - 1])
    BY <1>0, KeptStep
  <1> HIDE DEF kept
  <1>2. 0 \in T
    BY <1>1
  <1>3. ASSUME NEW n \in 1..Len(list), n - 1 \in T PROVE n \in T
    <2> DEFINE k == kept[n - 1]
               x == list[n]
    <2>1. /\ k \in Seq(A) /\ Len(k) \in Nat /\ x \in A /\ From(n - 1)
          /\ \A p \in 1..(n - 1) : p \in 1..n /\ p < n
          /\ n \in 1..n
      <3>1. n - 1 \in 0..Len(list) /\ n - 1 <= Len(list)
        BY <1>0
      <3>2. k \in Seq(A) /\ Len(k) \in Nat /\ x \in A
        BY <1>0, <3>1
      <3>3. From(n - 1)
        BY <1>3, <3>1
      <3> QED
        BY <3>2, <3>3
    <2>2. kept[n] = (IF x \in S THEN Append(k, x) ELSE k)
      BY <1>1
    <2>3. CASE x \notin S
      <3>1. kept[n] = k
        BY <2>2, <2>3
      <3>2. From(n)
        BY <2>1, <3>1
      <3> HIDE DEF From
      <3> QED
        BY <3>2
    <2>4. CASE x \in S
      <3> HIDE DEF k
      <3>1. /\ Len(kept[n]) = Len(k) + 1
            /\ \A u \in 1..Len(k) : kept[n][u] = k[u]
            /\ kept[n][Len(k) + 1] = list[n]
        BY <2>1, <2>2, <2>4, AppendProperties
      <3>2. \A u \in 1..Len(k) : \E p \in 1..(n - 1) : k[u] = list[p]
        BY <2>1 DEF k
      <3>3. \A u, v \in 1..Len(k) : u < v =>
              \E p, q \in 1..(n - 1) : p < q /\ k[u] = list[p] /\ k[v] = list[q]
        BY <2>1 DEF k
      <3>4. \A u \in 1..Len(kept[n]) : \E p \in 1..n : kept[n][u] = list[p]
        <4>1. \A u \in 1..Len(kept[n]) : u \in 1..Len(k) \/ u = Len(k) + 1
          BY <2>1, <3>1
        <4> QED
          BY <2>1, <3>1, <3>2, <4>1
      <3>5. ASSUME NEW u \in 1..Len(kept[n]), NEW v \in 1..Len(kept[n]), u < v
            PROVE  \E p, q \in 1..n : p < q /\ kept[n][u] = list[p] /\ kept[n][v] = list[q]
        <4>1. u \in 1..Len(k) /\ (v \in 1..Len(k) \/ v = Len(k) + 1)
          BY <2>1, <3>1, <3>5
        <4>2. CASE v \in 1..Len(k)
          BY <2>1, <3>1, <3>3, <3>5, <4>1, <4>2
        <4>3. CASE v = Len(k) + 1
          <5>1. PICK p \in 1..(n - 1) : k[u] = list[p]
            BY <3>2, <4>1
          <5> QED
            BY <2>1, <3>1, <4>1, <4>3, <5>1
        <4> QED
          BY <4>1, <4>2, <4>3
      <3>6. From(n)
        BY <3>4, <3>5
      <3> HIDE DEF From
      <3> QED
        BY <3>6
    <2> QED
      BY <2>3, <2>4
  <1>4. Len(list) \in T
    <2> HIDE DEF T
    <2>1. 0..Len(list) \subseteq T
      BY <1>0, <1>2, <1>3, PrefixInduction
    <2> QED
      BY <1>0, <2>1
  <1>5. From(Len(list))
    BY <1>0, <1>4
  <1>6. kept[Len(list)] = Keep(list, S)
    BY DEF Keep, kept
  <1> QED
    BY <1>5, <1>6
=============================================================================
