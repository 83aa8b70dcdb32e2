------------------------------- MODULE ListProofs -------------------------------
(****************************************************************************)
(* Proofs about the parts of ListParts, whose state or input are lists of   *)
(* any length.  What a list filtered or worked through gives is shown by    *)
(* induction on its length, as a set of numbers that has 0 and with each    *)
(* number the next one (UpTo): from it follow that the recursive functions  *)
(* of Lists exist and what they are of a list with one more element.        *)
(****************************************************************************)
EXTENDS ListParts, Lists, WellFoundedInduction, TLAPS

LessThan == {ss \in Nat \X Nat : ss[1] < ss[2]}

(* A set of naturals has a least one.                                       *)
LEMMA Least == ASSUME NEW S, S \subseteq Nat, S # {} PROVE \E x \in S : \A y \in S : x <= y
<1>1. OpToRel(<, Nat) = LessThan
  BY Zenon DEF OpToRel, LessThan
<1>2. IsWellFoundedOn(LessThan, Nat)
  BY <1>1, NatLessThanWellFounded, Zenon
<1>3. PICK x \in S : \A y \in S : ~ (<<y, x>> \in LessThan)
  BY <1>2, WFMin, Zenon
<1>4. ASSUME NEW y \in S PROVE x <= y
  <2>1. <<y, x>> \in Nat \X Nat
    OBVIOUS
  <2>2. ~(y < x)
    BY <1>3, <2>1 DEF LessThan
  <2> QED BY <2>2
<1> QED BY <1>4

(* Induction, for a set of numbers up to N.                                 *)
LEMMA UpTo ==
    ASSUME NEW N \in Nat, NEW T, 0 \in T, \A n \in 0..(N - 1) : n \in T => n + 1 \in T
    PROVE  0..N \subseteq T
<1> SUFFICES ASSUME (0..N) \ T # {} PROVE FALSE
  OBVIOUS
<1> DEFINE U == (0..N) \ T
<1>1. PICK n \in U : \A m \in U : n <= m
  <2>1. U \subseteq Nat /\ U # {}
    OBVIOUS
  <2> HIDE DEF U
  <2> QED BY <2>1, Least, Zenon
<1>2. n # 0 /\ n - 1 \in 0..(N - 1)
  BY <1>1
<1>3. n - 1 \in T
  BY <1>1, <1>2
<1> QED BY <1>1, <1>2, <1>3

(* F gives the next value of A from the last one and the position.          *)
Runs(f, N, e, F) == f[0] = e /\ \A i \in 1..N : f[i] = F[<<f[i - 1], i>>]

(* A recursion over 0..N has a solution.                                    *)
LEMMA Recursion ==
    ASSUME NEW A, NEW N \in Nat, NEW e \in A, NEW F \in [A \X (1..N) -> A]
    PROVE  \E f \in [0..N -> A] : Runs(f, N, e, F)
<1> DEFINE T == {n \in 0..N : \E f \in [0..n -> A] : Runs(f, n, e, F)}
<1>1. 0 \in T
  <2> DEFINE g == [i \in 0..0 |-> e]
  <2>1. g \in [0..0 -> A] /\ Runs(g, 0, e, F)
    BY DEF Runs
  <2> QED BY <2>1
<1>2. ASSUME NEW n \in 0..(N - 1), n \in T PROVE n + 1 \in T
  <2>1. PICK f \in [0..n -> A] : Runs(f, n, e, F)
    BY <1>2
  <2> DEFINE g == [i \in 0..(n + 1) |-> IF i <= n THEN f[i] ELSE F[<<f[n], n + 1>>]]
  <2>2. F[<<f[n], n + 1>>] \in A
    <3>1. <<f[n], n + 1>> \in A \X (1..N)
      OBVIOUS
    <3> QED BY <3>1
  <2>3. g \in [0..(n + 1) -> A]
    BY <2>2
  <2>4. Runs(g, n + 1, e, F)
    <3>1. g[0] = e
      BY <2>1 DEF Runs
    <3>2. ASSUME NEW i \in 1..(n + 1) PROVE g[i] = F[<<g[i - 1], i>>]
      <4>1. CASE i = n + 1
        <5>1. g[i] = F[<<f[n], n + 1>>] /\ g[i - 1] = f[n]
          BY <4>1
        <5> QED BY <5>1, <4>1, Zenon
      <4>2. CASE i <= n
        <5>1. g[i] = f[i] /\ g[i - 1] = f[i - 1]
          BY <4>2
        <5> QED BY <5>1, <2>1, <4>2 DEF Runs
      <4> QED BY <4>1, <4>2
    <3> QED BY <3>1, <3>2, Zenon DEF Runs
  <2>5. n + 1 \in 0..N
    OBVIOUS
  <2> HIDE DEF g
  <2> QED BY <2>3, <2>4, <2>5
<1>3. 0..N \subseteq T
  <2> HIDE DEF T
  <2> QED BY <1>1, <1>2, UpTo
<1> QED BY <1>3

(* Two recursions that go alike agree as far as both go.                    *)
LEMMA Agree ==
    ASSUME NEW N \in Nat, NEW f, NEW g, f[0] = g[0],
           \A i \in 1..N : f[i - 1] = g[i - 1] => f[i] = g[i]
    PROVE  f[N] = g[N]
<1> DEFINE T == {n \in 0..N : f[n] = g[n]}
<1>1. 0 \in T
  OBVIOUS
<1>2. ASSUME NEW n \in 0..(N - 1), n \in T PROVE n + 1 \in T
  <2>1. n + 1 \in 1..N /\ (n + 1) - 1 = n
    OBVIOUS
  <2>2. f[n] = g[n]
    BY <1>2
  <2> QED BY <2>1, <2>2
<1>3. 0..N \subseteq T
  <2> HIDE DEF T
  <2> QED BY <1>1, <1>2, UpTo
<1> QED BY <1>3

(* Induction over sequences: what holds of the empty one and stays when an  *)
(* element is put behind holds of all.                                      *)
LEMMA Growing ==
    ASSUME NEW X, NEW P, <<>> \in P, \A s \in Seq(X), x \in X : s \in P => Append(s, x) \in P
    PROVE  Seq(X) \subseteq P
<1> SUFFICES ASSUME NEW s \in Seq(X) PROVE s \in P
  OBVIOUS
<1> DEFINE T == {n \in 0..Len(s) : SubSeq(s, 1, n) \in P}
<1>1. 0 \in T
  <2>1. SubSeq(s, 1, 0) = <<>>
    OBVIOUS
  <2>2. 0 \in 0..Len(s)
    OBVIOUS
  <2> QED BY <2>1, <2>2, Zenon
<1>2. ASSUME NEW n \in 0..(Len(s) - 1), n \in T PROVE n + 1 \in T
  <2>1. SubSeq(s, 1, n) \in Seq(X) /\ s[n + 1] \in X
    OBVIOUS
  <2>2. SubSeq(s, 1, n + 1) = Append(SubSeq(s, 1, n), s[n + 1])
    OBVIOUS
  <2>3. n + 1 \in 0..Len(s)
    OBVIOUS
  <2>4. SubSeq(s, 1, n) \in P
    BY <1>2, Zenon
  <2> QED BY <2>1, <2>2, <2>3, <2>4, Zenon
<1>3. 0..Len(s) \subseteq T
  <2> HIDE DEF T
  <2> QED BY <1>1, <1>2, UpTo
<1>4. SubSeq(s, 1, Len(s)) = s
  OBVIOUS
<1>5. Len(s) \in 0..Len(s)
  OBVIOUS
<1> QED BY <1>3, <1>4, <1>5, Zenon

(* Only, one element at a time.                                             *)
OnlyRun(f, s, S) ==
    f = [i \in 0..Len(s) |->
            IF i = 0 THEN <<>> ELSE IF s[i] \in S THEN Append(f[i - 1], s[i]) ELSE f[i - 1]]

(* Only is the last value of its run.                                       *)
LEMMA OnlyRuns ==
    ASSUME NEW X, NEW S, NEW s \in Seq(X)
    PROVE  \E f \in [0..Len(s) -> Seq(X)] : OnlyRun(f, s, S) /\ Only(s, S) = f[Len(s)]
<1> DEFINE N == Len(s)
           F == [p \in Seq(X) \X (1..N) |->
                    IF s[p[2]] \in S THEN Append(p[1], s[p[2]]) ELSE p[1]]
<1>0. N \in Nat /\ DOMAIN s = 1..N /\ \A i \in 1..N : s[i] \in X /\ i - 1 \in 0..N
  OBVIOUS
<1>1. F \in [Seq(X) \X (1..N) -> Seq(X)]
  OBVIOUS
<1>2. PICK f \in [0..N -> Seq(X)] : Runs(f, N, <<>>, F)
  <2>1. <<>> \in Seq(X)
    OBVIOUS
  <2> HIDE DEF F, N
  <2> QED BY <1>0, <1>1, <2>1, Recursion, Zenon
<1>3. ASSUME NEW i \in 1..N
      PROVE  F[<<f[i - 1], i>>] = IF s[i] \in S THEN Append(f[i - 1], s[i]) ELSE f[i - 1]
  <2>1. f[i - 1] \in Seq(X)
    <3> HIDE DEF N
    <3> QED BY <1>0
  <2>2. <<f[i - 1], i>> \in Seq(X) \X (1..N)
    BY <2>1, Zenon
  <2> QED BY <2>2
<1>4. OnlyRun(f, s, S)
  <2>1. \A i \in 0..N : f[i] = IF i = 0 THEN <<>>
                               ELSE IF s[i] \in S THEN Append(f[i - 1], s[i]) ELSE f[i - 1]
    <3> HIDE DEF F, N
    <3>1. ASSUME NEW i \in 0..N, i # 0
          PROVE  f[i] = IF s[i] \in S THEN Append(f[i - 1], s[i]) ELSE f[i - 1]
      <4>1. i \in 1..N
        BY <1>0, <3>1
      <4>2. f[i] = F[<<f[i - 1], i>>]
        BY <1>2, <4>1 DEF Runs
      <4> QED BY <1>3, <4>1, <4>2, Zenon
    <3> QED BY <1>2, <3>1 DEF Runs
  <2>2. f = [i \in 0..N |-> f[i]]
    OBVIOUS
  <2> QED BY <2>1, <2>2, Zenon DEF OnlyRun
<1> DEFINE h == CHOOSE h : OnlyRun(h, s, S)
<1>5. OnlyRun(h, s, S)
  BY <1>4, Zenon
<1>6. Only(s, S) = h[N]
  BY Zenon DEF Only, OnlyRun
<1> HIDE DEF h, F, N
<1>7. h[0] = f[0] /\ \A i \in 1..N : h[i - 1] = f[i - 1] => h[i] = f[i]
  <2> DEFINE Next(g, i) ==
                 IF i = 0 THEN <<>> ELSE IF s[i] \in S THEN Append(g[i - 1], s[i]) ELSE g[i - 1]
  <2>1. \A i \in 0..N : f[i] = Next(f, i) /\ h[i] = Next(h, i)
    BY <1>4, <1>5, Zenon DEF OnlyRun, N
  <2>2. h[0] = f[0]
    BY <1>0, <2>1
  <2>3. ASSUME NEW i \in 1..N, h[i - 1] = f[i - 1] PROVE h[i] = f[i]
    <3>1. i \in 0..N
      BY <1>0
    <3> QED BY <2>1, <2>3, <3>1, Zenon
  <2> QED BY <2>2, <2>3
<1>8. h[N] = f[N]
  BY <1>0, <1>7, Agree, Zenon
<1> QED BY <1>4, <1>6, <1>8 DEF N

(* The empty list, and one more element.                                    *)
LEMMA OnlyEmpty == ASSUME NEW S PROVE Only(<<>>, S) = <<>>
<1>1. ASSUME NEW s \in Seq(Int), Len(s) = 0 PROVE Only(s, S) = <<>>
  <2>1. PICK f \in [0..Len(s) -> Seq(Int)] : OnlyRun(f, s, S) /\ Only(s, S) = f[Len(s)]
    BY OnlyRuns, Zenon
  <2>2. f[0] = <<>>
    BY <1>1, <2>1 DEF OnlyRun
  <2> QED BY <1>1, <2>1, <2>2
<1>2. <<>> \in Seq(Int) /\ Len(<<>>) = 0
  OBVIOUS
<1> QED BY <1>1, <1>2, Zenon

(* One more element is kept or not.                                         *)
LEMMA OnlyAppend ==
    ASSUME NEW X, NEW S, NEW s \in Seq(X), NEW x \in X
    PROVE  /\ Only(s, S) \in Seq(X)
           /\ x \in S => Only(Append(s, x), S) = Append(Only(s, S), x)
           /\ x \notin S => Only(Append(s, x), S) = Only(s, S)
<1> DEFINE N == Len(s)
           t == Append(s, x)
<1>1. t \in Seq(X) /\ Len(t) = N + 1 /\ N \in Nat /\ t[N + 1] = x /\ \A i \in 1..N : t[i] = s[i]
  OBVIOUS
<1>2. PICK f \in [0..N -> Seq(X)] : OnlyRun(f, s, S) /\ Only(s, S) = f[N]
  BY OnlyRuns
<1> HIDE DEF t
<1>3. PICK g \in [0..(N + 1) -> Seq(X)] : OnlyRun(g, t, S) /\ Only(t, S) = g[N + 1]
  BY <1>1, OnlyRuns
<1> DEFINE Next(h, r, i) ==
               IF i = 0 THEN <<>> ELSE IF r[i] \in S THEN Append(h[i - 1], r[i]) ELSE h[i - 1]
<1>4. \A i \in 0..N : f[i] = Next(f, s, i)
  BY <1>2, Zenon DEF OnlyRun
<1>5. \A i \in 0..(N + 1) : g[i] = Next(g, t, i)
  <2>1. g = [i \in 0..Len(t) |-> Next(g, t, i)]
    BY <1>3, Zenon DEF OnlyRun
  <2> HIDE DEF Next
  <2> QED BY <1>1, <2>1, Zenon
<1> HIDE DEF N
<1>6. f[0] = g[0]
  BY <1>1, <1>4, <1>5
<1>7. ASSUME NEW i \in 1..N, f[i - 1] = g[i - 1] PROVE f[i] = g[i]
  <2>1. i \in 0..N /\ i \in 0..(N + 1) /\ i # 0 /\ t[i] = s[i]
    BY <1>1 DEF N
  <2> QED BY <1>4, <1>5, <1>7, <2>1, Zenon
<1>8. f[N] = g[N]
  BY <1>1, <1>6, <1>7, Agree, Zenon
<1>9. N + 1 \in 0..(N + 1) /\ N + 1 # 0 /\ (N + 1) - 1 = N
  BY <1>1
<1>10. g[N + 1] = IF x \in S THEN Append(g[N], x) ELSE g[N]
  BY <1>1, <1>5, <1>9, Zenon
<1>11. Only(s, S) \in Seq(X)
  BY <1>1, <1>2
<1> QED BY <1>2, <1>3, <1>8, <1>10, <1>11, Zenon DEF t

(* Its members are those of s that are in S.                                *)
LEMMA MembersAppend ==
    ASSUME NEW X, NEW s \in Seq(X), NEW x PROVE Members(Append(s, x)) = Members(s) \cup {x}
<1>1. DOMAIN Append(s, x) = DOMAIN s \cup {Len(s) + 1}
  OBVIOUS
<1>2. \A i \in DOMAIN s : Append(s, x)[i] = s[i]
  OBVIOUS
<1>3. Append(s, x)[Len(s) + 1] = x
  OBVIOUS
<1> QED BY <1>1, <1>2, <1>3, Zenon DEF Members

(* What is kept are the members that are in S.                              *)
LEMMA OnlyMembers ==
    ASSUME NEW X, NEW S, NEW s \in Seq(X)
    PROVE  Only(s, S) \in Seq(X) /\ Members(Only(s, S)) = Members(s) \cap S
<1> DEFINE P == {r \in Seq(X) : Only(r, S) \in Seq(X) /\ Members(Only(r, S)) = Members(r) \cap S}
<1>1. <<>> \in P
  <2>1. <<>> \in Seq(X) /\ Members(<<>>) = {}
    BY DEF Members
  <2> QED BY <2>1, OnlyEmpty, Zenon
<1>2. ASSUME NEW r \in Seq(X), NEW x \in X, r \in P PROVE Append(r, x) \in P
  <2>1. Append(r, x) \in Seq(X)
    OBVIOUS
  <2>2. Only(r, S) \in Seq(X) /\ Members(Only(r, S)) = Members(r) \cap S
    BY <1>2, Zenon
  <2>3. CASE x \in S
    <3>1. Only(Append(r, x), S) = Append(Only(r, S), x)
      BY <2>3, OnlyAppend, SMT
    <3>2. Append(Only(r, S), x) \in Seq(X)
      BY <2>2
    <3>3. Members(Append(Only(r, S), x)) = (Members(r) \cup {x}) \cap S
      <4>1. Members(Append(Only(r, S), x)) = Members(Only(r, S)) \cup {x}
        BY <2>2, MembersAppend, Zenon
      <4> QED BY <2>2, <2>3, <4>1, Zenon
    <3>4. Members(Append(r, x)) = Members(r) \cup {x}
      BY MembersAppend, Zenon
    <3> QED BY <2>1, <3>1, <3>2, <3>3, <3>4, Zenon
  <2>4. CASE x \notin S
    <3>1. Only(Append(r, x), S) = Only(r, S)
      BY <2>4, OnlyAppend, SMT
    <3>2. Members(Append(r, x)) = Members(r) \cup {x}
      BY MembersAppend, Zenon
    <3>3. (Members(r) \cup {x}) \cap S = Members(r) \cap S
      BY <2>4, Zenon
    <3> QED BY <2>1, <2>2, <3>1, <3>2, <3>3, Zenon
  <2> QED BY <2>3, <2>4
<1>3. Seq(X) \subseteq P
  <2> HIDE DEF P
  <2> QED BY <1>1, <1>2, Growing
<1> QED BY <1>3, Zenon

(* A part of what was kept.                                                 *)
LEMMA OnlyTwice ==
    ASSUME NEW X, NEW S, NEW R \in SUBSET S, NEW s \in Seq(X)
    PROVE  Only(Only(s, S), R) = Only(s, R)
<1> DEFINE P == {r \in Seq(X) : Only(Only(r, S), R) = Only(r, R)}
<1>1. <<>> \in P
  <2>1. <<>> \in Seq(X)
    OBVIOUS
  <2> QED BY <2>1, OnlyEmpty, Zenon
<1>2. ASSUME NEW r \in Seq(X), NEW x \in X, r \in P PROVE Append(r, x) \in P
  <2>1. Append(r, x) \in Seq(X)
    OBVIOUS
  <2>2. Only(r, S) \in Seq(X)
    BY OnlyAppend, Zenon
  <2>3. CASE x \in R
    <3>1. Only(Append(r, x), S) = Append(Only(r, S), x) /\ Only(Append(r, x), R) = Append(Only(r, R), x)
      BY <2>3, OnlyAppend, SMT
    <3>2. Only(Append(Only(r, S), x), R) = Append(Only(Only(r, S), R), x)
      BY <2>2, <2>3, OnlyAppend, SMT
    <3> QED BY <1>2, <2>1, <3>1, <3>2, Zenon
  <2>4. CASE x \in S /\ x \notin R
    <3>1. Only(Append(r, x), S) = Append(Only(r, S), x) /\ Only(Append(r, x), R) = Only(r, R)
      BY <2>4, OnlyAppend, SMT
    <3>2. Only(Append(Only(r, S), x), R) = Only(Only(r, S), R)
      BY <2>2, <2>4, OnlyAppend, SMT
    <3> QED BY <1>2, <2>1, <3>1, <3>2, Zenon
  <2>5. CASE x \notin S /\ x \notin R
    <3>1. Only(Append(r, x), S) = Only(r, S) /\ Only(Append(r, x), R) = Only(r, R)
      BY <2>5, OnlyAppend, SMT
    <3> QED BY <1>2, <2>1, <3>1, Zenon
  <2> QED BY <2>3, <2>4, <2>5, Zenon
<1>3. Seq(X) \subseteq P
  <2> HIDE DEF P
  <2> QED BY <1>1, <1>2, Growing
<1> QED BY <1>3, Zenon

(* No more are kept than there are.                                         *)
LEMMA OnlyShorter ==
    ASSUME NEW X, NEW S, NEW s \in Seq(X)
    PROVE  Only(s, S) \in Seq(X) /\ Len(Only(s, S)) <= Len(s)
<1> DEFINE P == {r \in Seq(X) : Only(r, S) \in Seq(X) /\ Len(Only(r, S)) <= Len(r)}
<1>1. <<>> \in P
  <2>1. <<>> \in Seq(X) /\ Len(<<>>) <= Len(<<>>)
    OBVIOUS
  <2> QED BY <2>1, OnlyEmpty, Zenon
<1>2. ASSUME NEW r \in Seq(X), NEW x \in X, r \in P PROVE Append(r, x) \in P
  <2> DEFINE o == Only(r, S)
             t == Only(Append(r, x), S)
  <2>1. o \in Seq(X) /\ Len(o) <= Len(r)
    BY <1>2, Zenon
  <2>2. t = Append(o, x) \/ t = o
    <3>1. CASE x \in S
      BY <3>1, OnlyAppend, SMT
    <3>2. CASE x \notin S
      BY <3>2, OnlyAppend, SMT
    <3> QED BY <3>1, <3>2
  <2> HIDE DEF o, t
  <2>3. t \in Seq(X) /\ Len(t) <= Len(Append(r, x)) /\ Append(r, x) \in Seq(X)
    BY <2>1, <2>2
  <2> QED BY <2>3, Zenon DEF t
<1>3. Seq(X) \subseteq P
  <2> HIDE DEF P
  <2> QED BY <1>1, <1>2, Growing
<1> QED BY <1>3, Zenon

(* None or one is kept when there is none or one.                           *)
OnlyAt(s, S, j) == \A k \in DOMAIN s : s[k] \in S <=> k = j
NoneIn(s, S) == \A k \in DOMAIN s : s[k] \notin S
OneIn(s, S) == \E j \in DOMAIN s : OnlyAt(s, S, j)
Counts(s, S) == (Len(Only(s, S)) = 0 <=> NoneIn(s, S)) /\ (Len(Only(s, S)) = 1 <=> OneIn(s, S))

(* How many are kept, counted to one.                                       *)
LEMMA OnlyCounts == ASSUME NEW X, NEW S, NEW s \in Seq(X) PROVE Counts(s, S)
<1> DEFINE P == {r \in Seq(X) : Counts(r, S)}
<1>1. <<>> \in P
  <2>1. <<>> \in Seq(X) /\ DOMAIN <<>> = {} /\ Len(<<>>) = 0 /\ 0 # 1
    OBVIOUS
  <2> QED BY <2>1, OnlyEmpty, Zenon DEF Counts, NoneIn, OneIn
<1>2. ASSUME NEW r \in Seq(X), NEW x \in X, r \in P PROVE Append(r, x) \in P
  <2> DEFINE t == Append(r, x)
             n == Len(r) + 1
             a == Len(Only(r, S))
             b == Len(Only(t, S))
  <2>1. t \in Seq(X)
    OBVIOUS
  <2>2. a \in Nat
    <3>1. Only(r, S) \in Seq(X)
      BY OnlyAppend, Zenon
    <3> QED BY <3>1
  <2>3. DOMAIN t = DOMAIN r \cup {n} /\ n \notin DOMAIN r /\ t[n] = x /\ \A i \in DOMAIN r : t[i] = r[i]
    OBVIOUS
  <2>4. (a = 0 <=> NoneIn(r, S)) /\ (a = 1 <=> OneIn(r, S))
    BY <1>2, Zenon DEF Counts
  <2>5. CASE x \in S
    <3>1. Only(t, S) = Append(Only(r, S), x)
      BY <2>5, OnlyAppend, SMT
    <3>2. Only(r, S) \in Seq(X)
      BY OnlyAppend, Zenon
    <3>3. Len(Append(Only(r, S), x)) = a + 1
      BY <3>2
    <3>4. b = a + 1
      BY <3>1, <3>3, Zenon
    <3> HIDE DEF t, n, a, b
    <3>5. ~NoneIn(t, S)
      BY <2>3, <2>5, Zenon DEF NoneIn
    <3>6. OneIn(t, S) <=> NoneIn(r, S)
      <4>1. ASSUME NEW j \in DOMAIN t, OnlyAt(t, S, j) PROVE NoneIn(r, S)
        <5>1. j = n
          BY <2>3, <2>5, <4>1, Zenon DEF OnlyAt
        <5> QED BY <2>3, <4>1, <5>1, Zenon DEF OnlyAt, NoneIn
      <4>2. ASSUME NoneIn(r, S) PROVE n \in DOMAIN t /\ OnlyAt(t, S, n)
        BY <2>3, <2>5, <4>2, Zenon DEF OnlyAt, NoneIn
      <4> QED BY <4>1, <4>2, Zenon DEF OneIn
    <3>7. (b = 0 <=> FALSE) /\ (b = 1 <=> a = 0)
      BY <2>2, <3>4
    <3> QED BY <2>1, <2>4, <3>5, <3>6, <3>7, Zenon DEF Counts, t, b
  <2>6. CASE x \notin S
    <3>1. Only(t, S) = Only(r, S)
      BY <2>6, OnlyAppend, SMT
    <3>2. b = a
      BY <3>1, Zenon
    <3> HIDE DEF t, n, a, b
    <3>3. NoneIn(t, S) <=> NoneIn(r, S)
      BY <2>3, <2>6, Zenon DEF NoneIn
    <3>4. OneIn(t, S) <=> OneIn(r, S)
      <4>1. ASSUME NEW j \in DOMAIN t, OnlyAt(t, S, j) PROVE OneIn(r, S)
        <5>1. t[j] \in S
          BY <4>1, Zenon DEF OnlyAt
        <5>2. j \in DOMAIN r
          BY <2>3, <2>6, <5>1, Zenon
        <5> QED BY <2>3, <4>1, <5>2, Zenon DEF OnlyAt, OneIn
      <4>2. ASSUME NEW j \in DOMAIN r, OnlyAt(r, S, j) PROVE j \in DOMAIN t /\ OnlyAt(t, S, j)
        BY <2>3, <2>6, <4>2, Zenon DEF OnlyAt
      <4> QED BY <4>1, <4>2, Zenon DEF OneIn
    <3> QED BY <2>1, <2>4, <3>2, <3>3, <3>4, Zenon DEF Counts, t, b
  <2> QED BY <2>5, <2>6
<1>3. Seq(X) \subseteq P
  <2> HIDE DEF P
  <2> QED BY <1>1, <1>2, Growing
<1> QED BY <1>3, Zenon

(* What is in order stays so.                                               *)
Ordered(s, R) == \A i, j \in DOMAIN s : i < j => <<s[i], s[j]>> \in R

(* An ordered list with a last element that is above all of it is ordered.  *)
LEMMA OrderedAppend ==
    ASSUME NEW X, NEW R, NEW s \in Seq(X), NEW x
    PROVE  Ordered(Append(s, x), R) <=> Ordered(s, R) /\ \A y \in Members(s) : <<y, x>> \in R
<1> DEFINE t == Append(s, x)
<1>1. DOMAIN t = DOMAIN s \cup {Len(s) + 1} /\ t[Len(s) + 1] = x /\ \A i \in DOMAIN s : t[i] = s[i]
  OBVIOUS
<1>2. \A i \in DOMAIN s : i < Len(s) + 1 /\ ~(Len(s) + 1 < i)
  OBVIOUS
<1>3. ~(Len(s) + 1 < Len(s) + 1)
  OBVIOUS
<1> HIDE DEF t
<1>4. ASSUME Ordered(t, R) PROVE Ordered(s, R) /\ \A y \in Members(s) : <<y, x>> \in R
  <2>1. Ordered(s, R)
    BY <1>1, <1>4, Zenon DEF Ordered
  <2>2. ASSUME NEW i \in DOMAIN s PROVE <<s[i], x>> \in R
    <3>1. i \in DOMAIN t /\ Len(s) + 1 \in DOMAIN t /\ t[i] = s[i] /\ t[Len(s) + 1] = x
      BY <1>1, Zenon
    <3>2. <<t[i], t[Len(s) + 1]>> \in R
      BY <1>2, <1>4, <3>1, Zenon DEF Ordered
    <3> QED BY <3>1, <3>2, Zenon
  <2> QED BY <2>1, <2>2, Zenon DEF Members
<1>5. ASSUME Ordered(s, R), \A y \in Members(s) : <<y, x>> \in R,
             NEW i \in DOMAIN t, NEW j \in DOMAIN t, i < j
      PROVE  <<t[i], t[j]>> \in R
  <2>1. i \in DOMAIN s
    BY <1>1, <1>2, <1>3, <1>5, Zenon
  <2>2. CASE j \in DOMAIN s
    BY <1>1, <1>5, <2>1, <2>2, Zenon DEF Ordered
  <2>3. CASE j = Len(s) + 1
    BY <1>1, <1>5, <2>1, <2>3, Zenon DEF Members
  <2> QED BY <1>1, <2>2, <2>3, Zenon
<1> QED BY <1>4, <1>5, Zenon DEF Ordered, t

(* What is kept is in order as the list was.                                *)
LEMMA OnlyOrdered ==
    ASSUME NEW X, NEW R, NEW S, NEW s \in Seq(X), Ordered(s, R)
    PROVE  Ordered(Only(s, S), R)
<1> DEFINE P == {r \in Seq(X) : Ordered(r, R) => Ordered(Only(r, S), R)}
<1>1. <<>> \in P
  <2>1. <<>> \in Seq(X)
    OBVIOUS
  <2> QED BY <2>1, OnlyEmpty, Zenon
<1>2. ASSUME NEW r \in Seq(X), NEW x \in X, r \in P PROVE Append(r, x) \in P
  <2>1. Append(r, x) \in Seq(X)
    OBVIOUS
  <2> SUFFICES ASSUME Ordered(Append(r, x), R) PROVE Ordered(Only(Append(r, x), S), R)
    BY <2>1, Zenon
  <2>2. Ordered(r, R) /\ \A y \in Members(r) : <<y, x>> \in R
    BY OrderedAppend, Zenon
  <2>3. Only(r, S) \in Seq(X) /\ Members(Only(r, S)) = Members(r) \cap S
    BY OnlyMembers, Zenon
  <2>4. Ordered(Only(r, S), R)
    BY <1>2, <2>2, Zenon
  <2>5. Ordered(Append(Only(r, S), x), R)
    BY <2>2, <2>3, <2>4, OrderedAppend, Zenon
  <2>6. Only(Append(r, x), S) \in {Append(Only(r, S), x), Only(r, S)}
    BY OnlyAppend, SMT
  <2> QED BY <2>4, <2>5, <2>6, Zenon
<1>3. Seq(X) \subseteq P
  <2> HIDE DEF P
  <2> QED BY <1>1, <1>2, Growing
<1> QED BY <1>3, Zenon

(* Numbers that rise.                                                       *)
Less == {p \in Int \X Int : p[1] < p[2]}
Rises(s) == \A i, j \in DOMAIN s : i < j => s[i] < s[j]

(* Rising is being ordered by <.                                            *)
LEMMA RisesOrdered == ASSUME NEW s \in Seq(Int) PROVE Rises(s) <=> Ordered(s, Less)
<1>1. \A i \in DOMAIN s : s[i] \in Int
  OBVIOUS
<1>2. \A x, y \in Int : x < y <=> <<x, y>> \in Less
  BY DEF Less
<1> QED BY <1>1, <1>2, Zenon DEF Rises, Ordered

(* A rising list with a last element above all of it rises.                 *)
LEMMA RisesAppend ==
    ASSUME NEW s \in Seq(Int), NEW x \in Int
    PROVE  Rises(Append(s, x)) <=> Rises(s) /\ \A y \in Members(s) : y < x
<1>1. Append(s, x) \in Seq(Int)
  OBVIOUS
<1>2. Members(s) \subseteq Int
  BY DEF Members
<1>3. \A y \in Members(s) : y < x <=> <<y, x>> \in Less
  BY <1>2 DEF Less
<1> QED BY <1>1, <1>3, RisesOrdered, OrderedAppend, Zenon

(* What is kept of a rising list rises.                                     *)
LEMMA OnlyRises == ASSUME NEW S, NEW s \in Seq(Int), Rises(s) PROVE Rises(Only(s, S))
<1>1. Only(s, S) \in Seq(Int)
  BY OnlyMembers, Zenon
<1>2. Ordered(Only(s, S), Less)
  BY RisesOrdered, OnlyOrdered, Zenon
<1> QED BY <1>1, <1>2, RisesOrdered, Zenon

(* Over, one element at a time.                                             *)
OverRun(f, s, start, step) ==
    f = [i \in 0..Len(s) |-> IF i = 0 THEN start ELSE step[<<f[i - 1], s[i]>>]]

OverIs(f, s, start, step, A) ==
    /\ OverRun(f, s, start, step) /\ Over(s, start, step) = f[Len(s)]
    /\ \A i \in 0..Len(s) : f[i] \in A

(* Over is the last value of its run.                                       *)
LEMMA OverRuns ==
    ASSUME NEW A, NEW X, NEW start \in A, NEW step \in [A \X X -> A], NEW s \in Seq(X)
    PROVE  \E f : OverIs(f, s, start, step, A)
<1> DEFINE N == Len(s)
           F == [p \in A \X (1..N) |-> step[<<p[1], s[p[2]]>>]]
           Next(g, i) == IF i = 0 THEN start ELSE step[<<g[i - 1], s[i]>>]
<1>1. N \in Nat /\ \A i \in 1..N : s[i] \in X /\ i - 1 \in 0..N /\ i \in 0..N /\ i # 0
  OBVIOUS
<1>2. \A c \in A, i \in 1..N : <<c, s[i]>> \in A \X X /\ step[<<c, s[i]>>] \in A
  BY <1>1
<1> HIDE DEF N
<1>3. F \in [A \X (1..N) -> A]
  BY <1>2
<1>4. PICK f \in [0..N -> A] : Runs(f, N, start, F)
  <2> HIDE DEF F
  <2> QED BY <1>1, <1>3, Recursion, Zenon
<1>5. \A i \in 0..N : f[i] = Next(f, i)
  <2>1. ASSUME NEW i \in 0..N, i # 0 PROVE f[i] = step[<<f[i - 1], s[i]>>]
    <3>1. i \in 1..N /\ f[i - 1] \in A
      BY <1>1, <2>1
    <3>2. <<f[i - 1], i>> \in A \X (1..N) /\ f[i] = F[<<f[i - 1], i>>]
      BY <1>4, <3>1, Zenon DEF Runs
    <3> QED BY <3>2
  <2> QED BY <1>4, <2>1, Zenon DEF Runs
<1>6. OverRun(f, s, start, step)
  <2>1. f = [i \in 0..N |-> f[i]]
    OBVIOUS
  <2> QED BY <1>5, <2>1, Zenon DEF OverRun, N
<1> DEFINE h == CHOOSE h : OverRun(h, s, start, step)
<1>7. OverRun(h, s, start, step) /\ Over(s, start, step) = h[N]
  <2>1. OverRun(h, s, start, step)
    BY <1>6, Zenon
  <2>2. Over(s, start, step) = h[N]
    BY Zenon DEF Over, OverRun, N
  <2> QED BY <2>1, <2>2
<1> HIDE DEF h
<1>8. \A i \in 0..N : h[i] = Next(h, i)
  BY <1>7, Zenon DEF OverRun, N
<1> DEFINE T == {i \in 0..N : h[i] \in A}
<1>9. 0 \in T
  <2>1. 0 \in 0..N
    BY <1>1
  <2> QED BY <1>8, <2>1, Zenon
<1>10. ASSUME NEW n \in 0..(N - 1), n \in T PROVE n + 1 \in T
  <2>1. n + 1 \in 1..N /\ n + 1 \in 0..N /\ n + 1 # 0 /\ (n + 1) - 1 = n
    BY <1>1
  <2>2. h[n + 1] = step[<<h[n], s[n + 1]>>]
    BY <1>8, <2>1, Zenon
  <2>3. h[n + 1] \in A
    BY <1>2, <1>10, <2>1, <2>2, Zenon
  <2> QED BY <2>1, <2>3
<1>11. 0..N \subseteq T
  <2> HIDE DEF T
  <2> QED BY <1>1, <1>9, <1>10, UpTo, Zenon
<1> QED BY <1>7, <1>11, Zenon DEF N, OverIs

(* Nothing to work through.                                                 *)
LEMMA OverEmpty == ASSUME NEW start, NEW step PROVE Over(<<>>, start, step) = start
<1> DEFINE A == {start}
           none == [p \in A \X {} |-> start]
<1>1. ASSUME NEW s \in Seq({}), Len(s) = 0 PROVE Over(s, start, step) = start
  <2> DEFINE f == [i \in 0..0 |-> start]
             h == CHOOSE h : OverRun(h, s, start, step)
  <2>1. OverRun(f, s, start, step)
    BY <1>1 DEF OverRun
  <2>2. OverRun(h, s, start, step)
    BY <2>1, Zenon
  <2>3. Over(s, start, step) = h[Len(s)]
    BY Zenon DEF Over, OverRun
  <2> HIDE DEF h
  <2>4. h[0] = start
    BY <1>1, <2>2 DEF OverRun
  <2> QED BY <1>1, <2>3, <2>4
<1>2. <<>> \in Seq({}) /\ Len(<<>>) = 0
  OBVIOUS
<1> QED BY <1>1, <1>2, Zenon

OverStep(s, x, start, step) ==
    Over(Append(s, x), start, step) = step[<<Over(s, start, step), x>>]

(* One more element is one more step.                                       *)
LEMMA OverAppend ==
    ASSUME NEW A, NEW X, NEW start \in A, NEW step \in [A \X X -> A], NEW s \in Seq(X), NEW x \in X
    PROVE  /\ Over(s, start, step) \in A
           /\ OverStep(s, x, start, step)
<1> DEFINE N == Len(s)
           t == Append(s, x)
<1>1. t \in Seq(X) /\ Len(t) = N + 1 /\ N \in Nat /\ t[N + 1] = x /\ \A i \in 1..N : t[i] = s[i]
  OBVIOUS
<1> DEFINE Next(h, r, i) == IF i = 0 THEN start ELSE step[<<h[i - 1], r[i]>>]
<1>2. PICK f : OverIs(f, s, start, step, A)
  BY OverRuns, Zenon
<1> HIDE DEF t
<1>3. PICK g : OverIs(g, t, start, step, A)
  BY <1>1, OverRuns, Zenon
<1>4. \A i \in 0..N : f[i] = Next(f, s, i)
  BY <1>2, Zenon DEF OverRun, OverIs
<1>5. \A i \in 0..(N + 1) : g[i] = Next(g, t, i)
  <2>1. \A i \in 0..Len(t) : g[i] = Next(g, t, i)
    BY <1>3, Zenon DEF OverRun, OverIs
  <2> QED BY <1>1, <2>1, Zenon
<1> HIDE DEF N
<1>6. f[0] = g[0]
  <2>1. 0 \in 0..N /\ 0 \in 0..(N + 1)
    BY <1>1
  <2> QED BY <1>4, <1>5, <2>1, Zenon
<1>7. ASSUME NEW i \in 1..N, f[i - 1] = g[i - 1] PROVE f[i] = g[i]
  <2>1. i \in 0..N /\ i \in 0..(N + 1) /\ i # 0 /\ t[i] = s[i]
    BY <1>1 DEF N
  <2> QED BY <1>4, <1>5, <1>7, <2>1, Zenon
<1>8. f[N] = g[N]
  BY <1>1, <1>6, <1>7, Agree
<1>9. N + 1 \in 0..(N + 1) /\ N + 1 # 0 /\ (N + 1) - 1 = N /\ N \in 0..N
  BY <1>1
<1>10. g[N + 1] = step[<<g[N], x>>]
  BY <1>1, <1>5, <1>9, Zenon
<1> QED BY <1>1, <1>2, <1>3, <1>8, <1>9, <1>10, Zenon DEF t, N, OverIs, OverStep

(****************************************************************************)
(* Notices.                                                                 *)
(****************************************************************************)
AnswerAs == [there : BOOLEAN, notices : Seq(Int), last : Nat]
PageAs == [from : Nat, after : Nat, answer : AnswerAs]

(* A user's queue, of what was pushed and not dropped.                      *)
Queued(q, all, gone, n) == Rises(q) /\ all = Members(q) \cup gone /\ all \subseteq 1..n

(* s is in order what came after lo, up to hi, but for what is gone.        *)
Between(all, lo, hi) == {n \in all : lo < n /\ n <= hi}
Covers(s, all, gone, lo, hi) ==
    /\ Rises(s) /\ lo <= hi
    /\ Members(s) \subseteq Between(all, lo, hi)
    /\ Between(all, lo, hi) \subseteq Members(s) \cup gone

UserOK(q, p, s, all, gone, n) ==
    /\ Queued(q, all, gone, n)
    /\ Covers(s, all, gone, p.from, p.after) /\ p.after <= n
    /\ p.answer.there =>
          Covers(p.answer.notices, all, gone, p.after, p.answer.last) /\ p.answer.last <= n

NoticesTypes ==
    /\ newest \in Nat
    /\ queue \in [PageUser -> Seq(Int)] /\ shown \in [PageUser -> Seq(Int)]
    /\ page \in [PageUser -> PageAs]
    /\ pushed \in [PageUser -> SUBSET Int] /\ dropped \in [PageUser -> SUBSET Int]

NoticesInv ==
    /\ NoticesTypes
    /\ \A u \in PageUser : UserOK(queue[u], page[u], shown[u], pushed[u], dropped[u], newest)

(* Another notice, of this user or of another.                              *)
LEMMA CoversLater ==
    ASSUME NEW s, NEW all \in SUBSET Int, NEW gone, NEW more, gone \subseteq more,
           NEW lo \in Int, NEW hi \in Int, NEW m \in Int, hi < m, Covers(s, all, gone, lo, hi)
    PROVE  Covers(s, all \cup {m}, more, lo, hi)
<1>1. Between(all \cup {m}, lo, hi) = Between(all, lo, hi)
  BY DEF Between
<1> QED BY <1>1, Zenon DEF Covers

(* A push at the end of a queue, whose oldest notice may be dropped.        *)
LEMMA QueuedPush ==
    ASSUME NEW q \in Seq(Int), NEW all \in SUBSET Int, NEW gone \in SUBSET Int, NEW n \in Nat,
           Queued(q, all, gone, n)
    PROVE  LET longer == Append(q, n + 1)
           IN  /\ longer \in Seq(Int) /\ Queued(longer, all \cup {n + 1}, gone, n + 1)
               /\ Tail(longer) \in Seq(Int) /\ Head(longer) \in Int
               /\ Queued(Tail(longer), all \cup {n + 1}, gone \cup {Head(longer)}, n + 1)
<1> DEFINE longer == Append(q, n + 1)
<1>1. longer \in Seq(Int) /\ longer # <<>> /\ n + 1 \in Int
  OBVIOUS
<1>2. Members(longer) = Members(q) \cup {n + 1}
  BY MembersAppend, <1>1, Zenon
<1>3. \A y \in Members(q) : y < n + 1
  BY DEF Queued
<1>4. Rises(longer)
  BY <1>1, <1>3, RisesAppend, Zenon DEF Queued
<1>5. all \cup {n + 1} \subseteq 1..(n + 1)
  BY DEF Queued
<1>6. Queued(longer, all \cup {n + 1}, gone, n + 1)
  BY <1>2, <1>4, <1>5, Zenon DEF Queued
<1> HIDE DEF longer
<1>7. Tail(longer) \in Seq(Int) /\ Head(longer) \in Int
  BY <1>1
<1>8. Rises(Tail(longer))
  <2>1. \A i \in DOMAIN Tail(longer) :
           i \in Int /\ i + 1 \in DOMAIN longer /\ Tail(longer)[i] = longer[i + 1]
    BY <1>1
  <2>2. \A i, j \in Int : i < j => i + 1 < j + 1
    OBVIOUS
  <2> QED BY <1>4, <2>1, <2>2, Zenon DEF Rises
<1>9. Members(longer) = Members(Tail(longer)) \cup {Head(longer)}
  <2>1. Head(longer) = longer[1] /\ 1 \in DOMAIN longer
    BY <1>1
  <2>2. \A i \in DOMAIN Tail(longer) : i + 1 \in DOMAIN longer /\ Tail(longer)[i] = longer[i + 1]
    BY <1>1
  <2>3. \A i \in DOMAIN longer : i = 1 \/ (i - 1 \in DOMAIN Tail(longer) /\ longer[i] = Tail(longer)[i - 1])
    BY <1>1
  <2>4. Head(longer) \in Members(longer) /\ \A i \in DOMAIN Tail(longer) : Tail(longer)[i] \in Members(longer)
    BY <2>1, <2>2, SMT DEF Members
  <2>7. Members(Tail(longer)) \subseteq Members(longer)
    BY <2>4, Zenon DEF Members
  <2>5. \A i \in DOMAIN longer : longer[i] \in Members(Tail(longer)) \cup {Head(longer)}
    BY <2>1, <2>3, Zenon DEF Members
  <2>6. Members(longer) \subseteq Members(Tail(longer)) \cup {Head(longer)}
    BY <2>5, Zenon DEF Members
  <2> QED BY <2>4, <2>6, <2>7, Zenon
<1>10. Queued(Tail(longer), all \cup {n + 1}, gone \cup {Head(longer)}, n + 1)
  BY <1>6, <1>8, <1>9, Zenon DEF Queued
<1> QED BY <1>1, <1>6, <1>7, <1>10, Zenon DEF longer

(* since, after the number asked for.                                       *)
LEMMA CoversSince ==
    ASSUME NEW q \in Seq(Int), NEW all \in SUBSET Int, NEW gone, NEW n \in Nat, NEW lo \in Nat,
           lo <= n, Queued(q, all, gone, n)
    PROVE  /\ Only(q, {m \in Nat : m > lo}) \in Seq(Int)
           /\ Covers(Only(q, {m \in Nat : m > lo}), all, gone, lo, n)
<1> DEFINE S == {m \in Nat : m > lo}
           o == Only(q, S)
<1>1. o \in Seq(Int) /\ Members(o) = Members(q) \cap S
  BY OnlyMembers, Zenon
<1>2. Rises(o)
  BY OnlyRises, Zenon DEF Queued
<1>3. Between(all, lo, n) = all \cap S
  BY DEF Between, Queued
<1> HIDE DEF S, o
<1>4. Covers(o, all, gone, lo, n)
  BY <1>1, <1>2, <1>3, Zenon DEF Covers, Queued
<1> QED BY <1>1, <1>4 DEF S, o

(* A page that takes an answer, or shows one.                               *)
Answered(q, x, r) == r \in PageAs /\ r.from = q.from /\ r.after = q.after /\ r.answer = x
Moved(q, n, x, r) == r \in PageAs /\ r.from = q.from /\ r.after = n /\ r.answer = x

(* Such a page is a page, and differs in this only.                         *)
LEMMA PageAnswered ==
    ASSUME NEW q \in PageAs, NEW x \in AnswerAs
    PROVE Answered(q, x, [q EXCEPT !.answer = x])
  BY DEF PageAs, Answered

(* The same of a page that shows it.                                        *)
LEMMA PageMoved ==
    ASSUME NEW q \in PageAs, NEW x \in AnswerAs, NEW n \in Nat
    PROVE Moved(q, n, x, [q EXCEPT !.after = n, !.answer = x])
  BY Zenon DEF PageAs, Moved

(* One after the other.                                                     *)
LEMMA CoversJoined ==
    ASSUME NEW s \in Seq(Int), NEW t \in Seq(Int), NEW all \in SUBSET Int, NEW gone,
           NEW lo \in Int, NEW mid \in Int, NEW hi \in Int,
           Covers(s, all, gone, lo, mid), Covers(t, all, gone, mid, hi)
    PROVE  s \o t \in Seq(Int) /\ Covers(s \o t, all, gone, lo, hi)
<1> DEFINE r == s \o t
<1>1. r \in Seq(Int) /\ DOMAIN r = 1..(Len(s) + Len(t))
  OBVIOUS
<1>2. Len(s) \in Nat /\ Len(t) \in Nat /\ DOMAIN s = 1..Len(s) /\ DOMAIN t = 1..Len(t)
  OBVIOUS
<1>3. \A i \in DOMAIN r : IF i <= Len(s) THEN i \in DOMAIN s /\ r[i] = s[i]
                          ELSE i - Len(s) \in DOMAIN t /\ r[i] = t[i - Len(s)]
  OBVIOUS
<1>4. \A i \in DOMAIN s : i \in DOMAIN r /\ r[i] = s[i]
  OBVIOUS
<1>5. \A i \in DOMAIN t : i + Len(s) \in DOMAIN r /\ r[i + Len(s)] = t[i]
  OBVIOUS
<1> HIDE DEF r
<1>6. Members(r) = Members(s) \cup Members(t)
  <2>1. ASSUME NEW i \in DOMAIN r PROVE r[i] \in Members(s) \cup Members(t)
    BY <1>3 DEF Members
  <2>2. \A i \in DOMAIN s : s[i] \in Members(r)
    BY <1>4, Zenon DEF Members
  <2>3. \A i \in DOMAIN t : t[i] \in Members(r)
    BY <1>5, Zenon DEF Members
  <2>4. Members(r) \subseteq Members(s) \cup Members(t)
    BY <2>1, Zenon DEF Members
  <2>5. Members(s) \subseteq Members(r) /\ Members(t) \subseteq Members(r)
    BY <2>2, <2>3, Zenon DEF Members
  <2> QED BY <2>4, <2>5, Zenon
<1>7. \A x \in Members(s) : x <= mid /\ x \in Int
  BY Zenon DEF Covers, Between
<1>8. \A x \in Members(t) : x > mid /\ x \in Int
  BY Zenon DEF Covers, Between
<1>9. Rises(r)
  <2> SUFFICES ASSUME NEW i \in DOMAIN r, NEW j \in DOMAIN r, i < j PROVE r[i] < r[j]
    BY DEF Rises
  <2>1. CASE j <= Len(s)
    <3>0. i <= Len(s)
      BY <1>1, <1>2, <2>1
    <3>1. i \in DOMAIN s /\ r[i] = s[i] /\ j \in DOMAIN s /\ r[j] = s[j]
      BY <1>3, <2>1, <3>0, Zenon
    <3> QED BY <3>1 DEF Covers, Rises
  <2>2. CASE i > Len(s)
    <3>0. ~(i <= Len(s)) /\ ~(j <= Len(s))
      BY <1>1, <1>2, <2>2
    <3>1. /\ i - Len(s) \in DOMAIN t /\ r[i] = t[i - Len(s)]
          /\ j - Len(s) \in DOMAIN t /\ r[j] = t[j - Len(s)]
      BY <1>3, <3>0, Zenon
    <3>2. i - Len(s) < j - Len(s)
      BY <1>1, <1>2
    <3> QED BY <3>1, <3>2, Zenon DEF Covers, Rises
  <2>3. CASE i <= Len(s) /\ j > Len(s)
    <3>0. ~(j <= Len(s))
      BY <1>1, <1>2, <2>3
    <3>1. i \in DOMAIN s /\ r[i] = s[i] /\ j - Len(s) \in DOMAIN t /\ r[j] = t[j - Len(s)]
      BY <1>3, <2>3, <3>0, Zenon
    <3>2. r[i] \in Members(s) /\ r[j] \in Members(t)
      BY <3>1, Zenon DEF Members
    <3> QED BY <1>7, <1>8, <3>2
  <2>4. i \in Int /\ j \in Int /\ Len(s) \in Int
    BY <1>1, <1>2
  <2>5. j <= Len(s) \/ i > Len(s) \/ (i <= Len(s) /\ j > Len(s))
    BY <2>4
  <2> QED BY <2>1, <2>2, <2>3, <2>5, Zenon
<1>10. Between(all, lo, hi) = Between(all, lo, mid) \cup Between(all, mid, hi) /\ lo <= hi
  <2>1. lo <= mid /\ mid <= hi
    BY Zenon DEF Covers
  <2>2. \A x \in Int : (lo < x /\ x <= hi) <=> (lo < x /\ x <= mid) \/ (mid < x /\ x <= hi)
    BY <2>1
  <2>3. Between(all, lo, hi) = Between(all, lo, mid) \cup Between(all, mid, hi)
    BY <2>2, Zenon DEF Between
  <2> QED BY <2>1, <2>3
<1>11. Covers(r, all, gone, lo, hi)
  BY <1>6, <1>9, <1>10, Zenon DEF Covers
<1> QED BY <1>1, <1>11 DEF r

(* Nothing is what came between a number and itself.                        *)
LEMMA CoversNothing ==
    ASSUME NEW all \in SUBSET Int, NEW gone, NEW n \in Int
    PROVE  Covers(<<>>, all, gone, n, n)
<1>1. Between(all, n, n) = {} /\ n <= n
  <2>1. \A x \in Int : ~(n < x /\ x <= n)
    OBVIOUS
  <2>2. Between(all, n, n) = {}
    BY <2>1, Zenon DEF Between
  <2> QED BY <2>2
<1>2. Members(<<>>) = {} /\ Rises(<<>>)
  BY DEF Members, Rises
<1> QED BY <1>1, <1>2, Zenon DEF Covers

(* No page and no notice yet.                                               *)
LEMMA NoticesInit == NO!Init => NoticesInv
<1> SUFFICES ASSUME NO!Init PROVE NoticesInv
  OBVIOUS
<1>1. <<>> \in Seq(Int) /\ NO!NoAnswer \in AnswerAs /\ ~NO!NoAnswer.there
  BY DEF NO!NoAnswer, AnswerAs
<1>2. NoticesTypes
  BY <1>1 DEF NO!Init, NoticesTypes, PageAs
<1>3. ASSUME NEW u \in PageUser
      PROVE  UserOK(queue[u], page[u], shown[u], pushed[u], dropped[u], newest)
  <2>1. Covers(<<>>, {}, {}, 0, 0)
    BY CoversNothing
  <2>2. Queued(<<>>, {}, {}, 0)
    BY DEF Queued, Rises, Members
  <2> QED BY <1>1, <2>1, <2>2 DEF NO!Init, UserOK
<1> QED BY <1>2, <1>3 DEF NoticesInv

(* Every push, answer, delivery and reload keeps it.                        *)
LEMMA NoticesNext == NoticesInv /\ [NO!Next]_NO!vars => NoticesInv'
<1> SUFFICES ASSUME NoticesInv, [NO!Next]_NO!vars PROVE NoticesInv'
  OBVIOUS
<1> USE DEF NoticesInv
<1>0. \A u \in PageUser : queue[u] \in Seq(Int) /\ shown[u] \in Seq(Int) /\ page[u] \in PageAs
                          /\ pushed[u] \in SUBSET Int /\ dropped[u] \in SUBSET Int /\ newest \in Nat
                          /\ page[u].from \in Nat /\ page[u].after \in Nat /\ page[u].answer \in AnswerAs
                          /\ page[u].answer.notices \in Seq(Int) /\ page[u].answer.last \in Nat
  BY DEF NoticesTypes, PageAs, AnswerAs
<1>8. NO!NoAnswer \in AnswerAs /\ ~NO!NoAnswer.there
  BY DEF AnswerAs, NO!NoAnswer
<1>1. ASSUME NEW u \in PageUser, NO!Push(u) PROVE NoticesInv'
  <2> DEFINE longer == Append(queue[u], newest + 1)
             q == IF Len(longer) > NOTICES_KEPT THEN Tail(longer) ELSE longer
             gone == IF Len(longer) > NOTICES_KEPT THEN dropped[u] \cup {Head(longer)} ELSE dropped[u]
             all == pushed[u] \cup {newest + 1}
  <2>1. /\ newest' = newest + 1 /\ page' = page /\ shown' = shown
        /\ queue' = [queue EXCEPT ![u] = q] /\ pushed' = [pushed EXCEPT ![u] = all]
        /\ dropped' = [dropped EXCEPT ![u] = gone]
    BY <1>1, Zenon DEF NO!Push
  <2>2. /\ q \in Seq(Int) /\ gone \in SUBSET Int /\ dropped[u] \subseteq gone
        /\ Queued(q, all, gone, newest + 1)
    <3>1. Queued(queue[u], pushed[u], dropped[u], newest)
      BY Zenon DEF UserOK
    <3>2. /\ longer \in Seq(Int) /\ Queued(longer, all, dropped[u], newest + 1)
          /\ Tail(longer) \in Seq(Int) /\ Head(longer) \in Int
          /\ Queued(Tail(longer), all, dropped[u] \cup {Head(longer)}, newest + 1)
      BY <1>0, <3>1, QueuedPush, Zenon
    <3> HIDE DEF longer
    <3>3. CASE Len(longer) > NOTICES_KEPT
      BY <1>0, <3>2, <3>3
    <3>4. CASE ~(Len(longer) > NOTICES_KEPT)
      BY <1>0, <3>2, <3>4
    <3> QED BY <3>3, <3>4
  <2> HIDE DEF q, gone
  <2>3. all \in SUBSET Int /\ newest + 1 \in Nat
    BY <1>0
  <2>4. NoticesTypes'
    BY <2>1, <2>2, <2>3 DEF NoticesTypes
  <2>5. ASSUME NEW v \in PageUser
        PROVE  UserOK(queue'[v], page[v], shown[v], pushed'[v], dropped'[v], newest + 1)
    <3>1. CASE v = u
      <4>1. queue'[v] = q /\ pushed'[v] = all /\ dropped'[v] = gone
        BY <2>1, <3>1 DEF NoticesTypes
      <4>2. page[v].after < newest + 1 /\ (page[v].answer.there => page[v].answer.last < newest + 1)
        BY <1>0 DEF UserOK
      <4>6. pushed[v] \in SUBSET Int /\ dropped[v] \subseteq gone /\ all = pushed[v] \cup {newest + 1}
        BY <1>0, <2>2, <3>1, Zenon
      <4>7. /\ page[v].from \in Int /\ page[v].after \in Int /\ page[v].answer.last \in Int
            /\ newest + 1 \in Int
        BY <1>0
      <4> HIDE DEF all
      <4>3. Covers(shown[v], all, gone, page[v].from, page[v].after)
        <5>1. Covers(shown[v], pushed[v], dropped[v], page[v].from, page[v].after)
          BY Zenon DEF UserOK
        <5> QED BY <4>2, <4>6, <4>7, <5>1, CoversLater, Zenon
      <4>4. page[v].answer.there =>
                Covers(page[v].answer.notices, all, gone, page[v].after, page[v].answer.last)
        <5> SUFFICES ASSUME page[v].answer.there
                     PROVE  Covers(page[v].answer.notices, all, gone, page[v].after, page[v].answer.last)
          OBVIOUS
        <5>1. Covers(page[v].answer.notices, pushed[v], dropped[v], page[v].after, page[v].answer.last)
          BY Zenon DEF UserOK
        <5> QED BY <4>2, <4>6, <4>7, <5>1, CoversLater, Zenon
      <4>5. page[v].after <= newest + 1 /\ (page[v].answer.there => page[v].answer.last <= newest + 1)
        BY <1>0, <4>2
      <4> QED BY <2>2, <4>1, <4>3, <4>4, <4>5, Zenon DEF UserOK
    <3>2. CASE v # u
      <4>1. queue'[v] = queue[v] /\ pushed'[v] = pushed[v] /\ dropped'[v] = dropped[v]
        BY <2>1, <3>2 DEF NoticesTypes
      <4>2. Queued(queue[v], pushed[v], dropped[v], newest + 1)
        <5>1. 1..newest \subseteq 1..(newest + 1)
          BY <1>0
        <5> QED BY <5>1, Zenon DEF UserOK, Queued
      <4>3. page[v].after <= newest + 1 /\ (page[v].answer.there => page[v].answer.last <= newest + 1)
        BY <1>0 DEF UserOK
      <4> QED BY <4>1, <4>2, <4>3, Zenon DEF UserOK
    <3> QED BY <3>1, <3>2
  <2> QED BY <2>1, <2>4, <2>5
<1>2. ASSUME NEW u \in PageUser, NEW p \in PageAs, NEW s \in Seq(Int),
             page' = [page EXCEPT ![u] = p], shown' = [shown EXCEPT ![u] = s],
             UNCHANGED <<newest, queue, pushed, dropped>>,
             UserOK(queue[u], p, s, pushed[u], dropped[u], newest)
      PROVE  NoticesInv'
  <2>1. NoticesTypes'
    BY <1>2 DEF NoticesTypes
  <2>2. ASSUME NEW v \in PageUser
        PROVE  UserOK(queue[v], page'[v], shown'[v], pushed[v], dropped[v], newest)
    <3>1. CASE v = u
      <4>1. page'[v] = p /\ shown'[v] = s
        BY <1>2, <3>1 DEF NoticesTypes
      <4> QED BY <1>2, <3>1, <4>1, Zenon
    <3>2. CASE v # u
      <4>1. page'[v] = page[v] /\ shown'[v] = shown[v]
        BY <1>2, <3>2 DEF NoticesTypes
      <4> QED BY <4>1, Zenon
    <3> QED BY <3>1, <3>2
  <2> QED BY <1>2, <2>1, <2>2
<1>3. ASSUME NEW u \in PageUser, NO!Poll(u) PROVE NoticesInv'
  <2> DEFINE a == NO!Since(u, page[u].after)
             p == [page[u] EXCEPT !.answer = a]
  <2>1. page' = [page EXCEPT ![u] = p] /\ shown' = [shown EXCEPT ![u] = shown[u]]
    BY <1>3 DEF NO!Poll, NoticesTypes
  <2>2. NO!Only(queue[u], {n \in Nat : n > page[u].after}) = Only(queue[u], {n \in Nat : n > page[u].after})
    BY Zenon DEF NO!Only, Only
  <2>3. /\ Only(queue[u], {n \in Nat : n > page[u].after}) \in Seq(Int)
        /\ Covers(Only(queue[u], {n \in Nat : n > page[u].after}), pushed[u], dropped[u],
                  page[u].after, newest)
    BY <1>0, CoversSince, Zenon DEF UserOK
  <2>4. a = [there |-> TRUE, notices |-> Only(queue[u], {n \in Nat : n > page[u].after}), last |-> newest]
    BY <2>2, Zenon DEF NO!Since
  <2> HIDE DEF a
  <2>5. p \in PageAs /\ p.from = page[u].from /\ p.after = page[u].after /\ p.answer = a
    <3>1. a \in AnswerAs
      BY <1>0, <2>3, <2>4 DEF AnswerAs
    <3>2. Answered(page[u], a, p)
      BY <1>0, <3>1, PageAnswered, Zenon
    <3> QED BY <3>2, Zenon DEF Answered
  <2>6. newest <= newest
    BY <1>0
  <2> HIDE DEF p
  <2>7. UserOK(queue[u], p, shown[u], pushed[u], dropped[u], newest)
    <3>1. a.notices = Only(queue[u], {n \in Nat : n > page[u].after}) /\ a.last = newest
      BY <2>4
    <3> QED BY <2>3, <2>5, <2>6, <3>1, Zenon DEF UserOK
  <2> QED BY <1>0, <1>2, <1>3, <2>1, <2>5, <2>7, Zenon DEF NO!Poll
<1>4. ASSUME NEW u \in PageUser, NO!Show(u) PROVE NoticesInv'
  <2> DEFINE a == page[u].answer
             p == [page[u] EXCEPT !.after = a.last, !.answer = NO!NoAnswer]
             s == shown[u] \o a.notices
  <2>1. page' = [page EXCEPT ![u] = p] /\ shown' = [shown EXCEPT ![u] = s]
    BY <1>4, Zenon DEF NO!Show, NoticesTypes
  <2>2. /\ p \in PageAs /\ p.from = page[u].from /\ p.after = a.last /\ ~p.answer.there
    <3>1. a.last \in Nat /\ NO!NoAnswer \in AnswerAs /\ page[u] \in PageAs
      BY <1>0, <1>8
    <3>2. Moved(page[u], a.last, NO!NoAnswer, p)
      BY <3>1, PageMoved, Zenon
    <3> HIDE DEF p
    <3> QED BY <1>8, <3>2, Zenon DEF Moved
  <2>3. a.there /\ Covers(a.notices, pushed[u], dropped[u], page[u].after, a.last) /\ a.last <= newest
    BY <1>4, Zenon DEF NO!Show, UserOK
  <2>4. s \in Seq(Int) /\ Covers(s, pushed[u], dropped[u], p.from, p.after)
    BY <1>0, <2>2, <2>3, CoversJoined DEF UserOK
  <2> HIDE DEF p, s
  <2>5. UserOK(queue[u], p, s, pushed[u], dropped[u], newest)
    BY <2>2, <2>3, <2>4, Zenon DEF UserOK
  <2> QED BY <1>2, <1>4, <2>1, <2>2, <2>4, <2>5, Zenon DEF NO!Show
<1>5. ASSUME NEW u \in PageUser, NO!Lost(u) PROVE NoticesInv'
  <2> DEFINE p == [page[u] EXCEPT !.answer = NO!NoAnswer]
  <2>1. page' = [page EXCEPT ![u] = p] /\ shown' = [shown EXCEPT ![u] = shown[u]]
    BY <1>5 DEF NO!Lost, NoticesTypes
  <2>2. /\ p \in PageAs /\ p.from = page[u].from /\ p.after = page[u].after /\ ~p.answer.there
    <3>1. NO!NoAnswer \in AnswerAs /\ page[u] \in PageAs
      BY <1>0, <1>8
    <3>2. Answered(page[u], NO!NoAnswer, p)
      BY <3>1, PageAnswered, Zenon
    <3> HIDE DEF p
    <3> QED BY <1>8, <3>2, Zenon DEF Answered
  <2> HIDE DEF p
  <2>3. UserOK(queue[u], p, shown[u], pushed[u], dropped[u], newest)
    BY <2>2, Zenon DEF UserOK
  <2> QED BY <1>0, <1>2, <1>5, <2>1, <2>2, <2>3, Zenon DEF NO!Lost
<1>6. ASSUME NEW u \in PageUser, NO!Open(u) PROVE NoticesInv'
  <2> DEFINE p == [from |-> newest, after |-> newest, answer |-> NO!NoAnswer]
  <2>1. p \in PageAs /\ p.from = newest /\ p.after = newest /\ ~p.answer.there /\ newest <= newest
    BY <1>0, <1>8, SMT DEF PageAs
  <2>2. Covers(<<>>, pushed[u], dropped[u], newest, newest) /\ <<>> \in Seq(Int)
    BY <1>0, CoversNothing
  <2>3. page' = [page EXCEPT ![u] = p] /\ shown' = [shown EXCEPT ![u] = <<>>]
    BY <1>6 DEF NO!Open
  <2> HIDE DEF p
  <2>4. UserOK(queue[u], p, <<>>, pushed[u], dropped[u], newest)
    BY <2>1, <2>2, Zenon DEF UserOK
  <2> QED BY <1>2, <1>6, <2>1, <2>2, <2>3, <2>4, Zenon DEF NO!Open
<1>7. CASE UNCHANGED NO!vars
  BY <1>7 DEF NO!vars, NoticesTypes
<1> QED BY <1>1, <1>3, <1>4, <1>5, <1>6, <1>7 DEF NO!Next

(* scan/mod.rs Notices.since: whatever pushes, polls and reloads do, a page *)
(* shows in order each notice that came since it was loaded and was not     *)
(* dropped unseen by the cap on its queue, and none twice.                  *)
THEOREM EachNoticeOnce == NO!Spec => []NoticesShownOnce
<1>1. NoticesInv => NoticesShownOnce
  <2> SUFFICES ASSUME NoticesInv, NEW u \in PageUser
               PROVE /\ \A i, j \in DOMAIN shown[u] : i < j => shown[u][i] < shown[u][j]
                     /\ NO!Members(shown[u]) \subseteq {n \in pushed[u] : n > page[u].from}
                     /\ {n \in pushed[u] : page[u].from < n /\ n <= page[u].after}
                            \subseteq NO!Members(shown[u]) \cup dropped[u]
    BY Zenon DEF NoticesShownOnce, NO!NoticesShownOnce
  <2>1. NO!Members(shown[u]) = Members(shown[u])
    BY Zenon DEF NO!Members, Members
  <2>2. Covers(shown[u], pushed[u], dropped[u], page[u].from, page[u].after)
    BY DEF NoticesInv, UserOK
  <2>3. \A n \in Int : page[u].from < n => n > page[u].from
    BY DEF NoticesInv, NoticesTypes, PageAs
  <2> QED BY <2>1, <2>2, <2>3, Zenon DEF Covers, Rises, Between, NoticesInv, NoticesTypes
<1> QED BY <1>1, NoticesInit, NoticesNext, PTL DEF NO!Spec

(****************************************************************************)
(* Throttle.                                                                *)
(****************************************************************************)
Window(now) == {t \in Nat : now - t < WINDOW}
LessOrEqual == {p \in Nat \X Nat : p[1] <= p[2]}

(* The failures kept, the wrong passwords tried and the hashes under way.   *)
Kept(f, w, now) ==
    /\ Ordered(f, LessOrEqual) /\ \A t \in Members(f) : t <= now
    /\ Only(f, Window(now)) = Only(w, Window(now))

ThrottleTypes == time \in Nat /\ failures \in Seq(Nat) /\ wrong \in Seq(Nat) /\ hashing \in Nat

ThrottleInv ==
    /\ ThrottleTypes
    /\ Kept(failures, wrong, time)
    /\ Len(Only(wrong, Window(time))) + hashing <= Limit + Permits - 1

(* Recent is the same filter, and what it drops was not counted.            *)
LEMMA RecentIs == ASSUME NEW times PROVE TH!Recent(times) = Only(times, Window(time))
  BY Zenon DEF TH!Recent, TH!Only, Only, Window

(* What is recent is kept of a list that is in order of time.               *)
LEMMA KeptRecent ==
    ASSUME NEW f \in Seq(Nat), NEW w \in Seq(Nat), NEW now \in Nat, Kept(f, w, now)
    PROVE  Only(f, Window(now)) \in Seq(Nat) /\ Kept(Only(f, Window(now)), w, now)
<1> DEFINE o == Only(f, Window(now))
<1>1. o \in Seq(Nat) /\ Members(o) = Members(f) \cap Window(now)
  BY OnlyMembers, Zenon
<1>2. Ordered(o, LessOrEqual)
  BY OnlyOrdered, Zenon DEF Kept
<1>3. Only(o, Window(now)) = Only(f, Window(now))
  <2>1. Window(now) \in SUBSET Window(now)
    OBVIOUS
  <2> QED BY <2>1, OnlyTwice, SMT
<1> HIDE DEF o
<1>4. Kept(o, w, now)
  BY <1>1, <1>2, <1>3, Zenon DEF Kept
<1> QED BY <1>1, <1>4, Zenon DEF o

(* A sweep drops nothing that is within the window.                         *)
LEMMA KeptSwept ==
    ASSUME NEW f \in Seq(Nat), NEW w \in Seq(Nat), NEW now \in Nat, Kept(f, w, now),
           f # <<>> => ~(now - f[Len(f)] < WINDOW)
    PROVE  Kept(<<>>, w, now)
<1>1. ASSUME NEW i \in DOMAIN f PROVE f[i] \notin Window(now)
  <2>1. f # <<>> /\ Len(f) \in DOMAIN f /\ (i < Len(f) \/ i = Len(f)) /\ f[i] \in Nat /\ f[Len(f)] \in Nat
    OBVIOUS
  <2>2. i < Len(f) => <<f[i], f[Len(f)]>> \in LessOrEqual
    BY <2>1, Zenon DEF Kept, Ordered
  <2>3. f[i] <= f[Len(f)]
    BY <2>1, <2>2 DEF LessOrEqual
  <2> QED BY <2>1, <2>3, ThrottleAssumption DEF Window
<1>2. Only(f, Window(now)) \in Seq(Nat) /\ Members(Only(f, Window(now))) = {}
  <2>1. Members(f) \cap Window(now) = {}
    BY <1>1, Zenon DEF Members
  <2> QED BY <2>1, OnlyMembers, Zenon
<1>3. Only(f, Window(now)) = <<>>
  <2> DEFINE o == Only(f, Window(now))
  <2>1. DOMAIN o = {}
    BY <1>2, Zenon DEF Members
  <2>2. o \in Seq(Nat)
    BY <1>2
  <2> HIDE DEF o
  <2>3. o = <<>>
    BY <2>1, <2>2
  <2> QED BY <2>3 DEF o
<1>4. Ordered(<<>>, LessOrEqual) /\ Members(<<>>) = {}
  BY DEF Ordered, Members
<1> QED BY <1>3, <1>4, OnlyEmpty, Zenon DEF Kept

(* Another failure.                                                         *)
LEMMA KeptAppend ==
    ASSUME NEW f \in Seq(Nat), NEW w \in Seq(Nat), NEW now \in Nat, Kept(f, w, now)
    PROVE  Kept(Append(f, now), Append(w, now), now)
<1>1. Members(Append(f, now)) = Members(f) \cup {now}
  BY MembersAppend, Zenon
<1>2. \A t \in Members(f) : <<t, now>> \in LessOrEqual
  <2>1. \A t \in Members(f) : t \in Nat /\ t <= now
    BY DEF Members, Kept
  <2> QED BY <2>1 DEF LessOrEqual
<1>3. Ordered(Append(f, now), LessOrEqual)
  BY <1>2, OrderedAppend, Zenon DEF Kept
<1>4. Only(Append(f, now), Window(now)) = Only(Append(w, now), Window(now))
  <2>1. Only(f, Window(now)) = Only(w, Window(now))
    BY Zenon DEF Kept
  <2>2. CASE now \in Window(now)
    <3>1. Only(Append(f, now), Window(now)) = Append(Only(f, Window(now)), now)
      BY <2>2, OnlyAppend, SMT
    <3>2. Only(Append(w, now), Window(now)) = Append(Only(w, Window(now)), now)
      BY <2>2, OnlyAppend, SMT
    <3> QED BY <2>1, <3>1, <3>2, Zenon
  <2>3. CASE now \notin Window(now)
    <3>1. Only(Append(f, now), Window(now)) = Only(f, Window(now))
      BY <2>3, OnlyAppend, SMT
    <3>2. Only(Append(w, now), Window(now)) = Only(w, Window(now))
      BY <2>3, OnlyAppend, SMT
    <3> QED BY <2>1, <3>1, <3>2, Zenon
  <2> QED BY <2>2, <2>3
<1>5. now <= now
  OBVIOUS
<1> QED BY <1>1, <1>3, <1>4, <1>5, Zenon DEF Kept

(* A later time.                                                            *)
LEMMA KeptLater ==
    ASSUME NEW f \in Seq(Nat), NEW w \in Seq(Nat), NEW now \in Nat, Kept(f, w, now)
    PROVE  /\ Kept(f, w, now + 1)
           /\ Len(Only(w, Window(now + 1))) <= Len(Only(w, Window(now)))
<1> DEFINE later == Window(now + 1)
<1>1. later \in SUBSET Window(now)
  BY ThrottleAssumption DEF Window
<1>2. \A t \in Members(f) : t <= now + 1
  <2>1. \A t \in Members(f) : t \in Nat /\ t <= now
    BY DEF Members, Kept
  <2> QED BY <2>1
<1>3. Only(f, later) = Only(w, later)
  <2> HIDE DEF later
  <2>1. Only(Only(f, Window(now)), later) = Only(f, later)
    BY <1>1, OnlyTwice, SMT
  <2>2. Only(Only(w, Window(now)), later) = Only(w, later)
    BY <1>1, OnlyTwice, SMT
  <2> QED BY <2>1, <2>2, Zenon DEF Kept
<1>4. Len(Only(w, later)) <= Len(Only(w, Window(now)))
  <2> HIDE DEF later
  <2> DEFINE o == Only(w, Window(now))
  <2>1. Only(o, later) = Only(w, later)
    BY <1>1, OnlyTwice, SMT
  <2>2. o \in Seq(Nat)
    BY OnlyMembers, Zenon
  <2> HIDE DEF o
  <2>3. Len(Only(o, later)) <= Len(o)
    BY <2>2, OnlyShorter, Zenon
  <2> QED BY <2>1, <2>3, Zenon DEF o
<1> QED BY <1>2, <1>3, <1>4, Zenon DEF Kept

(* No attempt yet.                                                          *)
LEMMA ThrottleInit == TH!Init => ThrottleInv
<1> SUFFICES ASSUME TH!Init PROVE ThrottleInv
  OBVIOUS
<1>1. <<>> \in Seq(Nat) /\ Len(<<>>) = 0 /\ Members(<<>>) = {} /\ Ordered(<<>>, LessOrEqual)
  BY DEF Members, Ordered
<1>2. Kept(<<>>, <<>>, 0) /\ Only(<<>>, Window(0)) = <<>>
  BY <1>1, OnlyEmpty, Zenon DEF Kept
<1> QED BY <1>1, <1>2, ThrottleAssumption DEF TH!Init, ThrottleInv, ThrottleTypes

(* Every step of an attempt, and the clock, keeps it.                       *)
LEMMA ThrottleNext == ThrottleInv /\ [TH!Next]_TH!vars => ThrottleInv'
<1> SUFFICES ASSUME ThrottleInv, [TH!Next]_TH!vars PROVE ThrottleInv'
  OBVIOUS
<1> DEFINE tried == Only(wrong, Window(time))
<1>0. /\ time \in Nat /\ failures \in Seq(Nat) /\ wrong \in Seq(Nat) /\ hashing \in Nat
      /\ Limit \in Nat \ {0} /\ Permits \in Nat
      /\ Kept(failures, wrong, time) /\ tried \in Seq(Nat) /\ Len(tried) \in Nat
      /\ Len(tried) + hashing <= Limit + Permits - 1
  BY ThrottleAssumption, OnlyMembers DEF ThrottleInv, ThrottleTypes
<1>1. /\ TH!Recent(failures) \in Seq(Nat) /\ Kept(TH!Recent(failures), wrong, time)
      /\ Len(TH!Recent(failures)) = Len(tried)
  <2>1. TH!Recent(failures) = Only(failures, Window(time))
    BY RecentIs, Zenon
  <2>2. Only(failures, Window(time)) = tried
    BY <1>0, Zenon DEF Kept
  <2> QED BY <1>0, <2>1, <2>2, KeptRecent, Zenon
<1> HIDE DEF tried
<1>2. ASSUME NEW a, TH!AskLocal(a) PROVE ThrottleInv'
  BY <1>0, <1>1, <1>2 DEF TH!AskLocal, ThrottleInv, ThrottleTypes, tried
<1>3. ASSUME NEW a, TH!GetPermit(a) PROVE ThrottleInv'
  <2>1. /\ failures' = TH!Recent(failures) /\ time' = time /\ wrong' = wrong /\ hashing < Permits
        /\ hashing' = IF TH!Blocked THEN hashing ELSE hashing + 1
    BY <1>3 DEF TH!GetPermit
  <2>2. hashing' \in Nat /\ Len(tried) + hashing' <= Limit + Permits - 1
    BY <1>0, <1>1, <2>1 DEF TH!Blocked
  <2> QED BY <1>0, <1>1, <2>1, <2>2 DEF ThrottleInv, ThrottleTypes, tried
<1>4. ASSUME TH!HashWrong PROVE ThrottleInv'
  <2>1. /\ failures' = Append(TH!Swept(failures), time) /\ time' = time /\ wrong' = Append(wrong, time)
        /\ hashing > 0 /\ hashing' = hashing - 1
    BY <1>4 DEF TH!HashWrong
  <2>2. TH!Swept(failures) \in Seq(Nat) /\ Kept(TH!Swept(failures), wrong, time)
    BY <1>0, KeptSwept DEF TH!Swept
  <2>3. Kept(failures', wrong', time)
    BY <1>0, <2>1, <2>2, KeptAppend, Zenon
  <2>4. failures' \in Seq(Nat) /\ wrong' \in Seq(Nat) /\ hashing' \in Nat
    BY <1>0, <2>1, <2>2
  <2>5. Len(Only(wrong', Window(time))) <= Len(tried) + 1 /\ Len(Only(wrong', Window(time))) \in Nat
    <3>1. Only(Append(wrong, time), Window(time)) \in {Append(tried, time), tried}
      <4>1. CASE time \in Window(time)
        BY <1>0, <4>1, OnlyAppend, SMT DEF tried
      <4>2. CASE time \notin Window(time)
        BY <1>0, <4>2, OnlyAppend, SMT DEF tried
      <4> QED BY <4>1, <4>2
    <3>2. Len(Append(tried, time)) = Len(tried) + 1
      BY <1>0
    <3> QED BY <1>0, <2>1, <3>1, <3>2
  <2>6. Len(Only(wrong', Window(time))) + hashing' <= Limit + Permits - 1
    BY <1>0, <2>1, <2>5
  <2> QED BY <1>0, <2>1, <2>3, <2>4, <2>6 DEF ThrottleInv, ThrottleTypes
<1>5. ASSUME TH!HashRight PROVE ThrottleInv'
  <2>1. failures' = <<>> /\ time' = time /\ wrong' = <<>> /\ hashing > 0 /\ hashing' = hashing - 1
    BY <1>5 DEF TH!HashRight
  <2>2. <<>> \in Seq(Nat) /\ Len(<<>>) = 0 /\ Members(<<>>) = {} /\ Ordered(<<>>, LessOrEqual)
    BY DEF Members, Ordered
  <2>3. Kept(<<>>, <<>>, time) /\ Only(<<>>, Window(time)) = <<>>
    BY <2>2, OnlyEmpty, Zenon DEF Kept
  <2>4. hashing' \in Nat /\ 0 + hashing' <= Limit + Permits - 1
    BY <1>0, <2>1
  <2> QED BY <1>0, <2>1, <2>2, <2>3, <2>4 DEF ThrottleInv, ThrottleTypes
<1>6. ASSUME TH!Pass PROVE ThrottleInv'
  <2>1. time' = time + 1 /\ UNCHANGED <<failures, wrong, hashing>>
    BY <1>6 DEF TH!Pass
  <2> DEFINE later == Only(wrong, Window(time + 1))
  <2>2. Kept(failures, wrong, time + 1) /\ Len(later) <= Len(tried)
    BY <1>0, KeptLater, Zenon DEF tried
  <2>3. Len(later) \in Nat
    <3>1. later \in Seq(Nat)
      BY <1>0, OnlyMembers, Zenon
    <3> QED BY <3>1
  <2> HIDE DEF later
  <2>4. Len(later) + hashing <= Limit + Permits - 1
    BY <1>0, <2>2, <2>3
  <2> QED BY <1>0, <2>1, <2>2, <2>4 DEF ThrottleInv, ThrottleTypes, later
<1>7. ASSUME UNCHANGED <<time, failures, wrong, hashing>> PROVE ThrottleInv'
  BY <1>0, <1>7 DEF ThrottleInv, ThrottleTypes
<1>8. ASSUME NEW a, TH!GiveUp(a) \/ TH!Take(a) \/ TH!BindWrong(a) \/ TH!BindOther(a)
      PROVE  UNCHANGED <<time, failures, wrong, hashing>>
  BY <1>8 DEF TH!GiveUp, TH!Take, TH!BindWrong, TH!BindOther
<1> QED BY <1>2, <1>3, <1>4, <1>5, <1>6, <1>7, <1>8 DEF TH!Next, TH!vars

(* auth.rs Throttle with hash_permits: for any limit, window and number of  *)
(* permits, however many attempts run at once, the local passwords tried    *)
(* within a window are at most the limit and the hashes that run at once.   *)
THEOREM LocalGuessesAreBounded == TH!Spec => []LocalGuessesBounded
<1>1. ThrottleInv => LocalGuessesBounded
  <2> SUFFICES ASSUME ThrottleInv PROVE LocalGuessesBounded
    OBVIOUS
  <2>1. TH!InWindow(wrong) = Len(Only(wrong, Window(time)))
    BY Zenon DEF TH!InWindow, TH!Only, Only, Window
  <2> QED BY <2>1, Zenon DEF ThrottleInv, LocalGuessesBounded, TH!LocalGuessesBounded
<1> QED BY <1>1, ThrottleInit, ThrottleNext, PTL DEF TH!Spec

(****************************************************************************)
(* Chunks.                                                                  *)
(****************************************************************************)
Unit == CH!Chunk \cup CH!Others

(* Size and Joined, one element at a time.                                  *)
LEMMA SizeAppend ==
    ASSUME NEW s \in Seq(CH!Chunk), NEW c \in CH!Chunk
    PROVE  CH!Size(s) \in Nat /\ CH!Size(Append(s, c)) = CH!Size(s) + c.size
<1> DEFINE step == [p \in Nat \X CH!Chunk |-> p[1] + p[2].size]
<1>1. \A r : CH!Size(r) = Over(r, 0, step)
  BY Zenon DEF CH!Size, CH!Over, Over
<1>2. step \in [Nat \X CH!Chunk -> Nat]
  <2>1. \A d \in CH!Chunk : d.size \in Nat
    BY ChunksAssumption DEF CH!Chunk
  <2> QED BY <2>1
<1>3. \A n \in Nat : step[<<n, c>>] = n + c.size
  OBVIOUS
<1> HIDE DEF step
<1>4. Over(s, 0, step) \in Nat /\ OverStep(s, c, 0, step)
  <2>1. 0 \in Nat
    OBVIOUS
  <2> QED BY <1>2, <2>1, OverAppend, Zenon
<1> QED BY <1>1, <1>3, <1>4, Zenon DEF OverStep

(* One more list joined to the others.                                      *)
LEMMA JoinedAppend ==
    ASSUME NEW ws \in Seq(Seq(CH!Chunk)), NEW w \in Seq(CH!Chunk)
    PROVE  /\ CH!Joined(ws) \in Seq(CH!Chunk) /\ CH!Joined(Append(ws, w)) = CH!Joined(ws) \o w
           /\ CH!Joined(<<>>) = <<>>
<1> DEFINE step == [p \in Seq(CH!Chunk) \X Seq(CH!Chunk) |-> p[1] \o p[2]]
<1>1. \A r : CH!Joined(r) = Over(r, <<>>, step)
  BY Zenon DEF CH!Joined, CH!Over, Over
<1>2. step \in [Seq(CH!Chunk) \X Seq(CH!Chunk) -> Seq(CH!Chunk)]
  OBVIOUS
<1>3. \A r \in Seq(CH!Chunk) : step[<<r, w>>] = r \o w
  BY Zenon
<1> HIDE DEF step
<1>4. /\ Over(ws, <<>>, step) \in Seq(CH!Chunk)
      /\ OverStep(ws, w, <<>>, step)
  <2>1. <<>> \in Seq(CH!Chunk)
    OBVIOUS
  <2> QED BY <1>2, <2>1, OverAppend, Zenon
<1> QED BY <1>1, <1>3, <1>4, OverEmpty, Zenon DEF OverStep

(* What is held is the start of a PDU; what was handed on are whole ones.   *)
Held(us, len) ==
    /\ \A j \in DOMAIN us : us[j].first = (j = 1) /\ ~us[j].last
    /\ us # <<>> => us[1].length = len

WholePdu(w) ==
    /\ \A j \in DOMAIN w : w[j].first = (j = 1) /\ w[j].last = (j = Len(w))
    /\ CH!Size(w) = w[1].length

ChunksTypes ==
    units \in Seq(CH!Chunk) /\ wholes \in Seq(Seq(CH!Chunk)) /\ read \in Seq(Unit) /\ passed \in Seq(Unit)

ChunksInv ==
    /\ ChunksTypes
    /\ Held(units, length)
    /\ \A i \in DOMAIN wholes : WholePdu(wholes[i])
    /\ CH!Joined(wholes) \o units = Only(read, CH!Chunk)
    /\ passed = Only(read, CH!Others)

(* A chunk that is in step: the PDU so far with it behind.                  *)
LEMMA InStep ==
    ASSUME units \in Seq(CH!Chunk), Held(units, length), NEW c \in CH!Chunk, ~CH!OutOfStep(c)
    PROVE  LET longer == Append(units, c)
               len == IF c.first THEN c.length ELSE length
           IN  /\ longer \in Seq(CH!Chunk)
               /\ ~c.last => Held(longer, len)
               /\ c.last => WholePdu(longer)
<1> DEFINE longer == Append(units, c)
           len == IF c.first THEN c.length ELSE length
           N == Len(units) + 1
<1>1. longer \in Seq(CH!Chunk) /\ Len(longer) = N /\ N \in Nat /\ DOMAIN longer = 1..N
  OBVIOUS
<1>2. longer[N] = c /\ \A j \in 1..N : j # N => j \in DOMAIN units /\ longer[j] = units[j]
  OBVIOUS
<1>3. c.first \in BOOLEAN /\ c.last \in BOOLEAN
  BY DEF CH!Chunk
<1>4. c.first <=> units = <<>>
  BY <1>3, Zenon DEF CH!OutOfStep
<1>5. units = <<>> <=> N = 1
  OBVIOUS
<1> HIDE DEF longer, N
<1>6. \A j \in 1..N : longer[j].first = (j = 1)
  <2> SUFFICES ASSUME NEW j \in 1..N PROVE longer[j].first = (j = 1)
    OBVIOUS
  <2>1. CASE j = N
    BY <1>2, <1>3, <1>4, <1>5, <2>1
  <2>2. CASE j # N
    BY <1>2, <2>2, Zenon DEF Held
  <2> QED BY <2>1, <2>2
<1>7. longer[1].length = len
  <2>1. CASE c.first
    <3>1. longer[1] = c
      BY <1>2, <1>4, <1>5, <2>1, Zenon
    <3> QED BY <2>1, <3>1
  <2>2. CASE ~c.first
    <3>1. N # 1 /\ 1 \in 1..N
      <4>1. N # 1
        BY <1>4, <1>5, <2>2, Zenon
      <4>2. 1 \in 1..N
        BY <1>1 DEF N
      <4> QED BY <4>1, <4>2
    <3>2. longer[1] = units[1] /\ units[1].length = length
      BY <1>2, <1>4, <2>2, <3>1, Zenon DEF Held
    <3> QED BY <2>2, <3>2
  <2> QED BY <2>1, <2>2
<1>8. ASSUME ~c.last PROVE Held(longer, len)
  <2>1. \A j \in 1..N : ~longer[j].last
    BY <1>2, <1>8, Zenon DEF Held
  <2> QED BY <1>1, <1>6, <1>7, <2>1, Zenon DEF Held
<1>9. ASSUME c.last PROVE WholePdu(longer)
  <2>1. \A j \in 1..N : longer[j].last = (j = N)
    <3> SUFFICES ASSUME NEW j \in 1..N PROVE longer[j].last = (j = N)
      OBVIOUS
    <3>1. CASE j = N
      BY <1>2, <1>3, <1>9, <3>1, Zenon
    <3>2. CASE j # N
      <4>1. j \in DOMAIN units /\ longer[j] = units[j] /\ ~units[j].last
        BY <1>2, <3>2, Zenon DEF Held
      <4>2. units[j] \in CH!Chunk
        BY <4>1
      <4>3. units[j].last \in BOOLEAN
        BY <4>2 DEF CH!Chunk
      <4>4. units[j].last = FALSE
        BY <4>1, <4>3
      <4> QED BY <3>2, <4>1, <4>4, Zenon
    <3> QED BY <3>1, <3>2
  <2>2. CH!Size(longer) = len
    <3>1. CH!Size(longer) = CH!Size(units) + c.size
      BY SizeAppend, Zenon DEF longer
    <3>2. CH!Size(units) + c.size = len
      BY <1>9, Zenon DEF CH!OutOfStep
    <3> QED BY <3>1, <3>2, Zenon
  <2> QED BY <1>1, <1>6, <1>7, <2>1, <2>2, Zenon DEF WholePdu
<1> QED BY <1>1, <1>8, <1>9, Zenon DEF longer

(* A unit read is a chunk or another, and the lists of each grow with it.   *)
LEMMA ReadChunk ==
    ASSUME NEW r \in Seq(Unit), NEW c \in CH!Chunk
    PROVE  /\ Append(r, c) \in Seq(Unit) /\ Only(r, CH!Chunk) \in Seq(Unit)
           /\ Only(Append(r, c), CH!Chunk) = Append(Only(r, CH!Chunk), c)
           /\ Only(Append(r, c), CH!Others) = Only(r, CH!Others)
<1>1. c \in Unit /\ c \notin CH!Others
  BY DEF Unit, CH!Others, CH!Other, CH!Chunk
<1>2. Append(r, c) \in Seq(Unit)
  BY <1>1
<1> QED BY <1>1, <1>2, OnlyAppend, SMT

(* A PDU that is no chunk of the clipboard passes.                          *)
LEMMA ReadOther ==
    ASSUME NEW r \in Seq(Unit), NEW u \in CH!Others
    PROVE  /\ Append(r, u) \in Seq(Unit) /\ Only(r, CH!Others) \in Seq(Unit)
           /\ Only(Append(r, u), CH!Chunk) = Only(r, CH!Chunk)
           /\ Only(Append(r, u), CH!Others) = Append(Only(r, CH!Others), u)
<1>1. u \in Unit /\ u \notin CH!Chunk
  BY DEF Unit, CH!Others, CH!Other, CH!Chunk
<1>2. Append(r, u) \in Seq(Unit)
  BY <1>1
<1> QED BY <1>1, <1>2, OnlyAppend, SMT

(* Nothing read yet.                                                        *)
LEMMA ChunksInit == CH!Init => ChunksInv
<1> SUFFICES ASSUME CH!Init PROVE ChunksInv
  OBVIOUS
<1>1. <<>> \in Seq(CH!Chunk) /\ <<>> \in Seq(Seq(CH!Chunk)) /\ <<>> \in Seq(Unit) /\ DOMAIN <<>> = {}
  OBVIOUS
<1>2. CH!Joined(<<>>) \o <<>> = <<>>
  <2>1. CH!Joined(<<>>) = <<>>
    BY <1>1, JoinedAppend, Zenon
  <2> QED BY <2>1
<1>3. Held(<<>>, 0)
  BY <1>1, Zenon DEF Held
<1> QED BY <1>1, <1>2, <1>3, OnlyEmpty, Zenon DEF CH!Init, ChunksInv, ChunksTypes

(* Every PDU read keeps it.                                                 *)
LEMMA ChunksNext == ChunksInv /\ [CH!Next]_CH!vars => ChunksInv'
<1> SUFFICES ASSUME ChunksInv, [CH!Next]_CH!vars PROVE ChunksInv'
  OBVIOUS
<1> DEFINE chunks == Only(read, CH!Chunk)
<1>0. /\ units \in Seq(CH!Chunk) /\ wholes \in Seq(Seq(CH!Chunk)) /\ read \in Seq(Unit) /\ passed \in Seq(Unit)
      /\ Held(units, length) /\ CH!Joined(wholes) \o units = chunks
      /\ passed = Only(read, CH!Others) /\ \A i \in DOMAIN wholes : WholePdu(wholes[i])
  BY Zenon DEF ChunksInv, ChunksTypes
<1> HIDE DEF chunks
<1>1. ASSUME NEW u \in CH!Others, CH!Reads(u), passed' = Append(passed, u), UNCHANGED <<units, length, wholes>>
      PROVE  ChunksInv'
  <2>1. read' = Append(read, u)
    BY <1>1 DEF CH!Reads
  <2>2. read' \in Seq(Unit) /\ passed' \in Seq(Unit)
    BY <1>0, <1>1, <2>1, ReadOther DEF Unit
  <2>3. Only(read', CH!Chunk) = chunks /\ passed' = Only(read', CH!Others)
    BY <1>0, <1>1, <2>1, ReadOther, Zenon DEF chunks
  <2>4. UNCHANGED CH!Joined(wholes)
    BY <1>1
  <2> QED BY <1>0, <1>1, <2>2, <2>3, <2>4 DEF ChunksInv, ChunksTypes
<1>2. CASE CH!ConnectInitial
  BY <1>1, <1>2 DEF CH!ConnectInitial, CH!Others
<1>3. CASE CH!ConnectResponse
  BY <1>1, <1>3 DEF CH!ConnectResponse, CH!Others
<1>4. CASE CH!OtherChannel
  BY <1>1, <1>4 DEF CH!OtherChannel, CH!Others
<1>5. ASSUME NEW c \in CH!Chunk, CH!Reads(c), passed' = passed
      PROVE  /\ read' \in Seq(Unit) /\ Only(read', CH!Chunk) = Append(chunks, c)
             /\ passed' = Only(read', CH!Others)
  BY <1>0, <1>5, ReadChunk, Zenon DEF CH!Reads, chunks
<1>6. ASSUME NEW c \in CH!Chunk, CH!PushHeld(c) PROVE ChunksInv'
  <2>1. /\ CH!Reads(c) /\ passed' = passed /\ wholes' = wholes /\ units' = Append(units, c)
        /\ length' = (IF c.first THEN c.length ELSE length) /\ ~CH!OutOfStep(c) /\ ~c.last
    BY <1>6 DEF CH!PushHeld
  <2>2. units' \in Seq(CH!Chunk) /\ Held(units', length')
    BY <1>0, <2>1, InStep, Zenon
  <2>3. CH!Joined(wholes) \o units' = Append(chunks, c)
    <3> DEFINE j == CH!Joined(wholes)
    <3>1. j \in Seq(CH!Chunk) /\ units \in Seq(CH!Chunk)
      BY <1>0, <2>2, JoinedAppend, Zenon
    <3> HIDE DEF j
    <3>2. j \o Append(units, c) = Append(j \o units, c)
      BY <3>1
    <3> QED BY <1>0, <2>1, <3>2, Zenon DEF j
  <2>4. UNCHANGED CH!Joined(wholes)
    BY <2>1
  <2> QED BY <1>0, <1>5, <2>1, <2>2, <2>3, <2>4 DEF ChunksInv, ChunksTypes
<1>7. ASSUME NEW c \in CH!Chunk, CH!PushWhole(c) PROVE ChunksInv'
  <2> DEFINE w == Append(units, c)
  <2>1. /\ CH!Reads(c) /\ passed' = passed /\ wholes' = Append(wholes, w) /\ units' = <<>>
        /\ ~CH!OutOfStep(c) /\ c.last
    BY <1>7 DEF CH!PushWhole
  <2>2. w \in Seq(CH!Chunk) /\ WholePdu(w)
    BY <1>0, <2>1, InStep, Zenon
  <2>3. Append(CH!Joined(wholes) \o units, c) = CH!Joined(wholes) \o w
        /\ (CH!Joined(wholes) \o w) \o <<>> = CH!Joined(wholes) \o w
    <3> DEFINE j == CH!Joined(wholes)
    <3>1. j \in Seq(CH!Chunk) /\ units \in Seq(CH!Chunk)
      BY <1>0, <2>2, JoinedAppend, Zenon
    <3> HIDE DEF j
    <3>2. j \o Append(units, c) = Append(j \o units, c) /\ (j \o Append(units, c)) \o <<>> = j \o Append(units, c)
      BY <3>1
    <3> QED BY <3>2, Zenon DEF j
  <2> HIDE DEF w
  <2>4. CH!Joined(Append(wholes, w)) = CH!Joined(wholes) \o w
    BY <1>0, <2>2, JoinedAppend, Zenon
  <2>5. CH!Joined(Append(wholes, w)) \o <<>> = Append(chunks, c)
    BY <1>0, <2>3, <2>4, Zenon
  <2>6. Append(wholes, w) \in Seq(Seq(CH!Chunk)) /\ \A i \in DOMAIN Append(wholes, w) : WholePdu(Append(wholes, w)[i])
    BY <1>0, <2>2
  <2>7. CH!Joined(wholes)' = CH!Joined(Append(wholes, w))
    BY <2>1
  <2>8. Held(<<>>, length') /\ <<>> \in Seq(CH!Chunk)
    BY DEF Held
  <2> QED BY <1>0, <1>5, <2>1, <2>5, <2>6, <2>7, <2>8, Zenon DEF ChunksInv, ChunksTypes
<1>8. ASSUME UNCHANGED <<units, length, wholes, read, passed>> PROVE ChunksInv'
  <2>1. UNCHANGED CH!Joined(wholes)
    BY <1>8
  <2> QED BY <1>8, <2>1 DEF ChunksInv, ChunksTypes
<1>9. ASSUME NEW c, CH!PushRefused(c) PROVE UNCHANGED <<units, length, wholes, read, passed>>
  BY <1>9 DEF CH!PushRefused
<1> QED BY <1>2, <1>3, <1>4, <1>6, <1>7, <1>8, <1>9 DEF CH!Next, CH!vars

(* scan/route.rs Dechunker.push: for any cap and any chunks, what is handed *)
(* on as one PDU is the chunks from a first to its last, as long as         *)
(* announced, and until a refusal nothing read is lost, repeated or out of  *)
(* order.                                                                   *)
THEOREM AWholeIsOnePdu == CH!Spec => []WholeIsOnePdu
<1>1. ChunksInv => WholeIsOnePdu
  <2>1. \A r, S : CH!Only(r, S) = Only(r, S)
    BY Zenon DEF CH!Only, Only
  <2> QED BY <2>1, Zenon DEF ChunksInv, WholePdu, WholeIsOnePdu, CH!WholeIsOnePdu
<1> QED BY <1>1, ChunksInit, ChunksNext, PTL DEF CH!Spec

(****************************************************************************)
(* Signatures.                                                              *)
(****************************************************************************)
ShapeAs == [children : Seq(SG!Kinds.children), info : Seq(SG!Kinds.info),
            reference : Seq(SG!Kinds.reference), transforms : Seq(SG!Kinds.transforms)]
SignatureAs == [shape : ShapeAs, parent : {"Response", "Assertion", "elsewhere"},
                signer : Members(Pinned) \cup {OtherCert}, covers : BOOLEAN]

(* A list is empty when it has no positions.                                *)
LEMMA EmptyList == ASSUME NEW X, NEW s \in Seq(X) PROVE s = <<>> <=> DOMAIN s = {}
  OBVIOUS

(* The counts the code keeps.                                               *)
LEMMA CountIs == ASSUME NEW s, NEW kind PROVE SG!Count(s, kind) = Len(Only(s, {kind}))
  BY Zenon DEF SG!Count, SG!Only, Only

KindAt(s, kind, j) == \A k \in DOMAIN s : s[k] = kind <=> k = j
CountsKind(s, kind) ==
    /\ SG!Count(s, kind) = 1 <=> \E j \in DOMAIN s : KindAt(s, kind, j)
    /\ SG!Count(s, kind) = 0 <=> kind \notin Members(s)

(* Count is one exactly when there is one position.                         *)
LEMMA CountOne == ASSUME NEW X, NEW s \in Seq(X), NEW kind PROVE CountsKind(s, kind)
<1> DEFINE one == {kind}
<1>1. SG!Count(s, kind) = Len(Only(s, one))
  BY CountIs, Zenon
<1>2. \A k \in DOMAIN s : s[k] \in one <=> s[k] = kind
  OBVIOUS
<1> HIDE DEF one
<1>3. Counts(s, one)
  BY OnlyCounts, Zenon
<1>4. \A j : OnlyAt(s, one, j) <=> KindAt(s, kind, j)
  BY <1>2 DEF OnlyAt, KindAt
<1>5. NoneIn(s, one) <=> kind \notin Members(s)
  BY <1>2 DEF NoneIn, Members
<1> QED BY <1>1, <1>3, <1>4, <1>5, Zenon DEF Counts, OneIn, CountsKind

(* One of each of three kinds and nothing else, in any order.               *)
Each(s, x, y, z, w) ==
    (w \notin Members(s) /\ \A k \in {x, y, z} : SG!Count(s, k) = 1) <=> SG!Permuted(s, <<x, y, z>>)

(* Four children, one of each kind, are what the shape asks for.            *)
LEMMA OneOfEach ==
    ASSUME NEW x, NEW y, NEW z, NEW w, x # y, x # z, y # z, w \notin {x, y, z},
           NEW s \in Seq({x, y, z, w})
    PROVE  Each(s, x, y, z, w)
<1> DEFINE t == <<x, y, z>>
           X == {x, y, z, w}
<1>1. t \in Seq(X) /\ Len(t) = 3 /\ DOMAIN t = {1, 2, 3} /\ t[1] = x /\ t[2] = y /\ t[3] = z
  OBVIOUS
<1> HIDE DEF t
<1>2. Members(t) = {x, y, z}
  BY <1>1, Zenon DEF Members
<1>3. \A k \in {x, y, z} : SG!Count(t, k) = 1
  <2>1. \A k \in {x, y, z} : \E j \in DOMAIN t : KindAt(t, k, j)
    BY <1>1 DEF KindAt
  <2>2. \A k : CountsKind(t, k)
    BY <1>1, CountOne, Zenon
  <2> QED BY <2>1, <2>2, Zenon DEF CountsKind
<1>4. SG!Count(t, w) = 0
  <2>1. CountsKind(t, w)
    BY <1>1, CountOne, Zenon
  <2> QED BY <1>2, <2>1, Zenon DEF CountsKind
<1>5. SG!Members(s) = Members(s) /\ SG!Members(t) = Members(t)
  BY Zenon DEF SG!Members, Members
<1>6. Members(s) \subseteq X
  BY DEF Members
<1>7. ASSUME w \notin Members(s), \A k \in {x, y, z} : SG!Count(s, k) = 1 PROVE SG!Permuted(s, t)
  <2>0. \A k : CountsKind(s, k)
    BY CountOne, Zenon
  <2>1. PICK jx \in DOMAIN s : KindAt(s, x, jx)
    BY <1>7, <2>0, Zenon DEF CountsKind
  <2>2. PICK jy \in DOMAIN s : KindAt(s, y, jy)
    BY <1>7, <2>0, Zenon DEF CountsKind
  <2>3. PICK jz \in DOMAIN s : KindAt(s, z, jz)
    BY <1>7, <2>0, Zenon DEF CountsKind
  <2>4. jx # jy /\ jx # jz /\ jy # jz
    BY <2>1, <2>2, <2>3, Zenon DEF KindAt
  <2>5. \A i \in DOMAIN s : s[i] \in {x, y, z}
    <3>1. \A i \in DOMAIN s : s[i] \in Members(s)
      BY Zenon DEF Members
    <3> QED BY <1>6, <1>7, <3>1, Zenon
  <2>6. DOMAIN s = {jx, jy, jz}
    BY <2>1, <2>2, <2>3, <2>5, Zenon DEF KindAt
  <2>7. Len(s) = 3
    <3>1. DOMAIN s = 1..Len(s) /\ Len(s) \in Nat
      OBVIOUS
    <3>2. ASSUME NEW N \in Nat, NEW a \in 1..N, NEW b \in 1..N, NEW c \in 1..N, a # b, a # c, b # c,
                 \A i \in 1..N : i = a \/ i = b \/ i = c
          PROVE  N = 3
      <4>1. N > 2
        BY <3>2
      <4>2. N < 4
        <5> SUFFICES ASSUME N >= 4 PROVE FALSE
          BY <3>2
        <5>1. 1 \in 1..N /\ 2 \in 1..N /\ 3 \in 1..N /\ 4 \in 1..N
          BY <3>2
        <5>2. /\ 1 = a \/ 1 = b \/ 1 = c
              /\ 2 = a \/ 2 = b \/ 2 = c
              /\ 3 = a \/ 3 = b \/ 3 = c
              /\ 4 = a \/ 4 = b \/ 4 = c
          BY <3>2, <5>1, Zenon
        <5> QED BY <5>2, SMT
      <4> QED BY <3>2, <4>1, <4>2
    <3>3. \A i \in 1..Len(s) : i = jx \/ i = jy \/ i = jz
      BY <2>6, <3>1, Zenon
    <3> QED BY <2>4, <3>1, <3>2, <3>3, Zenon
  <2>8. \A k \in Members(s) \cup Members(t) : SG!Count(s, k) = SG!Count(t, k)
    BY <1>2, <1>3, <1>6, <1>7, Zenon
  <2> QED BY <1>1, <1>5, <2>7, <2>8, Zenon DEF SG!Permuted
<1>8. ASSUME SG!Permuted(s, t) PROVE w \notin Members(s) /\ \A k \in {x, y, z} : SG!Count(s, k) = 1
  <2>1. \A k \in {x, y, z} : SG!Count(s, k) = 1
    BY <1>2, <1>3, <1>5, <1>8, Zenon DEF SG!Permuted
  <2>2. w \in Members(s) => SG!Count(s, w) = 0
    BY <1>4, <1>5, <1>8, Zenon DEF SG!Permuted
  <2>3. CountsKind(s, w)
    BY CountOne, Zenon
  <2> QED BY <2>1, <2>2, <2>3, Zenon DEF CountsKind
<1> QED BY <1>7, <1>8, Zenon DEF t, Each

(* A signature passes the check exactly when it is proper.                  *)
LEMMA CheckedIsProper ==
    ASSUME NEW s \in ShapeAs PROVE SG!CheckSignatureShape(s) <=> SG!Proper(s)
<1>1. /\ s.children \in Seq({"SignedInfo", "SignatureValue", "KeyInfo", "else"})
      /\ s.info \in Seq({"c14n", "method", "Reference", "else"})
      /\ s.reference \in Seq({"Transforms", "DigestMethod", "DigestValue", "else"})
      /\ s.transforms \in Seq({"enveloped", "exclusive", "else"})
  BY DEF ShapeAs, SG!Kinds
<1>2. /\ SG!WellFormed.info = <<"c14n", "method", "Reference">>
      /\ SG!WellFormed.reference = <<"Transforms", "DigestMethod", "DigestValue">>
      /\ SG!WellFormed.transforms = <<"enveloped", "exclusive">>
  BY DEF SG!WellFormed
<1>3. \A r : SG!Members(r) = Members(r)
  BY Zenon DEF SG!Members, Members
<1>4. (/\ "else" \notin SG!Members(s.info)
       /\ \A k \in {"c14n", "method", "Reference"} : SG!Count(s.info, k) = 1)
      <=> SG!Permuted(s.info, SG!WellFormed.info)
  <2>1. /\ "c14n" # "method" /\ "c14n" # "Reference" /\ "method" # "Reference"
        /\ "else" \notin {"c14n", "method", "Reference"}
    OBVIOUS
  <2>2. Each(s.info, "c14n", "method", "Reference", "else")
    BY <1>1, <2>1, OneOfEach, Zenon
  <2> QED BY <1>2, <1>3, <2>2, Zenon DEF Each
<1>5. (/\ "else" \notin SG!Members(s.reference)
       /\ \A k \in {"Transforms", "DigestMethod", "DigestValue"} : SG!Count(s.reference, k) = 1)
      <=> SG!Permuted(s.reference, SG!WellFormed.reference)
  <2>1. /\ "Transforms" # "DigestMethod" /\ "Transforms" # "DigestValue" /\ "DigestMethod" # "DigestValue"
        /\ "else" \notin {"Transforms", "DigestMethod", "DigestValue"}
    OBVIOUS
  <2>2. Each(s.reference, "Transforms", "DigestMethod", "DigestValue", "else")
    BY <1>1, <2>1, OneOfEach, Zenon
  <2> QED BY <1>2, <1>3, <2>2, Zenon DEF Each
<1>6. (Len(s.transforms) = 2 /\ s.transforms[1] = "enveloped" /\ s.transforms[2] = "exclusive")
      <=> s.transforms = SG!WellFormed.transforms
  <2> DEFINE u == s.transforms
  <2>1. u \in Seq({"enveloped", "exclusive", "else"})
    BY <1>1, Zenon
  <2> HIDE DEF u
  <2>2. (Len(u) = 2 /\ u[1] = "enveloped" /\ u[2] = "exclusive") <=> u = <<"enveloped", "exclusive">>
    BY <2>1
  <2> QED BY <1>2, <2>2, Zenon DEF u
<1>7. ("else" \notin SG!Members(s.children) /\ SG!Count(s.children, "SignedInfo") = 1)
      <=> \E j \in DOMAIN s.children :
             /\ s.children[j] = "SignedInfo"
             /\ \A k \in DOMAIN s.children \ {j} : s.children[k] \in {"SignatureValue", "KeyInfo"}
  <2> DEFINE c == s.children
  <2>1. c \in Seq({"SignedInfo", "SignatureValue", "KeyInfo", "else"})
    BY <1>1, Zenon
  <2> HIDE DEF c
  <2>2. \A k \in DOMAIN c : c[k] \in {"SignedInfo", "SignatureValue", "KeyInfo", "else"}
    BY <2>1
  <2>3. SG!Count(c, "SignedInfo") = 1 <=>
            \E j \in DOMAIN c : \A k \in DOMAIN c : c[k] = "SignedInfo" <=> k = j
    <3>1. CountsKind(c, "SignedInfo")
      BY <2>1, CountOne, Zenon
    <3> QED BY <3>1, Zenon DEF CountsKind, KindAt
  <2>4. "else" \notin Members(c) <=> \A k \in DOMAIN c : c[k] # "else"
    BY Zenon DEF Members
  <2>5. "SignedInfo" \notin {"SignatureValue", "KeyInfo"} /\ "else" \notin {"SignedInfo", "SignatureValue", "KeyInfo"}
    OBVIOUS
  <2>6. ("else" \notin Members(c) /\ SG!Count(c, "SignedInfo") = 1)
        <=> \E j \in DOMAIN c : /\ c[j] = "SignedInfo"
                                /\ \A k \in DOMAIN c \ {j} : c[k] \in {"SignatureValue", "KeyInfo"}
    <3>1. ASSUME "else" \notin Members(c), SG!Count(c, "SignedInfo") = 1
          PROVE  \E j \in DOMAIN c : /\ c[j] = "SignedInfo"
                                     /\ \A k \in DOMAIN c \ {j} : c[k] \in {"SignatureValue", "KeyInfo"}
      <4>1. PICK j \in DOMAIN c : \A k \in DOMAIN c : c[k] = "SignedInfo" <=> k = j
        BY <2>3, <3>1, Zenon
      <4>2. c[j] = "SignedInfo"
        BY <4>1, Zenon
      <4>3. ASSUME NEW k \in DOMAIN c, k # j PROVE c[k] \in {"SignatureValue", "KeyInfo"}
        BY <2>2, <2>4, <3>1, <4>1, <4>3, Zenon
      <4> QED BY <4>2, <4>3, Zenon
    <3>2. ASSUME NEW j \in DOMAIN c, c[j] = "SignedInfo",
                 \A k \in DOMAIN c \ {j} : c[k] \in {"SignatureValue", "KeyInfo"}
          PROVE  "else" \notin Members(c) /\ SG!Count(c, "SignedInfo") = 1
      <4>1. \A k \in DOMAIN c : c[k] = "SignedInfo" <=> k = j
        BY <2>5, <3>2
      <4>2. \A k \in DOMAIN c : c[k] # "else"
        BY <2>5, <3>2
      <4> QED BY <2>3, <2>4, <4>1, <4>2, Zenon
    <3> QED BY <3>1, <3>2, Zenon
  <2> QED BY <1>3, <2>6, Zenon DEF c
<1> QED BY <1>4, <1>5, <1>6, <1>7, Zenon DEF SG!CheckSignatureShape, SG!Proper

(* The passes over the document, one for each certificate.                  *)
ByOneOf(sigs, certs) == {i \in DOMAIN sigs : sigs[i].signer \in certs /\ sigs[i].covers}
Gathered(sigs, certs) ==
    [valid |-> ByOneOf(sigs, certs),
     covers |-> \E i \in ByOneOf(sigs, certs) : sigs[i].parent = "Assertion"]
PassStep(sigs) == [p \in SG!Passes(sigs) \X Members(Pinned) |-> SG!Pass(sigs, p[1], p[2])]
NoPass == [valid |-> {}, covers |-> FALSE]

(* What passes for the pinned certificates so far.                          *)
LEMMA PassesGather ==
    ASSUME NEW sigs PROVE Over(Pinned, NoPass, PassStep(sigs)) = Gathered(sigs, Members(Pinned))
<1> DEFINE X == Members(Pinned)
           A == SG!Passes(sigs)
           step == PassStep(sigs)
           P == {cs \in Seq(X) : Over(cs, NoPass, step) = Gathered(sigs, Members(cs))}
<1>1. NoPass \in A
  BY DEF NoPass, SG!Passes
<1>2. step \in [A \X X -> A]
  <2>1. \A a \in A, c \in X : SG!Pass(sigs, a, c) \in A
    BY DEF SG!Passes, SG!Pass, SG!Verified
  <2> QED BY <2>1 DEF PassStep
<1>3. \A a \in A, c \in X : step[<<a, c>>] = SG!Pass(sigs, a, c)
  BY DEF PassStep
<1> HIDE DEF step
<1>4. <<>> \in P
  <2>1. <<>> \in Seq(X) /\ Members(<<>>) = {}
    BY DEF Members
  <2>2. ByOneOf(sigs, {}) = {}
    BY DEF ByOneOf
  <2>3. Gathered(sigs, {}) = NoPass
    BY <2>2, Zenon DEF Gathered, NoPass
  <2> QED BY <2>1, <2>3, OverEmpty, Zenon
<1>5. ASSUME NEW cs \in Seq(X), NEW c \in X, cs \in P PROVE Append(cs, c) \in P
  <2> DEFINE g == Gathered(sigs, Members(cs))
  <2>1. Append(cs, c) \in Seq(X)
    OBVIOUS
  <2>2. Over(cs, NoPass, step) = g
    BY <1>5, Zenon
  <2>3. g \in A
    BY DEF Gathered, ByOneOf, SG!Passes
  <2>4. OverStep(cs, c, NoPass, step)
    BY <1>1, <1>2, OverAppend, Zenon
  <2>5. Over(Append(cs, c), NoPass, step) = SG!Pass(sigs, g, c)
    BY <1>3, <2>2, <2>3, <2>4, Zenon DEF OverStep
  <2>6. Members(Append(cs, c)) = Members(cs) \cup {c}
    BY MembersAppend, Zenon
  <2>7. ByOneOf(sigs, Members(cs) \cup {c}) = ByOneOf(sigs, Members(cs)) \cup SG!Verified(sigs, c)
    BY DEF ByOneOf, SG!Verified
  <2>8. SG!Pass(sigs, g, c) = Gathered(sigs, Members(cs) \cup {c})
    BY <2>7, Zenon DEF SG!Pass, Gathered
  <2> QED BY <2>1, <2>5, <2>6, <2>8, Zenon
<1>6. Seq(X) \subseteq P
  <2> HIDE DEF P
  <2> QED BY <1>4, <1>5, Growing
<1>7. Pinned \in Seq(X)
  BY PinnedAssumption, Zenon DEF Members
<1> QED BY <1>6, <1>7, Zenon DEF step

(* saml.rs check_signatures: for any list of signatures and any pinned      *)
(* certificates, the check passes exactly when every signature is well      *)
(* formed and by a pinned certificate and the assertion is covered.         *)
THEOREM CheckedIsCovered ==
    ASSUME NEW sigs \in Seq(SignatureAs) PROVE SG!CheckSignatures(sigs) <=> SG!Covered(sigs)
<1>1. \A r : SG!Members(r) = Members(r)
  BY Zenon DEF SG!Members, Members
<1>2. \A i \in DOMAIN sigs : /\ sigs[i].shape \in ShapeAs /\ sigs[i].covers \in BOOLEAN
                             /\ sigs[i].parent \in {"Response", "Assertion", "elsewhere"}
  <2>1. \A i \in DOMAIN sigs : sigs[i] \in SignatureAs
    OBVIOUS
  <2> QED BY <2>1 DEF SignatureAs
<1> DEFINE all == Gathered(sigs, Members(Pinned))
<1>3. SG!CheckSignatures(sigs) <=>
        /\ sigs # <<>>
        /\ \A i \in DOMAIN sigs :
              SG!CheckSignatureShape(sigs[i].shape) /\ sigs[i].parent \in {"Response", "Assertion"}
        /\ all.valid = DOMAIN sigs /\ all.covers
  <2>1. [p \in SG!Passes(sigs) \X SG!Members(Pinned) |-> SG!Pass(sigs, p[1], p[2])] = PassStep(sigs)
    BY <1>1, Zenon DEF PassStep
  <2>2. \A s, start, step : SG!Over(s, start, step) = Over(s, start, step)
    BY Zenon DEF SG!Over, Over
  <2>3. SG!Over(Pinned, NoPass, PassStep(sigs)) = all
    BY <2>2, PassesGather, Zenon
  <2> HIDE DEF all
  <2> QED BY <2>1, <2>3, Zenon DEF SG!CheckSignatures, NoPass
<1>4. all.valid = ByOneOf(sigs, Members(Pinned))
      /\ (all.covers <=> \E i \in ByOneOf(sigs, Members(Pinned)) : sigs[i].parent = "Assertion")
  BY DEF Gathered
<1>5. all.valid = DOMAIN sigs <=> \A i \in DOMAIN sigs : sigs[i].signer \in Members(Pinned) /\ sigs[i].covers
  BY <1>4, Zenon DEF ByOneOf
<1> HIDE DEF all
<1>6. \A i \in DOMAIN sigs : SG!CheckSignatureShape(sigs[i].shape) <=> SG!Proper(sigs[i].shape)
  BY <1>2, CheckedIsProper, Zenon
<1>7. \A i \in DOMAIN sigs : sigs[i].parent \in {"Response", "Assertion"} <=> sigs[i].parent # "elsewhere"
  <2>1. "elsewhere" \notin {"Response", "Assertion"}
    OBVIOUS
  <2> QED BY <1>2, <2>1, Zenon
<1>8. sigs # <<>> <=> DOMAIN sigs # {}
  BY EmptyList, Zenon
<1>9. ASSUME all.valid = DOMAIN sigs
      PROVE  all.covers <=> \E i \in DOMAIN sigs : sigs[i].parent = "Assertion"
  BY <1>4, <1>9, Zenon
<1> QED BY <1>1, <1>3, <1>5, <1>6, <1>7, <1>8, <1>9, Zenon DEF SG!Covered

SignaturesInv ==
    /\ document \in Seq(SignatureAs)
    /\ verdict # "unread" => (verdict = "accepted") = SG!CheckSignatures(document)

(* A document read gets the verdict of the check.                           *)
LEMMA SignaturesNext == SignaturesInv /\ [SG!Next]_SG!vars => SignaturesInv'
<1> SUFFICES ASSUME SignaturesInv, [SG!Next]_SG!vars PROVE SignaturesInv'
  OBVIOUS
<1>1. ASSUME NEW sigs \in Seq(SignatureAs), SG!Read(sigs) PROVE SignaturesInv'
  <2>1. document' = sigs /\ verdict' = IF SG!CheckSignatures(sigs) THEN "accepted" ELSE "refused"
    BY <1>1 DEF SG!Read
  <2>2. SG!CheckSignatures(sigs) \in BOOLEAN
    BY DEF SG!CheckSignatures
  <2>3. (verdict' = "accepted") = SG!CheckSignatures(sigs)
    BY <2>1, <2>2
  <2>4. (SG!CheckSignatures(document))' = SG!CheckSignatures(sigs)
    BY <2>1
  <2> QED BY <2>1, <2>3, <2>4 DEF SignaturesInv
<1>2. SG!WellFormed \in ShapeAs /\ DOMAIN SG!WellFormed = {"children", "info", "reference", "transforms"}
  BY DEF ShapeAs, SG!WellFormed, SG!Kinds
<1>3. Pinned[1] \in Members(Pinned)
  <2>1. 1 \in DOMAIN Pinned
    BY PinnedAssumption
  <2> QED BY <2>1, Zenon DEF Members
<1>4. CASE SG!ReadShape
  <2>1. PICK part \in DOMAIN SG!Kinds : \E list \in SG!ListsOf(SG!Kinds[part]) :
            SG!Read(<<SG!Signature([SG!WellFormed EXCEPT ![part] = list], "Assertion", Pinned[1], TRUE)>>)
    BY <1>4, Zenon DEF SG!ReadShape
  <2>2. PICK list \in SG!ListsOf(SG!Kinds[part]) :
            SG!Read(<<SG!Signature([SG!WellFormed EXCEPT ![part] = list], "Assertion", Pinned[1], TRUE)>>)
    BY <2>1, Zenon
  <2>3. list \in Seq(SG!Kinds[part])
    <3>1. PICK n \in 0..MaxChildren : list \in [1..n -> SG!Kinds[part]]
      BY <2>2, Zenon DEF SG!ListsOf
    <3>2. n \in Nat
      BY <3>1, DocumentAssumption
    <3> QED BY <3>1, <3>2
  <2>4. part \in {"children", "info", "reference", "transforms"}
    BY <2>1 DEF SG!Kinds
  <2>5. [SG!WellFormed EXCEPT ![part] = list] \in ShapeAs
    BY <1>2, <2>3, <2>4, Zenon DEF ShapeAs
  <2> DEFINE sig == SG!Signature([SG!WellFormed EXCEPT ![part] = list], "Assertion", Pinned[1], TRUE)
  <2>6. sig \in SignatureAs
    BY <1>3, <2>5 DEF SG!Signature, SignatureAs
  <2> HIDE DEF sig
  <2>7. <<sig>> \in Seq(SignatureAs)
    BY <2>6
  <2> QED BY <1>1, <2>2, <2>7, Zenon DEF sig
<1>5. CASE SG!ReadPlaces
  <2>0. PICK n \in 0..MaxSigs :
            \E parent \in [1..n -> {"Response", "Assertion", "elsewhere"}],
               signer \in [1..n -> SG!Members(Pinned) \cup {OtherCert}],
               covers \in [1..n -> BOOLEAN] :
            SG!Read([i \in 1..n |-> SG!Signature(SG!WellFormed, parent[i], signer[i], covers[i])])
    BY <1>5, Zenon DEF SG!ReadPlaces
  <2>1. PICK parent \in [1..n -> {"Response", "Assertion", "elsewhere"}],
             signer \in [1..n -> SG!Members(Pinned) \cup {OtherCert}],
             covers \in [1..n -> BOOLEAN] :
            SG!Read([i \in 1..n |-> SG!Signature(SG!WellFormed, parent[i], signer[i], covers[i])])
    BY <2>0, Zenon
  <2>2. SG!Members(Pinned) = Members(Pinned)
    BY Zenon DEF SG!Members, Members
  <2> DEFINE sigs == [i \in 1..n |-> SG!Signature(SG!WellFormed, parent[i], signer[i], covers[i])]
  <2>3. \A i \in 1..n : SG!Signature(SG!WellFormed, parent[i], signer[i], covers[i]) \in SignatureAs
    BY <1>2, <2>1, <2>2 DEF SG!Signature, SignatureAs
  <2>4. n \in Nat
    BY <2>1, DocumentAssumption
  <2>5. sigs \in Seq(SignatureAs)
    BY <2>3, <2>4
  <2> HIDE DEF sigs
  <2> QED BY <1>1, <2>1, <2>5, Zenon DEF sigs
<1>6. CASE UNCHANGED SG!vars
  <2>1. document' = document /\ verdict' = verdict
    BY <1>6 DEF SG!vars
  <2>2. (SG!CheckSignatures(document))' = SG!CheckSignatures(document)
    BY <2>1
  <2> QED BY <2>1, <2>2 DEF SignaturesInv
<1> QED BY <1>4, <1>5, <1>6 DEF SG!Next

(* saml.rs check_signatures: a document is accepted exactly when it is      *)
(* covered, for any pinned certificates, whichever of them signed which     *)
(* part.                                                                    *)
THEOREM AcceptedAreCovered == SG!Spec => []AcceptedIsCovered
<1>1. SG!Init => SignaturesInv
  BY DEF SG!Init, SignaturesInv
<1>2. SignaturesInv => AcceptedIsCovered
  <2> SUFFICES ASSUME SignaturesInv PROVE AcceptedIsCovered
    OBVIOUS
  <2>1. SG!CheckSignatures(document) <=> SG!Covered(document)
    BY CheckedIsCovered, Zenon DEF SignaturesInv
  <2>2. SG!Covered(document) \in BOOLEAN /\ SG!CheckSignatures(document) \in BOOLEAN
    BY Zenon DEF SG!Covered, SG!CheckSignatures
  <2> QED BY <2>1, <2>2 DEF SignaturesInv, AcceptedIsCovered, SG!AcceptedIsCovered
<1> QED BY <1>1, <1>2, SignaturesNext, PTL DEF SG!Spec
==============================================================================
