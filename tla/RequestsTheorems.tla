-------------------------- MODULE RequestsTheorems --------------------------
(***************************************************************************)
(* What the operators of Requests return, for every sequence of requests:  *)
(* the requests kept of a queue, sums over a batch, the chunks that follow *)
(* and the requests that are admitted.  What is recursive is a function,   *)
(* and what it computes is shown by induction on the length of a sequence. *)
(***************************************************************************)
EXTENDS Requests, SequenceTheorems, FiniteSetTheorems, WellFoundedInduction, TLAPS

\* Induction, for a set.
LEMMA NatSet ==
  ASSUME NEW T, 0 \in T, \A n \in Nat : n \in T => n + 1 \in T
  PROVE  Nat \subseteq T
<1> SUFFICES ASSUME Nat \ T # {} PROVE FALSE
  OBVIOUS
<1> DEFINE D == {0 .. n : n \in Nat \ T}
<1>1. D \subseteq FiniteSubsetsOf(Nat) /\ D # {}
  <2>1. \A n \in Nat : 0 .. n \in SUBSET Nat /\ IsFiniteSet(0 .. n)
    BY FS_Interval
  <2> QED
    BY <2>1 DEF FiniteSubsetsOf
<1>2. PICK U \in D : \A W \in D : ~ (<<W, U>> \in StrictSubsetOrdering(Nat))
  <2> HIDE DEF D
  <2>1. IsWellFoundedOn(StrictSubsetOrdering(Nat), FiniteSubsetsOf(Nat))
    BY FS_StrictSubsetOrderingWellFounded
  <2> QED
    BY <1>1, <2>1, WFMin
<1>3. PICK x \in Nat \ T : U = 0 .. x
  OBVIOUS
<1>4. x - 1 \in Nat \ T
  OBVIOUS
<1>5. <<0 .. x - 1, 0 .. x>> \in StrictSubsetOrdering(Nat)
  <2>1. 0 .. x - 1 \subseteq Nat /\ 0 .. x \subseteq Nat /\ x \in 0 .. x /\ x \notin 0 .. x - 1
    OBVIOUS
  <2>2. 0 .. x - 1 \subseteq 0 .. x /\ 0 .. x - 1 # 0 .. x
    BY <2>1
  <2> QED
    BY <2>1, <2>2 DEF StrictSubsetOrdering
<1> QED
  BY <1>2, <1>3, <1>4, <1>5

\* f begins with b, and every value follows from the one before by G.
Follows(f, b, G) == f[0] = b /\ \A n \in Nat : f[n + 1] = G[n + 1][f[n]]

\* A function on numbers may be defined by recursion.
LEMMA Recursion ==
  ASSUME NEW S, NEW b \in S, NEW G \in [Nat -> [S -> S]]
  PROVE  \E f \in [Nat -> S] : Follows(f, b, G)
<1> DEFINE Upto(n, f) == f[0] = b /\ \A k \in 1 .. n : f[k] = G[k][f[k - 1]]
           T == {n \in Nat : \E f \in [0 .. n -> S] : Upto(n, f)}
<1>1. 0 \in T
  <2>1. [k \in 0 .. 0 |-> b] \in [0 .. 0 -> S] /\ Upto(0, [k \in 0 .. 0 |-> b])
    OBVIOUS
  <2> QED
    BY <2>1
<1>2. ASSUME NEW n \in Nat, n \in T PROVE n + 1 \in T
  <2>1. PICK f \in [0 .. n -> S] : Upto(n, f)
    BY <1>2
  <2> DEFINE g == [k \in 0 .. n + 1 |-> IF k = n + 1 THEN G[n + 1][f[n]] ELSE f[k]]
  <2>2. g \in [0 .. n + 1 -> S]
    BY <2>1
  <2>3. Upto(n + 1, g)
    BY <2>1
  <2> HIDE DEF g, Upto
  <2> QED
    BY <2>2, <2>3
<1>3. Nat \subseteq T
  <2> HIDE DEF T
  <2> QED
    BY <1>1, <1>2, NatSet
<1>4. ASSUME NEW m \in Nat, NEW n \in Nat, NEW f, NEW g, Upto(m, f), Upto(n, g)
      PROVE  \A k \in Nat : k <= m /\ k <= n => f[k] = g[k]
  <2> DEFINE E == {k \in Nat : k <= m /\ k <= n => f[k] = g[k]}
  <2>1. 0 \in E
    BY <1>4
  <2>2. ASSUME NEW k \in Nat, k \in E PROVE k + 1 \in E
    BY <1>4, <2>2
  <2>3. Nat \subseteq E
    <3> HIDE DEF E
    <3> QED
      BY <2>1, <2>2, NatSet
  <2> QED
    BY <2>3
<1> DEFINE h == [n \in Nat |-> (CHOOSE f \in [0 .. n -> S] : Upto(n, f))[n]]
<1>5. ASSUME NEW n \in Nat
      PROVE  \E f \in [0 .. n -> S] : Upto(n, f) /\ h[n] = f[n]
  <2>1. \E f \in [0 .. n -> S] : Upto(n, f)
    BY <1>3
  <2> QED
    BY <2>1
<1>6. h \in [Nat -> S]
  <2>1. \A n \in Nat : h[n] \in S
    <3> HIDE DEF h
    <3> QED
      BY <1>5
  <2> QED
    BY <2>1
<1>7. h[0] = b
  <2> HIDE DEF h
  <2> QED
    BY <1>5
<1>8. ASSUME NEW n \in Nat PROVE h[n + 1] = G[n + 1][h[n]]
  <2>1. PICK f \in [0 .. n + 1 -> S] : Upto(n + 1, f) /\ h[n + 1] = f[n + 1]
    <3> HIDE DEF h, Upto
    <3>1. n + 1 \in Nat
      OBVIOUS
    <3> QED
      BY <1>5, <3>1
  <2>2. PICK g \in [0 .. n -> S] : Upto(n, g) /\ h[n] = g[n]
    BY <1>5
  <2>3. f[n] = g[n]
    <3> HIDE DEF h, Upto
    <3> QED
      BY <1>4, <2>1, <2>2
  <2>4. f[n + 1] = G[n + 1][f[n]]
    BY <2>1
  <2> QED
    BY <2>1, <2>2, <2>3, <2>4
<1> QED
  <2> HIDE DEF h
  <2> QED
    BY <1>6, <1>7, <1>8 DEF Follows

\* Induction on sequences, for a set.
LEMMA SeqSet ==
  ASSUME NEW T, NEW X, <<>> \in X,
         \A q \in Seq(T), x \in T : q \in X => Append(q, x) \in X
  PROVE  Seq(T) \subseteq X
<1> DEFINE E == {n \in Nat : \A q \in Seq(T) : Len(q) = n => q \in X}
<1>1. 0 \in E
  BY EmptySeq
<1>2. ASSUME NEW n \in Nat, n \in E PROVE n + 1 \in E
  <2>1. ASSUME NEW q \in Seq(T), Len(q) = n + 1 PROVE q \in X
    <3>1. q # <<>>
      BY <2>1, EmptySeq
    <3>2. PICK s \in Seq(T), x \in T : q = Append(s, x)
      BY <3>1, SequenceEmptyOrAppend
    <3>3. Len(s) = n
      BY <2>1, <3>2, AppendProperties
    <3> QED
      BY <1>2, <3>2, <3>3
  <2> QED
    BY <2>1
<1>3. Nat \subseteq E
  <2> HIDE DEF E
  <2> QED
    BY <1>1, <1>2, NatSet
<1> QED
  BY <1>3, LenProperties

-----------------------------------------------------------------------------
(* Those.                                                                  *)

\* kept[k] is what Those keeps of the first k items of q.
Keeps(kept, q, S) ==
    /\ kept[0] = <<>>
    /\ \A k \in Nat : kept[k + 1] = IF q[k + 1] \in S THEN Append(kept[k], q[k + 1]) ELSE kept[k]

\* The recursive function of Those exists: what is kept of q, prefix by prefix.
LEMMA Keeping ==
  ASSUME NEW T, NEW q \in Seq(T), NEW S
  PROVE  \E kept : Keeps(kept, q, S) /\ Those(q, S) = kept[Len(q)]
<1> DEFINE U == T \cup {q[k] : k \in Nat}
           G == [k \in Nat |-> [s \in Seq(U) |-> IF q[k] \in S THEN Append(s, q[k]) ELSE s]]
           Fix(f) == f = [k \in Nat |-> IF k = 0 THEN <<>>
                                        ELSE IF q[k] \in S THEN Append(f[k - 1], q[k])
                                        ELSE f[k - 1]]
<1>1. G \in [Nat -> [Seq(U) -> Seq(U)]]
  <2>1. \A k \in Nat, s \in Seq(U) : Append(s, q[k]) \in Seq(U)
    BY AppendProperties
  <2> QED
    BY <2>1
<1>2. PICK f \in [Nat -> Seq(U)] : f[0] = <<>> /\ \A n \in Nat : f[n + 1] = G[n + 1][f[n]]
  <2>1. <<>> \in Seq(U)
    BY EmptySeq
  <2> HIDE DEF G, U
  <2>2. \E f \in [Nat -> Seq(U)] : Follows(f, <<>>, G)
    BY <1>1, <2>1, Recursion
  <2> QED
    BY <2>2 DEF Follows
<1>3. ASSUME NEW n \in Nat, n # 0
      PROVE  f[n] = IF q[n] \in S THEN Append(f[n - 1], q[n]) ELSE f[n - 1]
  <2>1. n - 1 \in Nat /\ (n - 1) + 1 = n
    BY <1>3
  <2>2. f[(n - 1) + 1] = G[(n - 1) + 1][f[n - 1]]
    BY <1>2, <2>1
  <2>3. f[n - 1] \in Seq(U)
    BY <1>2, <2>1
  <2> HIDE DEF U
  <2> QED
    BY <2>1, <2>2, <2>3
<1>4. Fix(f)
  <2> HIDE DEF U, G
  <2> QED
    BY <1>2, <1>3
<1> DEFINE kept == CHOOSE g : Fix(g)
<1>5. Fix(kept)
  <2> HIDE DEF Fix
  <2> QED
    BY <1>4
<1>6. Those(q, S) = kept[Len(q)]
  BY DEF Those
<1> HIDE DEF kept
<1>7. kept = f
  <2> DEFINE E == {n \in Nat : kept[n] = f[n]}
  <2>1. 0 \in E
    BY <1>4, <1>5
  <2>2. ASSUME NEW n \in Nat, n \in E PROVE n + 1 \in E
    <3>1. n + 1 \in Nat /\ n + 1 # 0 /\ (n + 1) - 1 = n /\ kept[n] = f[n]
      BY <2>2
    <3>2. /\ f[n + 1] = IF q[n + 1] \in S THEN Append(f[n], q[n + 1]) ELSE f[n]
          /\ kept[n + 1] = IF q[n + 1] \in S THEN Append(kept[n], q[n + 1]) ELSE kept[n]
      BY <1>4, <1>5, <3>1
    <3> QED
      BY <3>1, <3>2
  <2>3. Nat \subseteq E
    <3> HIDE DEF E
    <3> QED
      BY <2>1, <2>2, NatSet
  <2>4. kept = [k \in Nat |-> kept[k]] /\ f = [k \in Nat |-> f[k]]
    BY <1>4, <1>5
  <2>5. \A k \in Nat : kept[k] = f[k]
    BY <2>3
  <2> HIDE DEF Fix, E
  <2> QED
    BY <2>4, <2>5
<1>8. \A k \in Nat : f[k + 1] = IF q[k + 1] \in S THEN Append(f[k], q[k + 1]) ELSE f[k]
  <2>1. \A k \in Nat : k + 1 \in Nat /\ k + 1 # 0 /\ (k + 1) - 1 = k
    OBVIOUS
  <2> HIDE DEF U, G, Fix
  <2> QED
    BY <1>3, <2>1
<1>9. Keeps(f, q, S)
  <2> HIDE DEF U, G, Fix
  <2> QED
    BY <1>2, <1>8 DEF Keeps
<1> HIDE DEF G, Fix, U
<1> QED
  BY <1>6, <1>7, <1>9

\* Nothing is kept of an empty sequence.
LEMMA ThoseEmpty == \A S : Those(<<>>, S) = <<>>
<1> SUFFICES ASSUME NEW S PROVE Those(<<>>, S) = <<>>
  OBVIOUS
<1>1. <<>> \in Seq({})
  BY EmptySeq
<1>2. PICK kept : Keeps(kept, <<>>, S) /\ Those(<<>>, S) = kept[Len(<<>>)]
  BY <1>1, Keeping
<1> QED
  BY <1>2 DEF Keeps

\* One item more: it is kept if it is in S.
LEMMA ThoseAppend ==
  ASSUME NEW T, NEW q \in Seq(T), NEW x \in T, NEW S
  PROVE  Those(Append(q, x), S) = IF x \in S THEN Append(Those(q, S), x) ELSE Those(q, S)
<1> DEFINE p == Append(q, x)
           n == Len(q)
<1>1. /\ p \in Seq(T) /\ n \in Nat /\ Len(p) = n + 1 /\ p[n + 1] = x
      /\ \A i \in 1 .. n : p[i] = q[i]
  BY AppendProperties, LenProperties
<1> HIDE DEF p
<1>2. PICK f : Keeps(f, q, S) /\ Those(q, S) = f[n]
  BY Keeping
<1>3. PICK g : Keeps(g, p, S) /\ Those(p, S) = g[n + 1]
  BY <1>1, Keeping
<1> DEFINE E == {k \in Nat : k <= n => f[k] = g[k]}
<1>4. 0 \in E
  BY <1>2, <1>3 DEF Keeps
<1>5. ASSUME NEW k \in Nat, k \in E PROVE k + 1 \in E
  <2> SUFFICES ASSUME k + 1 <= n PROVE f[k + 1] = g[k + 1]
    OBVIOUS
  <2>1. f[k] = g[k] /\ p[k + 1] = q[k + 1]
    BY <1>1, <1>5
  <2> QED
    BY <1>2, <1>3, <2>1 DEF Keeps
<1>6. f[n] = g[n]
  <2>1. Nat \subseteq E
    <3> HIDE DEF E
    <3> QED
      BY <1>4, <1>5, NatSet
  <2> QED
    BY <1>1, <2>1
<1>7. g[n + 1] = IF p[n + 1] \in S THEN Append(g[n], p[n + 1]) ELSE g[n]
  BY <1>1, <1>3 DEF Keeps
<1> QED
  BY <1>1, <1>2, <1>3, <1>6, <1>7 DEF p

\* The items of a sequence and of one that is longer by one.
LEMMA ToSetAppend ==
  ASSUME NEW T, NEW q \in Seq(T), NEW x \in T
  PROVE  ToSet(Append(q, x)) = ToSet(q) \cup {x}
<1> DEFINE p == Append(q, x)
           n == Len(q)
<1>1. /\ p \in Seq(T) /\ n \in Nat /\ Len(p) = n + 1 /\ p[n + 1] = x
      /\ \A i \in 1 .. n : p[i] = q[i]
      /\ DOMAIN p = 1 .. n + 1 /\ DOMAIN q = 1 .. n
  BY AppendProperties, LenProperties
<1> HIDE DEF p, n
<1>2. ToSet(p) = {p[i] : i \in 1 .. n + 1} /\ ToSet(q) = {q[i] : i \in 1 .. n}
  BY <1>1 DEF ToSet
<1>3. 1 .. n + 1 = (1 .. n) \cup {n + 1}
  BY <1>1
<1> QED
  BY <1>1, <1>2, <1>3 DEF p

\* An empty sequence has no items.
LEMMA ToSetEmpty == ToSet(<<>>) = {}
  BY DEF ToSet

\* The items of a sequence of T are in T.
LEMMA ToSetRange ==
  ASSUME NEW T, NEW q \in Seq(T)
  PROVE  ToSet(q) \subseteq T
  BY LenProperties, ElementOfSeq DEF ToSet

\* Those of q are the items of q that are in S.
LEMMA ThoseKept ==
  ASSUME NEW T, NEW q \in Seq(T), NEW S
  PROVE  /\ Those(q, S) \in Seq(T)
         /\ ToSet(Those(q, S)) = ToSet(q) \cap S
         /\ Len(Those(q, S)) <= Len(q)
<1> DEFINE Ok(s) == /\ Those(s, S) \in Seq(T)
                    /\ ToSet(Those(s, S)) = ToSet(s) \cap S
                    /\ Len(Those(s, S)) <= Len(s)
           X == {s \in Seq(T) : Ok(s)}
<1>1. <<>> \in X
  <2>1. Those(<<>>, S) = <<>>
    BY ThoseEmpty
  <2>2. <<>> \in Seq(T) /\ Len(<<>>) = 0
    BY EmptySeq
  <2>3. ToSet(<<>>) = ToSet(<<>>) \cap S
    BY ToSetEmpty
  <2>4. Ok(<<>>)
    <3>1. Those(<<>>, S) \in Seq(T) /\ Len(Those(<<>>, S)) = 0
      BY <2>1, <2>2, Zenon
    <3>2. ToSet(Those(<<>>, S)) = ToSet(<<>>) \cap S
      BY <2>1, <2>3
    <3> QED
      BY <2>2, <3>1, <3>2
  <2> QED
    BY <2>2, <2>4
<1>2. ASSUME NEW s \in Seq(T), NEW x \in T, s \in X PROVE Append(s, x) \in X
  <2>1. Append(s, x) \in Seq(T) /\ Len(Append(s, x)) = Len(s) + 1 /\ Len(s) \in Nat
    BY AppendProperties, LenProperties
  <2>2. ToSet(Append(s, x)) = ToSet(s) \cup {x}
    BY ToSetAppend
  <2>3. CASE x \in S
    <3>1. Those(Append(s, x), S) = Append(Those(s, S), x)
      BY <2>3, ThoseAppend
    <3>2. /\ Append(Those(s, S), x) \in Seq(T)
          /\ Len(Append(Those(s, S), x)) = Len(Those(s, S)) + 1
      BY <1>2, AppendProperties
    <3>3. ToSet(Append(Those(s, S), x)) = ToSet(Those(s, S)) \cup {x}
      BY <1>2, ToSetAppend
    <3>4. Len(Those(s, S)) \in Nat
      BY <1>2, LenProperties
    <3>5. ToSet(Those(s, S)) \cup {x} = ToSet(Append(s, x)) \cap S
      BY <1>2, <2>2, <2>3
    <3>6. Len(Those(s, S)) + 1 <= Len(s) + 1
      BY <1>2, <2>1, <3>4
    <3>7. Ok(Append(s, x))
      BY <2>1, <3>1, <3>2, <3>3, <3>5, <3>6
    <3> QED
      BY <2>1, <3>7
  <2>4. CASE x \notin S
    <3>1. Those(Append(s, x), S) = Those(s, S)
      BY <2>4, ThoseAppend
    <3>2. Len(Those(s, S)) \in Nat
      BY <1>2, LenProperties
    <3> QED
      BY <1>2, <2>1, <2>2, <2>4, <3>1, <3>2
  <2> QED
    BY <2>3, <2>4
<1>3. Seq(T) \subseteq X
  <2> HIDE DEF X
  <2> QED
    BY <1>1, <1>2, SeqSet
<1> QED
  BY <1>3

\* Only what is in q matters.
LEMMA ThoseSame ==
  ASSUME NEW T, NEW q \in Seq(T), NEW S, NEW R, ToSet(q) \cap S = ToSet(q) \cap R
  PROVE  Those(q, S) = Those(q, R)
<1> DEFINE X == {s \in Seq(T) : ToSet(s) \cap S = ToSet(s) \cap R => Those(s, S) = Those(s, R)}
<1>1. <<>> \in X
  BY EmptySeq, ThoseEmpty
<1>2. ASSUME NEW s \in Seq(T), NEW x \in T, s \in X PROVE Append(s, x) \in X
  <2>1. Append(s, x) \in Seq(T) /\ ToSet(Append(s, x)) = ToSet(s) \cup {x}
    BY AppendProperties, ToSetAppend
  <2> SUFFICES ASSUME ToSet(Append(s, x)) \cap S = ToSet(Append(s, x)) \cap R
               PROVE  Those(Append(s, x), S) = Those(Append(s, x), R)
    BY <2>1
  <2>2. Those(s, S) = Those(s, R) /\ (x \in S <=> x \in R)
    BY <1>2, <2>1
  <2>3. /\ Those(Append(s, x), S) = IF x \in S THEN Append(Those(s, S), x) ELSE Those(s, S)
        /\ Those(Append(s, x), R) = IF x \in R THEN Append(Those(s, R), x) ELSE Those(s, R)
    BY ThoseAppend
  <2> QED
    BY <2>2, <2>3
<1>3. Seq(T) \subseteq X
  <2> HIDE DEF X
  <2> QED
    BY <1>1, <1>2, SeqSet
<1> QED
  BY <1>3

\* Where all items are in S, all are kept.
LEMMA ThoseAll ==
  ASSUME NEW T, NEW q \in Seq(T), NEW S, ToSet(q) \subseteq S
  PROVE  Those(q, S) = q
<1> DEFINE X == {s \in Seq(T) : ToSet(s) \subseteq S => Those(s, S) = s}
<1>1. <<>> \in X
  BY EmptySeq, ThoseEmpty
<1>2. ASSUME NEW s \in Seq(T), NEW x \in T, s \in X PROVE Append(s, x) \in X
  <2>1. Append(s, x) \in Seq(T) /\ ToSet(Append(s, x)) = ToSet(s) \cup {x}
    BY AppendProperties, ToSetAppend
  <2>2. Those(Append(s, x), S) = IF x \in S THEN Append(Those(s, S), x) ELSE Those(s, S)
    BY ThoseAppend
  <2> QED
    BY <1>2, <2>1, <2>2
<1>3. Seq(T) \subseteq X
  <2> HIDE DEF X
  <2> QED
    BY <1>1, <1>2, SeqSet
<1> QED
  BY <1>3

\* A sequence without items is empty.
LEMMA NobodyThere ==
  ASSUME NEW T, NEW q \in Seq(T), ToSet(q) = {}
  PROVE  q = <<>>
<1>1. Len(q) \in Nat /\ DOMAIN q = 1 .. Len(q)
  BY LenProperties
<1>2. Len(q) = 0
  <2> SUFFICES ASSUME Len(q) # 0 PROVE FALSE
    OBVIOUS
  <2>1. q[1] \in ToSet(q)
    BY <1>1 DEF ToSet
  <2> QED
    BY <2>1
<1> QED
  BY <1>2, EmptySeq

\* Where no item is in S, none is kept.
LEMMA ThoseNone ==
  ASSUME NEW T, NEW q \in Seq(T), NEW S, ToSet(q) \cap S = {}
  PROVE  Those(q, S) = <<>>
  BY ThoseKept, NobodyThere

\* Those of two sequences, one behind the other.
LEMMA ThoseConcat ==
  ASSUME NEW T, NEW p \in Seq(T), NEW q \in Seq(T), NEW S
  PROVE  Those(p \o q, S) = Those(p, S) \o Those(q, S)
<1> DEFINE X == {s \in Seq(T) : Those(p \o s, S) = Those(p, S) \o Those(s, S)}
<1>0. Those(p, S) \in Seq(T)
  BY ThoseKept
<1>1. <<>> \in X
  <2>1. p \o <<>> = p /\ Those(<<>>, S) = <<>> /\ Those(p, S) \o <<>> = Those(p, S)
    BY <1>0, ConcatEmptySeq, ThoseEmpty
  <2> QED
    BY <2>1, EmptySeq
<1>2. ASSUME NEW s \in Seq(T), NEW x \in T, s \in X PROVE Append(s, x) \in X
  <2>1. \A t \in Seq(T) : t \o s \in Seq(T) /\ t \o Append(s, x) = Append(t \o s, x)
    <3> SUFFICES ASSUME NEW t \in Seq(T)
                 PROVE  t \o s \in Seq(T) /\ t \o Append(s, x) = Append(t \o s, x)
      OBVIOUS
    <3>1. Append(s, x) = s \o <<x>> /\ Append(t \o s, x) = (t \o s) \o <<x>> /\ <<x>> \in Seq(T)
      BY AppendIsConcat, ConcatProperties
    <3> QED
      BY <3>1, ConcatAssociative, ConcatProperties
  <2>2. Those(Append(p \o s, x), S) = IF x \in S THEN Append(Those(p \o s, S), x)
                                      ELSE Those(p \o s, S)
    BY <2>1, ThoseAppend
  <2>3. Those(Append(s, x), S) = IF x \in S THEN Append(Those(s, S), x) ELSE Those(s, S)
    BY ThoseAppend
  <2>4. PICK t \in Seq(T), u \in Seq(T) : t = Those(p, S) /\ u = Those(s, S)
    BY ThoseKept
  <2>5. t \o Append(u, x) = Append(t \o u, x)
    <3>1. Append(u, x) = u \o <<x>> /\ Append(t \o u, x) = (t \o u) \o <<x>> /\ <<x>> \in Seq(T)
      BY AppendIsConcat, ConcatProperties
    <3> QED
      BY <3>1, ConcatAssociative, ConcatProperties
  <2>6. Those(p \o s, S) = t \o u
    BY <1>2, <2>4
  <2>7. p \o Append(s, x) = Append(p \o s, x)
    BY <2>1
  <2>8. Those(p \o Append(s, x), S) = Those(p, S) \o Those(Append(s, x), S)
    <3>1. CASE x \in S
      <4>1. Those(p \o Append(s, x), S) = Append(t \o u, x)
        BY <2>2, <2>6, <2>7, <3>1, Zenon
      <4>2. Those(Append(s, x), S) = Append(u, x)
        BY <2>3, <2>4, <3>1, Zenon
      <4> QED
        BY <2>4, <2>5, <4>1, <4>2, Zenon
    <3>2. CASE x \notin S
      <4>1. Those(p \o Append(s, x), S) = t \o u
        BY <2>2, <2>6, <2>7, <3>2, Zenon
      <4>2. Those(Append(s, x), S) = u
        BY <2>3, <2>4, <3>2, Zenon
      <4> QED
        BY <2>4, <4>1, <4>2, Zenon
    <3> QED
      BY <3>1, <3>2
  <2> QED
    BY <2>8, AppendProperties
<1>3. Seq(T) \subseteq X
  <2> HIDE DEF X
  <2> QED
    BY <1>1, <1>2, SeqSet
<1> QED
  BY <1>3

\* What is kept twice is in both sets.
LEMMA ThoseThose ==
  ASSUME NEW T, NEW q \in Seq(T), NEW S, NEW U
  PROVE  Those(Those(q, S), U) = Those(q, S \cap U)
<1> DEFINE X == {s \in Seq(T) : Those(Those(s, S), U) = Those(s, S \cap U)}
<1>1. <<>> \in X
  BY EmptySeq, ThoseEmpty
<1>2. ASSUME NEW s \in Seq(T), NEW x \in T, s \in X PROVE Append(s, x) \in X
  <2>1. Append(s, x) \in Seq(T) /\ Those(s, S) \in Seq(T)
    BY AppendProperties, ThoseKept
  <2>2. /\ Those(Append(s, x), S) = IF x \in S THEN Append(Those(s, S), x) ELSE Those(s, S)
        /\ Those(Append(s, x), S \cap U) = IF x \in S \cap U THEN Append(Those(s, S \cap U), x)
                                           ELSE Those(s, S \cap U)
    BY ThoseAppend
  <2>3. Those(Append(Those(s, S), x), U) = IF x \in U THEN Append(Those(Those(s, S), U), x)
                                           ELSE Those(Those(s, S), U)
    BY <2>1, ThoseAppend
  <2>4. Those(Those(s, S), U) = Those(s, S \cap U)
    BY <1>2
  <2>5. x \in S \cap U <=> x \in S /\ x \in U
    OBVIOUS
  <2>6. Those(Those(Append(s, x), S), U) = Those(Append(s, x), S \cap U)
    BY <2>2, <2>3, <2>4, <2>5, Zenon
  <2> QED
    BY <2>1, <2>6
<1>3. Seq(T) \subseteq X
  <2> HIDE DEF X
  <2> QED
    BY <1>1, <1>2, SeqSet
<1> QED
  BY <1>3

-----------------------------------------------------------------------------
(* Sequences without duplicates.                                           *)

OneEach(q) == \A i, j \in 1 .. Len(q) : q[i] = q[j] => i = j

\* An item more is no duplicate if it is new.
LEMMA OneEachAppend ==
  ASSUME NEW T, NEW q \in Seq(T), NEW x \in T
  PROVE  OneEach(Append(q, x)) <=> OneEach(q) /\ x \notin ToSet(q)
<1> DEFINE p == Append(q, x)
           n == Len(q)
<1>1. /\ n \in Nat /\ Len(p) = n + 1 /\ p[n + 1] = x /\ DOMAIN q = 1 .. n
      /\ \A i \in 1 .. n : p[i] = q[i]
  BY AppendProperties, LenProperties
<1> HIDE DEF p, n
<1>2. ToSet(q) = {q[i] : i \in 1 .. n}
  BY <1>1 DEF ToSet
<1>3. ASSUME OneEach(p) PROVE OneEach(q) /\ x \notin ToSet(q)
  <2>1. \A i, j \in 1 .. n + 1 : p[i] = p[j] => i = j
    BY <1>1, <1>3 DEF OneEach
  <2>2. \A i, j \in 1 .. n : q[i] = q[j] => i = j
    BY <1>1, <2>1
  <2>3. \A i \in 1 .. n : q[i] # x
    BY <1>1, <2>1
  <2> QED
    BY <1>2, <2>2, <2>3 DEF OneEach, n
<1>4. ASSUME OneEach(q), x \notin ToSet(q) PROVE OneEach(p)
  <2>1. \A i, j \in 1 .. n : q[i] = q[j] => i = j
    BY <1>4 DEF OneEach, n
  <2>2. \A i \in 1 .. n : q[i] # x
    BY <1>2, <1>4
  <2>3. \A i, j \in 1 .. n + 1 : p[i] = p[j] => i = j
    BY <1>1, <2>1, <2>2
  <2> QED
    BY <1>1, <2>3 DEF OneEach
<1> QED
  BY <1>3, <1>4 DEF p

\* What is kept of a sequence without duplicates has none.
LEMMA OneEachThose ==
  ASSUME NEW T, NEW q \in Seq(T), NEW S, OneEach(q)
  PROVE  OneEach(Those(q, S))
<1> DEFINE X == {s \in Seq(T) : OneEach(s) => OneEach(Those(s, S))}
<1>1. <<>> \in X
  BY EmptySeq, ThoseEmpty
<1>2. ASSUME NEW s \in Seq(T), NEW x \in T, s \in X PROVE Append(s, x) \in X
  <2>1. Append(s, x) \in Seq(T)
    BY AppendProperties
  <2> SUFFICES ASSUME OneEach(Append(s, x)) PROVE OneEach(Those(Append(s, x), S))
    BY <2>1
  <2>2. OneEach(s) /\ x \notin ToSet(s)
    BY OneEachAppend
  <2>3. OneEach(Those(s, S)) /\ Those(s, S) \in Seq(T) /\ x \notin ToSet(Those(s, S))
    BY <1>2, <2>2, ThoseKept
  <2>4. OneEach(Append(Those(s, S), x))
    BY <2>3, OneEachAppend
  <2> QED
    BY <2>3, <2>4, ThoseAppend
<1>3. Seq(T) \subseteq X
  <2> HIDE DEF X
  <2> QED
    BY <1>1, <1>2, SeqSet
<1> QED
  BY <1>3

\* The items of two sequences, one behind the other.
LEMMA ToSetConcat ==
  ASSUME NEW T, NEW p \in Seq(T), NEW q \in Seq(T)
  PROVE  ToSet(p \o q) = ToSet(p) \cup ToSet(q)
<1> DEFINE m == Len(p)
           n == Len(q)
           s == p \o q
<1>1. /\ m \in Nat /\ n \in Nat /\ s \in Seq(T) /\ Len(s) = m + n
      /\ \A i \in 1 .. m + n : s[i] = IF i <= m THEN p[i] ELSE q[i - m]
  BY ConcatProperties, LenProperties
<1> HIDE DEF m, n, s
<1>2. DOMAIN s = 1 .. m + n /\ DOMAIN p = 1 .. m /\ DOMAIN q = 1 .. n
  BY <1>1, LenProperties DEF m, n
<1>3. ToSet(s) = {s[i] : i \in 1 .. m + n} /\ ToSet(p) = {p[i] : i \in 1 .. m}
      /\ ToSet(q) = {q[i] : i \in 1 .. n}
  BY <1>2 DEF ToSet
<1>4. \A x \in ToSet(s) : x \in ToSet(p) \/ x \in ToSet(q)
  <2>1. \A i \in 1 .. m + n : i \in 1 .. m \/ (i - m \in 1 .. n /\ i > m)
    BY <1>1
  <2> QED
    BY <1>1, <1>3, <2>1
<1>5. ToSet(p) \subseteq ToSet(s)
  BY <1>1, <1>3
<1>6. ToSet(q) \subseteq ToSet(s)
  <2>1. \A i \in 1 .. n : i + m \in 1 .. m + n /\ ~ (i + m <= m) /\ (i + m) - m = i
    BY <1>1
  <2>2. \A i \in 1 .. n : s[i + m] = q[i]
    BY <1>1, <2>1
  <2> QED
    BY <1>3, <2>1, <2>2
<1> QED
  BY <1>4, <1>5, <1>6 DEF s

\* Two sequences have no duplicates together if neither has, and they share none.
LEMMA OneEachConcat ==
  ASSUME NEW T, NEW p \in Seq(T), NEW q \in Seq(T)
  PROVE  OneEach(p \o q) <=> OneEach(p) /\ OneEach(q) /\ ToSet(p) \cap ToSet(q) = {}
<1> DEFINE m == Len(p)
           n == Len(q)
           s == p \o q
<1>1. /\ m \in Nat /\ n \in Nat /\ s \in Seq(T) /\ Len(s) = m + n
      /\ \A i \in 1 .. m + n : s[i] = IF i <= m THEN p[i] ELSE q[i - m]
  BY ConcatProperties, LenProperties
<1> HIDE DEF m, n, s
<1>2. DOMAIN p = 1 .. m /\ DOMAIN q = 1 .. n
  BY <1>1, LenProperties DEF m, n
<1>3. ToSet(p) = {p[i] : i \in 1 .. m} /\ ToSet(q) = {q[i] : i \in 1 .. n}
  BY <1>2 DEF ToSet
<1>4. /\ \A i \in 1 .. m : i \in 1 .. m + n /\ s[i] = p[i]
      /\ \A i \in 1 .. n : i + m \in 1 .. m + n /\ s[i + m] = q[i]
  BY <1>1
<1>5. ASSUME OneEach(s) PROVE OneEach(p) /\ OneEach(q) /\ ToSet(p) \cap ToSet(q) = {}
  <2>1. \A i, j \in 1 .. m + n : s[i] = s[j] => i = j
    BY <1>1, <1>5 DEF OneEach
  <2>2. OneEach(p)
    BY <1>4, <2>1 DEF OneEach, m
  <2>3. OneEach(q)
    <3>1. ASSUME NEW i \in 1 .. n, NEW j \in 1 .. n, q[i] = q[j] PROVE i = j
      <4>1. i + m = j + m
        BY <1>4, <2>1, <3>1
      <4> QED
        BY <1>1, <4>1
    <3> QED
      BY <3>1 DEF OneEach, n
  <2>4. \A i \in 1 .. m, j \in 1 .. n : p[i] # q[j]
    <3> SUFFICES ASSUME NEW i \in 1 .. m, NEW j \in 1 .. n, p[i] = q[j] PROVE FALSE
      OBVIOUS
    <3>1. i = j + m
      BY <1>4, <2>1
    <3> QED
      BY <1>1, <3>1
  <2> QED
    BY <1>3, <2>2, <2>3, <2>4
<1>6. ASSUME OneEach(p), OneEach(q), ToSet(p) \cap ToSet(q) = {} PROVE OneEach(s)
  <2>1. ASSUME NEW i \in 1 .. m + n, NEW j \in 1 .. m + n, s[i] = s[j] PROVE i = j
    <3>1. CASE i <= m /\ j <= m
      <4>1. i \in 1 .. m /\ j \in 1 .. m /\ p[i] = p[j]
        BY <1>1, <2>1, <3>1
      <4> QED
        BY <1>6, <4>1 DEF OneEach, m
    <3>2. CASE i > m /\ j > m
      <4>1. i - m \in 1 .. n /\ j - m \in 1 .. n /\ q[i - m] = q[j - m]
        BY <1>1, <2>1, <3>2
      <4>2. i - m = j - m
        BY <1>6, <4>1 DEF OneEach, n
      <4> QED
        BY <1>1, <4>2
    <3>3. \A k, l \in 1 .. m + n : k <= m /\ l > m => s[k] \in ToSet(p) /\ s[l] \in ToSet(q)
      <4> SUFFICES ASSUME NEW k \in 1 .. m + n, NEW l \in 1 .. m + n, k <= m, l > m
                   PROVE  s[k] \in ToSet(p) /\ s[l] \in ToSet(q)
        OBVIOUS
      <4>1. k \in 1 .. m /\ s[k] = p[k] /\ l - m \in 1 .. n /\ s[l] = q[l - m]
        BY <1>1
      <4> QED
        BY <1>3, <4>1
    <3> QED
      BY <1>1, <1>6, <2>1, <3>1, <3>2, <3>3
  <2> QED
    BY <1>1, <2>1 DEF OneEach
<1> QED
  BY <1>5, <1>6 DEF s

-----------------------------------------------------------------------------
(* Total.                                                                  *)

\* sum[k] is the total of the first k items of q.
Sums(sum, w, q) ==
    sum[0] = 0 /\ \A k \in Nat : k < Len(q) => sum[k + 1] = sum[k] + w[q[k + 1]]

\* The recursive function of Total exists: the sum, prefix by prefix.
LEMMA Summing ==
  ASSUME NEW T, NEW q \in Seq(T), NEW w, \A x \in T : w[x] \in Int
  PROVE  \E sum \in [Nat -> Int] : Sums(sum, w, q) /\ Total(w, q) = sum[Len(q)]
<1> DEFINE n == Len(q)
           G == [k \in Nat |-> [s \in Int |-> IF k \in 1 .. n THEN s + w[q[k]] ELSE s]]
           Fix(f) == f = [k \in 0 .. n |-> IF k = 0 THEN 0 ELSE f[k - 1] + w[q[k]]]
<1>1. n \in Nat /\ \A k \in 1 .. n : w[q[k]] \in Int
  BY LenProperties, ElementOfSeq
<1>2. PICK f \in [Nat -> Int] : Follows(f, 0, G)
  <2>1. G \in [Nat -> [Int -> Int]]
    BY <1>1
  <2>2. 0 \in Int
    OBVIOUS
  <2> HIDE DEF G
  <2> QED
    BY <2>1, <2>2, Recursion
<1>3. Sums(f, w, q)
  <2>1. f[0] = 0 /\ \A k \in Nat : f[k + 1] = G[k + 1][f[k]] /\ f[k] \in Int
    BY <1>2 DEF Follows
  <2>2. ASSUME NEW k \in Nat, k < n PROVE f[k + 1] = f[k] + w[q[k + 1]]
    <3>1. k + 1 \in Nat /\ k + 1 \in 1 .. n
      BY <1>1, <2>2
    <3> QED
      BY <2>1, <3>1
  <2> QED
    BY <2>1, <2>2 DEF Sums
<1> HIDE DEF G
<1>4. Fix([k \in 0 .. n |-> f[k]])
  <2>1. ASSUME NEW k \in 0 .. n, k # 0 PROVE f[k] = f[k - 1] + w[q[k]]
    <3>1. k - 1 \in Nat /\ k - 1 < n /\ (k - 1) + 1 = k
      BY <1>1, <2>1
    <3> QED
      BY <1>3, <3>1 DEF Sums
  <2>2. \A k \in 0 .. n : k # 0 => k - 1 \in 0 .. n
    BY <1>1
  <2> QED
    BY <1>3, <2>1, <2>2 DEF Sums
<1> DEFINE sum == CHOOSE g : Fix(g)
<1>5. Fix(sum)
  <2> HIDE DEF Fix
  <2> QED
    BY <1>4
<1>6. Total(w, q) = sum[n]
  BY DEF Total
<1> HIDE DEF sum
<1>7. sum[n] = f[n]
  <2> DEFINE E == {k \in Nat : k <= n => sum[k] = f[k]}
  <2>1. 0 \in E
    BY <1>1, <1>3, <1>5 DEF Sums
  <2>2. ASSUME NEW k \in Nat, k \in E PROVE k + 1 \in E
    <3> SUFFICES ASSUME k + 1 <= n PROVE sum[k + 1] = f[k + 1]
      OBVIOUS
    <3>1. k + 1 \in 0 .. n /\ k + 1 # 0 /\ (k + 1) - 1 = k /\ k < n /\ sum[k] = f[k]
      BY <1>1, <2>2
    <3>2. sum[k + 1] = sum[k] + w[q[k + 1]]
      BY <1>5, <3>1
    <3> QED
      BY <1>3, <3>1, <3>2 DEF Sums
  <2>3. Nat \subseteq E
    <3> HIDE DEF E
    <3> QED
      BY <2>1, <2>2, NatSet
  <2> QED
    BY <1>1, <2>3
<1> HIDE DEF Fix
<1> QED
  BY <1>3, <1>6, <1>7

\* Nothing weighs nothing.
LEMMA TotalEmpty == \A w : Total(w, <<>>) = 0
<1> SUFFICES ASSUME NEW w, NEW q, q = <<>>, NEW T, T = {} PROVE Total(w, q) = 0
  OBVIOUS
<1>1. q \in Seq(T) /\ Len(q) = 0 /\ \A x \in T : w[x] \in Int
  BY EmptySeq
<1>2. PICK sum \in [Nat -> Int] : Sums(sum, w, q) /\ Total(w, q) = sum[Len(q)]
  BY <1>1, Summing
<1> QED
  BY <1>1, <1>2 DEF Sums

\* One item more adds its weight.
LEMMA TotalAppend ==
  ASSUME NEW T, NEW q \in Seq(T), NEW x \in T, NEW w, \A y \in T : w[y] \in Int
  PROVE  /\ Total(w, q) \in Int
         /\ Total(w, Append(q, x)) = Total(w, q) + w[x]
<1> DEFINE p == Append(q, x)
           n == Len(q)
<1>1. /\ p \in Seq(T) /\ n \in Nat /\ Len(p) = n + 1 /\ p[n + 1] = x
      /\ \A i \in 1 .. n : p[i] = q[i]
  BY AppendProperties, LenProperties
<1> HIDE DEF p
<1>2. PICK f \in [Nat -> Int] : Sums(f, w, q) /\ Total(w, q) = f[n]
  BY Summing
<1>3. PICK g \in [Nat -> Int] : Sums(g, w, p) /\ Total(w, p) = g[n + 1]
  BY <1>1, Summing
<1> DEFINE E == {k \in Nat : k <= n => f[k] = g[k]}
<1>4. 0 \in E
  BY <1>2, <1>3 DEF Sums
<1>5. ASSUME NEW k \in Nat, k \in E PROVE k + 1 \in E
  <2> SUFFICES ASSUME k + 1 <= n PROVE f[k + 1] = g[k + 1]
    OBVIOUS
  <2>1. f[k] = g[k] /\ p[k + 1] = q[k + 1] /\ k < n /\ k < n + 1
    BY <1>1, <1>5
  <2> QED
    BY <1>1, <1>2, <1>3, <2>1 DEF Sums
<1>6. f[n] = g[n]
  <2>1. Nat \subseteq E
    <3> HIDE DEF E
    <3> QED
      BY <1>4, <1>5, NatSet
  <2> QED
    BY <1>1, <2>1
<1>7. g[n + 1] = g[n] + w[p[n + 1]]
  <2>1. n \in Nat /\ n < Len(p)
    BY <1>1
  <2> QED
    BY <1>3, <2>1 DEF Sums
<1> QED
  BY <1>1, <1>2, <1>3, <1>6, <1>7 DEF p

\* A total of integers is one.
LEMMA TotalInt ==
  ASSUME NEW T, NEW q \in Seq(T), NEW w, \A x \in T : w[x] \in Int
  PROVE  Total(w, q) \in Int
<1>1. PICK sum \in [Nat -> Int] : Total(w, q) = sum[Len(q)]
  BY Summing
<1> QED
  BY <1>1, LenProperties

\* A total depends on what the items of the sequence weigh, and on nothing else.
LEMMA TotalSame ==
  ASSUME NEW T, NEW q \in Seq(T), NEW v, NEW w,
         \A x \in T : v[x] \in Int /\ w[x] \in Int,
         \A x \in ToSet(q) : v[x] = w[x]
  PROVE  Total(v, q) = Total(w, q)
<1> DEFINE X == {s \in Seq(T) : (\A x \in ToSet(s) : v[x] = w[x]) => Total(v, s) = Total(w, s)}
<1>1. <<>> \in X
  BY EmptySeq, TotalEmpty
<1>2. ASSUME NEW s \in Seq(T), NEW x \in T, s \in X PROVE Append(s, x) \in X
  <2>1. Append(s, x) \in Seq(T) /\ ToSet(Append(s, x)) = ToSet(s) \cup {x}
    BY AppendProperties, ToSetAppend
  <2>2. /\ Total(v, Append(s, x)) = Total(v, s) + v[x]
        /\ Total(w, Append(s, x)) = Total(w, s) + w[x]
    BY TotalAppend
  <2> QED
    BY <1>2, <2>1, <2>2
<1>3. Seq(T) \subseteq X
  <2> HIDE DEF X
  <2> QED
    BY <1>1, <1>2, SeqSet
<1> QED
  BY <1>3

\* Where no item weighs more, the total is not more.
LEMMA TotalLess ==
  ASSUME NEW T, NEW q \in Seq(T), NEW v, NEW w,
         \A x \in T : v[x] \in Int /\ w[x] \in Int,
         \A x \in ToSet(q) : v[x] <= w[x]
  PROVE  Total(v, q) <= Total(w, q)
<1> DEFINE X == {s \in Seq(T) : (\A x \in ToSet(s) : v[x] <= w[x]) => Total(v, s) <= Total(w, s)}
<1>1. <<>> \in X
  BY EmptySeq, TotalEmpty
<1>2. ASSUME NEW s \in Seq(T), NEW x \in T, s \in X PROVE Append(s, x) \in X
  <2>1. Append(s, x) \in Seq(T) /\ ToSet(Append(s, x)) = ToSet(s) \cup {x}
    BY AppendProperties, ToSetAppend
  <2>2. /\ Total(v, Append(s, x)) = Total(v, s) + v[x] /\ Total(v, s) \in Int
        /\ Total(w, Append(s, x)) = Total(w, s) + w[x] /\ Total(w, s) \in Int
    BY TotalAppend
  <2> QED
    BY <1>2, <2>1, <2>2
<1>3. Seq(T) \subseteq X
  <2> HIDE DEF X
  <2> QED
    BY <1>1, <1>2, SeqSet
<1> QED
  BY <1>3

\* A total of naturals is one.
LEMMA TotalNat ==
  ASSUME NEW T, NEW q \in Seq(T), NEW w, \A x \in T : w[x] \in Nat
  PROVE  Total(w, q) \in Nat
<1> DEFINE X == {s \in Seq(T) : Total(w, s) \in Nat}
<1>1. <<>> \in X
  BY EmptySeq, TotalEmpty
<1>2. ASSUME NEW s \in Seq(T), NEW x \in T, s \in X PROVE Append(s, x) \in X
  <2>1. Total(w, Append(s, x)) = Total(w, s) + w[x]
    BY TotalAppend
  <2> QED
    BY <1>2, <2>1, AppendProperties
<1>3. Seq(T) \subseteq X
  <2> HIDE DEF X
  <2> QED
    BY <1>1, <1>2, SeqSet
<1> QED
  BY <1>3

\* A part of a batch weighs no more than the batch.
LEMMA TotalThose ==
  ASSUME NEW T, NEW q \in Seq(T), NEW S, NEW w, \A x \in T : w[x] \in Nat
  PROVE  Total(w, Those(q, S)) <= Total(w, q)
<1> DEFINE X == {s \in Seq(T) : Total(w, Those(s, S)) <= Total(w, s)}
<1>1. <<>> \in X
  BY EmptySeq, TotalEmpty, ThoseEmpty
<1>2. ASSUME NEW s \in Seq(T), NEW x \in T, s \in X PROVE Append(s, x) \in X
  <2>1. Total(w, Append(s, x)) = Total(w, s) + w[x] /\ Total(w, s) \in Int
    BY TotalAppend
  <2>2. Those(s, S) \in Seq(T)
    BY ThoseKept
  <2>3. /\ Total(w, Append(Those(s, S), x)) = Total(w, Those(s, S)) + w[x]
        /\ Total(w, Those(s, S)) \in Int
    BY <2>2, TotalAppend
  <2>4. Those(Append(s, x), S) = IF x \in S THEN Append(Those(s, S), x) ELSE Those(s, S)
    BY ThoseAppend
  <2>5. Total(w, Those(Append(s, x), S)) <= Total(w, Append(s, x))
    BY <1>2, <2>1, <2>3, <2>4
  <2> QED
    BY <2>5, AppendProperties
<1>3. Seq(T) \subseteq X
  <2> HIDE DEF X
  <2> QED
    BY <1>1, <1>2, SeqSet
<1> QED
  BY <1>3

\* If everybody weighs as much as one, the total is the length.
LEMMA TotalOnes ==
  ASSUME NEW T, NEW q \in Seq(T), NEW w, \A x \in T : w[x] \in Int,
         \A x \in ToSet(q) : w[x] = 1
  PROVE  Total(w, q) = Len(q)
<1> DEFINE X == {s \in Seq(T) : (\A x \in ToSet(s) : w[x] = 1) => Total(w, s) = Len(s)}
<1>1. <<>> \in X
  BY EmptySeq, TotalEmpty
<1>2. ASSUME NEW s \in Seq(T), NEW x \in T, s \in X PROVE Append(s, x) \in X
  <2>1. /\ Append(s, x) \in Seq(T) /\ ToSet(Append(s, x)) = ToSet(s) \cup {x}
        /\ Len(Append(s, x)) = Len(s) + 1
    BY AppendProperties, ToSetAppend
  <2>2. Total(w, Append(s, x)) = Total(w, s) + w[x]
    BY TotalAppend
  <2> QED
    BY <1>2, <2>1, <2>2
<1>3. Seq(T) \subseteq X
  <2> HIDE DEF X
  <2> QED
    BY <1>1, <1>2, SeqSet
<1> QED
  BY <1>3

\* A request less, and its weight.
LEMMA TotalWithout ==
  ASSUME NEW T, NEW q \in Seq(T), NEW w, \A y \in T : w[y] \in Nat, NEW x \in ToSet(q)
  PROVE  Total(w, Those(q, T \ {x})) + w[x] <= Total(w, q)
<1> DEFINE S == T \ {x}
           X == {s \in Seq(T) : x \in ToSet(s) => Total(w, Those(s, S)) + w[x] <= Total(w, s)}
<1>0. x \in T /\ w[x] \in Nat /\ \A y \in T : w[y] \in Int
  BY ToSetRange
<1>1. <<>> \in X
  BY EmptySeq, ToSetEmpty
<1>2. ASSUME NEW s \in Seq(T), NEW y \in T, s \in X PROVE Append(s, y) \in X
  <2>1. Append(s, y) \in Seq(T) /\ ToSet(Append(s, y)) = ToSet(s) \cup {y}
    BY AppendProperties, ToSetAppend
  <2>2. Total(w, s) \in Nat /\ Total(w, Append(s, y)) = Total(w, s) + w[y] /\ w[y] \in Nat
    BY <1>0, TotalNat, TotalAppend
  <2>3. Those(s, S) \in Seq(T)
    BY ThoseKept
  <2>4. Total(w, Those(s, S)) \in Nat /\ Total(w, Those(s, S)) <= Total(w, s)
    BY <2>3, TotalNat, TotalThose
  <2>5. Those(Append(s, y), S) = IF y \in S THEN Append(Those(s, S), y) ELSE Those(s, S)
    BY ThoseAppend
  <2>6. Total(w, Append(Those(s, S), y)) = Total(w, Those(s, S)) + w[y]
    BY <1>0, <2>3, TotalAppend
  <2> SUFFICES ASSUME x \in ToSet(Append(s, y))
               PROVE  Total(w, Those(Append(s, y), S)) + w[x] <= Total(w, Append(s, y))
    BY <2>1
  <2>7. CASE y = x
    <3>1. Those(Append(s, y), S) = Those(s, S)
      BY <2>5, <2>7
    <3> HIDE DEF S
    <3> QED
      BY <1>0, <2>2, <2>4, <2>7, <3>1
  <2>8. CASE y # x
    <3>1. Those(Append(s, y), S) = Append(Those(s, S), y)
      BY <2>5, <2>8
    <3>2. x \in ToSet(s)
      BY <2>1, <2>8
    <3>3. Total(w, Those(s, S)) + w[x] <= Total(w, s)
      BY <1>2, <3>2
    <3> HIDE DEF S
    <3> QED
      BY <1>0, <2>2, <2>4, <2>6, <3>1, <3>3
  <2> QED
    BY <2>7, <2>8
<1>3. Seq(T) \subseteq X
  <2> HIDE DEF X
  <2> QED
    BY <1>1, <1>2, SeqSet
<1> QED
  BY <1>3

\* A batch without duplicates weighs no more than another one if everybody in it
\* weighs nothing, or is in the other one and weighs no more than there.
LEMMA TotalWithin ==
  ASSUME NEW T, NEW v, NEW w, \A x \in T : v[x] \in Nat /\ w[x] \in Nat,
         NEW p \in Seq(T), NEW q \in Seq(T), OneEach(p),
         \A x \in ToSet(p) : v[x] = 0 \/ (x \in ToSet(q) /\ v[x] <= w[x])
  PROVE  Total(v, p) <= Total(w, q)
<1> DEFINE Has(s, u) == \A x \in ToSet(s) : v[x] = 0 \/ (x \in ToSet(u) /\ v[x] <= w[x])
           X == {s \in Seq(T) : OneEach(s) => \A u \in Seq(T) : Has(s, u) => Total(v, s) <= Total(w, u)}
<1>1. <<>> \in X
  <2>1. \A u \in Seq(T) : Total(w, u) \in Nat
    BY TotalNat
  <2> QED
    BY <2>1, EmptySeq, TotalEmpty
<1>2. ASSUME NEW s \in Seq(T), NEW y \in T, s \in X PROVE Append(s, y) \in X
  <2>1. Append(s, y) \in Seq(T) /\ ToSet(Append(s, y)) = ToSet(s) \cup {y}
    BY AppendProperties, ToSetAppend
  <2>2. ASSUME OneEach(Append(s, y)), NEW u \in Seq(T), Has(Append(s, y), u)
        PROVE  Total(v, Append(s, y)) <= Total(w, u)
    <3>1. OneEach(s) /\ y \notin ToSet(s)
      BY <2>2, OneEachAppend
    <3>2. Total(v, s) \in Nat /\ Total(v, Append(s, y)) = Total(v, s) + v[y] /\ v[y] \in Nat
      <4>1. \A x \in T : v[x] \in Nat /\ v[x] \in Int
        OBVIOUS
      <4>2. Total(v, s) \in Nat
        BY <4>1, TotalNat
      <4>3. Total(v, Append(s, y)) = Total(v, s) + v[y]
        BY <4>1, TotalAppend
      <4> QED
        BY <4>1, <4>2, <4>3
    <3>3. \A x \in ToSet(s) : v[x] = 0 \/ (x \in ToSet(u) /\ v[x] <= w[x])
      BY <2>1, <2>2
    <3>4. CASE v[y] = 0
      <4>1. Total(v, s) <= Total(w, u)
        BY <1>2, <3>1, <3>3
      <4> QED
        BY <3>2, <3>4, <4>1
    <3>5. CASE v[y] # 0
      <4>1. y \in ToSet(u) /\ v[y] <= w[y]
        BY <2>1, <2>2, <3>5
      <4> DEFINE r == Those(u, T \ {y})
      <4>2. r \in Seq(T) /\ ToSet(r) = ToSet(u) \cap (T \ {y})
        BY ThoseKept
      <4>3. Total(w, r) + w[y] <= Total(w, u)
        BY <4>1, TotalWithout
      <4> HIDE DEF r
      <4>4. Has(s, r)
        <5>1. ToSet(s) \subseteq T
          BY ToSetRange
        <5> QED
          BY <3>1, <3>3, <4>2, <5>1
      <4>5. Total(v, s) <= Total(w, r)
        BY <1>2, <3>1, <4>2, <4>4
      <4>6. Total(w, r) \in Nat /\ Total(w, u) \in Nat /\ w[y] \in Nat
        <5>1. \A x \in T : w[x] \in Nat
          OBVIOUS
        <5> QED
          BY <4>2, <5>1, TotalNat
      <4> QED
        BY <3>2, <4>1, <4>3, <4>5, <4>6
    <3> QED
      BY <3>4, <3>5
  <2> QED
    BY <2>1, <2>2
<1>3. Seq(T) \subseteq X
  <2> HIDE DEF X
  <2> QED
    BY <1>1, <1>2, SeqSet
<1>4. Has(p, q)
  OBVIOUS
<1> HIDE DEF Has
<1> QED
  BY <1>3, <1>4

\* The total of two sequences, one behind the other.
LEMMA TotalConcat ==
  ASSUME NEW T, NEW p \in Seq(T), NEW q \in Seq(T), NEW w, \A x \in T : w[x] \in Int
  PROVE  Total(w, p \o q) = Total(w, p) + Total(w, q)
<1> DEFINE X == {s \in Seq(T) : Total(w, p \o s) = Total(w, p) + Total(w, s)}
<1>1. <<>> \in X
  <2>1. p \o <<>> = p /\ Total(w, <<>>) = 0 /\ Total(w, p) \in Int
    BY ConcatEmptySeq, TotalEmpty, TotalInt
  <2> QED
    BY <2>1, EmptySeq
<1>2. ASSUME NEW s \in Seq(T), NEW x \in T, s \in X PROVE Append(s, x) \in X
  <2>1. p \o s \in Seq(T) /\ p \o Append(s, x) = Append(p \o s, x)
    <3>1. Append(s, x) = s \o <<x>> /\ Append(p \o s, x) = (p \o s) \o <<x>> /\ <<x>> \in Seq(T)
      BY AppendIsConcat, ConcatProperties
    <3> QED
      BY <3>1, ConcatAssociative, ConcatProperties
  <2>2. Total(w, Append(p \o s, x)) = Total(w, p \o s) + w[x]
    BY <2>1, TotalAppend, ZenonT(40)
  <2>3. Total(w, Append(s, x)) = Total(w, s) + w[x]
    BY TotalAppend
  <2>4. Total(w, p) \in Int /\ Total(w, s) \in Int
    BY TotalInt
  <2>5. Total(w, p \o Append(s, x)) = Total(w, p) + Total(w, Append(s, x))
    BY <1>2, <2>1, <2>2, <2>3, <2>4
  <2> QED
    BY <2>5, AppendProperties
<1>3. Seq(T) \subseteq X
  <2> HIDE DEF X
  <2> QED
    BY <1>1, <1>2, SeqSet
<1> QED
  BY <1>3

-----------------------------------------------------------------------------
(* The record of a request.                                                *)

Record(P) ==
  [prompt : Nat, begin : Nat, end : Nat, chunk_size : Nat, generated : Nat,
   outputs : Nat, is_finished : BOOLEAN, fusion_exec : BOOLEAN, params : P,
   cached : SUBSET Nat]

\* The chunk lies inside the prompt, and so does what is computed.
Inside(q) == q.begin <= q.end /\ q.end <= q.prompt /\ q.cached \subseteq 0 .. q.prompt - 1

\* A request in a batch has a chunk to compute or has computed its prompt; a
\* chunk that does not end with the prompt is used up.
Started(q) ==
    /\ Context(q) => q.begin < q.end
    /\ FollowUp(q) => q.chunk_size = q.end - q.begin

\* A request in a queue has its whole prompt before it.
Whole(q) ==
    /\ Context(q) /\ q.prompt > 0
    /\ q.begin = 0 /\ q.end = q.prompt /\ q.cached = {}

\* The fields that chunks do not touch.
SameLife(p, q) ==
    /\ p.prompt = q.prompt /\ p.generated = q.generated /\ p.outputs = q.outputs
    /\ p.is_finished = q.is_finished /\ p.params = q.params /\ p.cached = q.cached

\* The input tokens of a request are a natural number.
LEMMA InputTokensNat ==
  ASSUME NEW P, NEW q \in Record(P) PROVE InputTokens(q) \in Nat
  BY DEF Record, InputTokens, Context

\* allocate_next_chunk: the next chunk begins where the last one ended.
LEMMA NextChunkRecord ==
  ASSUME NEW P, NEW q \in Record(P), NEW extra \in Nat
  PROVE  /\ NextChunk(q, extra).begin = q.end
         /\ NextChunk(q, extra).end = Least(q.end + q.chunk_size + extra, q.prompt)
         /\ NextChunk(q, extra).chunk_size = q.chunk_size + extra
         /\ NextChunk(q, extra).fusion_exec = q.fusion_exec
         /\ SameLife(NextChunk(q, extra), q)
         /\ NextChunk(q, extra) \in Record(P)
<1>1. Least(q.end + q.chunk_size + extra, q.prompt) \in Nat
  BY DEF Record, Least
<1> DEFINE e == Least(q.end + q.chunk_size + extra, q.prompt)
           n == [q EXCEPT !.chunk_size = @ + extra, !.begin = q.end, !.end = e]
<1>2. NextChunk(q, extra) = n
  BY DEF NextChunk
<1>3. q.chunk_size + extra \in Nat /\ q.end \in Nat
  BY DEF Record
<1> HIDE DEF e
<1>4. /\ n.begin = q.end /\ n.end = e /\ n.chunk_size = q.chunk_size + extra
      /\ n.fusion_exec = q.fusion_exec /\ SameLife(n, q)
  BY DEF Record, SameLife
<1>5. n \in Record(P)
  BY <1>1, <1>3 DEF Record, e
<1> QED
  BY <1>2, <1>4, <1>5 DEF e

\* The next chunk is not empty, and it uses up what it was given or hands it on.
LEMMA NextChunkFits ==
  ASSUME NEW P, NEW q \in Record(P), NEW extra \in Nat,
         FollowUp(q), Inside(q), Started(q)
  PROVE  LET n == NextChunk(q, extra)
         IN  /\ Inside(n) /\ Started(n) /\ n.begin < n.end
             /\ Unused(n) \in Nat
             /\ InputTokens(n) + Unused(n) = InputTokens(q) + extra
<1> DEFINE n == NextChunk(q, extra)
<1>1. /\ n.begin = q.end /\ n.end = Least(q.end + q.chunk_size + extra, q.prompt)
      /\ n.chunk_size = q.chunk_size + extra /\ SameLife(n, q) /\ n \in Record(P)
  BY NextChunkRecord
<1> HIDE DEF n
<1>2. /\ q.prompt \in Nat /\ q.begin \in Nat /\ q.end \in Nat /\ q.chunk_size \in Nat
      /\ q.generated = 0 /\ q.end < q.prompt /\ q.begin < q.end
      /\ q.chunk_size = q.end - q.begin /\ q.cached \subseteq 0 .. q.prompt - 1
  BY DEF Record, FollowUp, Context, Inside, Started
<1>3. n.generated = 0 /\ n.prompt = q.prompt /\ n.cached = q.cached
  BY <1>1, <1>2 DEF SameLife
<1>4. n.begin \in Nat /\ n.end \in Nat /\ n.begin < n.end /\ n.end <= n.prompt
      /\ n.end - n.begin <= n.chunk_size
      /\ (n.end < n.prompt => n.chunk_size = n.end - n.begin)
  BY <1>1, <1>2, <1>3 DEF Least
<1>5. Inside(n) /\ Started(n)
  BY <1>2, <1>3, <1>4 DEF Inside, Started, Context, FollowUp
<1>6. InputTokens(n) = n.end - n.begin /\ InputTokens(q) = q.end - q.begin
  BY <1>2, <1>3, <1>4 DEF InputTokens, Context
<1>7. Unused(n) \in Nat /\ InputTokens(n) + Unused(n) = InputTokens(q) + extra
  BY <1>1, <1>2, <1>4, <1>6 DEF Unused
<1> QED
  BY <1>4, <1>5, <1>7 DEF n

\* set_chunk: a chunk of another size from the same beginning.
LEMMA SetChunkRecord ==
  ASSUME NEW P, NEW q \in Record(P), NEW size \in Nat
  PROVE  /\ SetChunk(q, size).begin = q.begin
         /\ SetChunk(q, size).end = Least(q.prompt, q.begin + size)
         /\ SetChunk(q, size).chunk_size = size
         /\ SetChunk(q, size).fusion_exec = q.fusion_exec
         /\ SameLife(SetChunk(q, size), q)
         /\ SetChunk(q, size) \in Record(P)
<1>1. Least(q.prompt, q.begin + size) \in Nat
  BY DEF Record, Least
<1> QED
  BY <1>1 DEF Record, SetChunk, SameLife

\* The first chunk of a request that comes from a queue.
LEMMA SetChunkFits ==
  ASSUME NEW P, NEW q \in Record(P), NEW size \in Nat, size > 0, Whole(q)
  PROVE  LET n == SetChunk(q, size)
         IN  Inside(n) /\ Started(n) /\ Context(n) /\ InputTokens(n) <= size
<1> DEFINE n == SetChunk(q, size)
<1>1. /\ n.begin = q.begin /\ n.end = Least(q.prompt, q.begin + size)
      /\ n.chunk_size = size /\ SameLife(n, q) /\ n \in Record(P)
  BY SetChunkRecord
<1> HIDE DEF n
<1>2. /\ q.prompt \in Nat /\ q.prompt > 0 /\ q.begin = 0
      /\ q.generated = 0 /\ q.cached = {}
  BY DEF Record, Whole, Context
<1>3. n.generated = 0 /\ n.prompt = q.prompt /\ n.cached = {}
  BY <1>1, <1>2 DEF SameLife
<1>4. n.begin = 0 /\ n.end \in Nat /\ n.begin < n.end /\ n.end <= n.prompt /\ n.end <= size
      /\ (n.end < n.prompt => n.end = size)
  BY <1>1, <1>2, <1>3 DEF Least
<1>5. Inside(n) /\ Started(n) /\ Context(n)
  BY <1>1, <1>2, <1>3, <1>4 DEF Inside, Started, Context, FollowUp
<1>6. InputTokens(n) <= size
  BY <1>3, <1>4 DEF InputTokens, Context
<1> QED
  BY <1>5, <1>6 DEF n

-----------------------------------------------------------------------------
(* The chunks that follow.                                                 *)

\* What is free after each request of the batch.
Frees(free, start, rq, run) ==
    /\ free[0] = start
    /\ \A k \in Nat : k < Len(run) =>
         free[k + 1] = IF FollowUp(rq[run[k + 1]])
                       THEN Unused(NextChunk(rq[run[k + 1]], free[k]))
                       ELSE free[k]

\* A batch to whose chunks tokens can be given.
Batch(rq, run, R, P) ==
    /\ rq \in [R -> Record(P)]
    /\ run \in Seq(R) /\ OneEach(run)
    /\ \A r \in ToSet(run) : Inside(rq[r]) /\ Started(rq[r])

\* The place of r in the batch.
PlaceIn(run, r) == CHOOSE k \in 1 .. Len(run) : run[k] = r

\* a is what ChunksFrom gives to the requests of the batch.
Gives(a, free, start, rq, run, R) ==
    /\ Frees(free, start, rq, run)
    /\ a.free = free[Len(run)]
    /\ DOMAIN a.req = R
    /\ \A r \in R : a.req[r] = IF r \in ToSet(run) /\ FollowUp(rq[r])
                               THEN NextChunk(rq[r], free[PlaceIn(run, r) - 1])
                               ELSE rq[r]

\* The recursive function of ChunksFrom exists: the tokens left, request by request.
LEMMA Freeing ==
  ASSUME NEW R, NEW P, NEW rq, NEW run, Batch(rq, run, R, P), NEW start \in Nat
  PROVE  \E free \in [Nat -> Nat] : Gives(ChunksFrom(start, rq, run), free, start, rq, run, R)
<1> DEFINE n == Len(run)
           G == [k \in Nat |-> [s \in Nat |-> IF k \in 1 .. n /\ FollowUp(rq[run[k]])
                                             THEN Unused(NextChunk(rq[run[k]], s))
                                             ELSE s]]
           Fix(f) == f = [k \in 0 .. n |->
                            IF k = 0 THEN start
                            ELSE IF FollowUp(rq[run[k]])
                            THEN Unused(NextChunk(rq[run[k]], f[k - 1]))
                            ELSE f[k - 1]]
<1>1. /\ n \in Nat /\ DOMAIN run = 1 .. n /\ DOMAIN rq = R
      /\ \A k \in 1 .. n : run[k] \in R /\ run[k] \in ToSet(run)
  BY LenProperties, ElementOfSeq DEF Batch, ToSet
<1>2. \A k \in 1 .. n, s \in Nat : FollowUp(rq[run[k]]) => Unused(NextChunk(rq[run[k]], s)) \in Nat
  BY <1>1, NextChunkFits DEF Batch
<1>3. PICK f \in [Nat -> Nat] : Follows(f, start, G)
  <2>1. G \in [Nat -> [Nat -> Nat]]
    BY <1>2
  <2> HIDE DEF G
  <2> QED
    BY <2>1, Recursion
<1>4. Frees(f, start, rq, run)
  <2>1. f[0] = start /\ \A k \in Nat : f[k + 1] = G[k + 1][f[k]] /\ f[k] \in Nat
    BY <1>3 DEF Follows
  <2>2. ASSUME NEW k \in Nat, k < n
        PROVE  f[k + 1] = IF FollowUp(rq[run[k + 1]])
                          THEN Unused(NextChunk(rq[run[k + 1]], f[k]))
                          ELSE f[k]
    <3>1. k + 1 \in Nat /\ k + 1 \in 1 .. n
      BY <1>1, <2>2
    <3> QED
      BY <2>1, <3>1
  <2> QED
    BY <2>1, <2>2 DEF Frees
<1> HIDE DEF G
<1>5. Fix([k \in 0 .. n |-> f[k]])
  <2>1. ASSUME NEW k \in 0 .. n, k # 0
        PROVE  f[k] = IF FollowUp(rq[run[k]])
                      THEN Unused(NextChunk(rq[run[k]], f[k - 1]))
                      ELSE f[k - 1]
    <3>1. k - 1 \in Nat /\ k - 1 < n /\ (k - 1) + 1 = k
      BY <1>1, <2>1
    <3> QED
      BY <1>4, <3>1 DEF Frees
  <2>2. \A k \in 0 .. n : k # 0 => k - 1 \in 0 .. n
    BY <1>1
  <2> QED
    BY <1>4, <2>1, <2>2 DEF Frees
<1> DEFINE free == CHOOSE g : Fix(g)
<1>6. Fix(free)
  <2> HIDE DEF Fix
  <2> QED
    BY <1>5
<1>7. /\ ChunksFrom(start, rq, run).free = free[n]
      /\ ChunksFrom(start, rq, run).req =
           [r \in DOMAIN rq |-> IF r \in ToSet(run) /\ FollowUp(rq[r])
                                THEN NextChunk(rq[r], free[PlaceIn(run, r) - 1])
                                ELSE rq[r]]
  BY DEF ChunksFrom, PlaceIn
<1> HIDE DEF free
<1>8. \A k \in 0 .. n : free[k] = f[k]
  <2> DEFINE E == {k \in Nat : k <= n => free[k] = f[k]}
  <2>1. 0 \in E
    BY <1>1, <1>4, <1>6 DEF Frees
  <2>2. ASSUME NEW k \in Nat, k \in E PROVE k + 1 \in E
    <3> SUFFICES ASSUME k + 1 <= n PROVE free[k + 1] = f[k + 1]
      OBVIOUS
    <3>1. k + 1 \in 0 .. n /\ k + 1 # 0 /\ (k + 1) - 1 = k /\ k < n /\ k <= n
      BY <1>1
    <3>. free[k] = f[k]
      BY <2>2, <3>1
    <3>2. free[k + 1] = IF FollowUp(rq[run[k + 1]])
                        THEN Unused(NextChunk(rq[run[k + 1]], free[k]))
                        ELSE free[k]
      BY <1>6, <3>1
    <3> QED
      BY <1>4, <3>1, <3>2 DEF Frees
  <2>3. Nat \subseteq E
    <3> HIDE DEF E
    <3> QED
      BY <2>1, <2>2, NatSet
  <2> QED
    BY <1>1, <2>3
<1> HIDE DEF Fix
<1>9. free[n] = f[n]
  BY <1>1, <1>8
<1>10. \A r \in ToSet(run) : free[PlaceIn(run, r) - 1]
                           = f[PlaceIn(run, r) - 1]
  <2> SUFFICES ASSUME NEW r \in ToSet(run)
               PROVE  free[PlaceIn(run, r) - 1]
                        = f[PlaceIn(run, r) - 1]
    OBVIOUS
  <2>1. \E k \in 1 .. n : run[k] = r
    BY <1>1 DEF ToSet
  <2>2. PlaceIn(run, r) \in 1 .. n
    BY <2>1 DEF PlaceIn
  <2>3. PlaceIn(run, r) - 1 \in 0 .. n
    BY <1>1, <2>2, SMTT(30)
  <2> QED
    BY <1>8, <2>3
<1>11. \A r \in R : ChunksFrom(start, rq, run).req[r] =
                IF r \in ToSet(run) /\ FollowUp(rq[r])
                THEN NextChunk(rq[r], f[PlaceIn(run, r) - 1])
                ELSE rq[r]
  BY <1>1, <1>7, <1>10
<1>12. DOMAIN ChunksFrom(start, rq, run).req = R
  BY <1>1, <1>7
<1>13. Gives(ChunksFrom(start, rq, run), f, start, rq, run, R)
  BY <1>4, <1>7, <1>9, <1>11, <1>12 DEF Gives
<1> QED
  BY <1>13

\* A prefix that is longer by one.
LEMMA PrefixAppend ==
  ASSUME NEW T, NEW q \in Seq(T), NEW k \in Nat, k < Len(q)
  PROVE  /\ SubSeq(q, 1, k) \in Seq(T) /\ q[k + 1] \in T
         /\ SubSeq(q, 1, k + 1) = Append(SubSeq(q, 1, k), q[k + 1])
<1>1. Len(q) \in Nat /\ k + 1 \in 1 .. Len(q) /\ 1 \in 1 .. Len(q) /\ (k + 1) - 1 = k
      /\ k + 1 \in 1 .. Len(q)
  BY LenProperties
<1>2. q[k + 1] \in T /\ \A i \in 1 .. k : q[i] \in T
  BY <1>1, ElementOfSeq
<1>3. SubSeq(q, 1, k) \in Seq(T)
  BY <1>2, SubSeqProperties
<1>4. SubSeq(q, 1, k + 1) = SubSeq(q, 1, (k + 1) - 1) \o <<q[k + 1]>>
  BY <1>1, SubSeqRecursiveSecond
<1>5. Append(SubSeq(q, 1, k), q[k + 1]) = SubSeq(q, 1, k) \o <<q[k + 1]>>
  BY <1>2, <1>3, AppendIsConcat
<1> QED
  BY <1>1, <1>2, <1>3, <1>4, <1>5

\* What the requests weigh.
Weights(rq) == [r \in DOMAIN rq |-> InputTokens(rq[r])]

\* The weights of requests are natural numbers.
LEMMA WeightsNat ==
  ASSUME NEW R, NEW P, NEW rq \in [R -> Record(P)]
  PROVE  /\ \A r \in R : Weights(rq)[r] = InputTokens(rq[r]) /\ Weights(rq)[r] \in Nat
         /\ \A q : TokensOf(rq, q) = Total(Weights(rq), q)
  BY InputTokensNat DEF Weights, TokensOf

\* The tokens of a batch are a natural number.
LEMMA TokensNat ==
  ASSUME NEW R, NEW P, NEW rq \in [R -> Record(P)], NEW q \in Seq(R)
  PROVE  TokensOf(rq, q) \in Nat
  BY WeightsNat, TotalNat

\* A part of a batch has no more tokens than the batch.
LEMMA TokensThose ==
  ASSUME NEW R, NEW P, NEW rq \in [R -> Record(P)], NEW q \in Seq(R), NEW S
  PROVE  TokensOf(rq, Those(q, S)) <= TokensOf(rq, q)
<1> PICK w : w = Weights(rq)
  OBVIOUS
<1>1. \A r \in R : w[r] \in Nat
  BY WeightsNat
<1>2. Total(w, Those(q, S)) <= Total(w, q)
  BY <1>1, TotalThose
<1>3. TokensOf(rq, q) = Total(w, q) /\ TokensOf(rq, Those(q, S)) = Total(w, Those(q, S))
  BY DEF Weights, TokensOf
<1> QED
  BY <1>2, <1>3

\* Where no request has more tokens, the batch has not.
LEMMA TokensLess ==
  ASSUME NEW R, NEW P, NEW rq \in [R -> Record(P)], NEW rp \in [R -> Record(P)], NEW q \in Seq(R),
         \A r \in ToSet(q) : InputTokens(rp[r]) <= InputTokens(rq[r])
  PROVE  TokensOf(rp, q) <= TokensOf(rq, q)
<1>1. PICK v, w : v = Weights(rp) /\ w = Weights(rq)
  OBVIOUS
<1>2. \A r \in R : v[r] = InputTokens(rp[r]) /\ v[r] \in Nat
  BY <1>1, WeightsNat
<1>3. \A r \in R : w[r] = InputTokens(rq[r]) /\ w[r] \in Nat
  BY <1>1, WeightsNat
<1>4. \A r \in ToSet(q) : v[r] <= w[r]
  BY <1>2, <1>3, ToSetRange
<1>5. \A r \in R : v[r] \in Int /\ w[r] \in Int
  BY <1>2, <1>3
<1>6. Total(v, q) <= Total(w, q)
  BY <1>4, <1>5, TotalLess
<1>7. TokensOf(rp, q) = Total(v, q) /\ TokensOf(rq, q) = Total(w, q)
  BY <1>1 DEF Weights, TokensOf
<1> QED
  BY <1>6, <1>7

\* Prefill requests that leave the batch or become decodes make it lighter.
LEMMA PrefillsLess ==
  ASSUME NEW R, NEW P, NEW rq \in [R -> Record(P)], NEW rp \in [R -> Record(P)], NEW q \in Seq(R),
         NEW S,
         \A r \in ToSet(q) \cap S : InputTokens(rp[r]) <= InputTokens(rq[r])
                                 /\ (Context(rp[r]) => Context(rq[r]))
  PROVE  TokensOf(rp, Prefills(rp, Those(q, S))) <= TokensOf(rq, Prefills(rq, q))
<1>1. PICK C, D : C = {r \in R : Context(rq[r])} /\ D = {r \in R : Context(rp[r])}
  OBVIOUS
<1>2. PICK p \in Seq(R), t \in Seq(R) : p = Those(q, C) /\ t = Those(q, S \cap D)
  BY ThoseKept
<1>3. Prefills(rq, q) = p
  BY <1>1, <1>2 DEF Prefills
<1>4. Prefills(rp, Those(q, S)) = t
  <2>1. Prefills(rp, Those(q, S)) = Those(Those(q, S), D)
    BY <1>1 DEF Prefills
  <2> QED
    BY <1>2, <2>1, ThoseThose
<1>5. t = Those(p, S \cap D)
  <2>1. Those(Those(q, C), S \cap D) = Those(q, C \cap (S \cap D))
    BY ThoseThose
  <2>2. ToSet(q) \cap (S \cap D) = ToSet(q) \cap (C \cap (S \cap D))
    BY <1>1
  <2>3. Those(q, S \cap D) = Those(q, C \cap (S \cap D))
    BY <2>2, ThoseSame
  <2> QED
    BY <1>2, <2>1, <2>3, Zenon
<1>6. TokensOf(rq, t) <= TokensOf(rq, p)
  BY <1>2, <1>5, TokensThose
<1>7. TokensOf(rp, t) <= TokensOf(rq, t)
  <2>1. ToSet(t) = ToSet(q) \cap (S \cap D)
    BY <1>2, ThoseKept
  <2>2. \A r \in ToSet(t) : InputTokens(rp[r]) <= InputTokens(rq[r])
    BY <2>1
  <2> QED
    BY <1>2, <2>2, TokensLess
<1>8. TokensOf(rp, t) \in Int /\ TokensOf(rq, t) \in Int /\ TokensOf(rq, p) \in Int
  BY <1>2, TokensNat
<1> QED
  BY <1>3, <1>4, <1>6, <1>7, <1>8

\* One more request: what it is given and what is left still add up.
LEMMA SumsGrow ==
  ASSUME NEW b \in Int, NEW c \in Int, NEW f \in Int, NEW g \in Int, NEW x \in Int, NEW y \in Int,
         NEW start \in Int, b + f = c + start, x + g = y + f
  PROVE  (b + x) + g = (c + y) + start
  OBVIOUS

\* Giving chunks to the requests of a batch: no token is given twice or lost.
LEMMA Chunks ==
  ASSUME NEW R, NEW P, NEW rq, NEW run, Batch(rq, run, R, P), NEW start \in Nat
  PROVE  LET a == ChunksFrom(start, rq, run)
         IN  /\ a.req \in [R -> Record(P)] /\ a.free \in Nat
             /\ \A r \in R : IF r \in ToSet(run) /\ FollowUp(rq[r])
                             THEN \E extra \in Nat : a.req[r] = NextChunk(rq[r], extra)
                             ELSE a.req[r] = rq[r]
             /\ TokensOf(a.req, run) + a.free = TokensOf(rq, run) + start
<1> SUFFICES ASSUME NEW a, a = ChunksFrom(start, rq, run)
             PROVE  /\ a.req \in [R -> Record(P)] /\ a.free \in Nat
                    /\ \A r \in R : IF r \in ToSet(run) /\ FollowUp(rq[r])
                                    THEN \E extra \in Nat : a.req[r] = NextChunk(rq[r], extra)
                                    ELSE a.req[r] = rq[r]
                    /\ TokensOf(a.req, run) + a.free = TokensOf(rq, run) + start
  OBVIOUS
<1> DEFINE n == Len(run)
<1>0. n \in Nat
  BY LenProperties DEF Batch
<1>1. PICK free \in [Nat -> Nat] : Gives(a, free, start, rq, run, R)
  BY Freeing
<1>2. /\ DOMAIN run = 1 .. n /\ DOMAIN rq = R
      /\ run \in Seq(R) /\ rq \in [R -> Record(P)]
      /\ \A k \in 1 .. n : run[k] \in R /\ run[k] \in ToSet(run)
  BY LenProperties, ElementOfSeq DEF Batch, ToSet
<1>3. \A k \in 1 .. n : PlaceIn(run, run[k]) = k
  BY DEF Batch, OneEach, PlaceIn
<1>4. \A r \in ToSet(run) : \E k \in 1 .. n : r = run[k] /\ PlaceIn(run, r) = k
  BY <1>2, <1>3 DEF ToSet
<1>5. \A r \in R : IF r \in ToSet(run) /\ FollowUp(rq[r])
                   THEN \E extra \in Nat : a.req[r] = NextChunk(rq[r], extra)
                   ELSE a.req[r] = rq[r]
  <2> SUFFICES ASSUME NEW r \in R, r \in ToSet(run), FollowUp(rq[r])
               PROVE  \E extra \in Nat : a.req[r] = NextChunk(rq[r], extra)
    BY <1>1 DEF Gives
  <2>1. PICK k \in 1 .. n : PlaceIn(run, r) = k
    BY <1>4
  <2>2. free[k - 1] \in Nat
    <3>1. k - 1 \in Nat
      BY <1>0, <2>1
    <3> QED
      BY <1>1, <3>1
  <2>3. a.req[r] = NextChunk(rq[r], free[k - 1])
    BY <1>1, <2>1 DEF Gives
  <2> QED
    BY <2>2, <2>3
<1>6. \A r \in R : a.req[r] \in Record(P)
  BY <1>2, <1>5, NextChunkRecord
<1>7. a.req = [r \in R |-> a.req[r]]
  BY <1>1 DEF ChunksFrom, Gives
<1>8. a.req \in [R -> Record(P)] /\ a.free \in Nat
  BY <1>0, <1>1, <1>6, <1>7 DEF Gives
<1>8a. PICK v, w : v = Weights(a.req) /\ w = Weights(rq)
  OBVIOUS
<1> DEFINE E == {k \in Nat : k <= n => Total(v, SubSeq(run, 1, k)) + free[k]
                                         = Total(w, SubSeq(run, 1, k)) + start}
<1>9. \A r \in R : /\ v[r] = InputTokens(a.req[r]) /\ v[r] \in Nat
                   /\ w[r] = InputTokens(rq[r]) /\ w[r] \in Nat
  <2>1. \A r \in R : v[r] = InputTokens(a.req[r]) /\ v[r] \in Nat
    BY <1>8, <1>8a, WeightsNat
  <2>2. \A r \in R : w[r] = InputTokens(rq[r]) /\ w[r] \in Nat
    BY <1>2, <1>8a, WeightsNat, SMTT(30)
  <2> QED
    BY <2>1, <2>2
<1>9a. \A x \in R : v[x] \in Int /\ w[x] \in Int
  <2> HIDE DEF E, n
  <2> QED
    BY <1>9
<1>10. 0 \in E
  <2>1. SubSeq(run, 1, 0) = <<>>
    BY SubSeqEmpty
  <2> QED
    BY <1>0, <1>1, <2>1, TotalEmpty DEF Frees, Gives
<1>11. ASSUME NEW k \in Nat, k \in E PROVE k + 1 \in E
  <2> SUFFICES ASSUME k + 1 <= n
               PROVE  Total(v, SubSeq(run, 1, k + 1)) + free[k + 1]
                        = Total(w, SubSeq(run, 1, k + 1)) + start
    OBVIOUS
  <2> DEFINE r == run[k + 1]
             s == SubSeq(run, 1, k)
  <2>1. k + 1 \in 1 .. n /\ k < n /\ k <= n /\ k + 1 \in Nat
    BY <1>0, SMTT(30)
  <2>1a. free[k] \in Nat /\ free[k + 1] \in Nat
    BY <2>1
  <2>2. r \in R /\ r \in ToSet(run) /\ PlaceIn(run, r) = k + 1 /\ PlaceIn(run, r) - 1 = k
    BY <1>0, <1>2, <1>3, <2>1
  <2>3. s \in Seq(R) /\ SubSeq(run, 1, k + 1) = Append(s, r)
    BY <1>2, <2>1, PrefixAppend
  <2>4. free[k + 1] = IF FollowUp(rq[r]) THEN Unused(NextChunk(rq[r], free[k])) ELSE free[k]
    BY <1>1, <2>1 DEF Frees, Gives
  <2>5. Total(v, s) + free[k] = Total(w, s) + start
    BY <1>11, <2>1
  <2> HIDE DEF r, s
  <2>7. v[r] + free[k + 1] = w[r] + free[k]
    <3>1. CASE FollowUp(rq[r])
      <4>1. a.req[r] = NextChunk(rq[r], free[k])
        BY <1>1, <2>2, <3>1 DEF Gives
      <4>2. /\ Inside(rq[r]) /\ Started(rq[r]) /\ rq[r] \in Record(P)
        BY <1>2, <2>2 DEF Batch
      <4>3. InputTokens(NextChunk(rq[r], free[k])) + Unused(NextChunk(rq[r], free[k]))
              = InputTokens(rq[r]) + free[k]
        BY <2>1a, <3>1, <4>2, NextChunkFits
      <4> QED
        BY <1>9, <2>2, <2>4, <3>1, <4>1, <4>3
    <3>2. CASE ~ FollowUp(rq[r])
      <4>1. a.req[r] = rq[r]
        BY <1>1, <2>2, <3>2 DEF Gives
      <4> QED
        BY <1>9, <2>2, <2>4, <3>2, <4>1
    <3> QED
      BY <3>1, <3>2
  <2>8. PICK b \in Int, c \in Int, x \in Int, y \in Int :
          b = Total(v, s) /\ c = Total(w, s) /\ x = v[r] /\ y = w[r]
    <3>1. Total(v, s) \in Int /\ Total(w, s) \in Int /\ v[r] \in Int /\ w[r] \in Int
      BY <1>9a, <2>2, <2>3, TotalInt
    <3> QED
      BY <3>1
  <2>9. PICK f \in Int, g \in Int : f = free[k] /\ g = free[k + 1]
    BY <2>1a
  <2>10. start \in Int
    OBVIOUS
  <2>11. (b + x) + g = (c + y) + start
    <3>1. b + f = c + start
      BY <2>5, <2>8, <2>9
    <3>2. x + g = y + f
      BY <2>7, <2>8, <2>9
    <3> QED
      BY <2>10, <3>1, <3>2, SumsGrow, SMTT(30)
  <2>12. Total(v, Append(s, r)) = b + x
    BY <1>9a, <2>2, <2>3, <2>8, TotalAppend
  <2>13. Total(w, Append(s, r)) = c + y
    BY <1>9a, <2>2, <2>3, <2>8, TotalAppend
  <2>14. Total(v, Append(s, r)) + free[k + 1] = Total(w, Append(s, r)) + start
    BY <2>9, <2>11, <2>12, <2>13
  <2> QED
    BY <2>3, <2>14
<1>12. Total(v, run) + free[n] = Total(w, run) + start
  <2>1. Nat \subseteq E
    <3> HIDE DEF E
    <3> QED
      BY <1>10, <1>11, NatSet
  <2>2. SubSeq(run, 1, n) = run
    BY <1>2, SubSeqFull
  <2>3. n \in E
    BY <1>0, <2>1
  <2>4. Total(v, SubSeq(run, 1, n)) + free[n] = Total(w, SubSeq(run, 1, n)) + start
    BY <1>0, <2>3
  <2> QED
    BY <2>2, <2>4
<1>13. TokensOf(a.req, run) + a.free = TokensOf(rq, run) + start
  <2>1. TokensOf(a.req, run) = Total(v, run) /\ TokensOf(rq, run) = Total(w, run)
    <3>1. TokensOf(a.req, run) = Total(v, run)
      BY <1>8, <1>8a, WeightsNat
    <3>2. TokensOf(rq, run) = Total(w, run)
      BY <1>2, <1>8a, WeightsNat
    <3> QED
      BY <3>1, <3>2
  <2> QED
    BY <1>1, <1>12, <2>1 DEF Gives
<1> QED
  BY <1>5, <1>8, <1>13

\* Where nothing is left to compute in chunks, nothing is given.
LEMMA NoChunks ==
  ASSUME NEW R, NEW P, NEW rq \in [R -> Record(P)], NEW run, NEW start,
         \A r \in ToSet(run) \cap R : ~ FollowUp(rq[r])
  PROVE  ChunksFrom(start, rq, run).req = rq
  BY DEF ChunksFrom

-----------------------------------------------------------------------------
(* The requests that schedule_prefill admits.                              *)

\* A set of positions that has with a position all those before it is an interval.
LEMMA Heads ==
  ASSUME NEW m \in Nat, NEW K \in SUBSET (1 .. m), \A k \in K : \A j \in 1 .. k : j \in K
  PROVE  Cardinality(K) \in 0 .. m /\ K = 1 .. Cardinality(K)
<1> DEFINE Down(L) == \A k \in L : \A j \in 1 .. k : j \in L
           E == {n \in Nat : \A L \in SUBSET (1 .. n) :
                               Down(L) => \E c \in 0 .. n : L = 1 .. c}
<1>1. 0 \in E
  <2> HIDE DEF Down
  <2>1. \A L \in SUBSET (1 .. 0) : L = 1 .. 0
    OBVIOUS
  <2>2. 0 \in 0 .. 0 /\ 0 \in Nat
    OBVIOUS
  <2> QED
    BY <2>1, <2>2
<1>2. ASSUME NEW n \in Nat, n \in E PROVE n + 1 \in E
  <2> SUFFICES ASSUME NEW L \in SUBSET (1 .. n + 1), Down(L)
               PROVE  \E c \in 0 .. n + 1 : L = 1 .. c
    BY SMTT(30)
  <2>1. CASE n + 1 \in L
    <3>1. L = 1 .. n + 1
      BY <2>1
    <3> QED
      BY <3>1
  <2>2. CASE n + 1 \notin L
    <3>1. L \in SUBSET (1 .. n)
      BY <2>2
    <3>2. PICK c \in 0 .. n : L = 1 .. c
      BY <1>2, <3>1
    <3> QED
      BY <3>2
  <2> QED
    BY <2>1, <2>2
<1>3. Nat \subseteq E
  <2> HIDE DEF E
  <2> QED
    BY <1>1, <1>2, NatSet
<1>4. PICK c \in 0 .. m : K = 1 .. c
  BY <1>3
<1>5. Cardinality(1 .. c) = c
  BY <1>4, FS_Interval
<1> QED
  BY <1>4, <1>5

\* What the first k requests of a queue weigh after those of the batch.
LEMMA Prefix ==
  ASSUME NEW R, NEW p \in Seq(R), NEW un \in Seq(R), NEW w, \A r \in R : w[r] \in Nat,
         NEW k \in Nat, k <= Len(un)
  PROVE  /\ SubSeq(un, 1, k) \in Seq(R) /\ p \o SubSeq(un, 1, k) \in Seq(R)
         /\ Total(w, p \o SubSeq(un, 1, k)) \in Nat
<1>1. Len(un) \in Nat /\ \A i \in 1 .. k : un[i] \in R
  BY LenProperties, ElementOfSeq
<1>2. SubSeq(un, 1, k) \in Seq(R)
  BY <1>1, SubSeqProperties
<1>3. p \o SubSeq(un, 1, k) \in Seq(R)
  BY <1>2, ConcatProperties
<1> QED
  BY <1>2, <1>3, TotalNat

\* The tokens of a batch and of the head of a queue, one request more.
LEMMA PrefixNext ==
  ASSUME NEW R, NEW p \in Seq(R), NEW un \in Seq(R), NEW w, \A r \in R : w[r] \in Nat,
         NEW k \in Nat, k < Len(un)
  PROVE  Total(w, p \o SubSeq(un, 1, k + 1)) = Total(w, p \o SubSeq(un, 1, k)) + w[un[k + 1]]
<1>1. Len(un) \in Nat /\ \A r \in R : w[r] \in Int
  BY LenProperties
<1>2. PICK s \in Seq(R), x \in R : /\ s = SubSeq(un, 1, k) /\ x = un[k + 1]
                                   /\ SubSeq(un, 1, k + 1) = Append(s, x)
  <2>1. /\ SubSeq(un, 1, k) \in Seq(R) /\ un[k + 1] \in R
        /\ SubSeq(un, 1, k + 1) = Append(SubSeq(un, 1, k), un[k + 1])
    BY PrefixAppend
  <2> QED
    BY <2>1, Zenon
<1>3. Total(w, Append(s, x)) = Total(w, s) + w[x]
  BY <1>1, TotalAppend
<1>4. Append(s, x) \in Seq(R)
  BY AppendProperties
<1>5. Total(w, p \o Append(s, x)) = Total(w, p) + Total(w, Append(s, x))
  BY <1>1, <1>4, TotalConcat
<1>6. Total(w, p \o s) = Total(w, p) + Total(w, s)
  BY <1>1, TotalConcat
<1>7. PICK a \in Int, b \in Int, c \in Int :
        a = Total(w, p) /\ b = Total(w, s) /\ c = w[x]
  <2>1. Total(w, p) \in Int /\ Total(w, s) \in Int /\ w[x] \in Int
    BY <1>1, TotalInt
  <2> QED
    BY <2>1
<1>8. a + (b + c) = (a + b) + c
  OBVIOUS
<1>9. Total(w, p \o SubSeq(un, 1, k + 1)) = a + (b + c)
  BY <1>2, <1>3, <1>5, <1>7
<1>10. Total(w, p \o SubSeq(un, 1, k)) = a + b /\ w[un[k + 1]] = c
  BY <1>2, <1>6, <1>7
<1> QED
  BY <1>7, <1>8, <1>9, <1>10

\* A sequence of sums that rises at every step rises.
LEMMA Rising ==
  ASSUME NEW m \in Nat, NEW t \in [0 .. m -> Int],
         \A k \in Nat : k < m => t[k] <= t[k + 1]
  PROVE  \A j, k \in 0 .. m : j <= k => t[j] <= t[k]
<1> SUFFICES ASSUME NEW j \in 0 .. m PROVE \A k \in 0 .. m : j <= k => t[j] <= t[k]
  OBVIOUS
<1> DEFINE E == {k \in Nat : k <= m /\ j <= k => t[j] <= t[k]}
<1>1. 0 \in E
  OBVIOUS
<1>2. ASSUME NEW k \in Nat, k \in E PROVE k + 1 \in E
  <2> SUFFICES ASSUME k + 1 <= m, j <= k + 1 PROVE t[j] <= t[k + 1]
    OBVIOUS
  <2>1. CASE j = k + 1
    BY <2>1
  <2>2. CASE j <= k
    <3>1. t[j] <= t[k] /\ t[k] <= t[k + 1]
      BY <1>2, <2>2
    <3>2. t[j] \in Int /\ t[k] \in Int /\ t[k + 1] \in Int
      OBVIOUS
    <3> QED
      BY <3>1, <3>2
  <2> QED
    BY <2>1, <2>2
<1>3. Nat \subseteq E
  <2> HIDE DEF E
  <2> QED
    BY <1>1, <1>2, NatSet
<1> QED
  BY <1>3

\* The first n items of a queue.
LEMMA HeadSeq ==
  ASSUME NEW R, NEW un \in Seq(R), NEW n \in 0 .. Len(un)
  PROVE  /\ SubSeq(un, 1, n) \in Seq(R) /\ Len(SubSeq(un, 1, n)) = n
         /\ \A i \in 1 .. n : SubSeq(un, 1, n)[i] = un[i]
<1>1. /\ Len(un) \in Nat /\ n \in Nat /\ n <= Len(un)
      /\ \A i \in 1 .. Len(un) : un[i] \in R
  BY LenProperties, ElementOfSeq
<1>2. \A i \in 1 .. n : un[i] \in R
  BY <1>1
<1>3. /\ SubSeq(un, 1, n) \in Seq(R)
      /\ Len(SubSeq(un, 1, n)) = IF 1 <= n THEN n - 1 + 1 ELSE 0
      /\ \A i \in 1 .. n - 1 + 1 : SubSeq(un, 1, n)[i] = un[1 + i - 1]
  BY <1>1, <1>2, SubSeqProperties
<1>4. n - 1 + 1 = n /\ \A i \in 1 .. n : 1 + i - 1 = i
  BY <1>1
<1> QED
  BY <1>1, <1>3, <1>4

\* The set of the first n items of a queue.
LEMMA HeadSet ==
  ASSUME NEW R, NEW un \in Seq(R), NEW n \in 0 .. Len(un)
  PROVE  ToSet(SubSeq(un, 1, n)) = {un[i] : i \in 1 .. n}
<1>1. /\ SubSeq(un, 1, n) \in Seq(R) /\ Len(SubSeq(un, 1, n)) = n
      /\ \A i \in 1 .. n : SubSeq(un, 1, n)[i] = un[i]
  BY HeadSeq
<1>2. DOMAIN SubSeq(un, 1, n) = 1 .. n
  BY <1>1, LenProperties
<1> QED
  BY <1>1, <1>2 DEF ToSet

\* A queue is what comes before a position and what follows.
LEMMA QueueParts ==
  ASSUME NEW R, NEW un \in Seq(R), NEW n \in 0 .. Len(un)
  PROVE  /\ SubSeq(un, n + 1, Len(un)) \in Seq(R)
         /\ un = SubSeq(un, 1, n) \o SubSeq(un, n + 1, Len(un))
<1>1. /\ Len(un) \in Nat /\ n \in Nat /\ n <= Len(un)
      /\ \A i \in 1 .. Len(un) : un[i] \in R
  BY LenProperties, ElementOfSeq
<1>2. SubSeq(un, n + 1, Len(un)) \in Seq(R)
  <2>1. n + 1 \in Int /\ Len(un) \in Int /\ \A i \in n + 1 .. Len(un) : un[i] \in R
    BY <1>1
  <2> QED
    BY <2>1, SubSeqProperties
<1>3. un = SubSeq(un, 1, n) \o SubSeq(un, n + 1, Len(un))
  <2>1. SubSeq(un, 1, Len(un)) = un
    BY SubSeqFull
  <2>2. n \in 1 - 1 .. Len(un) /\ 1 \in 1 .. Len(un) + 1 /\ Len(un) \in n .. Len(un)
    BY <1>1
  <2>3. SubSeq(un, 1, n) \o SubSeq(un, n + 1, Len(un)) = SubSeq(un, 1, Len(un))
    BY <2>2, ConcatAdjacentSubSeq
  <2> QED
    BY <2>1, <2>3
<1> QED
  BY <1>2, <1>3

\* w is what the requests of R weigh in rq.
Weighs(w, rq, R) == (\A r \in R : w[r] \in Nat) /\ \A q : TokensOf(rq, q) = Total(w, q)

\* The requests of the queue that the tokens cover are a head of it.
LEMMA ReachOf ==
  ASSUME NEW R, NEW rq, NEW w, Weighs(w, rq, R), NEW counted \in Seq(R), NEW un \in Seq(R),
         NEW slots \in Int, slots <= Len(un), NEW tokens \in Int, NEW whole,
         whole = Cardinality({k \in 1 .. slots : FreeTokens(rq, counted, un, k, tokens) >= 0})
  PROVE  /\ whole \in 0 .. Len(un) /\ (whole > 0 => whole <= slots)
         /\ FreeTokens(rq, counted, un, whole, tokens) \in Int
         /\ whole > 0 => FreeTokens(rq, counted, un, whole, tokens) >= 0
<1> DEFINE m == Len(un)
           t == [k \in 0 .. m |-> Total(w, counted \o SubSeq(un, 1, k))]
           K == {k \in 1 .. slots : FreeTokens(rq, counted, un, k, tokens) >= 0}
<1>1. m \in Nat /\ \A r \in R : w[r] \in Nat
  BY LenProperties DEF Weighs
<1>2. \A q : TokensOf(rq, q) = Total(w, q)
  BY DEF Weighs
<1>3. \A k \in 0 .. m : t[k] \in Nat /\ FreeTokens(rq, counted, un, k, tokens) = tokens - t[k]
  <2> SUFFICES ASSUME NEW k \in 0 .. m
               PROVE  t[k] \in Nat /\ FreeTokens(rq, counted, un, k, tokens) = tokens - t[k]
    OBVIOUS
  <2>1. k \in Nat /\ k <= Len(un)
    BY <1>1
  <2>2. Total(w, counted \o SubSeq(un, 1, k)) \in Nat
    BY <1>1, <2>1, Prefix
  <2> QED
    BY <1>2, <2>2 DEF FreeTokens
<1>4. \A k \in Nat : k < m => t[k] <= t[k + 1]
  <2> SUFFICES ASSUME NEW k \in Nat, k < m PROVE t[k] <= t[k + 1]
    OBVIOUS
  <2>1. k \in 0 .. m /\ k + 1 \in 0 .. m /\ k + 1 \in 1 .. m
    BY <1>1
  <2>2. Total(w, counted \o SubSeq(un, 1, k + 1))
          = Total(w, counted \o SubSeq(un, 1, k)) + w[un[k + 1]]
    BY <1>1, PrefixNext
  <2>3. w[un[k + 1]] \in Nat
    BY <1>1, <2>1, ElementOfSeq
  <2>4. t[k + 1] = t[k] + w[un[k + 1]]
    BY <2>1, <2>2
  <2>5. t[k] \in Nat
    BY <1>3, <2>1
  <2> HIDE DEF t
  <2> QED
    BY <2>3, <2>4, <2>5
<1> HIDE DEF t
<1>5. t \in [0 .. m -> Int]
  <2>1. t = [k \in 0 .. m |-> t[k]]
    BY DEF t
  <2> QED
    BY <1>3, <2>1
<1>6. \A j, k \in 0 .. m : j <= k => t[j] <= t[k]
  BY <1>1, <1>4, <1>5, Rising
<1>7. K \in SUBSET (1 .. m) /\ \A k \in K : \A j \in 1 .. k : j \in K
  <2>1. K \in SUBSET (1 .. m)
    BY <1>1
  <2>2. ASSUME NEW k \in K, NEW j \in 1 .. k PROVE j \in K
    <3>1. j \in 0 .. m /\ k \in 0 .. m /\ j \in 1 .. slots
      BY <1>1
    <3>2. t[j] <= t[k] /\ t[j] \in Nat /\ t[k] \in Nat
      BY <1>3, <1>6, <3>1
    <3>3. tokens - t[k] >= 0
      BY <1>3, <3>1
    <3>4. tokens - t[j] >= 0
      BY <3>2, <3>3
    <3> QED
      BY <1>3, <3>1, <3>4
  <2> QED
    BY <2>1, <2>2
<1>8. whole \in 0 .. m /\ K = 1 .. whole
  <2> HIDE DEF K, m
  <2>1. whole = Cardinality(K)
    BY DEF K
  <2> QED
    BY <1>1, <1>7, <2>1, Heads, ZenonT(40)
<1>9. whole > 0 => whole <= slots /\ FreeTokens(rq, counted, un, whole, tokens) >= 0
  <2> SUFFICES ASSUME whole > 0
               PROVE  whole <= slots /\ FreeTokens(rq, counted, un, whole, tokens) >= 0
    OBVIOUS
  <2>1. whole \in K
    <3> HIDE DEF K
    <3> QED
      BY <1>1, <1>8
  <2> QED
    BY <2>1
<1>10. FreeTokens(rq, counted, un, whole, tokens) \in Int
  BY <1>3, <1>8
<1> QED
  BY <1>8, <1>9, <1>10

\* How far the tokens reach.
LEMMA Reach ==
  ASSUME NEW R, NEW P, NEW rq \in [R -> Record(P)], NEW counted \in Seq(R), NEW un \in Seq(R),
         NEW slots \in Int, slots <= Len(un), NEW tokens \in Int, NEW whole,
         whole = Cardinality({k \in 1 .. slots : FreeTokens(rq, counted, un, k, tokens) >= 0})
  PROVE  /\ whole \in 0 .. Len(un) /\ (whole > 0 => whole <= slots)
         /\ FreeTokens(rq, counted, un, whole, tokens) \in Int
         /\ whole > 0 => FreeTokens(rq, counted, un, whole, tokens) >= 0
<1>1. PICK w : Weighs(w, rq, R)
  <2>1. /\ \A r \in R : Weights(rq)[r] \in Nat
        /\ \A q : TokensOf(rq, q) = Total(Weights(rq), q)
    BY WeightsNat
  <2> QED
    BY <2>1 DEF Weighs
<1> QED
  BY <1>1, ReachOf

\* The request q in the format b.
Marked(q, b) == [q EXCEPT !.fusion_exec = b]

\* A request that is marked with a format is otherwise as it was.
LEMMA MarkedRecord ==
  ASSUME NEW P, NEW q \in Record(P), NEW b \in BOOLEAN
  PROVE  /\ Marked(q, b) \in Record(P)
         /\ SameLife(Marked(q, b), q) /\ Marked(q, b).fusion_exec = b
         /\ Marked(q, b).begin = q.begin /\ Marked(q, b).end = q.end
         /\ Marked(q, b).chunk_size = q.chunk_size
         /\ InputTokens(Marked(q, b)) = InputTokens(q)
         /\ Context(Marked(q, b)) = Context(q) /\ FollowUp(Marked(q, b)) = FollowUp(q)
         /\ Inside(q) => Inside(Marked(q, b))
         /\ Started(q) => Started(Marked(q, b))
         /\ Whole(q) => Whole(Marked(q, b))
<1> DEFINE n == Marked(q, b)
<1>1. /\ n \in Record(P) /\ SameLife(n, q) /\ n.fusion_exec = b
      /\ n.begin = q.begin /\ n.end = q.end /\ n.chunk_size = q.chunk_size
      /\ n.prompt = q.prompt /\ n.generated = q.generated /\ n.cached = q.cached
  BY DEF Record, Marked, SameLife
<1> HIDE DEF n
<1>2. Context(n) = Context(q)
  BY <1>1 DEF Context
<1>3. FollowUp(n) = FollowUp(q) /\ InputTokens(n) = InputTokens(q)
  BY <1>1, <1>2 DEF FollowUp, InputTokens
<1>4. Inside(q) => Inside(n)
  BY <1>1 DEF Inside
<1>5. Started(q) => Started(n)
  BY <1>1, <1>2, <1>3 DEF Started
<1>6. Whole(q) => Whole(n)
  BY <1>1, <1>2 DEF Whole
<1> QED
  BY <1>1, <1>2, <1>3, <1>4, <1>5, <1>6 DEF n

\* A request whose chunk is its prompt is one that can start.
LEMMA WholeFits ==
  ASSUME NEW P, NEW q \in Record(P), Whole(q)
  PROVE  Inside(q) /\ Started(q) /\ ~ FollowUp(q) /\ InputTokens(q) = q.prompt
  BY DEF Record, Whole, Inside, Started, FollowUp, Context, InputTokens

\* What happens to a request of the queue or of the batch when the first n
\* requests of the queue are admitted, the last of them perhaps with a chunk.
Entered(p, q, on, fx) ==
    \/ q = Marked(p, fx)
    \/ on /\ \E left \in Nat \ {0} : q = SetChunk(Marked(p, fx), left)

\* a is what becomes of the batch and the queue when the first n are admitted.
Admitted(a, n, on, fx, rq, run, un) ==
    /\ a.failed \in BOOLEAN
    /\ a.running = run \o SubSeq(un, 1, n) /\ a.queue = SubSeq(un, n + 1, Len(un))
    /\ a.req = [r \in DOMAIN rq |-> a.req[r]]
    /\ \A r \in DOMAIN rq :
         IF r \notin ToSet(un) THEN a.req[r] = rq[r]
         ELSE IF r \in ToSet(SubSeq(un, 1, n)) THEN Entered(rq[r], a.req[r], on, fx)
         ELSE \E b \in BOOLEAN : a.req[r] = Marked(rq[r], b)

\* The requests whose tokens count are some of those of the batch.
LEMMA Counting ==
  ASSUME NEW R, NEW rq, NEW run \in Seq(R), NEW on
  PROVE  Counted(on, rq, run) \in Seq(R) /\ (on => Counted(on, rq, run) = run)
         /\ (~ on => Counted(on, rq, run) = Prefills(rq, run))
         /\ ToSet(Counted(on, rq, run)) \subseteq ToSet(run)
<1>1. Prefills(rq, run) \in Seq(R) /\ ToSet(Prefills(rq, run)) \subseteq ToSet(run)
  BY ThoseKept DEF Prefills
<1> QED
  BY <1>1 DEF Counted

\* A batch and a queue from which requests are admitted.
Ready(rq, run, un, R, P) ==
    /\ rq \in [R -> Record(P)] /\ run \in Seq(R) /\ un \in Seq(R)
    /\ OneEach(run \o un) /\ \A r \in ToSet(un) : Whole(rq[r])

\* The tokens of the batch after that.
Within(a, n, on, rq, run, un, tokens) ==
    LET counted == Counted(on, rq, run)
    IN  /\ (~ a.failed /\ TokensOf(rq, counted) <= tokens)
             \/ (\E r \in ToSet(SubSeq(un, 1, n)) : FollowUp(a.req[r]))
           => TokensOf(a.req, counted \o SubSeq(un, 1, n)) <= tokens
        /\ on /\ TokensOf(rq, run) <= tokens => ~ a.failed

\* schedule_prefill admits a head of the queue; the batch then has the tokens of
\* before and of those admitted, and not more than it may have.
LEMMA Admission ==
  ASSUME NEW R, NEW P, NEW rq, NEW run, NEW un, Ready(rq, run, un, R, P),
         NEW on \in BOOLEAN, NEW fx \in BOOLEAN, NEW room \in 0 .. Len(un),
         NEW size \in Int, NEW tokens \in Nat
  PROVE  \E n \in 0 .. Len(un) :
           /\ Admitted(Admit(on, fx, rq, run, un, room, size, tokens), n, on, fx, rq, run, un)
           /\ Within(Admit(on, fx, rq, run, un, room, size, tokens), n, on, rq, run, un, tokens)
<1> SUFFICES ASSUME NEW a, a = Admit(on, fx, rq, run, un, room, size, tokens),
                    NEW counted, counted = Counted(on, rq, run)
             PROVE  \E n \in 0 .. Len(un) : /\ Admitted(a, n, on, fx, rq, run, un)
                                             /\ Within(a, n, on, rq, run, un, tokens)
  OBVIOUS
<1>0. /\ rq \in [R -> Record(P)] /\ run \in Seq(R) /\ un \in Seq(R)
       /\ OneEach(run \o un) /\ \A r \in ToSet(un) : Whole(rq[r])
  BY DEF Ready
<1>2. counted \in Seq(R) /\ (on => counted = run) /\ ToSet(counted) \subseteq ToSet(run)
  <2>1. Counted(on, rq, run) \in Seq(R)
    BY <1>0, Counting
  <2>2. on => Counted(on, rq, run) = run
    BY DEF Counted
  <2>3. ToSet(Counted(on, rq, run)) \subseteq ToSet(run)
    BY <1>0, Counting
  <2> QED
    BY <2>1, <2>2, <2>3
<1> DEFINE slots   == Least(room, size - Len(counted))
           whole   == Cardinality({k \in 1 .. slots :
                                     FreeTokens(rq, counted, un, k, tokens) >= 0})
           left    == FreeTokens(rq, counted, un, whole, tokens)
           chunked == on /\ whole < slots /\ left # 0
           n       == IF chunked THEN whole + 1 ELSE whole
           checked == ToSet(SubSeq(un, 1, Least(whole + 1, Len(un))))
           marked  == [r \in DOMAIN rq |-> [rq[r] EXCEPT !.fusion_exec =
                                              IF r \in checked THEN fx ELSE @]]
<1>1. /\ a.failed = (chunked /\ left < 0)
      /\ a.req = IF chunked /\ left > 0
                 THEN [marked EXCEPT ![un[n]] = SetChunk(@, left)]
                 ELSE marked
      /\ a.running = run \o SubSeq(un, 1, n)
      /\ a.queue = SubSeq(un, n + 1, Len(un))
  BY DEF Admit
<1>3. Len(un) \in Nat /\ Len(counted) \in Nat /\ DOMAIN rq = R
  BY <1>0, <1>2, LenProperties
<1>4. slots \in Int /\ slots <= Len(un)
  BY <1>3 DEF Least
<1> HIDE DEF slots
<1>5. /\ whole \in 0 .. Len(un) /\ (whole > 0 => whole <= slots)
      /\ left \in Int /\ (whole > 0 => left >= 0)
  <2>1. rq \in [R -> Record(P)] /\ counted \in Seq(R) /\ un \in Seq(R) /\ tokens \in Int
    BY <1>0, <1>2
  <2>2. ASSUME NEW x,
               x = Cardinality({k \in 1 .. slots : FreeTokens(rq, counted, un, k, tokens) >= 0})
        PROVE  /\ x \in 0 .. Len(un) /\ (x > 0 => x <= slots)
               /\ FreeTokens(rq, counted, un, x, tokens) \in Int
               /\ (x > 0 => FreeTokens(rq, counted, un, x, tokens) >= 0)
    <3> HIDE DEF whole, left
    <3>1. \A f \in [R -> Record(P)], p, q \in Seq(R), t \in Int :
            slots <= Len(q) /\ x = Cardinality({k \in 1 .. slots : FreeTokens(f, p, q, k, t) >= 0})
            => /\ x \in 0 .. Len(q) /\ (x > 0 => x <= slots)
               /\ FreeTokens(f, p, q, x, t) \in Int
               /\ (x > 0 => FreeTokens(f, p, q, x, t) >= 0)
      BY <1>4, Reach
    <3> QED
      BY <1>4, <2>1, <2>2, <3>1, Zenon
  <2> QED
    BY <2>2, Zenon
<1>6. left = tokens - TokensOf(rq, counted \o SubSeq(un, 1, whole))
  BY DEF FreeTokens
<1> HIDE DEF whole, left
<1>7. /\ chunked \in BOOLEAN /\ (chunked => on /\ whole + 1 <= Len(un) /\ n = whole + 1)
      /\ (~ chunked => n = whole)
  BY <1>3, <1>4, <1>5
<1>8. n \in 0 .. Len(un) /\ n \in Nat /\ whole \in Nat
  BY <1>3, <1>5, <1>7
<1>9. a.failed \in BOOLEAN
  BY <1>1
<1> HIDE DEF chunked, n
<1>10. /\ ToSet(SubSeq(un, 1, n)) = {un[i] : i \in 1 .. n}
       /\ ToSet(SubSeq(un, 1, whole)) = {un[i] : i \in 1 .. whole}
       /\ SubSeq(un, 1, n) \in Seq(R)
       /\ ToSet(un) = {un[i] : i \in 1 .. Len(un)}
  <2>1. DOMAIN un = 1 .. Len(un)
    BY LenProperties
  <2>2. ToSet(SubSeq(un, 1, n)) = {un[i] : i \in 1 .. n} /\ SubSeq(un, 1, n) \in Seq(R)
    BY <1>0, <1>8, HeadSet, HeadSeq
  <2>3. ToSet(SubSeq(un, 1, whole)) = {un[i] : i \in 1 .. whole}
    BY <1>0, <1>5, HeadSet
  <2>4. ToSet(un) = {un[i] : i \in 1 .. Len(un)}
    BY <2>1 DEF ToSet
  <2> QED
    BY <2>2, <2>3, <2>4
<1>11. checked \subseteq ToSet(un) /\ ToSet(SubSeq(un, 1, n)) \subseteq checked
  <2> DEFINE m == Least(whole + 1, Len(un))
  <2>1. m \in 0 .. Len(un) /\ n <= m
    BY <1>3, <1>5, <1>7, <1>8 DEF Least
  <2> HIDE DEF m
  <2>2. ToSet(SubSeq(un, 1, m)) = {un[i] : i \in 1 .. m}
    BY <1>0, <2>1, HeadSet
  <2>3. 1 .. m \subseteq 1 .. Len(un) /\ 1 .. n \subseteq 1 .. m
    BY <1>3, <1>8, <2>1
  <2> QED
    BY <1>10, <2>2, <2>3 DEF m
<1> HIDE DEF checked
<1>12. /\ \A r \in R : marked[r] = Marked(rq[r], IF r \in checked THEN fx ELSE rq[r].fusion_exec)
       /\ marked = [r \in R |-> marked[r]]
  BY <1>3 DEF Marked
<1>13. \A r \in R : r \notin checked => marked[r] = rq[r]
  BY <1>0, <1>12 DEF Marked, Record
<1> HIDE DEF marked
<1>14. chunked => un[n] \in R /\ n \in 1 .. Len(un) /\ un[n] \in ToSet(SubSeq(un, 1, n))
  <2> SUFFICES ASSUME chunked
               PROVE  un[n] \in R /\ n \in 1 .. Len(un) /\ un[n] \in ToSet(SubSeq(un, 1, n))
    OBVIOUS
  <2>1. n \in 1 .. Len(un) /\ n \in 1 .. n
    BY <1>3, <1>5, <1>7
  <2> QED
    BY <1>10, <2>1, ElementOfSeq
<1>15. DOMAIN a.req = R /\ a.req = [r \in R |-> a.req[r]]
  <2>1. CASE chunked /\ left > 0
    <3>1. a.req = [marked EXCEPT ![un[n]] = SetChunk(@, left)]
      BY <1>1, <2>1
    <3>2. DOMAIN marked = R
      BY <1>12
    <3> QED
      BY <3>1, <3>2
  <2>2. CASE ~ (chunked /\ left > 0)
    BY <1>1, <1>12, <2>2
  <2> QED
    BY <2>1, <2>2
<1>16. \A r \in R : a.req[r] = IF chunked /\ left > 0 /\ r = un[n] THEN SetChunk(marked[r], left)
                               ELSE marked[r]
  BY <1>1, <1>12
<1>17. ASSUME NEW r \in R
       PROVE  IF r \notin ToSet(un) THEN a.req[r] = rq[r]
              ELSE IF r \in ToSet(SubSeq(un, 1, n)) THEN Entered(rq[r], a.req[r], on, fx)
              ELSE \E b \in BOOLEAN : a.req[r] = Marked(rq[r], b)
  <2>1. CASE r \notin ToSet(un)
    <3>1. r \notin checked /\ (chunked => r # un[n])
      BY <1>10, <1>11, <1>14, <2>1
    <3> QED
      BY <1>13, <1>16, <2>1, <3>1
  <2>2. CASE r \in ToSet(SubSeq(un, 1, n))
    <3>1. r \in checked /\ marked[r] = Marked(rq[r], fx)
      BY <1>11, <1>12, <2>2
    <3>2. r \in ToSet(un)
      BY <1>11, <3>1
    <3>3. CASE chunked /\ left > 0 /\ r = un[n]
      <4>1. left \in Nat \ {0} /\ on
        BY <1>5, <1>7, <3>3
      <4>2. a.req[r] = SetChunk(Marked(rq[r], fx), left)
        BY <1>16, <3>1, <3>3
      <4>3. Entered(rq[r], a.req[r], on, fx)
        BY <4>1, <4>2 DEF Entered
      <4> QED
        BY <2>2, <3>2, <4>3
    <3>4. CASE ~ (chunked /\ left > 0 /\ r = un[n])
      <4>1. Entered(rq[r], a.req[r], on, fx)
        BY <1>16, <3>1, <3>4 DEF Entered
      <4> QED
        BY <2>2, <3>2, <4>1
    <3> QED
      BY <3>3, <3>4
  <2>3. CASE r \in ToSet(un) /\ r \notin ToSet(SubSeq(un, 1, n))
    <3>1. a.req[r] = marked[r]
      BY <1>14, <1>16, <2>3
    <3>2. rq[r].fusion_exec \in BOOLEAN
      BY <1>0 DEF Record
    <3>3. \E b \in BOOLEAN : a.req[r] = Marked(rq[r], b)
      BY <1>12, <3>1, <3>2
    <3> QED
      BY <2>3, <3>3
  <2> QED
    BY <2>1, <2>2, <2>3
<1>18. Admitted(a, n, on, fx, rq, run, un)
  BY <1>1, <1>3, <1>9, <1>15, <1>17 DEF Admitted
<1>19. on /\ TokensOf(rq, run) <= tokens => ~ a.failed
  <2> SUFFICES ASSUME on, TokensOf(rq, run) <= tokens PROVE ~ (chunked /\ left < 0)
    BY <1>1
  <2>1. CASE whole > 0
    BY <1>5, <2>1
  <2>2. CASE whole = 0
    <3>1. counted \o SubSeq(un, 1, whole) = run
      <4>1. SubSeq(un, 1, whole) = <<>>
        BY <2>2, SubSeqEmpty
      <4> QED
        BY <1>2, <4>1, ConcatEmptySeq
    <3>2. TokensOf(rq, run) \in Nat
      BY <1>0, TokensNat
    <3>3. left = tokens - TokensOf(rq, run)
      BY <1>6, <3>1
    <3> QED
      BY <3>2, <3>3
  <2> QED
    BY <1>5, <2>1, <2>2
<1>20. PICK v, w : v = Weights(a.req) /\ w = Weights(rq)
  OBVIOUS
<1>21. \A r \in R : rq[r] \in Record(P) /\ marked[r] \in Record(P)
                    /\ InputTokens(marked[r]) = InputTokens(rq[r])
                    /\ (r \in ToSet(un) => Whole(marked[r]))
  <2> SUFFICES ASSUME NEW r \in R
               PROVE  /\ rq[r] \in Record(P) /\ marked[r] \in Record(P)
                      /\ InputTokens(marked[r]) = InputTokens(rq[r])
                      /\ (r \in ToSet(un) => Whole(marked[r]))
    OBVIOUS
  <2>1. PICK b \in BOOLEAN : marked[r] = Marked(rq[r], b)
    <3>1. (IF r \in checked THEN fx ELSE rq[r].fusion_exec) \in BOOLEAN
      BY <1>0 DEF Record
    <3> QED
      BY <1>12, <3>1
  <2>2. rq[r] \in Record(P) /\ (r \in ToSet(un) => Whole(rq[r]))
    BY <1>0
  <2>3. /\ Marked(rq[r], b) \in Record(P)
        /\ InputTokens(Marked(rq[r], b)) = InputTokens(rq[r])
        /\ Whole(rq[r]) => Whole(Marked(rq[r], b))
    BY <2>2, MarkedRecord
  <2> QED
    BY <2>1, <2>2, <2>3
<1>22. \A r \in R : a.req[r] \in Record(P)
  <2> SUFFICES ASSUME NEW r \in R, left > 0 PROVE SetChunk(marked[r], left) \in Record(P)
    BY <1>16, <1>21
  <2>1. left \in Nat
    BY <1>5
  <2> QED
    BY <1>21, <2>1, SetChunkRecord
<1>23. /\ \A r \in R : v[r] = InputTokens(a.req[r]) /\ v[r] \in Nat
       /\ \A r \in R : w[r] = InputTokens(rq[r]) /\ w[r] \in Nat
       /\ \A q : TokensOf(a.req, q) = Total(v, q)
       /\ \A q : TokensOf(rq, q) = Total(w, q)
  <2>1. \A r \in R : v[r] = InputTokens(a.req[r]) /\ v[r] \in Nat
    BY <1>15, <1>20, <1>22, InputTokensNat DEF Weights
  <2>2. \A r \in R : w[r] = InputTokens(rq[r]) /\ w[r] \in Nat
    BY <1>0, <1>20, WeightsNat
  <2>3. \A q : TokensOf(a.req, q) = Total(v, q)
    BY <1>20 DEF Weights, TokensOf
  <2>4. \A q : TokensOf(rq, q) = Total(w, q)
    BY <1>20 DEF Weights, TokensOf
  <2> QED
    BY <2>1, <2>2, <2>3, <2>4
<1>24. /\ SubSeq(un, 1, whole) \in Seq(R) /\ counted \o SubSeq(un, 1, whole) \in Seq(R)
       /\ ToSet(counted \o SubSeq(un, 1, whole)) = ToSet(counted) \cup ToSet(SubSeq(un, 1, whole))
       /\ Total(w, counted \o SubSeq(un, 1, whole)) = tokens - left
       /\ Total(w, counted \o SubSeq(un, 1, whole)) \in Nat
  <2>1. SubSeq(un, 1, whole) \in Seq(R)
    BY <1>0, <1>5, HeadSeq
  <2>2. counted \o SubSeq(un, 1, whole) \in Seq(R)
    BY <1>2, <2>1, ConcatProperties
  <2>3. ToSet(counted \o SubSeq(un, 1, whole)) = ToSet(counted) \cup ToSet(SubSeq(un, 1, whole))
    <3>1. \A h \in Seq(R) : ToSet(counted \o h) = ToSet(counted) \cup ToSet(h)
      BY <1>2, ToSetConcat
    <3> QED
      BY <2>1, <3>1, Zenon
  <2>4. Total(w, counted \o SubSeq(un, 1, whole)) \in Nat
    BY <1>23, <2>2, TotalNat
  <2>5. PICK t \in Nat : t = Total(w, counted \o SubSeq(un, 1, whole))
    BY <2>4
  <2>6. left = tokens - t
    BY <1>6, <1>23, <2>5
  <2>7. t = tokens - left
    BY <2>6, <2>5
  <2> QED
    BY <2>1, <2>2, <2>3, <2>5, <2>7
<1>25. CASE chunked /\ left > 0
  <2>1. n = whole + 1 /\ whole < Len(un) /\ un[n] \in R /\ n \in 1 .. Len(un)
    BY <1>3, <1>7, <1>8, <1>14, <1>25
  <2>2. un[n] \notin ToSet(counted) \cup ToSet(SubSeq(un, 1, whole))
    <3>1. OneEach(un) /\ ToSet(run) \cap ToSet(un) = {}
      BY <1>0, OneEachConcat
    <3>2. un[n] \in ToSet(un)
      BY <1>10, <2>1
    <3>3. \A i \in 1 .. whole : un[i] # un[n]
      <4>1. \A i \in 1 .. whole : i \in 1 .. Len(un) /\ i # n
        BY <1>3, <1>8, <2>1
      <4> QED
        BY <2>1, <3>1, <4>1 DEF OneEach
    <3> QED
      BY <1>2, <1>10, <3>1, <3>2, <3>3
  <2>3. Total(v, counted \o SubSeq(un, 1, whole)) = Total(w, counted \o SubSeq(un, 1, whole))
    <3>1. \A r \in R : r # un[n] => v[r] = w[r]
      BY <1>16, <1>21, <1>23
    <3>2. \A r \in ToSet(counted \o SubSeq(un, 1, whole)) : r \in R
      BY <1>24, ToSetRange
    <3>3. \A r \in ToSet(counted \o SubSeq(un, 1, whole)) : v[r] = w[r]
      BY <1>24, <2>2, <3>1, <3>2
    <3>4. \A r \in R : v[r] \in Int /\ w[r] \in Int
      BY <1>23
    <3>5. \A s \in Seq(R) : (\A r \in ToSet(s) : v[r] = w[r]) => Total(v, s) = Total(w, s)
      <4> SUFFICES ASSUME NEW s \in Seq(R), \A r \in ToSet(s) : v[r] = w[r]
                   PROVE  Total(v, s) = Total(w, s)
        OBVIOUS
      <4> QED
        BY <3>4, TotalSame
    <3> QED
      BY <1>24, <3>3, <3>5, Zenon
  <2>4. Total(v, counted \o SubSeq(un, 1, whole + 1))
          = Total(v, counted \o SubSeq(un, 1, whole)) + v[un[whole + 1]]
    BY <1>0, <1>2, <1>8, <1>23, <2>1, PrefixNext
  <2>5. v[un[n]] \in Nat /\ v[un[n]] <= left
    <3>1. a.req[un[n]] = SetChunk(marked[un[n]], left)
      BY <1>16, <1>25, <2>1
    <3>2. Whole(marked[un[n]]) /\ marked[un[n]] \in Record(P)
      BY <1>10, <1>21, <2>1
    <3>3. left \in Nat /\ left > 0
      BY <1>5, <1>25
    <3>4. InputTokens(SetChunk(marked[un[n]], left)) <= left
      BY <3>2, <3>3, SetChunkFits
    <3> QED
      BY <1>23, <2>1, <3>1, <3>4
  <2>6. PICK t \in Nat, x \in Nat :
          t = Total(w, counted \o SubSeq(un, 1, whole)) /\ x = v[un[n]]
    BY <1>24, <2>5
  <2>7. t = tokens - left /\ x <= left
    BY <1>24, <2>5, <2>6
  <2>8. t + x <= tokens
    BY <1>5, <2>6, <2>7
  <2>9. TokensOf(a.req, counted \o SubSeq(un, 1, n)) = t + x
    BY <1>23, <2>1, <2>3, <2>4, <2>6
  <2>10. TokensOf(a.req, counted \o SubSeq(un, 1, n)) <= tokens
    BY <2>8, <2>9
  <2> QED
    BY <1>8, <1>18, <1>19, <2>10 DEF Within
<1>26. CASE ~ (chunked /\ left > 0)
  <2>1. \A r \in R : a.req[r] = marked[r] /\ v[r] = w[r]
    BY <1>16, <1>21, <1>23, <1>26
  <2>2. \A r \in ToSet(SubSeq(un, 1, n)) : ~ FollowUp(a.req[r])
    <3> SUFFICES ASSUME NEW r \in ToSet(SubSeq(un, 1, n)) PROVE ~ FollowUp(a.req[r])
      OBVIOUS
    <3>1. r \in R /\ r \in ToSet(un)
      BY <1>10, <1>11, ToSetRange
    <3> QED
      BY <1>21, <2>1, <3>1, WholeFits
  <2>3. ASSUME ~ a.failed, TokensOf(rq, counted) <= tokens
        PROVE  TokensOf(a.req, counted \o SubSeq(un, 1, n)) <= tokens
    <3>1. n = whole
      <4>1. chunked => left # 0
        BY DEF chunked
      <4> QED
        BY <1>1, <1>5, <1>7, <1>26, <2>3, <4>1
    <3>2. left >= 0
      <4>1. CASE whole > 0
        BY <1>5, <4>1
      <4>2. CASE whole = 0
        <5>1. counted \o SubSeq(un, 1, whole) = counted
          <6>1. SubSeq(un, 1, whole) = <<>>
            BY <4>2, SubSeqEmpty
          <6> QED
            BY <1>2, <6>1, ConcatEmptySeq
        <5>2. left = tokens - TokensOf(rq, counted)
          BY <1>6, <5>1
        <5>3. TokensOf(rq, counted) \in Nat
          BY <1>0, <1>2, TokensNat
        <5> QED
          BY <2>3, <5>2, <5>3
      <4> QED
        BY <1>8, <4>1, <4>2
    <3>3. Total(v, counted \o SubSeq(un, 1, whole)) = Total(w, counted \o SubSeq(un, 1, whole))
      <4>1. \A r \in ToSet(counted \o SubSeq(un, 1, whole)) : v[r] = w[r]
        BY <1>24, <2>1, ToSetRange
      <4>2. \A r \in R : v[r] \in Int /\ w[r] \in Int
        BY <1>23
      <4>3. \A s \in Seq(R) : (\A r \in ToSet(s) : v[r] = w[r]) => Total(v, s) = Total(w, s)
        <5> SUFFICES ASSUME NEW s \in Seq(R), \A r \in ToSet(s) : v[r] = w[r]
                     PROVE  Total(v, s) = Total(w, s)
          OBVIOUS
        <5> QED
          BY <4>2, TotalSame
      <4> QED
        BY <1>24, <4>1, <4>3, Zenon
    <3>4. TokensOf(a.req, counted \o SubSeq(un, 1, n)) = tokens - left
      BY <1>23, <1>24, <3>1, <3>3
    <3> QED
      BY <1>5, <3>2, <3>4
  <2> QED
    BY <1>8, <1>18, <1>19, <2>2, <2>3 DEF Within
<1> QED
  BY <1>25, <1>26


-----------------------------------------------------------------------------
(* Requests that start again.                                              *)

LEMMA RecomputedRecord ==
  ASSUME NEW P, NEW q \in Record(P), Inside(q), Started(q)
  PROVE  /\ Recomputed(q) \in Record(P) /\ Whole(Recomputed(q)) /\ Inside(Recomputed(q))
         /\ Recomputed(q).outputs = q.outputs /\ Recomputed(q).is_finished = q.is_finished
         /\ Recomputed(q).params = q.params /\ Recomputed(q).generated = 0
         /\ Recomputed(q).prompt = q.prompt + q.generated
<1> DEFINE n == Recomputed(q)
<1>1. q.prompt + q.generated \in Nat
  BY DEF Record
<1>2. /\ n \in Record(P) /\ n.outputs = q.outputs /\ n.is_finished = q.is_finished
      /\ n.params = q.params /\ n.generated = 0 /\ n.prompt = q.prompt + q.generated
      /\ n.begin = 0 /\ n.end = q.prompt + q.generated /\ n.cached = {}
  BY <1>1 DEF Record, Recomputed
<1> HIDE DEF n
<1>3. n.prompt > 0
  BY <1>1, <1>2 DEF Record, Inside, Started, Context
<1>4. Whole(n)
  BY <1>2, <1>3 DEF Whole, Context
<1>5. Inside(n)
  BY <1>2, <1>4, WholeFits
<1> QED
  BY <1>2, <1>4, <1>5 DEF n

\* What a step of the engine does to a request of the batch.
LEMMA ComputedRecord ==
  ASSUME NEW P, NEW q \in Record(P), Inside(q), Started(q), NEW limit
  PROVE  LET c == Computed(q, limit)
         IN  /\ c \in Record(P) /\ Inside(c) /\ Started(c)
             /\ FollowUp(c) = FollowUp(q) /\ InputTokens(c) <= InputTokens(q)
             /\ c.prompt = q.prompt /\ c.fusion_exec = q.fusion_exec /\ c.params = q.params
             /\ c.begin = q.begin /\ c.end = q.end
<1> DEFINE c == Computed(q, limit)
           new == IF Context(q) THEN q.begin .. q.end - 1 ELSE {}
<1>1. /\ q.prompt \in Nat /\ q.begin \in Nat /\ q.end \in Nat /\ q.generated \in Nat
      /\ q.outputs \in Nat /\ q.chunk_size \in Nat /\ q.cached \in SUBSET Nat
      /\ q.is_finished \in BOOLEAN /\ q.params \in P
  BY DEF Record
<1>2. new \in SUBSET Nat /\ new \subseteq 0 .. q.prompt - 1
  BY <1>1 DEF Inside
<1> HIDE DEF new
<1>3. /\ c.prompt = q.prompt /\ c.begin = q.begin /\ c.end = q.end /\ c.chunk_size = q.chunk_size
      /\ c.fusion_exec = q.fusion_exec /\ c.params = q.params
      /\ c.cached = q.cached \cup new
      /\ c.generated = IF FollowUp(q) THEN q.generated ELSE q.generated + 1
  BY DEF Record, Computed, new
<1>4. c \in Record(P)
  <2>1. (q.is_finished \/ q.generated + 1 >= limit) \in BOOLEAN
    OBVIOUS
  <2>2. q.cached \cup new \in SUBSET Nat
    BY <1>1, <1>2
  <2>3. ASSUME NEW b \in BOOLEAN, NEW d \in SUBSET Nat
        PROVE  /\ [q EXCEPT !.cached = d] \in Record(P)
               /\ [[q EXCEPT !.cached = d] EXCEPT !.generated = q.generated + 1,
                     !.outputs = q.outputs + 1, !.is_finished = b] \in Record(P)
    <3>1. [q EXCEPT !.cached = d] \in Record(P)
      BY DEF Record
    <3>2. \A e \in Record(P), g, o \in Nat :
            [e EXCEPT !.generated = g, !.outputs = o, !.is_finished = b] \in Record(P)
      BY DEF Record
    <3>3. q.generated + 1 \in Nat /\ q.outputs + 1 \in Nat
      BY <1>1
    <3> QED
      BY <3>1, <3>2, <3>3, Zenon
  <2>4. c = IF FollowUp(q) THEN [q EXCEPT !.cached = q.cached \cup new]
            ELSE [[q EXCEPT !.cached = q.cached \cup new] EXCEPT !.generated = q.generated + 1,
                    !.outputs = q.outputs + 1,
                    !.is_finished = q.is_finished \/ q.generated + 1 >= limit]
    BY <1>1 DEF Computed, new, Record
  <2> QED
    BY <2>1, <2>2, <2>3, <2>4, Zenon
<1> HIDE DEF c
<1>5. Inside(c)
  BY <1>2, <1>3 DEF Inside
<1>6. FollowUp(c) = FollowUp(q) /\ (Context(c) => FollowUp(q))
  BY <1>1, <1>3 DEF FollowUp, Context
<1>7. Started(c)
  BY <1>1, <1>3, <1>6 DEF Started, FollowUp, Context
<1>8. InputTokens(c) <= InputTokens(q)
  BY <1>1, <1>3, <1>6 DEF InputTokens, Context, FollowUp, Started
<1> QED
  BY <1>3, <1>4, <1>5, <1>6, <1>7, <1>8 DEF c

\* Tokens, and the keys and values, that a step adds.
LEMMA ComputedTokens ==
  ASSUME NEW P, NEW q \in Record(P), NEW limit
  PROVE  LET c == Computed(q, limit)
         IN  /\ c.cached = q.cached \cup (IF Context(q) THEN q.begin .. q.end - 1 ELSE {})
             /\ c.generated = (IF FollowUp(q) THEN q.generated ELSE q.generated + 1)
             /\ c.outputs = (IF FollowUp(q) THEN q.outputs ELSE q.outputs + 1)
             /\ c.is_finished = (q.is_finished \/ (~ FollowUp(q) /\ q.generated + 1 >= limit))
             /\ Context(c) => FollowUp(q) /\ Context(q)
<1> DEFINE c == Computed(q, limit)
           new == IF Context(q) THEN q.begin .. q.end - 1 ELSE {}
<1>1. q.generated \in Nat /\ q.is_finished \in BOOLEAN /\ q.outputs \in Nat
  BY DEF Record
<1>2. c.cached = q.cached \cup new
  BY DEF Record, Computed, new
<1>3. /\ c.generated = (IF FollowUp(q) THEN q.generated ELSE q.generated + 1)
      /\ c.outputs = (IF FollowUp(q) THEN q.outputs ELSE q.outputs + 1)
  BY DEF Record, Computed
<1>4. CASE FollowUp(q)
  <2>1. c.is_finished = q.is_finished
    BY <1>4 DEF Record, Computed
  <2> QED
    BY <1>1, <1>2, <1>3, <1>4, <2>1 DEF FollowUp, Context
<1>5. CASE ~ FollowUp(q)
  <2>1. c.is_finished = (q.is_finished \/ q.generated + 1 >= limit)
    BY <1>5 DEF Record, Computed
  <2>2. ~ Context(c)
    BY <1>1, <1>3, <1>5 DEF Context
  <2>3. c.is_finished = (q.is_finished \/ (~ FollowUp(q) /\ q.generated + 1 >= limit))
    BY <1>5, <2>1
  <2> HIDE DEF c
  <2> QED
    BY <1>2, <1>3, <2>2, <2>3 DEF c
<1> QED
  BY <1>4, <1>5
=============================================================================
