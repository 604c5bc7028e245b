----------------------------- MODULE DataTheorems -----------------------------
(***************************************************************************)
(* Induction, stated with sets in the place of predicates, and what it     *)
(* gives: of FlattenSeq, by which the modules pick from sequences, of      *)
(* recursive functions on 0..N, and of sums.                               *)
(***************************************************************************)
EXTENDS Naturals, SequencesExt, Sums, SequenceTheorems, FiniteSetTheorems, TLAPS

(* Induction over the naturals.  Were a number missing from S, there would *)
(* be a smallest set 0..x among those of the missing ones, by inclusion.   *)
LEMMA NatInduct ==
  ASSUME NEW S, 0 \in S, \A n \in Nat : n \in S => n + 1 \in S
  PROVE  Nat \subseteq S
<1> SUFFICES ASSUME NEW m \in Nat \ S PROVE FALSE
  OBVIOUS
<1> DEFINE T == {0..n : n \in Nat \ S}
<1>1. T \subseteq FiniteSubsetsOf(Nat) /\ T # {}
  <2>1. \A n \in Nat : IsFiniteSet(0..n)
    BY FS_Interval
  <2>2. QED BY <2>1 DEF FiniteSubsetsOf
<1>2. PICK X \in T : \A Y \in T : ~(<<Y, X>> \in StrictSubsetOrdering(Nat))
  <2> HIDE DEF T
  <2>1. QED BY <1>1, FS_StrictSubsetOrderingWellFounded, WFMin
<1>3. PICK x \in Nat \ S : X = 0..x
  OBVIOUS
<1>4. x # 0 /\ x - 1 \in Nat /\ x = (x - 1) + 1
  OBVIOUS
<1>5. 0..(x - 1) \in T
  BY <1>3, <1>4
<1>6. <<0..(x - 1), 0..x>> \in StrictSubsetOrdering(Nat)
  <2>1. x \in 0..x /\ x \notin 0..(x - 1) /\ 0..(x - 1) \subseteq 0..x /\ 0..x \subseteq Nat
    BY <1>4
  <2>2. QED BY <2>1 DEF StrictSubsetOrdering
<1>7. QED BY <1>2, <1>3, <1>5, <1>6

------------------------------------------------------------------------------
(* The recursive function of FlattenSeq: what the first i sequences make.  *)
Flattens(f, s) ==
  f = [i \in 1..Len(s) |-> IF i = 1 THEN s[i] ELSE f[i - 1] \o s[i]]

(* The same up to k, for the induction that finds one.                     *)
Part(f, s, k) == \A i \in 1..k : f[i] = IF i = 1 THEN s[i] ELSE f[i - 1] \o s[i]

(* There is one, ...                                                       *)
LEMMA FlattensExists ==
  ASSUME NEW E, NEW s \in Seq(Seq(E))
  PROVE  \E f : Flattens(f, s)
<1> DEFINE S == {k \in Nat : k <= Len(s) => \E f \in [1..k -> Seq(E)] : Part(f, s, k)}
<1>1. Len(s) \in Nat /\ \A i \in 1..Len(s) : s[i] \in Seq(E)
  BY LenProperties
<1>2. 0 \in S
  <2>1. [i \in 1..0 |-> << >>] \in [1..0 -> Seq(E)]
    OBVIOUS
  <2>2. Part([i \in 1..0 |-> << >>], s, 0)
    BY DEF Part
  <2>3. QED BY <2>1, <2>2
<1>3. ASSUME NEW n \in Nat, n \in S
      PROVE  n + 1 \in S
  <2> SUFFICES ASSUME n + 1 <= Len(s)
               PROVE  \E f \in [1..(n + 1) -> Seq(E)] : Part(f, s, n + 1)
    OBVIOUS
  <2>1. PICK g \in [1..n -> Seq(E)] : Part(g, s, n)
    BY <1>1, <1>3
  <2> DEFINE f == [i \in 1..(n + 1) |->
                     IF i <= n THEN g[i] ELSE IF i = 1 THEN s[i] ELSE g[i - 1] \o s[i]]
  <2>2. ASSUME NEW i \in 1..(n + 1)
        PROVE  f[i] \in Seq(E)
    <3>1. CASE i <= n
      BY <3>1
    <3>2. CASE i = n + 1 /\ i = 1
      BY <1>1, <3>2
    <3>3. CASE i = n + 1 /\ i # 1
      <4>1. g[i - 1] \in Seq(E) /\ s[i] \in Seq(E)
        BY <1>1, <3>3
      <4>2. g[i - 1] \o s[i] \in Seq(E)
        BY <4>1, ConcatProperties
      <4>3. QED BY <3>3, <4>2
    <3>4. QED BY <3>1, <3>2, <3>3
  <2>3. f \in [1..(n + 1) -> Seq(E)]
    BY <2>2
  <2>4. ASSUME NEW i \in 1..(n + 1)
        PROVE  f[i] = IF i = 1 THEN s[i] ELSE f[i - 1] \o s[i]
    <3>1. CASE i <= n /\ i # 1
      <4>1. f[i] = g[i] /\ f[i - 1] = g[i - 1] /\ i \in 1..n
        BY <3>1
      <4>2. QED BY <2>1, <3>1, <4>1 DEF Part
    <3>2. CASE i <= n /\ i = 1
      <4>1. f[i] = g[i] /\ i \in 1..n
        BY <3>2
      <4>2. QED BY <2>1, <3>2, <4>1 DEF Part
    <3>3. CASE i = n + 1 /\ i # 1
      <4>1. ~(i <= n) /\ i - 1 \in 1..n /\ i - 1 \in 1..(n + 1) /\ i - 1 <= n
        BY <3>3
      <4>2. f[i] = g[i - 1] \o s[i]
        BY <3>3, <4>1
      <4>3. f[i - 1] = g[i - 1]
        BY <4>1
      <4>4. QED BY <3>3, <4>2, <4>3
    <3>4. CASE i = n + 1 /\ i = 1
      BY <3>4
    <3>5. QED BY <3>1, <3>2, <3>3, <3>4
  <2> HIDE DEF f
  <2>5. Part(f, s, n + 1)
    BY <2>4 DEF Part
  <2>6. QED BY <2>3, <2>5
<1>4. Len(s) \in S
  <2> HIDE DEF S
  <2>1. QED BY <1>1, <1>2, <1>3, NatInduct
<1>5. PICK f \in [1..Len(s) -> Seq(E)] : Part(f, s, Len(s))
  BY <1>1, <1>4
<1>6. f = [i \in 1..Len(s) |-> IF i = 1 THEN s[i] ELSE f[i - 1] \o s[i]]
  BY <1>5 DEF Part
<1>7. QED BY <1>6 DEF Flattens

(* ... of sequences, ...                                                   *)
LEMMA FlattensTyped ==
  ASSUME NEW E, NEW s \in Seq(Seq(E)), NEW f, Flattens(f, s)
  PROVE  \A i \in 1..Len(s) : f[i] \in Seq(E)
<1> DEFINE S == {k \in Nat : k \in 1..Len(s) => f[k] \in Seq(E)}
<1>1. Len(s) \in Nat /\ \A i \in 1..Len(s) : s[i] \in Seq(E)
  BY LenProperties
<1>2. \A i \in 1..Len(s) : f[i] = IF i = 1 THEN s[i] ELSE f[i - 1] \o s[i]
  BY DEF Flattens
<1>3. 0 \in S
  OBVIOUS
<1>4. ASSUME NEW n \in Nat, n \in S
      PROVE  n + 1 \in S
  <2> SUFFICES ASSUME n + 1 \in 1..Len(s)
               PROVE  f[n + 1] \in Seq(E)
    OBVIOUS
  <2>1. CASE n = 0
    BY <1>1, <1>2, <2>1
  <2>2. CASE n # 0
    <3>1. f[n] \in Seq(E) /\ s[n + 1] \in Seq(E)
      BY <1>1, <1>4, <2>2
    <3>2. f[n + 1] = f[n] \o s[n + 1]
      <4>1. n + 1 # 1 /\ (n + 1) - 1 = n
        BY <2>2
      <4>2. QED BY <1>2, <4>1
    <3>3. QED BY <3>1, <3>2, ConcatProperties
  <2>3. QED BY <2>1, <2>2
<1>5. Nat \subseteq S
  <2> HIDE DEF S
  <2>1. QED BY <1>3, <1>4, NatInduct
<1>6. QED BY <1>1, <1>5

(* ... and two agree where one's sequence begins the other's.              *)
Begins(s, t) ==
  Len(s) \in Nat /\ Len(t) \in Nat /\ Len(s) <= Len(t) /\ \A i \in 1..Len(s) : s[i] = t[i]

LEMMA FlattensAgree ==
  ASSUME NEW s, NEW t, NEW f, NEW g, Flattens(f, s), Flattens(g, t), Begins(s, t)
  PROVE  \A i \in 1..Len(s) : f[i] = g[i]
<1> DEFINE S == {k \in Nat : k \in 1..Len(s) => f[k] = g[k]}
<1>1. \A i \in 1..Len(s) : f[i] = IF i = 1 THEN s[i] ELSE f[i - 1] \o s[i]
  BY DEF Flattens
<1>2. \A i \in 1..Len(t) : g[i] = IF i = 1 THEN t[i] ELSE g[i - 1] \o t[i]
  BY DEF Flattens
<1>3. 0 \in S
  OBVIOUS
<1>4. ASSUME NEW n \in Nat, n \in S
      PROVE  n + 1 \in S
  <2> SUFFICES ASSUME n + 1 \in 1..Len(s)
               PROVE  f[n + 1] = g[n + 1]
    OBVIOUS
  <2>1. n + 1 \in 1..Len(t) /\ s[n + 1] = t[n + 1]
    BY DEF Begins
  <2>2. CASE n = 0
    BY <1>1, <1>2, <2>1, <2>2
  <2>3. CASE n # 0
    <3>1. f[n] = g[n]
      BY <1>4, <2>3
    <3>2. f[n + 1] = f[n] \o s[n + 1] /\ g[n + 1] = g[n] \o t[n + 1]
      <4>1. n + 1 # 1 /\ (n + 1) - 1 = n
        BY <2>3
      <4>2. QED BY <1>1, <1>2, <2>1, <4>1
    <3>3. QED BY <2>1, <3>1, <3>2
  <2>4. QED BY <2>2, <2>3
<1>5. Nat \subseteq S
  <2> HIDE DEF S
  <2>1. QED BY <1>3, <1>4, NatInduct
<1>6. QED BY <1>5

(* So FlattenSeq is the last of such a function, or the empty sequence.    *)
LEMMA FlattenForm ==
  ASSUME NEW E, NEW s \in Seq(Seq(E))
  PROVE  /\ Len(s) = 0 => FlattenSeq(s) = << >>
         /\ Len(s) # 0 => \E f : Flattens(f, s) /\ FlattenSeq(s) = f[Len(s)]
<1>1. Len(s) = 0 => s = << >>
  BY EmptySeq
<1>2. Len(s) # 0 => \E f : Flattens(f, s) /\ FlattenSeq(s) = f[Len(s)]
  <2> DEFINE F == CHOOSE f : Flattens(f, s)
  <2>1. Flattens(F, s)
    BY FlattensExists
  <2>2. Len(s) # 0 => FlattenSeq(s) = F[Len(s)]
    BY DEF FlattenSeq, Flattens
  <2>3. QED BY <2>1, <2>2
<1>3. QED BY <1>1, <1>2 DEF FlattenSeq

------------------------------------------------------------------------------
(* FlattenSeq makes a sequence, ...                                        *)
LEMMA FlattenTyped ==
  ASSUME NEW E, NEW s \in Seq(Seq(E))
  PROVE  FlattenSeq(s) \in Seq(E)
<1>1. Len(s) \in Nat
  BY LenProperties
<1>2. CASE Len(s) = 0
  BY <1>2, FlattenForm, EmptySeq
<1>3. CASE Len(s) # 0
  <2>1. PICK f : Flattens(f, s) /\ FlattenSeq(s) = f[Len(s)]
    BY <1>3, FlattenForm
  <2>2. Len(s) \in 1..Len(s)
    BY <1>1, <1>3
  <2>3. QED BY <2>1, <2>2, FlattensTyped
<1>4. QED BY <1>2, <1>3

(* ... one appended sequence at a time.                                    *)
LEMMA FlattenAppend ==
  ASSUME NEW E, NEW s \in Seq(Seq(E)), NEW e \in Seq(E)
  PROVE  FlattenSeq(Append(s, e)) = FlattenSeq(s) \o e
<1> DEFINE t == Append(s, e)
           n == Len(s)
<1>1. /\ n \in Nat /\ t \in Seq(Seq(E)) /\ Len(t) = n + 1
      /\ \A i \in 1..n : t[i] = s[i]
      /\ t[n + 1] = e
  BY LenProperties, AppendProperties
<1> HIDE DEF t, n
<1>2. PICK g : Flattens(g, t) /\ FlattenSeq(t) = g[n + 1]
  BY <1>1, FlattenForm
<1>3. CASE n = 0
  <2>1. g[1] = t[1] /\ FlattenSeq(t) = e
    BY <1>1, <1>2, <1>3 DEF Flattens
  <2>2. FlattenSeq(s) = << >> /\ << >> \o e = e
    BY <1>3, FlattenForm, ConcatEmptySeq DEF n
  <2>3. QED BY <2>1, <2>2 DEF t
<1>4. CASE n # 0
  <2>1. PICK f : Flattens(f, s) /\ FlattenSeq(s) = f[n]
    BY <1>4, FlattenForm DEF n
  <2>2. \A i \in 1..n : f[i] = g[i]
    <3>1. Begins(s, t)
      BY <1>1 DEF n, Begins
    <3>2. QED BY <1>2, <2>1, <3>1, FlattensAgree DEF n
  <2>3. g[n + 1] = g[n] \o t[n + 1]
    <3>1. n + 1 # 1 /\ (n + 1) - 1 = n /\ n + 1 \in 1..Len(t)
      BY <1>1, <1>4
    <3>2. QED BY <1>2, <3>1 DEF Flattens
  <2>4. n \in 1..n
    BY <1>1, <1>4
  <2>5. QED BY <1>1, <1>2, <2>1, <2>2, <2>3, <2>4 DEF t
<1>5. QED BY <1>3, <1>4

(* Apart from the facts about FlattenSeq the provers find this at once.    *)
LEMMA Associative ==
  ASSUME NEW E, NEW a \in Seq(E), NEW b \in Seq(E), NEW c \in Seq(E)
  PROVE  (a \o b) \o c = a \o (b \o c)
BY ConcatAssociative

LEMMA ConcatAppend ==
  ASSUME NEW E, NEW s \in Seq(E), NEW t \in Seq(E), NEW e \in E
  PROVE  s \o Append(t, e) = Append(s \o t, e)
<1>1. s \o t \in Seq(E) /\ << e >> \in Seq(E)
  BY ConcatProperties
<1>2. Append(t, e) = t \o << e >> /\ Append(s \o t, e) = (s \o t) \o << e >>
  BY <1>1, AppendIsConcat
<1>3. (s \o t) \o << e >> = s \o (t \o << e >>)
  BY <1>1, Associative
<1>4. QED BY <1>2, <1>3

(* So one sequence is made of one, ...                                     *)
LEMMA FlattenOne ==
  ASSUME NEW E, NEW e \in Seq(E)
  PROVE  FlattenSeq(<< e >>) = e
<1>1. << >> \in Seq(Seq(E)) /\ Append(<< >>, e) = << e >>
  BY EmptySeq
<1>2. FlattenSeq(<< >>) = << >> /\ << >> \o e = e
  BY <1>1, EmptySeq, FlattenForm, ConcatEmptySeq
<1>3. QED BY <1>1, <1>2, FlattenAppend

(* ... and what a concatenation makes is a concatenation.                  *)
LEMMA FlattenConcat ==
  ASSUME NEW E, NEW s \in Seq(Seq(E)), NEW t \in Seq(Seq(E))
  PROVE  FlattenSeq(s \o t) = FlattenSeq(s) \o FlattenSeq(t)
<1> DEFINE S == {k \in Nat : \A u \in Seq(Seq(E)) :
                   Len(u) = k => FlattenSeq(s \o u) = FlattenSeq(s) \o FlattenSeq(u)}
<1>1. FlattenSeq(s) \in Seq(E)
  BY FlattenTyped
<1>2. 0 \in S
  <2>1. ASSUME NEW u \in Seq(Seq(E)), Len(u) = 0
        PROVE  FlattenSeq(s \o u) = FlattenSeq(s) \o FlattenSeq(u)
    <3>1. u = << >>
      BY <2>1, EmptySeq
    <3>2. s \o u = s
      BY <3>1, ConcatEmptySeq
    <3>3. FlattenSeq(u) = << >>
      BY <2>1, FlattenForm
    <3>4. QED BY <1>1, <3>2, <3>3, ConcatEmptySeq
  <2>2. QED BY <2>1
<1>3. ASSUME NEW n \in Nat, n \in S
      PROVE  n + 1 \in S
  <2> SUFFICES ASSUME NEW u \in Seq(Seq(E)), Len(u) = n + 1
               PROVE  FlattenSeq(s \o u) = FlattenSeq(s) \o FlattenSeq(u)
    OBVIOUS
  <2>1. PICK v \in Seq(Seq(E)), e \in Seq(E) : u = Append(v, e)
    <3>1. u # << >>
      BY EmptySeq
    <3>2. QED BY <3>1, SequenceEmptyOrAppend
  <2>2. Len(v) = n
    BY <2>1, AppendProperties, LenProperties
  <2>3. s \o v \in Seq(Seq(E)) /\ FlattenSeq(v) \in Seq(E)
    BY ConcatProperties, FlattenTyped
  <2>4. s \o u = Append(s \o v, e)
    <3>1. << e >> \in Seq(Seq(E)) /\ Append(s \o v, e) = (s \o v) \o << e >> /\ u = v \o << e >>
      BY <2>1, <2>3, AppendIsConcat
    <3>2. QED BY <3>1, ConcatAssociative
  <2>5. FlattenSeq(s \o u) = FlattenSeq(s \o v) \o e
    BY <2>3, <2>4, FlattenAppend
  <2>6. FlattenSeq(u) = FlattenSeq(v) \o e
    BY <2>1, FlattenAppend
  <2>7. FlattenSeq(s \o v) = FlattenSeq(s) \o FlattenSeq(v)
    BY <1>3, <2>2
  <2>8. (FlattenSeq(s) \o FlattenSeq(v)) \o e = FlattenSeq(s) \o (FlattenSeq(v) \o e)
    BY <1>1, <2>1, <2>3, Associative
  <2>9. QED BY <2>5, <2>6, <2>7, <2>8
<1>4. Len(t) \in S
  <2> HIDE DEF S
  <2>1. Len(t) \in Nat
    BY LenProperties
  <2>2. QED BY <1>2, <1>3, <2>1, NatInduct
<1>5. QED BY <1>4

(* A sequence without elements is the empty one.                           *)
LEMMA ToSetEmpty ==
  ASSUME NEW E, NEW s \in Seq(E)
  PROVE  ToSet(s) = {} <=> s = << >>
<1>1. Len(s) \in Nat /\ DOMAIN s = 1..Len(s) /\ (s # << >> => Len(s) # 0)
  BY LenProperties, EmptySeq
<1>2. CASE s = << >>
  BY <1>2 DEF ToSet
<1>3. CASE s # << >>
  <2>1. 1 \in DOMAIN s
    BY <1>1, <1>3
  <2>2. s[1] \in ToSet(s)
    BY <2>1 DEF ToSet
  <2>3. QED BY <1>3, <2>2
<1>4. QED BY <1>2, <1>3

(* What two sequences hold together.                                       *)
LEMMA ToSetConcat ==
  ASSUME NEW E, NEW s \in Seq(E), NEW t \in Seq(E)
  PROVE  ToSet(s \o t) = ToSet(s) \cup ToSet(t)
<1>1. /\ Len(s) \in Nat /\ Len(t) \in Nat /\ DOMAIN s = 1..Len(s) /\ DOMAIN t = 1..Len(t)
      /\ s \o t \in Seq(E) /\ Len(s \o t) = Len(s) + Len(t)
      /\ \A i \in 1..Len(s) + Len(t) : (s \o t)[i] = IF i <= Len(s) THEN s[i] ELSE t[i - Len(s)]
  BY LenProperties, ConcatProperties
<1>2. DOMAIN (s \o t) = 1..Len(s) + Len(t)
  BY <1>1, LenProperties
<1>3. \A i \in 1..Len(s) : i \in 1..Len(s) + Len(t) /\ (s \o t)[i] = s[i]
  BY <1>1
<1>4. \A i \in 1..Len(t) : Len(s) + i \in 1..Len(s) + Len(t) /\ (s \o t)[Len(s) + i] = t[i]
  BY <1>1
<1>5. \A i \in 1..Len(s) + Len(t) :
        \/ i \in 1..Len(s) /\ (s \o t)[i] = s[i]
        \/ i - Len(s) \in 1..Len(t) /\ (s \o t)[i] = t[i - Len(s)]
  BY <1>1
<1>6. QED BY <1>1, <1>2, <1>3, <1>4, <1>5 DEF ToSet

(* FlattenSeq keeps the elements of its sequences, and adds none.          *)
LEMMA FlattenToSet ==
  ASSUME NEW E, NEW s \in Seq(Seq(E))
  PROVE  ToSet(FlattenSeq(s)) = UNION {ToSet(s[i]) : i \in 1..Len(s)}
<1> DEFINE All(u) == UNION {ToSet(u[i]) : i \in 1..Len(u)}
           S == {k \in Nat : \A u \in Seq(Seq(E)) : Len(u) = k => ToSet(FlattenSeq(u)) = All(u)}
<1>1. 0 \in S
  <2>1. ASSUME NEW u \in Seq(Seq(E)), Len(u) = 0
        PROVE  ToSet(FlattenSeq(u)) = All(u)
    <3>1. FlattenSeq(u) = << >>
      BY <2>1, FlattenForm
    <3>2. All(u) = {} /\ ToSet(<< >>) = {}
      BY <2>1 DEF ToSet
    <3>3. QED BY <3>1, <3>2
  <2>2. QED BY <2>1
<1>2. ASSUME NEW n \in Nat, n \in S
      PROVE  n + 1 \in S
  <2> SUFFICES ASSUME NEW u \in Seq(Seq(E)), Len(u) = n + 1
               PROVE  ToSet(FlattenSeq(u)) = All(u)
    OBVIOUS
  <2>1. PICK v \in Seq(Seq(E)), e \in Seq(E) : u = Append(v, e)
    <3>1. u # << >>
      BY EmptySeq
    <3>2. QED BY <3>1, SequenceEmptyOrAppend
  <2>2. Len(v) = n /\ u[n + 1] = e /\ \A i \in 1..n : u[i] = v[i]
    BY <2>1, AppendProperties, LenProperties
  <2>3. FlattenSeq(u) = FlattenSeq(v) \o e /\ FlattenSeq(v) \in Seq(E)
    BY <2>1, FlattenAppend, FlattenTyped
  <2>4. ToSet(FlattenSeq(u)) = ToSet(FlattenSeq(v)) \cup ToSet(e)
    <3>1. Range(FlattenSeq(v) \o e) = Range(FlattenSeq(v)) \cup Range(e)
      BY <2>3, RangeConcatenation
    <3>2. QED BY <2>3, <3>1 DEF Range, ToSet
  <2>5. ToSet(FlattenSeq(v)) = All(v)
    BY <1>2, <2>2
  <2>6. All(u) = All(v) \cup ToSet(e)
    <3>1. 1..Len(u) = 1..n \cup {n + 1} /\ Len(v) = n
      BY <2>2
    <3>2. QED BY <2>2, <3>1
  <2>7. QED BY <2>4, <2>5, <2>6
<1>3. Len(s) \in S
  <2> HIDE DEF S
  <2>1. Len(s) \in Nat
    BY LenProperties
  <2>2. QED BY <1>1, <1>2, <2>1, NatInduct
<1>4. QED BY <1>3

(* Putting one sequence after another adds their lengths.                  *)
LEMMA ConcatLen ==
  ASSUME NEW E, NEW s \in Seq(E), NEW t \in Seq(E)
  PROVE  s \o t \in Seq(E) /\ Len(s \o t) = Len(s) + Len(t)
BY ConcatProperties

------------------------------------------------------------------------------
(* A finite set of naturals has a largest one.                             *)
LEMMA FiniteMax ==
  ASSUME NEW T \in SUBSET Nat, IsFiniteSet(T), T # {}
  PROVE  Max(T) \in T /\ \A x \in T : x <= Max(T)
<1> DEFINE S == {k \in Nat : \A U \in SUBSET Nat :
                   IsFiniteSet(U) /\ Cardinality(U) = k + 1 => \E m \in U : \A x \in U : x <= m}
<1>1. 0 \in S
  <2> SUFFICES ASSUME NEW U \in SUBSET Nat, IsFiniteSet(U), Cardinality(U) = 1
               PROVE  \E m \in U : \A x \in U : x <= m
    OBVIOUS
  <2>1. PICK x : U = {x}
    BY FS_Singleton
  <2>2. x \in U /\ x <= x
    BY <2>1
  <2>3. QED BY <2>1, <2>2
<1>2. ASSUME NEW k \in Nat, k \in S
      PROVE  k + 1 \in S
  <2> SUFFICES ASSUME NEW U \in SUBSET Nat, IsFiniteSet(U), Cardinality(U) = (k + 1) + 1
               PROVE  \E m \in U : \A x \in U : x <= m
    OBVIOUS
  <2>1. PICK y \in U : TRUE
    <3>1. Cardinality(U) # 0
      OBVIOUS
    <3>2. U # {}
      BY ONLY <3>1, FS_EmptySet
    <3>3. QED BY <3>2
  <2> DEFINE V == U \ {y}
  <2>2. V \in SUBSET Nat /\ IsFiniteSet(V) /\ Cardinality(V) = k + 1
    BY <2>1, FS_RemoveElement
  <2>3. PICK m \in V : \A x \in V : x <= m
    BY <1>2, <2>2
  <2>4. CASE y <= m
    BY <2>3, <2>4
  <2>5. CASE ~(y <= m)
    BY <2>1, <2>3, <2>5
  <2>6. QED BY <2>4, <2>5
<1>3. Nat \subseteq S
  <2> HIDE DEF S
  <2>1. QED BY <1>1, <1>2, NatInduct
<1>4. Cardinality(T) \in Nat /\ Cardinality(T) # 0
  BY FS_CardinalityType, FS_EmptySet
<1>5. Cardinality(T) - 1 \in Nat /\ Cardinality(T) = (Cardinality(T) - 1) + 1
  BY <1>4
<1>6. \E m \in T : \A x \in T : x <= m
  BY <1>3, <1>5
<1>7. \E m \in T : \A x \in T : m >= x
  BY <1>6
<1>8. Max(T) \in T /\ \A x \in T : Max(T) >= x
  BY <1>7 DEF Max
<1>9. QED BY <1>8

------------------------------------------------------------------------------
(* Induction over sequences, by their last element.                        *)
LEMMA SeqInduct ==
  ASSUME NEW E, NEW S, << >> \in S,
         \A s \in Seq(E), e \in E : s \in S => Append(s, e) \in S
  PROVE  Seq(E) \subseteq S
<1> DEFINE T == {k \in Nat : \A s \in Seq(E) : Len(s) = k => s \in S}
<1>1. 0 \in T
  BY EmptySeq
<1>2. ASSUME NEW k \in Nat, k \in T
      PROVE  k + 1 \in T
  <2> SUFFICES ASSUME NEW s \in Seq(E), Len(s) = k + 1
               PROVE  s \in S
    OBVIOUS
  <2> DEFINE f == [i \in 1..k |-> s[i]]
             e == s[k + 1]
  <2>1. e \in E /\ \A i \in 1..k : s[i] \in E
    BY LenProperties
  <2>2. f \in Seq(E) /\ Len(f) = k
    BY <2>1
  <2>3. s = Append(f, e)
    <3>1. Append(f, e) \in Seq(E) /\ Len(Append(f, e)) = k + 1
      BY <2>1, <2>2, AppendProperties
    <3>2. \A i \in 1..(k + 1) : Append(f, e)[i] = s[i]
      BY <2>2, AppendProperties
    <3>3. QED BY <3>1, <3>2, SeqEqual
  <2>4. f \in S
    BY <1>2, <2>2
  <2>5. QED BY <2>1, <2>2, <2>3, <2>4
<1>3. Nat \subseteq T
  <2> HIDE DEF T
  <2>1. QED BY <1>1, <1>2, NatInduct
<1>4. QED BY <1>3, LenProperties

(* A function defined by recursion on 0..N exists.                         *)
Recurs(f, N, S, a, F) ==
  f \in [0..N -> S] /\ f[0] = a /\ \A i \in 1..N : f[i] = F[i][f[i - 1]]

LEMMA RecursionExists ==
  ASSUME NEW N \in Nat, NEW S, NEW a \in S, NEW F \in [1..N -> [S -> S]]
  PROVE  \E f : Recurs(f, N, S, a, F)
<1> DEFINE Upto(f, k) == f[0] = a /\ \A i \in 1..k : f[i] = F[i][f[i - 1]]
           T == {k \in Nat : k <= N => \E f \in [0..k -> S] : Upto(f, k)}
<1>1. 0 \in T
  <2> DEFINE f == [i \in 0..0 |-> a]
  <2>1. f \in [0..0 -> S] /\ Upto(f, 0)
    OBVIOUS
  <2>2. QED BY <2>1
<1>2. ASSUME NEW k \in Nat, k \in T
      PROVE  k + 1 \in T
  <2> SUFFICES ASSUME k + 1 <= N
               PROVE  \E f \in [0..(k + 1) -> S] : Upto(f, k + 1)
    OBVIOUS
  <2>1. PICK f \in [0..k -> S] : Upto(f, k)
    BY <1>2
  <2>2. f[k] \in S /\ F[k + 1][f[k]] \in S
    BY <2>1
  <2> DEFINE g == [i \in 0..(k + 1) |-> IF i = k + 1 THEN F[k + 1][f[k]] ELSE f[i]]
  <2>3. g \in [0..(k + 1) -> S]
    BY <2>1, <2>2
  <2>4. \A i \in 0..k : g[i] = f[i]
    OBVIOUS
  <2>5. g[k + 1] = F[k + 1][f[k]] /\ (k + 1) - 1 = k
    OBVIOUS
  <2> HIDE DEF g
  <2>6. ASSUME NEW i \in 1..(k + 1)
        PROVE  g[i] = F[i][g[i - 1]]
    <3>1. CASE i = k + 1
      BY <2>4, <2>5, <3>1
    <3>2. CASE i \in 1..k
      <4>1. i - 1 \in 0..k /\ i \in 0..k
        BY <3>2
      <4>2. QED BY <2>1, <2>4, <3>2, <4>1
    <3>3. QED BY <3>1, <3>2
  <2>7. g[0] = a
    BY <2>1, <2>4
  <2>8. QED BY <2>3, <2>6, <2>7
<1>3. N \in T
  <2> HIDE DEF T
  <2>1. QED BY <1>1, <1>2, NatInduct
<1>4. QED BY <1>3 DEF Recurs

(* What satisfies the equations of such a function is typed, ...           *)
LEMMA RecursTyped ==
  ASSUME NEW N \in Nat, NEW S, NEW a \in S, NEW F \in [1..N -> [S -> S]],
         NEW g, g = [i \in 0..N |-> g[i]], g[0] = a,
         \A i \in 1..N : g[i - 1] \in S => g[i] = F[i][g[i - 1]]
  PROVE  Recurs(g, N, S, a, F)
<1> DEFINE T == {k \in Nat : k <= N => g[k] \in S}
<1>1. 0 \in T
  OBVIOUS
<1>2. ASSUME NEW k \in Nat, k \in T
      PROVE  k + 1 \in T
  <2> SUFFICES ASSUME k + 1 <= N PROVE g[k + 1] \in S
    OBVIOUS
  <2>1. k + 1 \in 1..N /\ (k + 1) - 1 = k /\ g[k] \in S
    BY <1>2
  <2>2. g[k + 1] = F[k + 1][g[k]]
    BY <2>1
  <2>3. F[k + 1] \in [S -> S]
    BY <2>1
  <2>4. QED BY <2>1, <2>2, <2>3
<1>3. Nat \subseteq T
  <2> HIDE DEF T
  <2>1. QED BY <1>1, <1>2, NatInduct
<1>4. \A i \in 0..N : g[i] \in S
  BY <1>3
<1>5. g \in [0..N -> S]
  BY <1>4
<1>6. \A i \in 1..N : g[i] = F[i][g[i - 1]]
  <2> SUFFICES ASSUME NEW i \in 1..N PROVE g[i] = F[i][g[i - 1]]
    OBVIOUS
  <2>1. i - 1 \in 0..N
    OBVIOUS
  <2>2. QED BY <1>4, <2>1
<1>7. QED BY <1>5, <1>6 DEF Recurs

(* ... and two of them agree as far as their equations do.                 *)
LEMMA RecursAgree ==
  ASSUME NEW N \in Nat, NEW M \in Nat, N <= M, NEW S, NEW a, NEW F, NEW G,
         NEW f, NEW g, Recurs(f, N, S, a, F), Recurs(g, M, S, a, G),
         \A i \in 1..N : F[i] = G[i]
  PROVE  \A i \in 0..N : f[i] = g[i]
<1> DEFINE T == {k \in Nat : k <= N => f[k] = g[k]}
<1>1. 0 \in T
  BY DEF Recurs
<1>2. ASSUME NEW k \in Nat, k \in T
      PROVE  k + 1 \in T
  <2> SUFFICES ASSUME k + 1 <= N PROVE f[k + 1] = g[k + 1]
    OBVIOUS
  <2>1. k + 1 \in 1..N /\ k + 1 \in 1..M /\ (k + 1) - 1 = k /\ f[k] = g[k]
    BY <1>2
  <2>2. f[k + 1] = F[k + 1][f[k]] /\ g[k + 1] = G[k + 1][g[k]]
    BY <2>1 DEF Recurs
  <2>3. QED BY <2>1, <2>2
<1>3. Nat \subseteq T
  <2> HIDE DEF T
  <2>1. QED BY <1>1, <1>2, NatInduct
<1>4. QED BY <1>3

------------------------------------------------------------------------------
(* The recursive function of Total.                                        *)
Adds(f, w) == f = [i \in 0..Len(w) |-> IF i = 0 THEN 0 ELSE f[i - 1] + w[i]]

LEMMA TotalForm ==
  ASSUME NEW w \in Seq(Nat)
  PROVE  \E f \in [0..Len(w) -> Nat] :
           /\ f[0] = 0 /\ \A i \in 1..Len(w) : f[i] = f[i - 1] + w[i]
           /\ Total(w) = f[Len(w)]
<1>1. Len(w) \in Nat /\ \A i \in 1..Len(w) : w[i] \in Nat
  BY LenProperties
<1>2. \E f : Adds(f, w)
  <2> DEFINE F == [i \in 1..Len(w) |-> [x \in Nat |-> x + w[i]]]
             N == Len(w)
             zero == 0
  <2>1. \A i \in 1..N : \A x \in Nat : F[i][x] = x + w[i]
    OBVIOUS
  <2> HIDE DEF F
  <2>2. PICK f \in [0..N -> Nat] : f[0] = 0 /\ \A i \in 1..N : f[i] = F[i][f[i - 1]]
    <3> DEFINE S == Nat
    <3>1. N \in Nat /\ zero \in S /\ F \in [1..N -> [S -> S]]
      BY <1>1 DEF F
    <3> HIDE DEF N, zero, S
    <3>2. \E f : Recurs(f, N, S, zero, F)
      BY <3>1, RecursionExists
    <3>3. QED BY <3>2 DEF Recurs, zero, S
  <2>3. ASSUME NEW i \in 1..Len(w)
        PROVE  f[i] = f[i - 1] + w[i]
    <3>1. i - 1 \in 0..Len(w) /\ f[i - 1] \in Nat
      BY <1>1, <2>2
    <3>2. f[i] = F[i][f[i - 1]]
      BY <2>2
    <3>3. QED BY <2>1, <3>1, <3>2
  <2>4. f = [i \in 0..Len(w) |-> IF i = 0 THEN 0 ELSE f[i - 1] + w[i]]
    BY <1>1, <2>2, <2>3
  <2>5. QED BY <2>4 DEF Adds
<1> DEFINE f == CHOOSE f : Adds(f, w)
<1>3. Adds(f, w) /\ Total(w) = f[Len(w)]
  BY <1>2 DEF Total, Adds
<1> HIDE DEF f
<1>4. DOMAIN f = 0..Len(w) /\ f[0] = 0 /\ \A i \in 1..Len(w) : f[i] = f[i - 1] + w[i]
  BY <1>1, <1>3 DEF Adds
<1> DEFINE T == {k \in Nat : k <= Len(w) => f[k] \in Nat}
<1>5. Nat \subseteq T
  <2>1. 0 \in T
    BY <1>4
  <2>2. ASSUME NEW k \in Nat, k \in T PROVE k + 1 \in T
    <3> SUFFICES ASSUME k + 1 <= Len(w) PROVE f[k + 1] \in Nat
      OBVIOUS
    <3>1. k + 1 \in 1..Len(w) /\ (k + 1) - 1 = k /\ f[k] \in Nat
      BY <1>1, <2>2
    <3>2. f[k + 1] = f[(k + 1) - 1] + w[k + 1]
      BY <1>4, <3>1
    <3>3. QED BY <1>1, <3>1, <3>2
  <2> HIDE DEF T
  <2>3. QED BY <2>1, <2>2, NatInduct
<1>6. f = [i \in 0..Len(w) |-> f[i]]
  BY <1>3, <1>4 DEF Adds
<1>7. f \in [0..Len(w) -> Nat]
  BY <1>1, <1>5, <1>6
<1>8. QED BY <1>3, <1>4, <1>7

LEMMA TotalEmpty == Total(<< >>) = 0
<1>1. << >> \in Seq(Nat) /\ Len(<< >>) = 0
  OBVIOUS
<1>2. QED BY <1>1, TotalForm

LEMMA TotalNat ==
  ASSUME NEW w \in Seq(Nat)
  PROVE  Total(w) \in Nat
<1>1. Len(w) \in 0..Len(w)
  BY LenProperties
<1>2. QED BY <1>1, TotalForm

LEMMA TotalAppend ==
  ASSUME NEW w \in Seq(Nat), NEW x \in Nat
  PROVE  Append(w, x) \in Seq(Nat) /\ Total(Append(w, x)) = Total(w) + x
<1> DEFINE v == Append(w, x)
           n == Len(w)
<1>1. n \in Nat /\ v \in Seq(Nat) /\ Len(v) = n + 1 /\ v[n + 1] = x /\ \A i \in 1..n : v[i] = w[i]
  BY LenProperties, AppendProperties
<1> HIDE DEF v, n
<1>2. PICK f \in [0..n -> Nat] :
        f[0] = 0 /\ (\A i \in 1..n : f[i] = f[i - 1] + w[i]) /\ Total(w) = f[n]
  BY TotalForm DEF n
<1>3. PICK g \in [0..(n + 1) -> Nat] :
        g[0] = 0 /\ (\A i \in 1..(n + 1) : g[i] = g[i - 1] + v[i]) /\ Total(v) = g[n + 1]
  BY <1>1, TotalForm
<1> DEFINE T == {k \in Nat : k <= n => g[k] = f[k]}
<1>4. Nat \subseteq T
  <2>1. 0 \in T
    BY <1>2, <1>3
  <2>2. ASSUME NEW k \in Nat, k \in T PROVE k + 1 \in T
    <3> SUFFICES ASSUME k + 1 <= n PROVE g[k + 1] = f[k + 1]
      OBVIOUS
    <3>1. k + 1 \in 1..n /\ k + 1 \in 1..(n + 1) /\ (k + 1) - 1 = k /\ g[k] = f[k]
      BY <1>1, <2>2
    <3>2. QED BY <1>1, <1>2, <1>3, <3>1
  <2> HIDE DEF T
  <2>3. QED BY <2>1, <2>2, NatInduct
<1>5. g[n] = f[n]
  BY <1>1, <1>4
<1>6. n + 1 \in 1..(n + 1) /\ (n + 1) - 1 = n
  BY <1>1
<1>7. Total(v) = Total(w) + x
  BY <1>1, <1>2, <1>3, <1>5, <1>6
<1>8. QED BY <1>1, <1>7 DEF v

LEMMA TotalMono ==
  ASSUME NEW v \in Seq(Nat), NEW w \in Seq(Nat), Len(v) = Len(w),
         \A i \in 1..Len(v) : v[i] <= w[i]
  PROVE  Total(v) <= Total(w)
<1> DEFINE n == Len(v)
<1>1. n \in Nat /\ Len(w) = n /\ \A i \in 1..n : v[i] \in Nat /\ w[i] \in Nat /\ v[i] <= w[i]
  BY LenProperties
<1> HIDE DEF n
<1>2. PICK f \in [0..n -> Nat] :
        f[0] = 0 /\ (\A i \in 1..n : f[i] = f[i - 1] + v[i]) /\ Total(v) = f[n]
  BY TotalForm DEF n
<1>3. PICK g \in [0..n -> Nat] :
        g[0] = 0 /\ (\A i \in 1..n : g[i] = g[i - 1] + w[i]) /\ Total(w) = g[n]
  BY <1>1, TotalForm
<1> DEFINE T == {k \in Nat : k <= n => f[k] <= g[k]}
<1>5. Nat \subseteq T
  <2>1. 0 \in T
    BY <1>2, <1>3
  <2>2. ASSUME NEW k \in Nat, k \in T PROVE k + 1 \in T
    <3> SUFFICES ASSUME k + 1 <= n PROVE f[k + 1] <= g[k + 1]
      OBVIOUS
    <3>1. k + 1 \in 1..n /\ (k + 1) - 1 = k /\ k \in 0..n /\ f[k] <= g[k]
      BY <1>1, <2>2
    <3>2. f[k + 1] = f[k] + v[k + 1] /\ g[k + 1] = g[k] + w[k + 1]
      BY <1>2, <1>3, <3>1
    <3>3. QED BY <1>1, <1>2, <1>3, <3>1, <3>2
  <2> HIDE DEF T
  <2>3. QED BY <2>1, <2>2, NatInduct
<1>6. QED BY <1>1, <1>2, <1>3, <1>5

LEMMA TotalPlus ==
  ASSUME NEW u \in Seq(Nat), NEW v \in Seq(Nat), NEW w \in Seq(Nat),
         Len(u) = Len(w), Len(v) = Len(w), \A i \in 1..Len(w) : w[i] = u[i] + v[i]
  PROVE  Total(w) = Total(u) + Total(v)
<1> DEFINE n == Len(w)
<1>1. /\ n \in Nat /\ Len(u) = n /\ Len(v) = n
      /\ \A i \in 1..n : u[i] \in Nat /\ v[i] \in Nat /\ w[i] = u[i] + v[i]
  BY LenProperties
<1> HIDE DEF n
<1>2. PICK f \in [0..n -> Nat] :
        f[0] = 0 /\ (\A i \in 1..n : f[i] = f[i - 1] + u[i]) /\ Total(u) = f[n]
  BY <1>1, TotalForm
<1>3. PICK g \in [0..n -> Nat] :
        g[0] = 0 /\ (\A i \in 1..n : g[i] = g[i - 1] + v[i]) /\ Total(v) = g[n]
  BY <1>1, TotalForm
<1>4. PICK h \in [0..n -> Nat] :
        h[0] = 0 /\ (\A i \in 1..n : h[i] = h[i - 1] + w[i]) /\ Total(w) = h[n]
  BY TotalForm DEF n
<1> DEFINE T == {k \in Nat : k <= n => h[k] = f[k] + g[k]}
<1>5. Nat \subseteq T
  <2>1. 0 \in T
    BY <1>2, <1>3, <1>4
  <2>2. ASSUME NEW k \in Nat, k \in T PROVE k + 1 \in T
    <3> SUFFICES ASSUME k + 1 <= n PROVE h[k + 1] = f[k + 1] + g[k + 1]
      OBVIOUS
    <3>1. k + 1 \in 1..n /\ (k + 1) - 1 = k /\ k \in 0..n /\ h[k] = f[k] + g[k]
      BY <1>1, <2>2
    <3>2. f[k + 1] = f[k] + u[k + 1] /\ g[k + 1] = g[k] + v[k + 1] /\ h[k + 1] = h[k] + w[k + 1]
      BY <1>2, <1>3, <1>4, <3>1
    <3>3. QED BY <1>1, <1>2, <1>3, <1>4, <3>1, <3>2
  <2> HIDE DEF T
  <2>3. QED BY <2>1, <2>2, NatInduct
<1>6. QED BY <1>1, <1>2, <1>3, <1>4, <1>5

LEMMA TotalHead ==
  ASSUME NEW w \in Seq(Nat), w # << >>
  PROVE  Tail(w) \in Seq(Nat) /\ Head(w) \in Nat /\ Total(w) = Head(w) + Total(Tail(w))
<1> DEFINE n == Len(Tail(w))
           x == Head(w)
<1>1. /\ n \in Nat /\ Len(w) = n + 1 /\ Tail(w) \in Seq(Nat) /\ x = w[1]
      /\ \A i \in 1..(n + 1) : w[i] \in Nat
      /\ \A i \in 1..n : Tail(w)[i] = w[i + 1]
  BY EmptySeq, LenProperties, HeadTailProperties
<1> HIDE DEF n, x
<1>2. PICK f \in [0..(n + 1) -> Nat] :
        f[0] = 0 /\ (\A i \in 1..(n + 1) : f[i] = f[i - 1] + w[i]) /\ Total(w) = f[n + 1]
  BY <1>1, TotalForm
<1>3. PICK g \in [0..n -> Nat] :
        g[0] = 0 /\ (\A i \in 1..n : g[i] = g[i - 1] + Tail(w)[i]) /\ Total(Tail(w)) = g[n]
  BY <1>1, TotalForm DEF n
<1>4. f[1] = x
  <2>1. 1 \in 1..(n + 1) /\ 1 - 1 = 0 /\ w[1] \in Nat
    BY <1>1
  <2>2. f[1] = f[1 - 1] + w[1]
    BY <1>2, <2>1
  <2>3. QED BY <1>1, <1>2, <2>1, <2>2
<1> DEFINE T == {k \in Nat : k <= n => f[k + 1] = x + g[k]}
<1>5. Nat \subseteq T
  <2>1. 0 \in T
    BY <1>1, <1>3, <1>4
  <2>2. ASSUME NEW k \in Nat, k \in T PROVE k + 1 \in T
    <3> SUFFICES ASSUME k + 1 <= n PROVE f[(k + 1) + 1] = x + g[k + 1]
      OBVIOUS
    <3>1. /\ k + 1 \in 1..n /\ (k + 1) - 1 = k /\ (k + 1) + 1 \in 1..(n + 1) /\ ((k + 1) + 1) - 1 = k + 1
          /\ k \in 0..n /\ k + 1 \in 0..(n + 1) /\ f[k + 1] = x + g[k]
      BY <1>1, <2>2
    <3>2. g[k + 1] = g[k] + Tail(w)[k + 1] /\ f[(k + 1) + 1] = f[k + 1] + w[(k + 1) + 1]
      BY <1>2, <1>3, <3>1
    <3>3. Tail(w)[k + 1] = w[(k + 1) + 1] /\ w[(k + 1) + 1] \in Nat /\ x \in Nat /\ g[k] \in Nat
      BY <1>1, <1>3, <3>1
    <3> DEFINE y == w[(k + 1) + 1]
               b == g[k]
    <3>4. y \in Nat /\ b \in Nat /\ x \in Nat
      BY <3>3
    <3>5. f[(k + 1) + 1] = (x + b) + y /\ g[k + 1] = b + y
      BY <3>1, <3>2, <3>3
    <3> HIDE DEF y, b
    <3>6. (x + b) + y = x + (b + y)
      BY <3>4
    <3>7. QED BY <3>5, <3>6
  <2> HIDE DEF T
  <2>3. QED BY <2>1, <2>2, NatInduct
<1>6. Total(w) = x + Total(Tail(w))
  BY <1>1, <1>2, <1>3, <1>5
<1>7. QED BY <1>1, <1>6 DEF x

------------------------------------------------------------------------------
(* Sums over finite sets.  SumFunction takes the elements of a set away    *)
(* one after the other: each time the one CHOOSE picks.                    *)
Picked(s) == CHOOSE x \in s : TRUE

SumsUp(g, f, S) ==
  g = [s \in SUBSET S |-> IF s = {} THEN 0 ELSE f[Picked(s)] + g[s \ {Picked(s)}]]

SumsOf(g, f, S) == g \in [SUBSET S -> Nat] /\ SumsUp(g, f, S)

(* An element is there to be picked, and to be taken away.                 *)
LEMMA PickedFrom ==
  ASSUME NEW S, NEW s \in SUBSET S, s # {}
  PROVE  Picked(s) \in s /\ s \ {Picked(s)} \in SUBSET S
BY DEF Picked

(* The definition, unfolded.                                               *)
LEMMA SumDef ==
  ASSUME NEW f
  PROVE  SumFunction(f) = (CHOOSE g : SumsUp(g, f, DOMAIN f))[DOMAIN f]
BY DEF SumFunction, SumFunctionOnSet, FoldFunctionOnSet, MapThenFoldSet, SumsUp, Picked

(* One element less.                                                       *)
LEMMA CardLess ==
  ASSUME NEW s, IsFiniteSet(s), NEW x \in s, NEW k \in Nat, Cardinality(s) <= k + 1
  PROVE  IsFiniteSet(s \ {x}) /\ Cardinality(s \ {x}) <= k
<1>1. IsFiniteSet(s \ {x}) /\ Cardinality(s \ {x}) = Cardinality(s) - 1 /\ Cardinality(s) \in Nat
  BY FS_RemoveElement, FS_CardinalityType
<1>2. QED BY <1>1

(* Such a function exists: one for sets of k elements at most after the    *)
(* other.                                                                  *)
LEMMA SumExists ==
  ASSUME NEW S, IsFiniteSet(S), NEW f \in [S -> Nat]
  PROVE  \E g \in [SUBSET S -> Nat] : SumsUp(g, f, S)
<1> DEFINE Small(k) == {s \in SUBSET S : Cardinality(s) <= k}
           Adds1(g, s) == IF s = {} THEN 0 ELSE f[Picked(s)] + g[s \ {Picked(s)}]
           K == {k \in Nat : \E g \in [Small(k) -> Nat] : \A s \in Small(k) : g[s] = Adds1(g, s)}
<1>0. /\ \A s \in SUBSET S : IsFiniteSet(s) /\ Cardinality(s) \in Nat /\ (Cardinality(s) = 0 <=> s = {})
      /\ Cardinality(S) \in Nat /\ \A s \in SUBSET S : Cardinality(s) <= Cardinality(S)
  BY FS_Subset, FS_CardinalityType, FS_EmptySet
<1>1. 0 \in K
  <2> DEFINE g == [s \in Small(0) |-> 0]
  <2>1. \A s \in Small(0) : s = {}
    BY <1>0
  <2>2. g \in [Small(0) -> Nat] /\ \A s \in Small(0) : g[s] = Adds1(g, s)
    BY <2>1
  <2> HIDE DEF g
  <2>3. QED BY <2>2
<1>2. ASSUME NEW k \in Nat, k \in K
      PROVE  k + 1 \in K
  <2>1. PICK g \in [Small(k) -> Nat] : \A s \in Small(k) : g[s] = Adds1(g, s)
    BY <1>2
  <2>2. ASSUME NEW s \in Small(k + 1), s # {}
        PROVE  s \ {Picked(s)} \in Small(k) /\ Picked(s) \in S
    BY <1>0, <2>2, PickedFrom, CardLess
  <2> DEFINE h == [s \in Small(k + 1) |-> Adds1(g, s)]
  <2>3. h \in [Small(k + 1) -> Nat]
    BY <2>2
  <2>4. ASSUME NEW s \in Small(k)
        PROVE  h[s] = g[s] /\ s \in Small(k + 1)
    <3>1. s \in Small(k + 1)
      BY <1>0
    <3>2. QED BY <2>1, <3>1
  <2>5. \A s \in Small(k + 1) : h[s] = Adds1(g, s)
    OBVIOUS
  <2> HIDE DEF h, Small
  <2>6. \A s \in Small(k + 1) : h[s] = Adds1(h, s)
    BY <2>2, <2>4, <2>5
  <2> HIDE DEF Adds1
  <2>7. QED BY <2>3, <2>6
<1>3. Cardinality(S) \in K
  <2> HIDE DEF K
  <2>1. QED BY <1>0, <1>1, <1>2, NatInduct
<1>4. PICK g \in [Small(Cardinality(S)) -> Nat] : \A s \in Small(Cardinality(S)) : g[s] = Adds1(g, s)
  BY <1>3
<1>5. Small(Cardinality(S)) = SUBSET S
  BY <1>0
<1>6. QED BY <1>4, <1>5 DEF SumsUp

(* ... it is determined, whatever f is outside of the sets in question.    *)
LEMMA SumUnique ==
  ASSUME NEW S, NEW T \in SUBSET S, IsFiniteSet(S), NEW f, NEW h, \A x \in T : f[x] = h[x],
         NEW g, SumsUp(g, f, S), NEW e, SumsUp(e, h, T)
  PROVE  \A s \in SUBSET T : e[s] = g[s]
<1> DEFINE K == {k \in Nat : \A s \in SUBSET T : Cardinality(s) <= k => e[s] = g[s]}
<1>0. \A s \in SUBSET T : IsFiniteSet(s) /\ Cardinality(s) \in Nat /\ (Cardinality(s) = 0 <=> s = {})
  BY FS_Subset, FS_CardinalityType, FS_EmptySet
<1>1. ASSUME NEW s \in SUBSET T
      PROVE  /\ g[s] = IF s = {} THEN 0 ELSE f[Picked(s)] + g[s \ {Picked(s)}]
             /\ e[s] = IF s = {} THEN 0 ELSE h[Picked(s)] + e[s \ {Picked(s)}]
  BY DEF SumsUp
<1>2. 0 \in K
  BY <1>0, <1>1
<1>3. ASSUME NEW k \in Nat, k \in K
      PROVE  k + 1 \in K
  <2> SUFFICES ASSUME NEW s \in SUBSET T, Cardinality(s) <= k + 1
               PROVE  e[s] = g[s]
    OBVIOUS
  <2>0. CASE s = {}
    BY <1>1, <2>0
  <2> SUFFICES ASSUME s # {}
               PROVE  e[s] = g[s]
    BY <2>0
  <2>1. Picked(s) \in T /\ s \ {Picked(s)} \in SUBSET T /\ Cardinality(s \ {Picked(s)}) <= k
    BY <1>0, PickedFrom, CardLess
  <2>2. e[s \ {Picked(s)}] = g[s \ {Picked(s)}]
    BY <1>3, <2>1
  <2>3. QED BY <1>1, <2>1, <2>2
<1>4. Nat \subseteq K
  <2> HIDE DEF K
  <2>1. QED BY <1>2, <1>3, NatInduct
<1>5. QED BY <1>0, <1>4

(* ... so that SumFunction is that of one which is typed.                  *)
LEMMA SumForm ==
  ASSUME NEW S, IsFiniteSet(S), NEW f \in [S -> Nat]
  PROVE  \E g \in [SUBSET S -> Nat] : SumsUp(g, f, S) /\ SumFunction(f) = g[S]
<1>1. PICK g \in [SUBSET S -> Nat] : SumsUp(g, f, S)
  BY SumExists
<1> DEFINE e == CHOOSE g1 : SumsUp(g1, f, S)
<1>2. SumsUp(e, f, S) /\ SumFunction(f) = e[S]
  <2>1. DOMAIN f = S
    OBVIOUS
  <2>2. QED BY <1>1, <2>1, SumDef
<1> HIDE DEF e
<1>3. S \in SUBSET S /\ \A x \in S : f[x] = f[x]
  OBVIOUS
<1>4. e[S] = g[S]
  BY <1>1, <1>2, <1>3, SumUnique
<1>5. QED BY <1>1, <1>2, <1>4

(* Any element may be taken away first.                                    *)
LEMMA SumAny ==
  ASSUME NEW S, IsFiniteSet(S), NEW f \in [S -> Nat],
         NEW g, SumsOf(g, f, S), NEW U \in SUBSET S, NEW z \in U
  PROVE  g[U] = f[z] + g[U \ {z}]
<1> g \in [SUBSET S -> Nat] /\ SumsUp(g, f, S)
  BY DEF SumsOf
<1> DEFINE K == {k \in Nat : \A t \in SUBSET S : Cardinality(t) <= k =>
                               \A y \in t : g[t] = f[y] + g[t \ {y}]}
<1>0. \A s \in SUBSET S : IsFiniteSet(s) /\ Cardinality(s) \in Nat /\ (Cardinality(s) = 0 <=> s = {})
  BY FS_Subset, FS_CardinalityType, FS_EmptySet
<1>1. ASSUME NEW s \in SUBSET S, s # {}
      PROVE  g[s] = f[Picked(s)] + g[s \ {Picked(s)}]
  BY <1>1 DEF SumsUp
<1>2. 0 \in K
  BY <1>0
<1>3. ASSUME NEW k \in Nat, k \in K
      PROVE  k + 1 \in K
  <2> SUFFICES ASSUME NEW s \in SUBSET S, Cardinality(s) <= k + 1, NEW x \in s
               PROVE  g[s] = f[x] + g[s \ {x}]
    OBVIOUS
  <2> DEFINE c == Picked(s)
  <2>1. /\ c \in s /\ s \ {c} \in SUBSET S /\ s \ {x} \in SUBSET S
        /\ Cardinality(s \ {c}) <= k /\ g[s] = f[c] + g[s \ {c}]
    BY <1>0, <1>1, PickedFrom, CardLess
  <2> HIDE DEF c
  <2>2. CASE x = c
    BY <2>1, <2>2
  <2>3. CASE x # c
    <3>0. Cardinality(s \ {x}) <= k
      BY <1>0, CardLess
    <3>1. g[s \ {c}] = f[x] + g[(s \ {c}) \ {x}]
      BY <1>3, <2>1, <2>3
    <3>2. g[s \ {x}] = f[c] + g[(s \ {x}) \ {c}]
      BY <1>3, <2>1, <2>3, <3>0
    <3>3. (s \ {c}) \ {x} = (s \ {x}) \ {c} /\ (s \ {c}) \ {x} \in SUBSET S
      OBVIOUS
    <3> DEFINE r == g[(s \ {c}) \ {x}]
    <3>4. f[x] \in Nat /\ f[c] \in Nat /\ r \in Nat
      BY <2>1, <3>3
    <3>5. g[s] = f[c] + (f[x] + r) /\ g[s \ {x}] = f[c] + r
      BY <2>1, <3>1, <3>2, <3>3
    <3> HIDE DEF r
    <3>6. f[c] + (f[x] + r) = f[x] + (f[c] + r)
      BY <3>4
    <3>7. QED BY <3>5, <3>6
  <2>4. QED BY <2>2, <2>3
<1>4. Nat \subseteq K
  <2> HIDE DEF K
  <2>1. QED BY <1>2, <1>3, NatInduct
<1>5. Cardinality(U) \in K /\ Cardinality(U) <= Cardinality(U)
  BY <1>0, <1>4
<1>6. QED BY <1>5

(* The sum of nothing.                                                     *)
LEMMA SumEmpty ==
  ASSUME NEW f \in [{} -> Nat]
  PROVE  SumFunction(f) = 0
<1>1. PICK g \in [SUBSET {} -> Nat] : SumsUp(g, f, {}) /\ SumFunction(f) = g[{}]
  BY SumForm, FS_EmptySet
<1>2. QED BY <1>1 DEF SumsUp

(* A sum of naturals is one.                                               *)
LEMMA SumNat ==
  ASSUME NEW S, IsFiniteSet(S), NEW f \in [S -> Nat]
  PROVE  SumFunction(f) \in Nat
<1>1. S \in SUBSET S
  OBVIOUS
<1>2. PICK g \in [SUBSET S -> Nat] : SumsUp(g, f, S) /\ SumFunction(f) = g[S]
  BY SumForm
<1>3. QED BY <1>1, <1>2

(* A sum is one of its terms and the sum of the others.                    *)
LEMMA SumRemove ==
  ASSUME NEW S, IsFiniteSet(S), NEW f \in [S -> Nat], NEW x \in S,
         NEW h \in [S \ {x} -> Nat], \A y \in S \ {x} : f[y] = h[y]
  PROVE  SumFunction(f) = f[x] + SumFunction(h)
<1>0. IsFiniteSet(S \ {x}) /\ S \ {x} \in SUBSET S
  BY FS_RemoveElement
<1>1. PICK g \in [SUBSET S -> Nat] : SumsUp(g, f, S) /\ SumFunction(f) = g[S]
  BY SumForm
<1>2. PICK e \in [SUBSET (S \ {x}) -> Nat] : SumsUp(e, h, S \ {x}) /\ SumFunction(h) = e[S \ {x}]
  BY <1>0, SumForm
<1>3. e[S \ {x}] = g[S \ {x}]
  BY <1>0, <1>1, <1>2, SumUnique
<1>4. g[S] = f[x] + g[S \ {x}]
  <2>1. S \in SUBSET S /\ SumsOf(g, f, S)
    BY <1>1 DEF SumsOf
  <2>2. QED BY <2>1, SumAny
<1>5. QED BY <1>1, <1>2, <1>3, <1>4

(* A table in which an entry is put, in the place of an old one or not.    *)
LEMMA SumPut ==
  ASSUME NEW S, IsFiniteSet(S), NEW f \in [S -> Nat], NEW x,
         NEW h \in [S \cup {x} -> Nat], \A y \in S \ {x} : f[y] = h[y]
  PROVE  SumFunction(h) + (IF x \in S THEN f[x] ELSE 0) = SumFunction(f) + h[x]
<1> DEFINE T == S \ {x}
           r == [y \in T |-> f[y]]
<1>1. /\ IsFiniteSet(S \cup {x}) /\ x \in S \cup {x} /\ (S \cup {x}) \ {x} = T
      /\ r \in [T -> Nat] /\ IsFiniteSet(T) /\ \A y \in T : f[y] = r[y] /\ h[y] = r[y]
  BY FS_AddElement, FS_Subset
<1> HIDE DEF r, T
<1>2. SumFunction(h) = h[x] + SumFunction(r)
  BY <1>1, SumRemove
<1>3. SumFunction(r) \in Nat /\ SumFunction(f) \in Nat /\ h[x] \in Nat
  BY <1>1, SumNat
<1>4. CASE x \in S
  <2>1. SumFunction(f) = f[x] + SumFunction(r) /\ f[x] \in Nat
    BY <1>1, <1>4, SumRemove DEF T
  <2>2. QED BY <1>2, <1>3, <1>4, <2>1
<1>5. CASE x \notin S
  <2>1. T = S
    BY <1>5 DEF T
  <2>2. r = f
    BY <1>1, <2>1
  <2>3. QED BY <1>2, <1>3, <1>5, <2>2
<1>6. QED BY <1>4, <1>5
==============================================================================
