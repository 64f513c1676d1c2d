-------------------------- MODULE GameAnswerProofs --------------------------
(***************************************************************************)
(* Where the text of a page and of an answer comes from: proofs, for any   *)
(* users, manuals, images, readings, answers of the LLM and of the index,  *)
(* and any bounds.                                                         *)
(***************************************************************************)
EXTENDS GameAnswer, TLAPS, FiniteSetTheorems, SequenceTheorems, WellFoundedInduction

-----------------------------------------------------------------------------
(* Recursion over numbers, and lists of lists joined to one.               *)

LEMMA LeastNatural ==
    ASSUME NEW T \in SUBSET Nat, T # {}
    PROVE  \E x \in T : \A y \in T : x <= y
  <1>1. PICK x \in T : \A y \in T : ~(<<y, x>> \in OpToRel(<, Nat))
    BY NatLessThanWellFounded, WFMin
  <1>2. \A y \in T : ~(y < x)
    BY <1>1 DEF OpToRel
  <1> QED
    BY <1>2

(* What holds at 0 and goes from each number to the next holds up to n.    *)
LEMMA Induction ==
    ASSUME NEW n \in Nat, NEW T \in SUBSET (0 .. n), 0 \in T,
           \A i \in 0 .. n - 1 : i \in T => i + 1 \in T
    PROVE  T = 0 .. n
  <1> SUFFICES ASSUME T # 0 .. n PROVE FALSE
    OBVIOUS
  <1> DEFINE out == (0 .. n) \ T
  <1>0. \E i \in 0 .. n : i \notin T
    OBVIOUS
  <1>1. out \in SUBSET Nat /\ out # {}
    BY <1>0
  <1>2. PICK x \in out : \A y \in out : x <= y
    <2> HIDE DEF out
    <2> QED
      BY <1>1, LeastNatural
  <1>3. x # 0 /\ x \in 0 .. n
    OBVIOUS
  <1>4. x - 1 \in 0 .. n - 1 /\ x - 1 \notin out
    BY <1>2, <1>3
  <1>5. x - 1 \in T
    BY <1>4
  <1> QED
    BY <1>4, <1>5

(* A recursion over 0 .. n, each step a function of the value before.      *)
Follows(f, n, init, step) ==
    f = [i \in 0 .. n |-> IF i = 0 THEN init ELSE step[i][f[i - 1]]]

(* A recursion over 0 .. n whose steps stay in S has a value, in S.        *)
LEMMA Recursion ==
    ASSUME NEW n \in Nat, NEW S, NEW init \in S, NEW step \in [1 .. n -> [S -> S]]
    PROVE  \E f \in [0 .. n -> S] : Follows(f, n, init, step)
  <1> DEFINE Upto(k, g) == /\ g \in [0 .. k -> S]
                           /\ g[0] = init
                           /\ \A i \in 1 .. k : g[i] = step[i][g[i - 1]]
             T == {k \in 0 .. n : \E g : Upto(k, g)}
  <1>1. 0 \in T
    <2>1. Upto(0, [i \in 0 .. 0 |-> init])
      OBVIOUS
    <2> HIDE DEF Upto
    <2>2. 0 \in 0 .. n /\ \E g : Upto(0, g)
      BY <2>1
    <2> QED
      BY <2>2
  <1>2. ASSUME NEW k \in 0 .. n - 1, k \in T PROVE k + 1 \in T
    <2>1. PICK g : Upto(k, g)
      BY <1>2
    <2> DEFINE h == [i \in 0 .. k + 1 |-> IF i <= k THEN g[i] ELSE step[k + 1][g[k]]]
    <2>2. step[k + 1] \in [S -> S] /\ g[k] \in S
      BY <2>1
    <2>3. h \in [0 .. k + 1 -> S]
      BY <2>1, <2>2
    <2>4. h[0] = init
      BY <2>1
    <2>5. ASSUME NEW i \in 1 .. k + 1 PROVE h[i] = step[i][h[i - 1]]
      <3>1. CASE i <= k
        BY <2>1, <3>1
      <3>2. CASE i = k + 1
        BY <2>1, <3>2
      <3> QED
        BY <3>1, <3>2
    <2>6. Upto(k + 1, h)
      BY <2>3, <2>4, <2>5
    <2> HIDE DEF Upto, h
    <2>7. k + 1 \in 0 .. n /\ \E g1 : Upto(k + 1, g1)
      BY <2>6
    <2> QED
      BY <2>7
  <1>3. T = 0 .. n
    <2> HIDE DEF T
    <2>1. T \in SUBSET (0 .. n)
      BY DEF T
    <2> QED
      BY <1>1, <1>2, <2>1, Induction
  <1>4. PICK f : Upto(n, f)
    BY <1>3, SMTT(30)
  <1>5. f = [i \in 0 .. n |-> IF i = 0 THEN init ELSE step[i][f[i - 1]]]
    BY <1>4
  <1> QED
    BY <1>4, <1>5 DEF Follows

(* The sequences over X are what Append makes of the empty one.            *)
LEMMA SequenceInduction ==
    ASSUME NEW X, NEW T, <<>> \in T,
           \A s \in Seq(X), x \in X : s \in T => Append(s, x) \in T
    PROVE  Seq(X) \subseteq T
  <1> SUFFICES ASSUME NEW s \in Seq(X) PROVE s \in T
    OBVIOUS
  <1> DEFINE good == {n \in 0 .. Len(s) : SubSeq(s, 1, n) \in T}
  <1>1. Len(s) \in Nat
    OBVIOUS
  <1>2. 0 \in good
    <2>1. SubSeq(s, 1, 0) = <<>>
      BY SubSeqEmpty
    <2>2. SubSeq(s, 1, 0) \in T
      BY <2>1, Zenon
    <2>3. 0 \in 0 .. Len(s)
      BY <1>1
    <2> QED
      BY <2>2, <2>3, Zenon
  <1>3. ASSUME NEW n \in 0 .. Len(s) - 1, n \in good PROVE n + 1 \in good
    <2>1. n + 1 \in 1 .. Len(s) /\ s[n + 1] \in X
      BY <1>1
    <2>2. SubSeq(s, 1, n + 1) = SubSeq(s, 1, n) \o <<s[n + 1]>>
      <3>1. 1 \in 1 .. Len(s) /\ n + 1 \in 1 .. Len(s) /\ (n + 1) - 1 = n
        BY <2>1
      <3> QED
        BY <3>1, SubSeqRecursiveSecond
    <2>3. SubSeq(s, 1, n) \in Seq(X)
      BY <1>1
    <2>4. SubSeq(s, 1, n + 1) = Append(SubSeq(s, 1, n), s[n + 1])
      BY <2>1, <2>2, <2>3, AppendIsConcat
    <2>5. SubSeq(s, 1, n + 1) \in T
      BY <1>3, <2>1, <2>3, <2>4, Zenon
    <2>6. n + 1 \in 0 .. Len(s)
      BY <1>1
    <2> QED
      BY <2>5, <2>6, Zenon
  <1>4. good = 0 .. Len(s)
    <2> HIDE DEF good
    <2>1. good \in SUBSET (0 .. Len(s))
      BY DEF good
    <2> QED
      BY <1>1, <1>2, <1>3, <2>1, Induction
  <1>5. Len(s) \in good
    BY <1>1, <1>4
  <1> QED
    BY <1>5, SubSeqFull, ZenonT(30)

LEMMA FlattenNothing == FlattenSeq(<<>>) = <<>>
  BY DEF FlattenSeq

(* FlattenSeq joins the lists one after the other.                         *)
LEMMA FlattenUnfolds ==
    ASSUME NEW X, NEW seqs \in Seq(Seq(X))
    PROVE  \E g \in [0 .. Len(seqs) -> Seq(X)] :
              /\ g[0] = <<>>
              /\ \A i \in 1 .. Len(seqs) : g[i] = g[i - 1] \o seqs[i]
              /\ FlattenSeq(seqs) = g[Len(seqs)]
  <1> DEFINE n == Len(seqs)
             step == [i \in 1 .. n |-> [x \in Seq(X) |-> x \o seqs[i]]]
  <1>0. n \in Nat /\ <<>> \in Seq(X) /\ \A i \in 1 .. n : seqs[i] \in Seq(X)
    OBVIOUS
  <1>1. PICK g \in [0 .. n -> Seq(X)] :
             g = [i \in 0 .. n |-> IF i = 0 THEN <<>> ELSE step[i][g[i - 1]]]
    <2>1. step \in [1 .. n -> [Seq(X) -> Seq(X)]]
      BY <1>0
    <2> DEFINE S == Seq(X)
               e == <<>>
    <2>2. n \in Nat /\ e \in S /\ step \in [1 .. n -> [S -> S]]
      BY <1>0, <2>1
    <2>3. \E f \in [0 .. n -> S] : Follows(f, n, e, step)
      <3> HIDE DEF step, n, S, e
      <3> QED
        BY <2>2, Recursion
    <2> QED
      BY <2>3, Zenon DEF Follows
  <1>2. g[0] = <<>>
    BY <1>0, <1>1
  <1>3. ASSUME NEW i \in 1 .. n PROVE g[i] = g[i - 1] \o seqs[i]
    <2>1. i \in 0 .. n /\ i # 0 /\ i - 1 \in 0 .. n
      BY <1>0
    <2>2. g[i] = step[i][g[i - 1]]
      BY <1>1, <2>1
    <2>3. g[i - 1] \in Seq(X)
      BY <2>1
    <2> QED
      BY <2>2, <2>3
  <1>4. FlattenSeq(seqs) = g[n]
    <2>1. CASE n = 0
      <3>1. seqs = <<>>
        BY <2>1
      <3> QED
        BY <1>2, <2>1, <3>1, FlattenNothing
    <2>2. CASE n # 0
      <3>1. 1 \in 1 .. n /\ seqs[1] \in Seq(X) /\ g[1] = g[0] \o seqs[1]
        <4>1. 1 \in 1 .. n /\ 1 - 1 = 0
          BY <1>0, <2>2
        <4> QED
          BY <1>0, <1>3, <4>1
      <3> DEFINE Is(h) == h = [i \in 1 .. n |-> IF i = 1 THEN seqs[i] ELSE h[i - 1] \o seqs[i]]
                 f == [i \in 1 .. n |-> g[i]]
      <3>2. g[1] = seqs[1]
        BY <1>2, <3>1
      <3>3. ASSUME NEW i \in 1 .. n
            PROVE  f[i] = IF i = 1 THEN seqs[i] ELSE f[i - 1] \o seqs[i]
        <4>1. CASE i = 1
          BY <3>1, <3>2, <4>1
        <4>2. CASE i # 1
          <5>1. i - 1 \in 1 .. n
            BY <1>0, <4>2
          <5> HIDE DEF n
          <5>2. f[i] = g[i] /\ f[i - 1] = g[i - 1]
            BY <5>1
          <5> QED
            BY <1>3, <4>2, <5>2
        <4> QED
          BY <4>1, <4>2
      <3>4. Is(f)
        <4>1. f = [i \in 1 .. n |-> f[i]]
          OBVIOUS
        <4> HIDE DEF f
        <4> QED
          BY <3>3, <4>1
      <3> DEFINE F == CHOOSE h : Is(h)
      <3>5. Is(F)
        <4> HIDE DEF f, Is
        <4> QED
          BY <3>4
      <3>6. FlattenSeq(seqs) = F[n]
        BY <2>2 DEF FlattenSeq
      <3>7. \A i \in 1 .. n : F[i] = IF i = 1 THEN seqs[i] ELSE F[i - 1] \o seqs[i]
        <4> HIDE DEF F
        <4> QED
          BY <3>5
      <3> HIDE DEF F, Is, f
      <3> DEFINE same == {i \in 0 .. n : i = 0 \/ F[i] = g[i]}
      <3>8. ASSUME NEW i \in 0 .. n - 1, i \in same PROVE i + 1 \in same
        <4>1. i + 1 \in 1 .. n /\ (i + 1) - 1 = i
          BY <1>0
        <4> HIDE DEF n
        <4>2. g[i + 1] = g[i] \o seqs[i + 1]
          BY <1>3, <4>1
        <4>3. CASE i = 0
          <5>1. F[1] = seqs[1]
            BY <3>1, <3>7
          <5> QED
            BY <1>0, <3>1, <3>2, <4>1, <4>3, <5>1
        <4>4. CASE i # 0
          <5>1. F[i + 1] = F[i] \o seqs[i + 1]
            <6>1. i + 1 # 1
              BY <4>4
            <6> QED
              BY <3>7, <4>1, <6>1
          <5>2. F[i] = g[i]
            BY <3>8, <4>4
          <5>3. i + 1 \in 0 .. n
            BY <1>0
          <5> QED
            BY <4>2, <5>1, <5>2, <5>3
        <4> QED
          BY <4>3, <4>4
      <3>9. same = 0 .. n
        <4>1. same \in SUBSET (0 .. n) /\ 0 \in same
          BY <1>0
        <4> HIDE DEF same, n
        <4> QED
          BY <1>0, <3>8, <4>1, Induction
      <3>10. n \in same
        <4> HIDE DEF same, n
        <4> QED
          BY <1>0, <3>9
      <3> QED
        BY <2>2, <3>6, <3>10
    <2> QED
      BY <2>1, <2>2
  <1> QED
    BY <1>2, <1>3, <1>4

LEMMA FlattenIsList ==
    ASSUME NEW X, NEW seqs \in Seq(Seq(X))
    PROVE  FlattenSeq(seqs) \in Seq(X)
  <1>1. PICK g \in [0 .. Len(seqs) -> Seq(X)] : FlattenSeq(seqs) = g[Len(seqs)]
    BY FlattenUnfolds
  <1>2. Len(seqs) \in 0 .. Len(seqs)
    OBVIOUS
  <1> QED
    BY <1>1, <1>2

LEMMA FlattenAppend ==
    ASSUME NEW X, NEW seqs \in Seq(Seq(X)), NEW seq \in Seq(X)
    PROVE  FlattenSeq(Append(seqs, seq)) = FlattenSeq(seqs) \o seq
  <1> DEFINE n == Len(seqs)
             more == Append(seqs, seq)
  <1>0. /\ n \in Nat /\ more \in Seq(Seq(X)) /\ Len(more) = n + 1 /\ more[n + 1] = seq
        /\ \A i \in 1 .. n : more[i] = seqs[i]
    BY AppendProperties
  <1> HIDE DEF more
  <1>1. PICK g \in [0 .. n -> Seq(X)] :
             /\ g[0] = <<>>
             /\ \A i \in 1 .. n : g[i] = g[i - 1] \o seqs[i]
             /\ FlattenSeq(seqs) = g[n]
    BY FlattenUnfolds
  <1>2. PICK h \in [0 .. Len(more) -> Seq(X)] :
             /\ h[0] = <<>>
             /\ \A i \in 1 .. Len(more) : h[i] = h[i - 1] \o more[i]
             /\ FlattenSeq(more) = h[Len(more)]
    BY <1>0, FlattenUnfolds
  <1> DEFINE same == {i \in 0 .. n : h[i] = g[i]}
  <1> HIDE DEF n
  <1>3. ASSUME NEW i \in 0 .. n - 1, i \in same PROVE i + 1 \in same
    <2>1. i + 1 \in 1 .. n /\ i + 1 \in 1 .. Len(more) /\ (i + 1) - 1 = i
      BY <1>0
    <2>2. h[i] = g[i] /\ more[i + 1] = seqs[i + 1]
      BY <1>0, <1>3, <2>1
    <2>3. h[i + 1] = h[i] \o more[i + 1] /\ g[i + 1] = g[i] \o seqs[i + 1]
      BY <1>1, <1>2, <2>1
    <2>4. i + 1 \in 0 .. n
      BY <2>1
    <2> QED
      BY <2>2, <2>3, <2>4
  <1>4. same = 0 .. n
    <2>1. same \in SUBSET (0 .. n) /\ 0 \in same
      BY <1>0, <1>1, <1>2
    <2> HIDE DEF same
    <2> QED
      BY <1>0, <1>3, <2>1, Induction
  <1>5. h[n] = g[n]
    <2>1. n \in same
      <3> HIDE DEF same
      <3> QED
        BY <1>0, <1>4
    <2> QED
      BY <2>1
  <1>6. n + 1 \in 1 .. Len(more) /\ (n + 1) - 1 = n
    <2>1. n \in Nat /\ Len(more) = n + 1
      BY <1>0
    <2> QED
      BY <2>1
  <1>7. h[n + 1] = h[n] \o more[n + 1]
    BY <1>2, <1>6
  <1> QED
    BY <1>0, <1>1, <1>2, <1>5, <1>7 DEF more

LEMMA FlattenOne ==
    ASSUME NEW X, NEW seq \in Seq(X)
    PROVE  FlattenSeq(<<seq>>) = seq
  <1>1. <<seq>> = Append(<<>>, seq) /\ <<>> \in Seq(Seq(X))
    OBVIOUS
  <1>2. FlattenSeq(<<seq>>) = <<>> \o seq
    BY <1>1, FlattenAppend, FlattenNothing
  <1> QED
    BY <1>2

LEMMA FlattenConcat ==
    ASSUME NEW X, NEW a \in Seq(Seq(X)), NEW b \in Seq(Seq(X))
    PROVE  FlattenSeq(a \o b) = FlattenSeq(a) \o FlattenSeq(b)
  <1> DEFINE T == {c \in Seq(Seq(X)) : FlattenSeq(a \o c) = FlattenSeq(a) \o FlattenSeq(c)}
  <1>0. FlattenSeq(a) \in Seq(X)
    BY FlattenIsList
  <1>1. <<>> \in T
    <2>1. a \o <<>> = a /\ FlattenSeq(a) \o <<>> = FlattenSeq(a)
      BY <1>0
    <2>2. FlattenSeq(a \o <<>>) = FlattenSeq(a) \o FlattenSeq(<<>>)
      BY <2>1, FlattenNothing
    <2>3. <<>> \in Seq(Seq(X))
      OBVIOUS
    <2> QED
      BY <2>2, <2>3, Zenon
  <1>2. ASSUME NEW c \in Seq(Seq(X)), NEW x \in Seq(X), c \in T PROVE Append(c, x) \in T
    <2>1. a \o Append(c, x) = Append(a \o c, x) /\ a \o c \in Seq(Seq(X))
      BY SMTT(30)
    <2>2. FlattenSeq(a \o Append(c, x)) = FlattenSeq(a \o c) \o x
      BY <2>1, FlattenAppend
    <2>3. FlattenSeq(Append(c, x)) = FlattenSeq(c) \o x /\ FlattenSeq(c) \in Seq(X)
      BY FlattenAppend, FlattenIsList
    <2>4. (FlattenSeq(a) \o FlattenSeq(c)) \o x = FlattenSeq(a) \o (FlattenSeq(c) \o x)
      BY <1>0, <2>3, ConcatAssociative, SMTT(30)
    <2>5. FlattenSeq(a \o Append(c, x)) = FlattenSeq(a) \o FlattenSeq(Append(c, x))
      BY <1>2, <2>2, <2>3, <2>4
    <2>6. Append(c, x) \in Seq(Seq(X))
      OBVIOUS
    <2> QED
      BY <2>5, <2>6
  <1>3. Seq(Seq(X)) \subseteq T
    <2> HIDE DEF T
    <2> QED
      BY <1>1, <1>2, SequenceInduction
  <1> QED
    BY <1>3

(* The joined list has the elements of the lists, and no others.           *)
LEMMA FlattenElements ==
    ASSUME NEW X, NEW seqs \in Seq(Seq(X))
    PROVE  Range(FlattenSeq(seqs)) = UNION {Range(seqs[i]) : i \in DOMAIN seqs}
  <1> DEFINE Of(s) == UNION {Range(s[i]) : i \in DOMAIN s}
             T == {s \in Seq(Seq(X)) : Range(FlattenSeq(s)) = Of(s)}
  <1>1. <<>> \in T
    BY FlattenNothing DEF Range
  <1>2. ASSUME NEW s \in Seq(Seq(X)), NEW x \in Seq(X), s \in T PROVE Append(s, x) \in T
    <2>1. FlattenSeq(Append(s, x)) = FlattenSeq(s) \o x /\ FlattenSeq(s) \in Seq(X)
      BY FlattenAppend, FlattenIsList
    <2>2. Range(FlattenSeq(Append(s, x))) = Of(s) \cup Range(x)
      BY <1>2, <2>1, RangeConcatenation
    <2>3. /\ DOMAIN Append(s, x) = (DOMAIN s) \cup {Len(s) + 1}
          /\ Append(s, x)[Len(s) + 1] = x
          /\ \A i \in DOMAIN s : Append(s, x)[i] = s[i]
      OBVIOUS
    <2>4. Of(Append(s, x)) = Of(s) \cup Range(x)
      <3> DEFINE more == Append(s, x)
                 last == Len(s) + 1
      <3>1. DOMAIN more = (DOMAIN s) \cup {last} /\ more[last] = x /\ \A i \in DOMAIN s : more[i] = s[i]
        BY <2>3
      <3> HIDE DEF more, last
      <3>2. {Range(more[i]) : i \in DOMAIN more} = {Range(s[i]) : i \in DOMAIN s} \cup {Range(x)}
        BY <3>1
      <3>3. Of(more) = Of(s) \cup Range(x)
        BY <3>2
      <3> QED
        BY <3>3 DEF more
    <2>5. Range(FlattenSeq(Append(s, x))) = Of(Append(s, x))
      BY <2>2, <2>4
    <2>6. Append(s, x) \in Seq(Seq(X))
      OBVIOUS
    <2> HIDE DEF Of
    <2> QED
      BY <2>5, <2>6
  <1>3. Seq(Seq(X)) \subseteq T
    <2> HIDE DEF T
    <2> QED
      BY <1>1, <1>2, SequenceInduction
  <1> QED
    BY <1>3

-----------------------------------------------------------------------------
(* The letters and the digits of a text.                                   *)

LEMMA FunctionIsList ==
    ASSUME NEW X, NEW n \in Nat, NEW f \in [1 .. n -> X]
    PROVE  f \in Seq(X) /\ Len(f) = n
  OBVIOUS

LEMMA ConcatIs ==
    ASSUME NEW X, NEW f \in Seq(X), NEW g \in Seq(X), NEW h \in Seq(X),
           Len(h) = Len(f) + Len(g),
           \A i \in 1 .. Len(f) : h[i] = f[i],
           \A i \in 1 .. Len(g) : h[Len(f) + i] = g[i]
    PROVE  h = f \o g
  <1>1. f \o g \in Seq(X) /\ Len(f \o g) = Len(f) + Len(g) /\ Len(f) \in Nat /\ Len(g) \in Nat
    OBVIOUS
  <1>2. ASSUME NEW i \in 1 .. Len(h) PROVE h[i] = (f \o g)[i]
    <2>1. (f \o g)[i] = IF i <= Len(f) THEN f[i] ELSE g[i - Len(f)]
      BY <1>1
    <2>2. CASE i <= Len(f)
      BY <1>1, <2>1, <2>2
    <2>3. CASE i > Len(f)
      <3>1. i - Len(f) \in 1 .. Len(g) /\ Len(f) + (i - Len(f)) = i /\ ~(i <= Len(f))
        BY <1>1, <2>3
      <3> QED
        BY <2>1, <3>1
    <2> QED
      BY <1>1, <2>2, <2>3
  <1> QED
    BY <1>1, <1>2, SeqEqual

PartsOf(words) == [i \in DOMAIN words |-> words[i].parts]
Taken(seq, S) == [i \in DOMAIN seq |-> IF seq[i] \in S THEN <<seq[i]>> ELSE <<>>]

LEMMA PartsAreLists ==
    ASSUME NEW words \in Seq(Words)
    PROVE  PartsOf(words) \in Seq(Seq(Fragments)) /\ Len(PartsOf(words)) = Len(words)
  <1>1. Len(words) \in Nat /\ DOMAIN words = 1 .. Len(words) /\ \A i \in DOMAIN words : words[i] \in Words
    OBVIOUS
  <1>2. PartsOf(words) \in [1 .. Len(words) -> Seq(Fragments)]
    BY <1>1 DEF PartsOf, Words
  <1> QED
    BY <1>1, <1>2, FunctionIsList

LEMMA TakenAreLists ==
    ASSUME NEW X, NEW S, NEW seq \in Seq(X)
    PROVE  Taken(seq, S) \in Seq(Seq(X \cap S)) /\ Len(Taken(seq, S)) = Len(seq)
  <1> DEFINE Y == X \cap S
  <1>1. Len(seq) \in Nat /\ DOMAIN seq = 1 .. Len(seq) /\ \A i \in DOMAIN seq : seq[i] \in X
    OBVIOUS
  <1>2. \A i \in DOMAIN seq : seq[i] \in S => seq[i] \in Y
    BY <1>1
  <1> HIDE DEF Y
  <1>3. <<>> \in Seq(Y) /\ \A y \in Y : <<y>> \in Seq(Y)
    OBVIOUS
  <1>4. Taken(seq, S) \in [1 .. Len(seq) -> Seq(Y)]
    BY <1>1, <1>2, <1>3 DEF Taken
  <1>5. Taken(seq, S) \in Seq(Seq(Y)) /\ Len(Taken(seq, S)) = Len(seq)
    BY <1>1, <1>4, FunctionIsList
  <1> QED
    BY <1>5 DEF Y

LEMMA LettersIsList ==
    ASSUME NEW words \in Seq(Words)
    PROVE  Letters(words) \in Seq(Fragments)
  BY PartsAreLists, FlattenIsList DEF Letters, PartsOf

(* The parts of two texts, one after the other.                            *)
LEMMA LettersConcat ==
    ASSUME NEW a \in Seq(Words), NEW b \in Seq(Words)
    PROVE  Letters(a \o b) = Letters(a) \o Letters(b)
  <1>1. /\ a \o b \in Seq(Words) /\ Len(a \o b) = Len(a) + Len(b) /\ Len(a) \in Nat /\ Len(b) \in Nat
        /\ DOMAIN (a \o b) = 1 .. Len(a) + Len(b)
        /\ DOMAIN a = 1 .. Len(a) /\ DOMAIN b = 1 .. Len(b)
        /\ \A i \in 1 .. Len(a) : (a \o b)[i] = a[i]
        /\ \A i \in 1 .. Len(b) : (a \o b)[Len(a) + i] = b[i]
    OBVIOUS
  <1>2. /\ \A i \in 1 .. Len(a) : PartsOf(a \o b)[i] = PartsOf(a)[i]
        /\ \A i \in 1 .. Len(b) : PartsOf(a \o b)[Len(a) + i] = PartsOf(b)[i]
    BY <1>1 DEF PartsOf
  <1>3. /\ PartsOf(a) \in Seq(Seq(Fragments)) /\ PartsOf(b) \in Seq(Seq(Fragments))
        /\ PartsOf(a \o b) \in Seq(Seq(Fragments))
        /\ Len(PartsOf(a \o b)) = Len(a) + Len(b)
        /\ Len(PartsOf(a)) = Len(a) /\ Len(PartsOf(b)) = Len(b)
    BY <1>1, PartsAreLists
  <1>4. PartsOf(a \o b) = PartsOf(a) \o PartsOf(b)
    <2> DEFINE f == PartsOf(a)
               g == PartsOf(b)
               h == PartsOf(a \o b)
               X == Seq(Fragments)
    <2>1. /\ f \in Seq(X) /\ g \in Seq(X) /\ h \in Seq(X) /\ Len(h) = Len(f) + Len(g)
          /\ \A i \in 1 .. Len(f) : h[i] = f[i]
          /\ \A i \in 1 .. Len(g) : h[Len(f) + i] = g[i]
      BY <1>2, <1>3
    <2> HIDE DEF f, g, h, X
    <2>2. h = f \o g
      BY <2>1, ConcatIs
    <2> QED
      BY <2>2 DEF f, g, h
  <1>5. FlattenSeq(PartsOf(a \o b)) = FlattenSeq(PartsOf(a)) \o FlattenSeq(PartsOf(b))
    BY <1>3, <1>4, FlattenConcat
  <1> QED
    BY <1>5 DEF Letters, PartsOf

LEMMA LettersOne ==
    ASSUME NEW w \in Words
    PROVE  Letters(<<w>>) = w.parts
  <1>1. [i \in DOMAIN <<w>> |-> <<w>>[i].parts] = <<w.parts>> /\ w.parts \in Seq(Fragments)
    BY DEF Words
  <1> QED
    BY <1>1, FlattenOne DEF Letters

(* What Within leaves is in the set and in the sequence.                   *)
LEMMA WithinIsList ==
    ASSUME NEW X, NEW S, NEW seq \in Seq(X)
    PROVE  Within(seq, S) \in Seq(X \cap S)
  BY TakenAreLists, FlattenIsList DEF Within, Taken

LEMMA WithinConcat ==
    ASSUME NEW X, NEW S, NEW a \in Seq(X), NEW b \in Seq(X)
    PROVE  Within(a \o b, S) = Within(a, S) \o Within(b, S)
  <1>1. /\ a \o b \in Seq(X) /\ Len(a \o b) = Len(a) + Len(b) /\ Len(a) \in Nat /\ Len(b) \in Nat
        /\ DOMAIN (a \o b) = 1 .. Len(a) + Len(b)
        /\ DOMAIN a = 1 .. Len(a) /\ DOMAIN b = 1 .. Len(b)
        /\ \A i \in 1 .. Len(a) : (a \o b)[i] = a[i]
        /\ \A i \in 1 .. Len(b) : (a \o b)[Len(a) + i] = b[i]
    OBVIOUS
  <1>2. /\ \A i \in 1 .. Len(a) : Taken(a \o b, S)[i] = Taken(a, S)[i]
        /\ \A i \in 1 .. Len(b) : Taken(a \o b, S)[Len(a) + i] = Taken(b, S)[i]
    BY <1>1 DEF Taken
  <1> DEFINE f == Taken(a, S)
             g == Taken(b, S)
             h == Taken(a \o b, S)
             Y == Seq(X \cap S)
  <1>3. /\ f \in Seq(Y) /\ Len(f) = Len(a)
        /\ g \in Seq(Y) /\ Len(g) = Len(b)
    BY TakenAreLists
  <1>4. h \in Seq(Y) /\ Len(h) = Len(a \o b)
    <2> DEFINE ab == a \o b
    <2>1. ab \in Seq(X)
      BY <1>1
    <2> HIDE DEF ab
    <2>2. Taken(ab, S) \in Seq(Seq(X \cap S)) /\ Len(Taken(ab, S)) = Len(ab)
      BY <2>1, TakenAreLists
    <2> QED
      BY <2>2 DEF ab
  <1>5. FlattenSeq(Taken(a \o b, S)) = FlattenSeq(Taken(a, S)) \o FlattenSeq(Taken(b, S))
    <2>1. /\ Len(h) = Len(f) + Len(g)
          /\ \A i \in 1 .. Len(f) : h[i] = f[i]
          /\ \A i \in 1 .. Len(g) : h[Len(f) + i] = g[i]
      BY <1>1, <1>2, <1>3, <1>4
    <2>2. h = f \o g
      <3> HIDE DEF f, g, h, Y
      <3> QED
        BY <1>3, <1>4, <2>1, ConcatIs
    <2>3. FlattenSeq(f \o g) = FlattenSeq(f) \o FlattenSeq(g)
      BY <1>3, FlattenConcat
    <2> QED
      BY <2>2, <2>3
  <1> QED
    BY <1>5 DEF Within, Taken

LEMMA DigitsConcat ==
    ASSUME NEW a \in Seq(Words), NEW b \in Seq(Words)
    PROVE  Digits(a \o b) = Digits(a) \o Digits(b)
  <1>1. Letters(a) \in Seq(Fragments) /\ Letters(b) \in Seq(Fragments)
    BY LettersIsList
  <1>2. Within(Letters(a) \o Letters(b), Numbers) = Within(Letters(a), Numbers) \o Within(Letters(b), Numbers)
    BY <1>1, WithinConcat
  <1> QED
    BY <1>2, LettersConcat DEF Digits

LEMMA DigitsIsList ==
    ASSUME NEW words \in Seq(Words)
    PROVE  Digits(words) \in Seq(Fragments)
  <1>1. Digits(words) \in Seq(Fragments \cap Numbers)
    BY LettersIsList, WithinIsList DEF Digits
  <1> QED
    BY <1>1, SeqMonotonic

-----------------------------------------------------------------------------
(* The words cut by a hyphen.                                              *)

(* A list is all but its last element, and its last element.               *)
LEMMA FrontAndLast ==
    ASSUME NEW X, NEW s \in Seq(X), s # <<>>
    PROVE  /\ Len(s) \in Nat \ {0} /\ Front(s) \in Seq(X) /\ Last(s) \in X
           /\ Len(Front(s)) = Len(s) - 1 /\ \A i \in 1 .. Len(s) - 1 : Front(s)[i] = s[i]
           /\ s = Append(Front(s), Last(s))
  <1>1. Len(s) \in Nat \ {0} /\ s[Len(s)] \in X
    OBVIOUS
  <1>2. Front(s) \in Seq(X) /\ Last(s) \in X
    BY <1>1 DEF Front, Last
  <1>3. Len(Front(s)) = Len(s) - 1 /\ \A i \in 1 .. Len(s) - 1 : Front(s)[i] = s[i]
    <2> DEFINE n == Len(s) - 1
    <2>1. 1 \in Int /\ n \in Int /\ \A i \in 1 .. n : s[i] \in X
      BY <1>1
    <2>2. /\ Len(SubSeq(s, 1, n)) = IF 1 <= n THEN n - 1 + 1 ELSE 0
          /\ \A i \in 1 .. n - 1 + 1 : SubSeq(s, 1, n)[i] = s[1 + i - 1]
      <3> HIDE DEF n
      <3> QED
        BY <2>1, SubSeqProperties
    <2>3. Len(SubSeq(s, 1, n)) = n
      <3>1. n \in Nat
        BY <1>1
      <3> HIDE DEF n
      <3> DEFINE len == Len(SubSeq(s, 1, n))
      <3>2. len = IF 1 <= n THEN n - 1 + 1 ELSE 0
        BY <2>2
      <3> HIDE DEF len
      <3>3. len = n
        BY <3>1, <3>2
      <3> QED
        BY <3>3 DEF len
    <2>4. ASSUME NEW i \in 1 .. n PROVE SubSeq(s, 1, n)[i] = s[i]
      <3>1. i \in 1 .. n - 1 + 1 /\ 1 + i - 1 = i
        BY <1>1
      <3> QED
        BY <2>2, <3>1
    <2> QED
      BY <2>3, <2>4 DEF Front
  <1>4. s = Append(Front(s), Last(s))
    <2>1. Append(Front(s), Last(s)) \in Seq(X) /\ Len(Append(Front(s), Last(s))) = Len(s)
      BY <1>1, <1>2, <1>3
    <2>2. ASSUME NEW i \in 1 .. Len(s) PROVE s[i] = Append(Front(s), Last(s))[i]
      <3>1. CASE i = Len(s)
        BY <1>1, <1>2, <1>3, <3>1 DEF Last
      <3>2. CASE i # Len(s)
        BY <1>1, <1>2, <1>3, <3>2
      <3> QED
        BY <3>1, <3>2
    <2> QED
      BY <2>1, <2>2, SeqEqual
  <1> QED
    BY <1>1, <1>2, <1>3, <1>4

LEMMA HeadAndTail ==
    ASSUME NEW X, NEW s \in Seq(X), s # <<>>
    PROVE  Head(s) \in X /\ Tail(s) \in Seq(X) /\ s = <<Head(s)>> \o Tail(s)
  <1>1. Head(s) \in X /\ Tail(s) \in Seq(X)
    OBVIOUS
  <1>2. <<Head(s)>> \o Tail(s) \in Seq(X) /\ Len(<<Head(s)>> \o Tail(s)) = Len(s)
    BY <1>1
  <1>3. \A i \in 1 .. Len(s) : s[i] = (<<Head(s)>> \o Tail(s))[i]
    BY <1>1
  <1> QED
    BY <1>1, <1>2, <1>3, SeqEqual

(* One element more at the end of the last list.                           *)
LEMMA FlattenLonger ==
    ASSUME NEW X, NEW seqs \in Seq(Seq(X)), seqs # <<>>, NEW x \in X
    PROVE  /\ [seqs EXCEPT ![Len(seqs)] = Append(@, x)] \in Seq(Seq(X))
           /\ FlattenSeq([seqs EXCEPT ![Len(seqs)] = Append(@, x)]) = FlattenSeq(seqs) \o <<x>>
  <1> DEFINE before == Front(seqs)
             last == Last(seqs)
             longer == [seqs EXCEPT ![Len(seqs)] = Append(@, x)]
  <1>1. /\ Len(seqs) \in Nat \ {0} /\ before \in Seq(Seq(X)) /\ last \in Seq(X)
        /\ Len(before) = Len(seqs) - 1 /\ \A i \in 1 .. Len(seqs) - 1 : before[i] = seqs[i]
        /\ seqs = Append(before, last)
    BY FrontAndLast
  <1>2. Append(last, x) \in Seq(X) /\ Append(last, x) = last \o <<x>>
    BY <1>1
  <1>3. longer \in Seq(Seq(X)) /\ Len(longer) = Len(seqs)
    BY <1>1, <1>2 DEF Last
  <1>4. longer = Append(before, Append(last, x))
    <2>1. /\ Append(before, Append(last, x)) \in Seq(Seq(X))
          /\ Len(Append(before, Append(last, x))) = Len(seqs)
      BY <1>1, <1>2
    <2>2. ASSUME NEW i \in 1 .. Len(seqs) PROVE longer[i] = Append(before, Append(last, x))[i]
      <3>1. CASE i = Len(seqs)
        BY <1>1, <1>2, <3>1 DEF Last
      <3>2. CASE i # Len(seqs)
        <4>1. longer[i] = seqs[i] /\ i \in 1 .. Len(seqs) - 1
          BY <1>1, <3>2
        <4>2. Append(before, Append(last, x))[i] = before[i]
          BY <1>1, <1>2, <4>1
        <4> QED
          BY <1>1, <4>1, <4>2
      <3> QED
        BY <3>1, <3>2
    <2> QED
      BY <1>3, <2>1, <2>2, SeqEqual
  <1>5. FlattenSeq(longer) = FlattenSeq(before) \o (last \o <<x>>)
    BY <1>1, <1>2, <1>4, FlattenAppend, ZenonT(30)
  <1>6. FlattenSeq(seqs) = FlattenSeq(before) \o last
    BY <1>1, FlattenAppend
  <1>7. FlattenSeq(before) \in Seq(X) /\ <<x>> \in Seq(X)
    BY <1>1, FlattenIsList
  <1>8. (FlattenSeq(before) \o last) \o <<x>> = FlattenSeq(before) \o (last \o <<x>>)
    <2> DEFINE a == FlattenSeq(before)
               b == <<x>>
    <2>1. a \in Seq(X) /\ last \in Seq(X) /\ b \in Seq(X)
      BY <1>1, <1>7
    <2> HIDE DEF a, last, b
    <2>2. (a \o last) \o b = a \o (last \o b)
      BY <2>1, ConcatAssociative, SMTT(30)
    <2> QED
      BY <2>2 DEF a, b
  <1> QED
    BY <1>3, <1>5, <1>6, <1>8

(* The three lists of merge_hyphenated_lines, in step. *)
Merges == [lines : Seq(Lines), bases : Seq(Seq(Words)), joins : Seq(SUBSET (Words \X Words))]
InStep(lines, bases, joins) ==
    /\ Len(bases) = Len(lines) /\ Len(joins) = Len(lines)
    /\ \A i \in 1 .. Len(lines) :
         lines[i].text # <<>> /\ Letters(lines[i].text) = Letters(bases[i])
Aligned == {m \in Merges : InStep(m.lines, m.bases, m.joins)}

(* A line that is added brings its words to its own base.                  *)
LEMMA AddLineKeeps ==
    ASSUME NEW m \in Aligned, NEW line \in Lines
    PROVE  /\ AddLine(m, line) \in Aligned
           /\ AllWords(AddLine(m, line).bases) = AllWords(m.bases) \o line.text
  <1>1. line.text \in Seq(Words) /\ m \in Merges /\ InStep(m.lines, m.bases, m.joins)
    BY DEF Lines, Aligned
  <1>2. /\ m.lines \in Seq(Lines) /\ m.bases \in Seq(Seq(Words))
        /\ m.joins \in Seq(SUBSET (Words \X Words))
    BY <1>1 DEF Merges
  <1>3. CASE line.text = <<>>
    <2>1. AllWords(m.bases) \in Seq(Words)
      BY <1>2, FlattenIsList DEF AllWords
    <2>2. AllWords(m.bases) \o <<>> = AllWords(m.bases)
      BY <2>1
    <2> QED
      BY <1>3, <2>2 DEF AddLine
  <1>4. CASE line.text # <<>>
    <2> DEFINE lines == Append(m.lines, line)
               bases == Append(m.bases, line.text)
               joins == Append(m.joins, {})
    <2>1. AddLine(m, line) = [lines |-> lines, bases |-> bases, joins |-> joins]
      BY <1>4 DEF AddLine
    <2>2. /\ lines \in Seq(Lines) /\ Len(lines) = Len(m.lines) + 1
          /\ bases \in Seq(Seq(Words)) /\ Len(bases) = Len(m.bases) + 1
          /\ lines[Len(m.lines) + 1] = line /\ \A i \in 1 .. Len(m.lines) : lines[i] = m.lines[i]
          /\ bases[Len(m.bases) + 1] = line.text
          /\ \A i \in 1 .. Len(m.bases) : bases[i] = m.bases[i]
          /\ Len(m.lines) \in Nat
      BY <1>1, <1>2
    <2>3. joins \in Seq(SUBSET (Words \X Words)) /\ Len(joins) = Len(m.joins) + 1
      <3> DEFINE P == SUBSET (Words \X Words)
      <3>1. {} \in P /\ m.joins \in Seq(P)
        BY <1>2
      <3> HIDE DEF P
      <3>2. joins \in Seq(P) /\ Len(joins) = Len(m.joins) + 1
        BY <3>1
      <3> QED
        BY <3>2 DEF P
    <2> HIDE DEF lines, bases, joins
    <2>4. InStep(lines, bases, joins)
      <3>1. Len(bases) = Len(lines) /\ Len(joins) = Len(lines)
        BY <1>1, <2>2, <2>3 DEF InStep
      <3>2. ASSUME NEW i \in 1 .. Len(lines)
            PROVE  lines[i].text # <<>> /\ Letters(lines[i].text) = Letters(bases[i])
        <4>1. CASE i = Len(m.lines) + 1
          BY <1>1, <1>4, <2>2, <4>1 DEF InStep
        <4>2. CASE i # Len(m.lines) + 1
          <5>1. i \in 1 .. Len(m.lines)
            BY <2>2, <4>2
          <5> QED
            BY <1>1, <2>2, <5>1 DEF InStep
        <4> QED
          BY <4>1, <4>2
      <3> QED
        BY <3>1, <3>2 DEF InStep
    <2>5. AddLine(m, line) \in Aligned
      BY <2>1, <2>2, <2>3, <2>4 DEF Aligned, Merges
    <2>6. AllWords(bases) = AllWords(m.bases) \o line.text
      BY <1>1, <1>2, FlattenAppend DEF AllWords, bases
    <2>7. AddLine(m, line).bases = bases
      BY <2>1
    <2> QED
      BY <2>5, <2>6, <2>7
  <1> QED
    BY <1>3, <1>4

(* Joining a cut word adds the letters of its second half.                 *)
LEMMA JoinedLetters ==
    ASSUME NEW current \in Seq(Words), current # <<>>, NEW next \in Seq(Words), next # <<>>
    PROVE  /\ JoinedText(current, next) \in Seq(Words) /\ JoinedText(current, next) # <<>>
           /\ Letters(JoinedText(current, next)) = Letters(current) \o Head(next).parts
  <1> DEFINE w == [parts |-> Last(current).parts \o Head(next).parts, hyphen |-> Head(next).hyphen]
  <1>1. /\ Front(current) \in Seq(Words) /\ Last(current) \in Words
        /\ current = Append(Front(current), Last(current))
    BY FrontAndLast
  <1>2. Head(next) \in Words
    OBVIOUS
  <1>3. /\ Last(current).parts \in Seq(Fragments) /\ Head(next).parts \in Seq(Fragments)
        /\ Head(next).hyphen \in BOOLEAN
    BY <1>1, <1>2 DEF Words
  <1>4. w \in Words
    <2>1. Last(current).parts \o Head(next).parts \in Seq(Fragments)
      BY <1>3
    <2> QED
      BY <1>3, <2>1 DEF Words
  <1>5. w.parts = Last(current).parts \o Head(next).parts
    OBVIOUS
  <1> HIDE DEF w
  <1>6. /\ JoinedText(current, next) = Front(current) \o <<w>>
        /\ JoinedText(current, next) \in Seq(Words) /\ JoinedText(current, next) # <<>>
    <2>1. JoinedText(current, next) = Append(Front(current), w)
      BY DEF JoinedText, w
    <2> QED
      BY <1>1, <1>4, <2>1
  <1>7. Letters(JoinedText(current, next)) = Letters(Front(current)) \o w.parts
    <2>1. <<w>> \in Seq(Words)
      BY <1>4
    <2> QED
      BY <1>1, <1>4, <1>6, <2>1, LettersConcat, LettersOne
  <1>8. Letters(current) = Letters(Front(current)) \o Last(current).parts
    <2>1. <<Last(current)>> \in Seq(Words) /\ current = Front(current) \o <<Last(current)>>
      BY <1>1
    <2> QED
      BY <1>1, <2>1, LettersConcat, LettersOne
  <1>9. Letters(Front(current)) \in Seq(Fragments)
    BY <1>1, LettersIsList
  <1>10. (Letters(Front(current)) \o Last(current).parts) \o Head(next).parts
            = Letters(Front(current)) \o (Last(current).parts \o Head(next).parts)
    <2> DEFINE a == Letters(Front(current))
               b == Last(current).parts
               c == Head(next).parts
    <2>1. a \in Seq(Fragments) /\ b \in Seq(Fragments) /\ c \in Seq(Fragments)
      BY <1>3, <1>9
    <2> HIDE DEF a, b, c
    <2>2. (a \o b) \o c = a \o (b \o c)
      BY <2>1, ConcatAssociative, SMTT(30)
    <2> QED
      BY <2>2 DEF a, b, c
  <1> QED
    BY <1>5, <1>6, <1>7, <1>8, <1>10

(* The word that was joined is in the base of the line it joined.          *)
LEMMA JoinKeeps ==
    ASSUME NEW m \in Aligned, m.lines # <<>>, NEW line \in Lines, line.text # <<>>
    PROVE  /\ JoinFirstWord(m, line) \in Aligned
           /\ AllWords(JoinFirstWord(m, line).bases) = AllWords(m.bases) \o <<Head(line.text)>>
  <1> DEFINE n == Len(m.lines)
             current == m.lines[n].text
             first == Head(line.text)
             pair == <<Last(current), first>>
             lines == [m.lines EXCEPT ![n].text = JoinedText(current, line.text)]
             bases == [m.bases EXCEPT ![n] = Append(@, first)]
             joins == [m.joins EXCEPT ![n] = @ \cup {pair}]
  <1>1. m \in Merges /\ InStep(m.lines, m.bases, m.joins) /\ line.text \in Seq(Words)
    BY DEF Aligned, Lines
  <1>2. /\ m.lines \in Seq(Lines) /\ m.bases \in Seq(Seq(Words))
        /\ m.joins \in Seq(SUBSET (Words \X Words))
    BY <1>1 DEF Merges
  <1>3. /\ n \in Nat \ {0} /\ Len(m.bases) = n /\ Len(m.joins) = n
        /\ m.lines[n] \in Lines /\ current \in Seq(Words) /\ current # <<>>
        /\ Letters(current) = Letters(m.bases[n]) /\ m.bases[n] \in Seq(Words)
    <2>1. n \in Nat \ {0} /\ Len(m.bases) = n /\ Len(m.joins) = n
      BY <1>1, <1>2 DEF InStep
    <2>2. m.lines[n] \in Lines /\ m.bases[n] \in Seq(Words)
      BY <1>2, <2>1
    <2>3. current # <<>> /\ Letters(current) = Letters(m.bases[n])
      BY <1>1, <2>1 DEF InStep
    <2>4. current \in Seq(Words)
      BY <2>2 DEF Lines
    <2> QED
      BY <2>1, <2>2, <2>3, <2>4
  <1>4. first \in Words /\ Last(current) \in Words
    BY <1>1, <1>3, HeadAndTail, FrontAndLast
  <1>5. /\ JoinedText(current, line.text) \in Seq(Words) /\ JoinedText(current, line.text) # <<>>
        /\ Letters(JoinedText(current, line.text)) = Letters(current) \o first.parts
    <2> HIDE DEF current
    <2> QED
      BY <1>1, <1>3, JoinedLetters
  <1>6. Letters(Append(m.bases[n], first)) = Letters(m.bases[n]) \o first.parts
    <2> DEFINE a == m.bases[n]
    <2>1. a \in Seq(Words)
      BY <1>3
    <2> HIDE DEF a, first
    <2>2. Append(a, first) = a \o <<first>> /\ <<first>> \in Seq(Words)
      BY <1>4, <2>1
    <2>3. Letters(Append(a, first)) = Letters(a) \o first.parts
      BY <1>4, <2>1, <2>2, LettersConcat, LettersOne
    <2> QED
      BY <2>3 DEF a
  <1>7. JoinFirstWord(m, line) = [lines |-> lines, bases |-> bases, joins |-> joins]
    BY DEF JoinFirstWord
  <1>8. /\ lines \in Seq(Lines) /\ Len(lines) = n
        /\ lines[n].text = JoinedText(current, line.text)
        /\ \A i \in 1 .. n - 1 : lines[i] = m.lines[i]
    <2> DEFINE joined == JoinedText(current, line.text)
               changed == [m.lines[n] EXCEPT !.text = joined]
    <2>1. changed \in Lines /\ changed.text = joined
      BY <1>3, <1>5 DEF Lines
    <2>2. lines = [m.lines EXCEPT ![n] = changed]
      OBVIOUS
    <2> HIDE DEF changed, lines, joined
    <2>3. lines \in Seq(Lines) /\ Len(lines) = n /\ lines[n] = changed
          /\ \A i \in 1 .. n - 1 : lines[i] = m.lines[i]
      BY <1>2, <1>3, <2>1, <2>2
    <2> QED
      BY <2>1, <2>3 DEF joined
  <1>9. /\ bases \in Seq(Seq(Words)) /\ Len(bases) = n /\ bases[n] = Append(m.bases[n], first)
        /\ \A i \in 1 .. n - 1 : bases[i] = m.bases[i]
        /\ AllWords(bases) = AllWords(m.bases) \o <<first>>
    <2>1. m.bases # <<>>
      BY <1>2, <1>3
    <2> HIDE DEF first, current, lines, joins
    <2>2. /\ [m.bases EXCEPT ![Len(m.bases)] = Append(@, first)] \in Seq(Seq(Words))
          /\ FlattenSeq([m.bases EXCEPT ![Len(m.bases)] = Append(@, first)])
                = FlattenSeq(m.bases) \o <<first>>
      BY <1>2, <1>4, <2>1, FlattenLonger
    <2>3. bases = [m.bases EXCEPT ![Len(m.bases)] = Append(@, first)]
      BY <1>3
    <2>4. Len(bases) = n /\ bases[n] = Append(m.bases[n], first)
          /\ \A i \in 1 .. n - 1 : bases[i] = m.bases[i]
      BY <1>2, <1>3
    <2> QED
      BY <2>2, <2>3, <2>4 DEF AllWords
  <1>10. joins \in Seq(SUBSET (Words \X Words)) /\ Len(joins) = n
    <2> DEFINE P == SUBSET (Words \X Words)
    <2>1. pair \in Words \X Words
      BY <1>4
    <2>2. m.joins \in Seq(P) /\ \A q \in P : q \cup {pair} \in P
      BY <1>2, <2>1
    <2> HIDE DEF P, pair, lines, bases
    <2>3. joins \in Seq(P) /\ Len(joins) = n
      BY <1>3, <2>2
    <2> QED
      BY <2>3 DEF P
  <1> HIDE DEF lines, bases, joins
  <1>11. InStep(lines, bases, joins)
    <2>1. ASSUME NEW i \in 1 .. n
          PROVE  lines[i].text # <<>> /\ Letters(lines[i].text) = Letters(bases[i])
      <3>1. CASE i = n
        <4> HIDE DEF n, current, first
        <4> QED
          BY <1>3, <1>5, <1>6, <1>8, <1>9, <3>1
      <3>2. CASE i # n
        <4>1. i \in 1 .. n - 1
          BY <1>3, <3>2
        <4> QED
          BY <1>1, <1>8, <1>9, <4>1 DEF InStep
      <3> QED
        BY <3>1, <3>2
    <2> QED
      BY <1>8, <1>9, <1>10, <2>1 DEF InStep
  <1>12. JoinFirstWord(m, line) \in Aligned
    BY <1>7, <1>8, <1>9, <1>10, <1>11 DEF Aligned, Merges
  <1> QED
    BY <1>7, <1>9, <1>12

(* One step of merge_hyphenated_lines: no word of the line is lost,        *)
(* whether it stays, loses its first word or disappears.                   *)
LEMMA MergeLineKeeps ==
    ASSUME NEW m \in Aligned, NEW line \in Lines, line.text # <<>>, NEW vocabulary
    PROVE  /\ MergeLine(m, line, vocabulary) \in Aligned
           /\ AllWords(MergeLine(m, line, vocabulary).bases) = AllWords(m.bases) \o line.text
  <1> DEFINE n == Len(m.lines)
             joining == n > 0 /\ JoinHyphenated(m.lines[n].text, line.text, vocabulary)
             rest == [line EXCEPT !.text = Tail(@)]
             joined == JoinFirstWord(m, line)
  <1>1. /\ line.text \in Seq(Words) /\ m.lines \in Seq(Lines) /\ m.bases \in Seq(Seq(Words))
        /\ joined \in Aligned => joined.bases \in Seq(Seq(Words))
    BY DEF Lines, Aligned, Merges
  <1>2. CASE joining
    <2>1. m.lines # <<>>
      BY <1>1, <1>2
    <2>2. joined \in Aligned /\ AllWords(joined.bases) = AllWords(m.bases) \o <<Head(line.text)>>
      BY <2>1, JoinKeeps
    <2>3. /\ Head(line.text) \in Words /\ Tail(line.text) \in Seq(Words)
          /\ line.text = <<Head(line.text)>> \o Tail(line.text)
      BY <1>1, HeadAndTail
    <2>4. rest \in Lines /\ rest.text = Tail(line.text)
      BY <2>3 DEF Lines
    <2>5. MergeLine(m, line, vocabulary) = AddLine(joined, rest)
      BY <1>2 DEF MergeLine
    <2> HIDE DEF joined, rest, joining
    <2>6. /\ AddLine(joined, rest) \in Aligned
          /\ AllWords(AddLine(joined, rest).bases) = AllWords(joined.bases) \o rest.text
      BY <2>2, <2>4, AddLineKeeps
    <2>7. (AllWords(m.bases) \o <<Head(line.text)>>) \o Tail(line.text)
             = AllWords(m.bases) \o line.text
      <3> DEFINE a == AllWords(m.bases)
                 b == <<Head(line.text)>>
                 c == Tail(line.text)
      <3>1. a \in Seq(Words) /\ b \in Seq(Words) /\ c \in Seq(Words) /\ line.text = b \o c
        BY <1>1, <2>3, FlattenIsList DEF AllWords
      <3> HIDE DEF a, b, c
      <3>2. (a \o b) \o c = a \o (b \o c)
        BY <3>1, ConcatAssociative, SMTT(30)
      <3>3. (a \o b) \o c = a \o line.text
        BY <3>1, <3>2
      <3> QED
        BY <3>3 DEF a, b, c
    <2> QED
      BY <2>2, <2>4, <2>5, <2>6, <2>7
  <1>3. CASE ~joining
    <2>1. MergeLine(m, line, vocabulary) = AddLine(m, line)
      BY <1>3 DEF MergeLine
    <2> QED
      BY <2>1, AddLineKeeps
  <1> QED
    BY <1>2, <1>3

(* merge_hyphenated_lines, step by step.                                   *)
LEMMA MergedUnfolds ==
    ASSUME NEW lines \in Seq(Lines), \A i \in DOMAIN lines : lines[i].text # <<>>, NEW vocabulary
    PROVE  \E f \in [0 .. Len(lines) -> Aligned] :
              /\ f[0].bases = <<>>
              /\ \A i \in 1 .. Len(lines) : f[i] = MergeLine(f[i - 1], lines[i], vocabulary)
              /\ MergeHyphenated(lines, vocabulary) = f[Len(lines)]
  <1> DEFINE n == Len(lines)
             none == [lines |-> <<>>, bases |-> <<>>, joins |-> <<>>]
             step == [i \in 1 .. n |-> [m \in Aligned |-> MergeLine(m, lines[i], vocabulary)]]
             Is(h) == h = [i \in 0 .. n |-> IF i = 0 THEN none
                                            ELSE MergeLine(h[i - 1], lines[i], vocabulary)]
             F == CHOOSE h : Is(h)
  <1>1. n \in Nat /\ \A i \in 1 .. n : lines[i] \in Lines /\ lines[i].text # <<>>
    OBVIOUS
  <1>2. none \in Aligned
    <2> DEFINE P == SUBSET (Words \X Words)
               W == Seq(Words)
    <2>1. <<>> \in Seq(Lines) /\ <<>> \in Seq(W) /\ <<>> \in Seq(P)
      OBVIOUS
    <2>2. none \in Merges
      BY <2>1, Zenon DEF Merges, P, W
    <2>3. InStep(none.lines, none.bases, none.joins)
      BY DEF InStep
    <2> HIDE DEF none
    <2> QED
      BY <2>2, <2>3 DEF Aligned
  <1>3. step \in [1 .. n -> [Aligned -> Aligned]]
    <2>1. \A i \in 1 .. n : \A m \in Aligned : MergeLine(m, lines[i], vocabulary) \in Aligned
      BY <1>1, MergeLineKeeps
    <2> QED
      BY <2>1
  <1>4. PICK f \in [0 .. n -> Aligned] : Follows(f, n, none, step)
    <2> HIDE DEF n, none, step
    <2> QED
      BY <1>1, <1>2, <1>3, Recursion
  <1>5. ASSUME NEW i \in 1 .. n PROVE f[i] = MergeLine(f[i - 1], lines[i], vocabulary)
    <2>1. i \in 0 .. n /\ i # 0 /\ i - 1 \in 0 .. n
      BY <1>1
    <2>2. f[i] = step[i][f[i - 1]]
      BY <1>4, <2>1 DEF Follows
    <2>3. f[i - 1] \in Aligned
      BY <2>1
    <2> QED
      BY <2>2, <2>3
  <1>6. f[0] = none
    BY <1>1, <1>4 DEF Follows
  <1>7. Is(f)
    <2>1. f = [i \in 0 .. n |-> f[i]]
      OBVIOUS
    <2>2. \A i \in 0 .. n : f[i] = IF i = 0 THEN none ELSE MergeLine(f[i - 1], lines[i], vocabulary)
      <3>1. \A i \in 0 .. n : i # 0 => i \in 1 .. n
        BY <1>1
      <3> HIDE DEF none
      <3> QED
        BY <1>5, <1>6, <3>1
    <2> HIDE DEF none, n
    <2> QED
      BY <2>1, <2>2
  <1>8. Is(F)
    <2> HIDE DEF Is
    <2> QED
      BY <1>7
  <1>9. MergeHyphenated(lines, vocabulary) = F[n]
    BY DEF MergeHyphenated
  <1>10. F = f
    <2> DEFINE same == {i \in 0 .. n : F[i] = f[i]}
    <2>0. \A i \in 0 .. n : F[i] = IF i = 0 THEN none ELSE MergeLine(F[i - 1], lines[i], vocabulary)
      <3> HIDE DEF F
      <3> QED
        BY <1>8
    <2>1. 0 \in same
      <3> HIDE DEF F, none
      <3> QED
        BY <1>1, <1>6, <2>0
    <2>2. ASSUME NEW i \in 0 .. n - 1, i \in same PROVE i + 1 \in same
      <3>1. i + 1 \in 1 .. n /\ i + 1 \in 0 .. n /\ (i + 1) - 1 = i /\ i + 1 # 0
        BY <1>1
      <3> HIDE DEF F, none, n
      <3> QED
        BY <1>5, <2>0, <2>2, <3>1
    <2>3. same = 0 .. n
      <3>1. same \in SUBSET (0 .. n)
        OBVIOUS
      <3> HIDE DEF same, F, n
      <3> QED
        BY <1>1, <2>1, <2>2, <3>1, Induction
    <2>4. F = [i \in 0 .. n |-> F[i]] /\ f = [i \in 0 .. n |-> f[i]]
      <3> HIDE DEF F
      <3> QED
        BY <1>8
    <2>5. \A i \in 0 .. n : F[i] = f[i]
      BY <2>3
    <2> HIDE DEF F, n
    <2> QED
      BY <2>4, <2>5
  <1>11. n \in 0 .. n
    BY <1>1
  <1> HIDE DEF F
  <1> QED
    BY <1>5, <1>6, <1>9, <1>10

LEMMA TextsAreLists ==
    ASSUME NEW lines \in Seq(Lines)
    PROVE  TextsOf(lines) \in Seq(Seq(Words)) /\ Len(TextsOf(lines)) = Len(lines)
  <1>1. Len(lines) \in Nat /\ DOMAIN lines = 1 .. Len(lines) /\ \A i \in DOMAIN lines : lines[i] \in Lines
    OBVIOUS
  <1>2. TextsOf(lines) \in [1 .. Len(lines) -> Seq(Words)]
    BY <1>1 DEF TextsOf, Lines
  <1> QED
    BY <1>1, <1>2, FunctionIsList

(* merge_hyphenated_lines keeps its three lists in step and every word.    *)
LEMMA MergeKeeps ==
    ASSUME NEW lines \in Seq(Lines), \A i \in DOMAIN lines : lines[i].text # <<>>, NEW vocabulary
    PROVE  /\ MergeHyphenated(lines, vocabulary) \in Aligned
           /\ AllWords(MergeHyphenated(lines, vocabulary).bases) = AllWords(TextsOf(lines))
  <1> DEFINE n == Len(lines)
             texts == TextsOf(lines)
  <1>1. PICK f \in [0 .. n -> Aligned] :
              /\ f[0].bases = <<>>
              /\ \A i \in 1 .. n : f[i] = MergeLine(f[i - 1], lines[i], vocabulary)
              /\ MergeHyphenated(lines, vocabulary) = f[n]
    BY MergedUnfolds
  <1>2. /\ n \in Nat /\ texts \in Seq(Seq(Words)) /\ Len(texts) = n
        /\ \A i \in 1 .. n : texts[i] = lines[i].text /\ lines[i] \in Lines /\ lines[i].text # <<>>
    BY TextsAreLists DEF TextsOf
  <1>3. PICK g \in [0 .. n -> Seq(Words)] :
              /\ g[0] = <<>>
              /\ \A i \in 1 .. n : g[i] = g[i - 1] \o texts[i]
              /\ FlattenSeq(texts) = g[n]
    <2> HIDE DEF n, texts
    <2> QED
      BY <1>2, FlattenUnfolds
  <1> DEFINE same == {i \in 0 .. n : AllWords(f[i].bases) = g[i]}
  <1> HIDE DEF n, texts
  <1>4. 0 \in same
    BY <1>1, <1>2, <1>3, FlattenNothing DEF AllWords
  <1>5. ASSUME NEW i \in 0 .. n - 1, i \in same PROVE i + 1 \in same
    <2>1. i + 1 \in 1 .. n /\ i + 1 \in 0 .. n /\ (i + 1) - 1 = i /\ i \in 0 .. n
      BY <1>2
    <2>2. f[i] \in Aligned /\ f[i + 1] = MergeLine(f[i], lines[i + 1], vocabulary)
      BY <1>1, <2>1
    <2>3. AllWords(f[i + 1].bases) = AllWords(f[i].bases) \o lines[i + 1].text
      <3> DEFINE m == f[i]
                 line == lines[i + 1]
      <3>1. m \in Aligned /\ line \in Lines /\ line.text # <<>>
        BY <1>2, <2>1, <2>2
      <3>2. f[i + 1] = MergeLine(m, line, vocabulary)
        BY <2>2
      <3> HIDE DEF m, line
      <3>3. AllWords(f[i + 1].bases) = AllWords(m.bases) \o line.text
        BY <3>1, <3>2, MergeLineKeeps
      <3> QED
        BY <3>3 DEF m, line
    <2>4. AllWords(f[i].bases) = g[i]
      BY <1>5
    <2>5. g[i + 1] = g[i] \o lines[i + 1].text
      BY <1>2, <1>3, <2>1
    <2> QED
      BY <2>1, <2>3, <2>4, <2>5
  <1>6. n \in same
    <2>1. same \in SUBSET (0 .. n)
      OBVIOUS
    <2> HIDE DEF same
    <2>2. same = 0 .. n
      BY <1>2, <1>4, <1>5, <2>1, Induction
    <2> QED
      BY <1>2, <2>2
  <1>7. n \in 0 .. n
    BY <1>2
  <1> QED
    BY <1>1, <1>3, <1>6, <1>7 DEF AllWords, texts

(* No line without words reaches the rules.                                *)
LEMMA CleanLinesKeepWords ==
    ASSUME NEW raw \in Seq(Lines)
    PROVE  LET clean == CleanLines(Postprocess(raw))
           IN clean \in Seq(Lines) /\ \A i \in DOMAIN clean : clean[i].text # <<>>
  <1> DEFINE nonempty == {l \in Range(raw) : l.text # <<>> /\ ~IsProbableNoise(l)}
             lines == Postprocess(raw)
             trusted == {l \in Range(lines) : l.conf = NoConfidence \/ l.conf >= DiscardBelow}
             kept == ConfidenceGate(lines)
             N == {l \in Lines : l.text # <<>>}
  <1>1. lines \in Seq(N)
    <2>1. lines \in Seq(Lines \cap nonempty)
      BY WithinIsList, Zenon DEF Postprocess
    <2>2. Lines \cap nonempty \subseteq N
      OBVIOUS
    <2> HIDE DEF nonempty, N, lines
    <2> QED
      BY <2>1, <2>2, SeqMonotonic
  <1> HIDE DEF lines, N
  <1>2. kept \in Seq(N)
    <2>1. kept \in Seq(N \cap trusted)
      BY <1>1, WithinIsList, Zenon DEF ConfidenceGate
    <2>2. N \cap trusted \subseteq N
      OBVIOUS
    <2> HIDE DEF trusted, kept
    <2> QED
      BY <2>1, <2>2, SeqMonotonic
  <1>3. ASSUME NEW l \in N PROVE StripBullet(l) \in N
    <2>1. l \in Lines /\ l.text # <<>> /\ l.text \in Seq(Words)
      BY DEF N, Lines
    <2>2. CASE Len(l.text) > 1 /\ Head(l.text).parts = <<Bullet>>
      <3>1. Tail(l.text) \in Seq(Words) /\ Tail(l.text) # <<>>
        <4> DEFINE t == l.text
        <4>1. t \in Seq(Words) /\ Len(t) > 1 /\ t # <<>>
          BY <2>1, <2>2
        <4> HIDE DEF t
        <4>2. Tail(t) \in Seq(Words) /\ Len(Tail(t)) = Len(t) - 1
          BY <4>1
        <4>3. Tail(t) # <<>>
          <5>1. Len(<<>>) = 0 /\ Len(t) \in Nat
            BY <4>1
          <5> DEFINE n == Len(t)
                     k == Len(Tail(t))
          <5>2. n \in Nat /\ n > 1 /\ k = n - 1
            BY <4>1, <4>2, <5>1, Zenon
          <5> HIDE DEF n, k
          <5>3. k # 0
            BY <5>2
          <5> QED
            BY <5>1, <5>3, Zenon DEF k
        <4> QED
          BY <4>2, <4>3 DEF t
      <3> QED
        BY <2>1, <2>2, <3>1 DEF StripBullet, N, Lines
    <2>3. CASE ~(Len(l.text) > 1 /\ Head(l.text).parts = <<Bullet>>)
      BY <2>3 DEF StripBullet
    <2> QED
      BY <2>2, <2>3
  <1> HIDE DEF kept
  <1>4. Len(kept) \in Nat /\ DOMAIN kept = 1 .. Len(kept) /\ \A i \in DOMAIN kept : kept[i] \in N
    BY <1>2
  <1>5. [i \in DOMAIN kept |-> StripBullet(kept[i])] \in [1 .. Len(kept) -> N]
    BY <1>3, <1>4
  <1>6. CleanLines(lines) \in Seq(N)
    <2>1. CleanLines(lines) \in [1 .. Len(kept) -> N]
      BY <1>5 DEF CleanLines, kept
    <2> QED
      BY <1>4, <2>1, FunctionIsList
  <1>7. CleanLines(lines) \in Seq(Lines) /\ \A i \in DOMAIN CleanLines(lines) : CleanLines(lines)[i].text # <<>>
    BY <1>6 DEF N
  <1> QED
    BY <1>7 DEF lines

LEMMA RulesKeepLetters ==
    ASSUME NEW raw \in Seq(Lines), NEW vocabulary
    PROVE  LET ruled == ApplyCorrectionRules(Postprocess(raw), vocabulary)
           IN ruled \in Aligned /\ AllWords(ruled.bases) = AllWords(TextsOf(CleanLines(Postprocess(raw))))
  <1> DEFINE clean == CleanLines(Postprocess(raw))
  <1>1. clean \in Seq(Lines) /\ \A i \in DOMAIN clean : clean[i].text # <<>>
    BY CleanLinesKeepWords
  <1> HIDE DEF clean
  <1>2. /\ MergeHyphenated(clean, vocabulary) \in Aligned
        /\ AllWords(MergeHyphenated(clean, vocabulary).bases) = AllWords(TextsOf(clean))
    BY <1>1, MergeKeeps
  <1> QED
    BY <1>2 DEF ApplyCorrectionRules, clean

-----------------------------------------------------------------------------
(* The vote of three answers.                                              *)

(* A set has two elements exactly when it has two different ones.          *)
LEMMA TwoOrMore ==
    ASSUME NEW S, IsFiniteSet(S)
    PROVE  Cardinality(S) >= 2 <=> \E i, j \in S : i # j
  <1> DEFINE c == Cardinality(S)
  <1>0. c \in Nat
    BY FS_CardinalityType
  <1>1. ASSUME c >= 2 PROVE \E i, j \in S : i # j
    <2>1. S # {}
      BY <1>0, <1>1, FS_EmptySet
    <2>2. PICK i \in S : TRUE
      BY <2>1
    <2>3. IsFiniteSet(S \ {i}) /\ Cardinality(S \ {i}) = c - 1
      BY <2>2, FS_RemoveElement
    <2>4. S \ {i} # {}
      BY <1>0, <1>1, <2>3, FS_EmptySet
    <2> QED
      BY <2>4
  <1>2. ASSUME NEW i \in S, NEW j \in S, i # j PROVE c >= 2
    <2>1. IsFiniteSet(S \ {i}) /\ Cardinality(S \ {i}) = c - 1
      BY FS_RemoveElement
    <2>2. /\ IsFiniteSet((S \ {i}) \ {j})
          /\ Cardinality((S \ {i}) \ {j}) = (c - 1) - 1
      <3> DEFINE T == S \ {i}
      <3>1. IsFiniteSet(T) /\ j \in T /\ Cardinality(T) = c - 1
        BY <1>2, <2>1
      <3> HIDE DEF T, c
      <3>2. IsFiniteSet(T \ {j}) /\ Cardinality(T \ {j}) = Cardinality(T) - 1
        BY <3>1, FS_RemoveElement
      <3> QED
        BY <3>1, <3>2 DEF T
    <2>3. (c - 1) - 1 \in Nat
      <3>1. Cardinality((S \ {i}) \ {j}) \in Nat
        BY <2>2, FS_CardinalityType
      <3> QED
        BY <2>2, <3>1
    <2> HIDE DEF c
    <2> QED
      BY <1>0, <2>3
  <1> QED
    BY <1>1, <1>2

(* Three answers, each of which turns the words into others.                *)
ThreeAnswers(answers, words) ==
    DOMAIN answers = 1 .. 3 /\ \A i \in 1 .. 3 : IsAnswer(answers[i], words)

(* A majority is two different answers with the edit.                      *)
LEMMA MajorityIsTwo ==
    ASSUME NEW answers, DOMAIN answers = 1 .. 3, NEW e
    PROVE  HasMajority(e, answers) <=>
              \E i, j \in 1 .. 3 : i # j /\ e \in answers[i] /\ e \in answers[j]
  <1> DEFINE S == {i \in 1 .. 3 : e \in answers[i]}
  <1>1. S \in SUBSET (1 .. 3) /\ IsFiniteSet(1 .. 3)
    <2>1. 1 \in Int /\ 3 \in Int
      OBVIOUS
    <2>2. IsFiniteSet(1 .. 3)
      BY <2>1, FS_Interval
    <2> QED
      BY <2>2
  <1>2. IsFiniteSet(S)
    BY <1>1, FS_Subset
  <1>3. Votes(e, answers) = Cardinality(S)
    BY DEF Votes
  <1>4. Cardinality(S) >= 2 <=> \E i, j \in S : i # j
    <2> HIDE DEF S
    <2> QED
      BY <1>2, TwoOrMore
  <1>5. HasMajority(e, answers) <=> \E i, j \in S : i # j
    BY <1>3, <1>4 DEF HasMajority
  <1> QED
    BY <1>5

LEMMA EditShape ==
    ASSUME NEW words \in Seq(Words), NEW chosen, IsAnswer(chosen, words), NEW e \in chosen
    PROVE  /\ e.start \in 0 .. Len(words) /\ e.end \in 0 .. Len(words)
           /\ e.start <= e.end /\ e.replacement \in Seq(Words)
  <1>1. e \in Edits(words) /\ e.start <= e.end
    BY DEF IsAnswer
  <1>2. PICK s \in 0 .. Len(words), t \in 0 .. Len(words), r \in Replacements :
             e = [start |-> s, end |-> t, replacement |-> r]
    BY <1>1 DEF Edits
  <1> QED
    BY <1>1, <1>2, ReplacementsAssumption

(* Two edits of a line that two of three answers make leave a word between *)
(* them: which of them consensus_correction looks at first cannot matter,  *)
(* and its guard _overlaps_any has nothing to refuse.                      *)
THEOREM MajoritiesNeverOverlap ==
    ASSUME NEW words \in Seq(Words), NEW answers, ThreeAnswers(answers, words),
           NEW e, NEW f, HasMajority(e, answers), HasMajority(f, answers), e # f
    PROVE  Apart(e, f) /\ ~OverlapsAny(e, f)
  <1>1. PICK i \in 1 .. 3, j \in 1 .. 3 : i # j /\ e \in answers[i] /\ e \in answers[j]
    BY MajorityIsTwo DEF ThreeAnswers
  <1>2. PICK k \in 1 .. 3, l \in 1 .. 3 : k # l /\ f \in answers[k] /\ f \in answers[l]
    BY MajorityIsTwo DEF ThreeAnswers
  <1>3. i = k \/ i = l \/ j = k \/ j = l
    BY <1>1, <1>2
  <1>4. PICK m \in 1 .. 3 : e \in answers[m] /\ f \in answers[m]
    BY <1>1, <1>2, <1>3
  <1>5. IsAnswer(answers[m], words)
    BY DEF ThreeAnswers
  <1>6. Apart(e, f)
    BY <1>4, <1>5 DEF IsAnswer
  <1>7. /\ e.start \in Int /\ e.end \in Int /\ f.start \in Int /\ f.end \in Int
        /\ e.start <= e.end /\ f.start <= f.end
    BY <1>4, <1>5, EditShape
  <1> QED
    BY <1>6, <1>7 DEF Apart, OverlapsAny

LEMMA EmptyToSeq == SetToSeq({}) = <<>>
  <1>1. Cardinality({}) = 0
    BY FS_EmptySet
  <1> DEFINE Is(f) == f \in [1 .. 0 -> {}] /\ IsInjective(f)
             F == CHOOSE f \in [1 .. 0 -> {}] : IsInjective(f)
  <1>2. SetToSeq({}) = F
    BY <1>1 DEF SetToSeq
  <1>3. <<>> \in [1 .. 0 -> {}] /\ IsInjective(<<>>)
    BY DEF IsInjective
  <1>4. F \in [1 .. 0 -> {}]
    BY <1>3
  <1>5. F = <<>>
    <2> HIDE DEF F
    <2> QED
      BY <1>4
  <1> QED
    BY <1>2, <1>5

LEMMA SingleToSeq ==
    ASSUME NEW x
    PROVE  SetToSeq({x}) = <<x>>
  <1>1. Cardinality({x}) = 1
    BY FS_Singleton
  <1> DEFINE F == CHOOSE f \in [1 .. 1 -> {x}] : IsInjective(f)
  <1>2. SetToSeq({x}) = F
    BY <1>1 DEF SetToSeq
  <1>3. <<x>> \in [1 .. 1 -> {x}] /\ IsInjective(<<x>>)
    BY DEF IsInjective
  <1>4. F \in [1 .. 1 -> {x}]
    BY <1>3
  <1>5. F = <<x>>
    <2> HIDE DEF F
    <2> QED
      BY <1>4
  <1> QED
    BY <1>2, <1>5

(* Every edit of an answer is looked at.                                    *)
LEMMA AllInLineOrder ==
    ASSUME NEW words \in Seq(Words), NEW chosen, IsAnswer(chosen, words)
    PROVE  InLineOrder(chosen, words) \in Seq(chosen) /\ Range(InLineOrder(chosen, words)) = chosen
  <1> DEFINE n == Len(words)
             at == [i \in 1 .. n + 1 |-> StartingAt(chosen, i - 1)]
  <1>1. n \in Nat
    OBVIOUS
  <1>2. ASSUME NEW s \in 0 .. n
        PROVE  StartingAt(chosen, s) \in Seq(chosen) /\ Range(StartingAt(chosen, s)) = {e \in chosen : e.start = s}
    <2> DEFINE here == {e \in chosen : e.start = s}
    <2>1. CASE here = {}
      <3>1. StartingAt(chosen, s) = <<>>
        BY <2>1, EmptyToSeq DEF StartingAt
      <3>2. Range(<<>>) = {} /\ <<>> \in Seq(chosen)
        BY DEF Range
      <3> QED
        BY <2>1, <3>1, <3>2
    <2>2. CASE here # {}
      <3>1. PICK e \in here : TRUE
        BY <2>2
      <3>2. ASSUME NEW f \in here PROVE f = e
        <4>1. /\ e \in chosen /\ f \in chosen /\ e.start = s /\ f.start = s
          BY <3>1
        <4>2. /\ e.end \in 0 .. n /\ f.end \in 0 .. n /\ s <= e.end /\ s <= f.end
          BY <4>1, EditShape
        <4>3. ~Apart(e, f)
          BY <1>1, <4>1, <4>2 DEF Apart
        <4> QED
          BY <4>1, <4>3 DEF IsAnswer
      <3>3. here = {e}
        BY <3>1, <3>2
      <3>4. StartingAt(chosen, s) = <<e>>
        BY <3>3, SingleToSeq DEF StartingAt
      <3>5. Range(<<e>>) = {e} /\ <<e>> \in Seq(chosen)
        BY <3>1 DEF Range
      <3> QED
        BY <3>3, <3>4, <3>5
    <2> QED
      BY <2>1, <2>2
  <1>3. \A i \in 1 .. n + 1 : i - 1 \in 0 .. n
    BY <1>1
  <1>4. at \in Seq(Seq(chosen)) /\ Len(at) = n + 1
    <2>1. at \in [1 .. n + 1 -> Seq(chosen)] /\ n + 1 \in Nat
      BY <1>1, <1>2, <1>3
    <2> HIDE DEF at
    <2> QED
      BY <2>1
  <1>5. InLineOrder(chosen, words) = FlattenSeq(at)
    BY DEF InLineOrder
  <1>6. Range(FlattenSeq(at)) = UNION {Range(at[i]) : i \in DOMAIN at} /\ FlattenSeq(at) \in Seq(chosen)
    <2> HIDE DEF at
    <2> QED
      BY <1>4, FlattenElements, FlattenIsList
  <1>7. DOMAIN at = 1 .. n + 1 /\ \A i \in 1 .. n + 1 : Range(at[i]) = {e \in chosen : e.start = i - 1}
    BY <1>2, <1>3
  <1>8. chosen \subseteq UNION {Range(at[i]) : i \in DOMAIN at}
    <2> SUFFICES ASSUME NEW e \in chosen PROVE \E i \in DOMAIN at : e \in Range(at[i])
      OBVIOUS
    <2>1. e.start \in 0 .. n
      BY EditShape
    <2>2. e.start + 1 \in 1 .. n + 1 /\ (e.start + 1) - 1 = e.start
      BY <1>1, <2>1
    <2>3. e \in Range(at[e.start + 1])
      BY <1>7, <2>2
    <2> HIDE DEF at
    <2> QED
      BY <1>7, <2>2, <2>3
  <1>9. UNION {Range(at[i]) : i \in DOMAIN at} \subseteq chosen
    BY <1>7
  <1> QED
    BY <1>5, <1>6, <1>8, <1>9

LEMMA AllProposed ==
    ASSUME NEW words \in Seq(Words), NEW answers, ThreeAnswers(answers, words)
    PROVE  /\ Proposed(answers, words) \in Seq(UNION Range(answers))
           /\ Range(Proposed(answers, words)) = UNION Range(answers)
  <1> DEFINE E == UNION Range(answers)
             orders == [i \in DOMAIN answers |-> InLineOrder(answers[i], words)]
  <1>1. \A i \in 1 .. 3 : /\ InLineOrder(answers[i], words) \in Seq(answers[i])
                          /\ Range(InLineOrder(answers[i], words)) = answers[i]
    BY AllInLineOrder DEF ThreeAnswers
  <1>2. DOMAIN answers = 1 .. 3 /\ \A i \in 1 .. 3 : answers[i] \subseteq E
    BY DEF ThreeAnswers, Range
  <1>3. \A i \in 1 .. 3 : InLineOrder(answers[i], words) \in Seq(E)
    <2> HIDE DEF E
    <2> QED
      BY <1>1, <1>2, SeqMonotonic
  <1>4. orders \in Seq(Seq(E)) /\ DOMAIN orders = 1 .. 3
    <2> DEFINE Y == Seq(E)
    <2>1. orders \in [1 .. 3 -> Y] /\ 3 \in Nat
      BY <1>2, <1>3
    <2> HIDE DEF orders, Y
    <2>2. orders \in Seq(Y) /\ DOMAIN orders = 1 .. 3
      BY <2>1, FunctionIsList
    <2> QED
      BY <2>2 DEF Y
  <1>5. Range(FlattenSeq(orders)) = UNION {Range(orders[i]) : i \in DOMAIN orders} /\ FlattenSeq(orders) \in Seq(E)
    <2> HIDE DEF orders, E
    <2> QED
      BY <1>4, FlattenElements, FlattenIsList
  <1>6. {Range(orders[i]) : i \in DOMAIN orders} = Range(answers)
    <2>1. \A i \in 1 .. 3 : Range(orders[i]) = answers[i]
      BY <1>1, <1>2
    <2> HIDE DEF orders
    <2>2. Range(answers) = {answers[i] : i \in 1 .. 3}
      BY <1>2 DEF Range
    <2>3. {Range(orders[i]) : i \in DOMAIN orders} = {answers[i] : i \in 1 .. 3}
      BY <1>4, <2>1
    <2> QED
      BY <2>2, <2>3
  <1> QED
    BY <1>5, <1>6 DEF Proposed

(* The edits two answers share that neither delete words nor touch digits.  *)
Agreed(answers, words) ==
    {e \in UNION Range(answers) : /\ HasMajority(e, answers)
                                  /\ e.replacement # <<>> /\ KeepsDigits(e, words)}

LEMMA ProposedShape ==
    ASSUME NEW words \in Seq(Words), NEW answers, ThreeAnswers(answers, words),
           NEW e \in UNION Range(answers)
    PROVE  /\ e.start \in 0 .. Len(words) /\ e.end \in 0 .. Len(words)
           /\ e.start <= e.end /\ e.replacement \in Seq(Words)
  <1>1. PICK i \in 1 .. 3 : e \in answers[i]
    BY DEF ThreeAnswers, Range
  <1> QED
    BY <1>1, EditShape DEF ThreeAnswers

(* One step of consensus_correction adds the edit or nothing, and never    *)
(* refuses an agreed edit because of another one.                          *)
LEMMA ApproveAdds ==
    ASSUME NEW words \in Seq(Words), NEW answers, ThreeAnswers(answers, words),
           NEW approved \in SUBSET Agreed(answers, words), NEW e \in UNION Range(answers)
    PROVE  Approve(approved, e, answers, words) = approved \cup ({e} \cap Agreed(answers, words))
  <1>1. CASE e \in approved \/ e \notin Agreed(answers, words)
    <2>1. Approve(approved, e, answers, words) = approved
      BY <1>1 DEF Approve, Agreed
    <2> QED
      BY <1>1, <2>1
  <1>2. CASE e \notin approved /\ e \in Agreed(answers, words)
    <2>1. ASSUME NEW f \in approved PROVE ~OverlapsAny(e, f)
      <3>1. /\ f \in UNION Range(answers) /\ HasMajority(f, answers) /\ HasMajority(e, answers)
            /\ e # f
        BY <1>2 DEF Agreed
      <3> QED
        BY <3>1, MajoritiesNeverOverlap
    <2>2. Approve(approved, e, answers, words) = approved \cup {e}
      BY <1>2, <2>1 DEF Approve, Agreed
    <2> QED
      BY <1>2, <2>2
  <1> QED
    BY <1>1, <1>2

(* What consensus_correction approves does not depend on when it sees it.  *)
LEMMA ApprovedAreAgreed ==
    ASSUME NEW words \in Seq(Words), NEW answers, ThreeAnswers(answers, words)
    PROVE  Approved(answers, words) = Agreed(answers, words)
  <1> DEFINE E == UNION Range(answers)
             A == Agreed(answers, words)
             proposed == Proposed(answers, words)
             n == Len(proposed)
             S == SUBSET A
             step == [i \in 1 .. n |-> [s \in S |-> Approve(s, proposed[i], answers, words)]]
             Is(h) == h = [i \in 0 .. n |-> IF i = 0 THEN {}
                                            ELSE Approve(h[i - 1], proposed[i], answers, words)]
             F == CHOOSE h : Is(h)
             Upto(i) == {proposed[j] : j \in 1 .. i} \cap A
  <1>1. proposed \in Seq(E) /\ Range(proposed) = E
    BY AllProposed
  <1> HIDE DEF proposed
  <1>2. n \in Nat /\ \A i \in 1 .. n : proposed[i] \in E
    <2> HIDE DEF E
    <2> QED
      BY <1>1
  <1>3. \A i \in 1 .. n : \A s \in S :
           Approve(s, proposed[i], answers, words) = s \cup ({proposed[i]} \cap A)
    BY <1>2, ApproveAdds
  <1> HIDE DEF E, A, n
  <1>4. step \in [1 .. n -> [S -> S]]
    <2>1. \A i \in 1 .. n : \A s \in S : Approve(s, proposed[i], answers, words) \in S
      BY <1>3
    <2> HIDE DEF S
    <2> QED
      BY <2>1
  <1>5. \E f \in [0 .. n -> S] : Is(f)
    <2> DEFINE init == {}
    <2>1. init \in S
      OBVIOUS
    <2>2. PICK f \in [0 .. n -> S] : Follows(f, n, init, step)
      <3> HIDE DEF S, step, init
      <3> QED
        BY <1>2, <1>4, <2>1, Recursion
    <2>3. \A i \in 0 .. n : i # 0 => i \in 1 .. n /\ i - 1 \in 0 .. n
      BY <1>2
    <2>4. \A i \in 0 .. n : i # 0 => step[i][f[i - 1]] = Approve(f[i - 1], proposed[i], answers, words)
      <3> SUFFICES ASSUME NEW i \in 0 .. n, i # 0
                   PROVE  step[i][f[i - 1]] = Approve(f[i - 1], proposed[i], answers, words)
        OBVIOUS
      <3>1. i \in 1 .. n /\ f[i - 1] \in S
        BY <2>3
      <3> HIDE DEF S
      <3> QED
        BY <3>1
    <2>5. f = [i \in 0 .. n |-> IF i = 0 THEN init ELSE step[i][f[i - 1]]]
      BY <2>2 DEF Follows
    <2>6. Is(f)
      <3> HIDE DEF step, S
      <3> QED
        BY <2>4, <2>5
    <2> HIDE DEF Is
    <2> QED
      BY <2>6
  <1>6. Is(F)
    <2> HIDE DEF Is
    <2> QED
      BY <1>5
  <1>7. Approved(answers, words) = F[n]
    BY DEF Approved, n, proposed
  <1>8. \A i \in 0 .. n : F[i] = IF i = 0 THEN {} ELSE Approve(F[i - 1], proposed[i], answers, words)
    <2> HIDE DEF F
    <2> QED
      BY <1>6
  <1> HIDE DEF F
  <1> DEFINE right == {i \in 0 .. n : F[i] = Upto(i)}
  <1>9. 0 \in right
    <2>1. 0 \in 0 .. n /\ Upto(0) = {}
      BY <1>2
    <2> QED
      BY <1>8, <2>1
  <1>10. ASSUME NEW i \in 0 .. n - 1, i \in right PROVE i + 1 \in right
    <2>1. i + 1 \in 1 .. n /\ i + 1 \in 0 .. n /\ (i + 1) - 1 = i /\ i + 1 # 0 /\ i \in Nat
      BY <1>2
    <2>2. F[i + 1] = Approve(F[i], proposed[i + 1], answers, words) /\ F[i] = Upto(i)
      BY <1>8, <1>10, <2>1
    <2>3. F[i] \in S
      BY <2>2
    <2>4. F[i + 1] = F[i] \cup ({proposed[i + 1]} \cap A)
      BY <1>3, <2>1, <2>2, <2>3
    <2>5. 1 .. i + 1 = (1 .. i) \cup {i + 1}
      BY <2>1
    <2>6. Upto(i + 1) = Upto(i) \cup ({proposed[i + 1]} \cap A)
      BY <2>5
    <2> HIDE DEF Upto
    <2> QED
      BY <2>1, <2>2, <2>4, <2>6
  <1>11. n \in right
    <2>1. right \in SUBSET (0 .. n)
      OBVIOUS
    <2> HIDE DEF right
    <2>2. right = 0 .. n
      BY <1>2, <1>9, <1>10, <2>1, Induction
    <2> QED
      BY <1>2, <2>2
  <1>12. Upto(n) = A
    <2>1. DOMAIN proposed = 1 .. n
      BY <1>1 DEF n
    <2>2. {proposed[j] : j \in 1 .. n} = E
      BY <1>1, <2>1 DEF Range
    <2>3. A \subseteq E
      BY DEF A, E, Agreed
    <2> QED
      BY <2>2, <2>3
  <1>13. F[n] = Upto(n)
    BY <1>11
  <1> HIDE DEF Upto
  <1> QED
    BY <1>7, <1>12, <1>13 DEF A

(* What is agreed does not depend on the order of the answers.              *)
LEMMA AgreedInAnyOrder ==
    ASSUME NEW words, NEW answers, DOMAIN answers = 1 .. 3,
           NEW order \in Bijection(1 .. 3, 1 .. 3)
    PROVE  Agreed([i \in 1 .. 3 |-> answers[order[i]]], words) = Agreed(answers, words)
  <1> DEFINE other == [i \in 1 .. 3 |-> answers[order[i]]]
  <1>1. /\ order \in [1 .. 3 -> 1 .. 3]
        /\ \A i, j \in 1 .. 3 : order[i] = order[j] => i = j
        /\ \A j \in 1 .. 3 : \E i \in 1 .. 3 : order[i] = j
    BY DEF Bijection, Injection, Surjection, IsInjective
  <1>2. DOMAIN other = 1 .. 3 /\ \A i \in 1 .. 3 : other[i] = answers[order[i]]
    OBVIOUS
  <1> HIDE DEF other
  <1>3. Range(other) = Range(answers)
    <2>1. Range(other) \subseteq Range(answers)
      BY <1>1, <1>2 DEF Range
    <2>2. Range(answers) \subseteq Range(other)
      BY <1>1, <1>2 DEF Range
    <2> QED
      BY <2>1, <2>2
  <1>4. ASSUME NEW e PROVE HasMajority(e, other) <=> HasMajority(e, answers)
    <2>1. ASSUME HasMajority(e, other) PROVE HasMajority(e, answers)
      <3>1. PICK i \in 1 .. 3, j \in 1 .. 3 : i # j /\ e \in other[i] /\ e \in other[j]
        BY <1>2, <2>1, MajorityIsTwo
      <3>2. order[i] \in 1 .. 3 /\ order[j] \in 1 .. 3 /\ order[i] # order[j]
            /\ e \in answers[order[i]] /\ e \in answers[order[j]]
        BY <1>1, <1>2, <3>1
      <3> QED
        BY <3>2, MajorityIsTwo
    <2>2. ASSUME HasMajority(e, answers) PROVE HasMajority(e, other)
      <3>1. PICK i \in 1 .. 3, j \in 1 .. 3 : i # j /\ e \in answers[i] /\ e \in answers[j]
        BY <2>2, MajorityIsTwo
      <3>2. PICK k \in 1 .. 3 : order[k] = i
        BY <1>1
      <3>3. PICK l \in 1 .. 3 : order[l] = j
        BY <1>1
      <3>4. k # l /\ e \in other[k] /\ e \in other[l]
        BY <1>2, <3>1, <3>2, <3>3
      <3> QED
        BY <1>2, <3>4, MajorityIsTwo
    <2> QED
      BY <2>1, <2>2
  <1>5. Agreed(other, words) = Agreed(answers, words)
    BY <1>3, <1>4 DEF Agreed
  <1> QED
    BY <1>5 DEF other

-----------------------------------------------------------------------------
(* The edits that were approved, made.                                     *)

(* The elements of a sequence after the first a, up to the b-th.            *)
LEMMA SubSeqIs ==
    ASSUME NEW X, NEW s \in Seq(X), NEW a \in 0 .. Len(s), NEW b \in a .. Len(s)
    PROVE  /\ SubSeq(s, a + 1, b) \in Seq(X) /\ Len(SubSeq(s, a + 1, b)) = b - a
           /\ \A i \in 1 .. b - a : SubSeq(s, a + 1, b)[i] = s[a + i]
  <1> DEFINE m == a + 1
             sub == SubSeq(s, m, b)
  <1>1. /\ Len(s) \in Nat /\ a \in Nat /\ b \in Nat /\ m \in Int /\ b \in Int /\ a <= b
        /\ \A i \in m .. b : s[i] \in X
    OBVIOUS
  <1>2. /\ sub \in Seq(X)
        /\ Len(sub) = IF m <= b THEN b - m + 1 ELSE 0
        /\ \A i \in 1 .. b - m + 1 : sub[i] = s[m + i - 1]
    <2> HIDE DEF m
    <2> QED
      BY <1>1, SubSeqProperties
  <1>3. Len(sub) = b - a
    <2> DEFINE len == Len(sub)
    <2>1. len = IF m <= b THEN b - m + 1 ELSE 0
      BY <1>2
    <2> HIDE DEF len, sub
    <2>2. len = b - a
      BY <1>1, <2>1
    <2> QED
      BY <2>2 DEF len
  <1>4. ASSUME NEW i \in 1 .. b - a PROVE sub[i] = s[a + i]
    <2>1. i \in 1 .. b - m + 1 /\ m + i - 1 = a + i
      BY <1>1
    <2> HIDE DEF sub, m
    <2> QED
      BY <1>2, <2>1
  <1> QED
    BY <1>2, <1>3, <1>4

LEMMA SubSeqSplits ==
    ASSUME NEW X, NEW s \in Seq(X), NEW a \in 0 .. Len(s), NEW b \in a .. Len(s),
           NEW c \in b .. Len(s)
    PROVE  SubSeq(s, a + 1, c) = SubSeq(s, a + 1, b) \o SubSeq(s, b + 1, c)
  <1> DEFINE f == SubSeq(s, a + 1, b)
             g == SubSeq(s, b + 1, c)
             h == SubSeq(s, a + 1, c)
  <1>0. /\ Len(s) \in Nat /\ a \in Nat /\ b \in Nat /\ c \in Nat /\ a <= b /\ b <= c
        /\ b \in 0 .. Len(s) /\ c \in a .. Len(s)
    OBVIOUS
  <1>1. f \in Seq(X) /\ Len(f) = b - a /\ \A i \in 1 .. b - a : f[i] = s[a + i]
    BY SubSeqIs
  <1>2. g \in Seq(X) /\ Len(g) = c - b /\ \A i \in 1 .. c - b : g[i] = s[b + i]
    BY <1>0, SubSeqIs
  <1>3. h \in Seq(X) /\ Len(h) = c - a /\ \A i \in 1 .. c - a : h[i] = s[a + i]
    BY <1>0, SubSeqIs
  <1> HIDE DEF f, g, h
  <1>4. Len(h) = Len(f) + Len(g)
    BY <1>0, <1>1, <1>2, <1>3
  <1>5. \A i \in 1 .. Len(f) : h[i] = f[i]
    BY <1>0, <1>1, <1>3
  <1>6. ASSUME NEW i \in 1 .. Len(g) PROVE h[Len(f) + i] = g[i]
    <2>1. i \in 1 .. c - b /\ Len(f) + i \in 1 .. c - a /\ a + (Len(f) + i) = b + i
      BY <1>0, <1>1, <1>2
    <2> QED
      BY <1>2, <1>3, <2>1
  <1>7. h = f \o g
    BY <1>1, <1>2, <1>3, <1>4, <1>5, <1>6, ConcatIs
  <1> QED
    BY <1>7 DEF f, g, h

LEMMA WholeList ==
    ASSUME NEW X, NEW s \in Seq(X)
    PROVE  SubSeq(s, 0 + 1, Len(s)) = s /\ SubSeq(s, 0 + 1, 0) = <<>>
  <1>1. SubSeq(s, 1, Len(s)) = s
    BY SubSeqFull
  <1>2. SubSeq(s, 1, 0) = <<>>
    BY SubSeqEmpty
  <1> QED
    BY <1>1, <1>2

(* What is left of a sequence on either side of one of its places.         *)
LEMMA ConcatParts ==
    ASSUME NEW X, NEW f \in Seq(X), NEW g \in Seq(X), NEW k \in 0 .. Len(f)
    PROVE  /\ SubSeq(f \o g, 0 + 1, k) = SubSeq(f, 0 + 1, k)
           /\ SubSeq(f \o g, Len(f) + 1, Len(f \o g)) = g
  <1> DEFINE h == f \o g
             n == Len(f)
             all == Len(h)
  <1>1. /\ h \in Seq(X) /\ n \in Nat /\ Len(g) \in Nat /\ all = n + Len(g)
        /\ \A i \in 1 .. n : h[i] = f[i]
        /\ \A i \in 1 .. Len(g) : h[n + i] = g[i]
    OBVIOUS
  <1>2. /\ k \in Nat /\ k <= n /\ all \in Nat /\ 0 \in 0 .. all /\ k \in 0 .. all
        /\ n \in 0 .. all /\ all \in n .. all /\ all - n = Len(g)
        /\ 0 \in 0 .. n /\ k \in 0 .. n /\ k - 0 = k
    BY <1>1
  <1> HIDE DEF h, n, all
  <1> DEFINE a == SubSeq(h, 0 + 1, k)
             b == SubSeq(f, 0 + 1, k)
             c == SubSeq(h, n + 1, all)
  <1>3. a \in Seq(X) /\ Len(a) = k - 0 /\ \A i \in 1 .. k - 0 : a[i] = h[0 + i]
    BY <1>1, <1>2, SubSeqIs DEF all
  <1>4. b \in Seq(X) /\ Len(b) = k - 0 /\ \A i \in 1 .. k - 0 : b[i] = f[0 + i]
    BY <1>1, <1>2, SubSeqIs DEF n
  <1>5. c \in Seq(X) /\ Len(c) = all - n /\ \A i \in 1 .. all - n : c[i] = h[n + i]
    BY <1>1, <1>2, SubSeqIs DEF all
  <1> HIDE DEF a, b, c
  <1>6. a = b
    <2>1. Len(a) = Len(b)
      BY <1>3, <1>4
    <2>2. \A i \in 1 .. Len(a) : a[i] = b[i]
      BY <1>1, <1>2, <1>3, <1>4
    <2> QED
      BY <1>3, <1>4, <2>1, <2>2, SeqEqual
  <1>7. c = g
    <2>1. Len(c) = Len(g)
      BY <1>2, <1>5
    <2>2. \A i \in 1 .. Len(c) : c[i] = g[i]
      BY <1>1, <1>2, <1>5
    <2> QED
      BY <1>5, <2>1, <2>2, SeqEqual
  <1> QED
    BY <1>6, <1>7 DEF a, b, c, h, n, all

(* The words no edit replaces.                                              *)
Untouched(i, chosen) == \A e \in chosen : i <= e.start \/ i > e.end

(* The rest has the digits of the words after the m-th, and each of them    *)
(* that no edit replaces.                                                   *)
StandsFor(rest, words, chosen, m) ==
    /\ rest \in Seq(Words)
    /\ Digits(rest) = Digits(SubSeq(words, m + 1, Len(words)))
    /\ \A i \in m + 1 .. Len(words) : Untouched(i, chosen) => words[i] \in Range(rest)

(* The text is the first m words followed by such a rest.                   *)
Continues(text, words, chosen, m) ==
    \E rest : StandsFor(rest, words, chosen, m) /\ text = SubSeq(words, 0 + 1, m) \o rest

(* Before any edit, the words stand for themselves.                        *)
LEMMA WordsContinue ==
    ASSUME NEW words \in Seq(Words), NEW chosen, NEW m \in 0 .. Len(words)
    PROVE  Continues(words, words, chosen, m)
  <1> DEFINE n == Len(words)
             first == SubSeq(words, 0 + 1, m)
             rest == SubSeq(words, m + 1, n)
  <1>1. n \in Nat /\ 0 \in 0 .. n /\ m \in 0 .. n /\ n \in m .. n /\ n \in 0 .. n
    OBVIOUS
  <1>2. rest \in Seq(Words) /\ Len(rest) = n - m /\ \A i \in 1 .. n - m : rest[i] = words[m + i]
    BY <1>1, SubSeqIs
  <1>3. words = first \o rest
    <2>1. SubSeq(words, 0 + 1, n) = words
      BY WholeList
    <2>2. SubSeq(words, 0 + 1, n) = first \o rest
      BY <1>1, SubSeqSplits
    <2> QED
      BY <2>1, <2>2
  <1>4. ASSUME NEW i \in m + 1 .. n PROVE words[i] \in Range(rest)
    <2>1. i - m \in 1 .. n - m /\ m + (i - m) = i /\ DOMAIN rest = 1 .. n - m
      BY <1>1, <1>2
    <2> HIDE DEF rest
    <2>2. rest[i - m] = words[i]
      BY <1>2, <2>1
    <2> QED
      BY <2>1, <2>2 DEF Range
  <1>5. StandsFor(rest, words, chosen, m)
    BY <1>2, <1>4 DEF StandsFor
  <1> HIDE DEF first, rest
  <1> QED
    BY <1>3, <1>5 DEF Continues, first

LEMMA WordsAssociate ==
    \A a, b, c \in Seq(Words) : (a \o b) \o c = a \o (b \o c)
  <1> SUFFICES ASSUME NEW a \in Seq(Words), NEW b \in Seq(Words), NEW c \in Seq(Words)
               PROVE  (a \o b) \o c = a \o (b \o c)
    OBVIOUS
  <1> QED
    BY ConcatAssociative

LEMMA WordsStay ==
    \A a, b, c \in Seq(Words) :
        (a \o b) \o c \in Seq(Words) /\ (b # <<>> => (a \o b) \o c # <<>>)
  <1> SUFFICES ASSUME NEW a \in Seq(Words), NEW b \in Seq(Words), NEW c \in Seq(Words)
               PROVE  (a \o b) \o c \in Seq(Words) /\ (b # <<>> => (a \o b) \o c # <<>>)
    OBVIOUS
  <1> DEFINE x == a \o b
             y == x \o c
  <1>1. x \in Seq(Words) /\ Len(x) = Len(a) + Len(b)
    OBVIOUS
  <1> HIDE DEF x
  <1>2. y \in Seq(Words) /\ Len(y) = Len(x) + Len(c)
    BY <1>1, SMTT(30)
  <1> HIDE DEF y
  <1>3. Len(a) \in Nat /\ Len(b) \in Nat /\ Len(c) \in Nat /\ (b # <<>> => Len(b) # 0)
    OBVIOUS
  <1>4. b # <<>> => Len(y) # 0
    BY <1>1, <1>2, <1>3
  <1>5. b # <<>> => y # <<>>
    BY <1>2, <1>4
  <1> QED
    BY <1>2, <1>5 DEF x, y

(* An edit that starts before all those made keeps the words before it,    *)
(* the digits it replaces and every word no edit replaces.                 *)
LEMMA SpliceContinues ==
    ASSUME NEW words \in Seq(Words), NEW chosen, NEW e \in chosen,
           e.start \in 0 .. Len(words), e.end \in e.start .. Len(words),
           e.replacement \in Seq(Words), KeepsDigits(e, words),
           NEW text, Continues(text, words, chosen, e.end),
           NEW m \in 0 .. e.start
    PROVE  /\ Continues(Splice(text, e), words, chosen, m)
           /\ Splice(text, e) \in Seq(Words)
           /\ e.replacement # <<>> => Splice(text, e) # <<>>
  <1> DEFINE n == Len(words)
             s == e.start
             t == e.end
             new == e.replacement
             head == SubSeq(words, 0 + 1, t)
             before == SubSeq(words, 0 + 1, s)
             first == SubSeq(words, 0 + 1, m)
             second == SubSeq(words, m + 1, s)
             cut == SubSeq(words, s + 1, t)
             after == SubSeq(words, t + 1, n)
  <1>1. PICK rest : StandsFor(rest, words, chosen, t) /\ text = head \o rest
    BY DEF Continues
  <1>2. /\ n \in Nat /\ s \in Nat /\ t \in Nat /\ m \in Nat /\ m <= s /\ s <= t /\ t <= n
        /\ s \in 0 .. n /\ t \in s .. n /\ t \in 0 .. n /\ s \in 0 .. t /\ m \in 0 .. n
        /\ s \in m .. n /\ n \in t .. n /\ n \in s .. n /\ n \in 0 .. n /\ 0 \in 0 .. n /\ m \in 0 .. s
    OBVIOUS
  <1>3. /\ rest \in Seq(Words) /\ Digits(rest) = Digits(after)
        /\ \A i \in t + 1 .. n : Untouched(i, chosen) => words[i] \in Range(rest)
    BY <1>1 DEF StandsFor
  <1>4. new \in Seq(Words) /\ Digits(cut) = Digits(new)
    BY DEF KeepsDigits
  <1> HIDE DEF s, t, new, n
  <1>5. /\ head \in Seq(Words) /\ Len(head) = t
        /\ before \in Seq(Words) /\ Len(before) = s
        /\ first \in Seq(Words) /\ cut \in Seq(Words) /\ after \in Seq(Words)
        /\ second \in Seq(Words) /\ Len(second) = s - m
        /\ \A i \in 1 .. s - m : second[i] = words[m + i]
    <2>1. head \in Seq(Words) /\ Len(head) = t - 0
      BY <1>2, SubSeqIs DEF n
    <2>2. before \in Seq(Words) /\ Len(before) = s - 0
      BY <1>2, SubSeqIs DEF n
    <2>3. first \in Seq(Words)
      BY <1>2, SubSeqIs DEF n
    <2>4. second \in Seq(Words) /\ Len(second) = s - m /\ \A i \in 1 .. s - m : second[i] = words[m + i]
      BY <1>2, SubSeqIs DEF n
    <2>5. cut \in Seq(Words)
      BY <1>2, SubSeqIs DEF n
    <2>6. after \in Seq(Words)
      BY <1>2, SubSeqIs DEF n
    <2> HIDE DEF head, before, first, second, cut, after
    <2>7. t - 0 = t /\ s - 0 = s
      BY <1>2
    <2> QED
      BY <2>1, <2>2, <2>3, <2>4, <2>5, <2>6, <2>7
  <1>6. before = SubSeq(head, 0 + 1, s)
    <2>1. head \o after = words
      <3>1. SubSeq(words, 0 + 1, n) = words
        BY WholeList DEF n
      <3>2. SubSeq(words, 0 + 1, n) = head \o after
        BY <1>2, SubSeqSplits DEF n
      <3> QED
        BY <3>1, <3>2
    <2>2. s \in 0 .. Len(head)
      BY <1>2, <1>5
    <2> HIDE DEF head, after
    <2>3. SubSeq(head \o after, 0 + 1, s) = SubSeq(head, 0 + 1, s)
      BY <1>5, <2>2, ConcatParts, ZenonT(30)
    <2> QED
      BY <2>1, <2>3
  <1>7. before = first \o second
    BY <1>2, SubSeqSplits DEF n
  <1>8. SubSeq(words, m + 1, n) = second \o (cut \o after)
    <2>1. SubSeq(words, m + 1, n) = second \o SubSeq(words, s + 1, n)
      BY <1>2, SubSeqSplits DEF n
    <2>2. SubSeq(words, s + 1, n) = cut \o after
      BY <1>2, SubSeqSplits DEF n
    <2> QED
      BY <2>1, <2>2
  <1> HIDE DEF head, before, first, second, cut, after
  <1>9. Splice(text, e) = (before \o new) \o rest
    <2>1. s \in 0 .. Len(head)
      BY <1>2, <1>5
    <2>2. /\ SubSeq(head \o rest, 0 + 1, s) = SubSeq(head, 0 + 1, s)
          /\ SubSeq(head \o rest, Len(head) + 1, Len(head \o rest)) = rest
      BY <1>3, <1>5, <2>1, ConcatParts, ZenonT(30)
    <2>3. SubSeq(text, 0 + 1, s) = before /\ SubSeq(text, t + 1, Len(text)) = rest
      BY <1>1, <1>5, <1>6, <2>2
    <2>4. Splice(text, e) = (SubSeq(text, 1, s) \o new) \o SubSeq(text, t + 1, Len(text))
      BY DEF Splice, s, t, new
    <2>5. 0 + 1 = 1
      OBVIOUS
    <2> QED
      BY <2>3, <2>4, <2>5
  <1> DEFINE more == second \o (new \o rest)
  <1>10. Splice(text, e) = first \o more
    <2>1. new \o rest \in Seq(Words) /\ before \o new \in Seq(Words)
      BY <1>3, <1>4, <1>5
    <2>2. (before \o new) \o rest = before \o (new \o rest)
      <3>1. before \in Seq(Words) /\ new \in Seq(Words) /\ rest \in Seq(Words)
        BY <1>3, <1>4, <1>5
      <3> QED
        BY <3>1, WordsAssociate, ZenonT(30)
    <2> DEFINE tail == new \o rest
    <2>3. tail \in Seq(Words)
      BY <2>1
    <2> HIDE DEF tail
    <2>4. (first \o second) \o tail = first \o (second \o tail)
      <3>1. first \in Seq(Words) /\ second \in Seq(Words) /\ tail \in Seq(Words)
        BY <1>5, <2>3
      <3> QED
        BY <3>1, WordsAssociate, ZenonT(30)
    <2> QED
      BY <1>7, <1>9, <2>2, <2>4 DEF tail
  <1>11. Digits(more) = Digits(SubSeq(words, m + 1, n))
    <2> DEFINE newer == new \o rest
               older == cut \o after
    <2>1. newer \in Seq(Words) /\ older \in Seq(Words)
      BY <1>3, <1>4, <1>5
    <2>2. Digits(newer) = Digits(new) \o Digits(rest) /\ Digits(older) = Digits(cut) \o Digits(after)
      BY <1>3, <1>4, <1>5, DigitsConcat
    <2>3. Digits(newer) = Digits(older)
      BY <1>3, <1>4, <2>2
    <2> HIDE DEF newer, older
    <2>4. Digits(second \o newer) = Digits(second) \o Digits(newer)
      BY <1>5, <2>1, DigitsConcat
    <2>5. Digits(second \o older) = Digits(second) \o Digits(older)
      BY <1>5, <2>1, DigitsConcat
    <2>6. Digits(second \o newer) = Digits(second \o older)
      BY <2>3, <2>4, <2>5
    <2> QED
      BY <1>8, <2>6 DEF newer, older
  <1>12. more \in Seq(Words) /\ Range(more) = Range(second) \cup (Range(new) \cup Range(rest))
    <2> DEFINE newer == new \o rest
    <2>1. newer \in Seq(Words) /\ Range(newer) = Range(new) \cup Range(rest)
      BY <1>3, <1>4, RangeConcatenation
    <2> HIDE DEF newer
    <2>2. second \o newer \in Seq(Words) /\ Range(second \o newer) = Range(second) \cup Range(newer)
      BY <1>5, <2>1, RangeConcatenation, SMTT(30)
    <2> QED
      BY <2>1, <2>2 DEF newer
  <1> HIDE DEF more
  <1>13. ASSUME NEW i \in m + 1 .. n, Untouched(i, chosen) PROVE words[i] \in Range(more)
    <2>1. i <= s \/ i > t
      BY <1>13 DEF Untouched, s, t
    <2>2. CASE i <= s
      <3>1. i - m \in 1 .. s - m /\ m + (i - m) = i /\ DOMAIN second = 1 .. s - m
        BY <1>2, <1>5, <2>2
      <3>2. words[i] = second[i - m]
        BY <1>5, <3>1
      <3>3. words[i] \in Range(second)
        BY <3>1, <3>2 DEF Range
      <3> QED
        BY <1>12, <3>3
    <2>3. CASE i > t
      <3>1. i \in t + 1 .. n
        BY <1>2, <2>3
      <3> QED
        BY <1>3, <1>12, <1>13, <3>1
    <2> QED
      BY <2>1, <2>2, <2>3
  <1>14. StandsFor(more, words, chosen, m)
    BY <1>11, <1>12, <1>13 DEF StandsFor, n
  <1>15. Splice(text, e) \in Seq(Words) /\ (new # <<>> => Splice(text, e) # <<>>)
    <2>1. before \in Seq(Words) /\ new \in Seq(Words) /\ rest \in Seq(Words)
      BY <1>3, <1>4, <1>5
    <2>2. /\ (before \o new) \o rest \in Seq(Words)
          /\ new # <<>> => (before \o new) \o rest # <<>>
      BY <2>1, WordsStay, Zenon
    <2> QED
      BY <1>9, <2>2
  <1> QED
    BY <1>10, <1>14, <1>15 DEF Continues, first, new

(* Edits that can be made at once.                                          *)
Compatible(chosen, words) ==
    /\ \A e \in chosen : /\ e.start \in 0 .. Len(words) /\ e.end \in e.start .. Len(words)
                        /\ e.replacement \in Seq(Words) /\ e.replacement # <<>>
                        /\ KeepsDigits(e, words)
    /\ \A e, f \in chosen : e = f \/ Apart(e, f)

(* One step of apply_edits, and what is true after the k-th: the edits that *)
(* start at Len(words) + 1 - k or later are made.                           *)
Spliced(words, chosen, k, text) ==
    LET here == {e \in chosen : e.start = Len(words) + 1 - k}
    IN IF here = {} THEN text ELSE Splice(text, CHOOSE e \in here : TRUE)

Made(words, chosen, k, text) ==
    /\ text \in Seq(Words) /\ text # <<>>
    /\ \A m \in 0 .. Len(words) :
         (\A e \in chosen : e.start >= Len(words) + 1 - k => m <= e.start)
            => Continues(text, words, chosen, m)

(* The next edit finds the words it replaces where they were.              *)
LEMMA OneMoreMade ==
    ASSUME NEW words \in Seq(Words), NEW chosen, Compatible(chosen, words),
           NEW k \in 0 .. Len(words), NEW text, Made(words, chosen, k, text)
    PROVE  Made(words, chosen, k + 1, Spliced(words, chosen, k + 1, text))
  <1> DEFINE n == Len(words)
             s == n + 1 - (k + 1)
             here == {e \in chosen : e.start = s}
             after == Spliced(words, chosen, k + 1, text)
  <1>0. n \in Nat /\ k \in Nat /\ s \in 0 .. n /\ n + 1 - k = s + 1
    OBVIOUS
  <1>1. CASE here = {}
    <2>1. after = text
      BY <1>1 DEF Spliced
    <2>2. ASSUME NEW m \in 0 .. n, \A e \in chosen : e.start >= s => m <= e.start
          PROVE  Continues(text, words, chosen, m)
      <3>1. \A e \in chosen : e.start >= n + 1 - k => m <= e.start
        <4> SUFFICES ASSUME NEW e \in chosen, e.start >= n + 1 - k PROVE m <= e.start
          OBVIOUS
        <4>1. e.start \in Int
          BY DEF Compatible
        <4>2. e.start >= s
          BY <1>0, <4>1
        <4> QED
          BY <2>2, <4>2
      <3> QED
        BY <3>1 DEF Made
    <2> QED
      BY <2>1, <2>2 DEF Made
  <1>2. CASE here # {}
    <2> DEFINE e == CHOOSE f \in here : TRUE
    <2>1. e \in chosen /\ e.start = s
      <3>1. e \in here
        BY <1>2
      <3> QED
        BY <3>1
    <2>2. after = Splice(text, e)
      BY <1>2 DEF Spliced
    <2> HIDE DEF e
    <2>3. /\ e.start \in 0 .. n /\ e.end \in e.start .. n /\ e.replacement \in Seq(Words)
          /\ e.replacement # <<>> /\ KeepsDigits(e, words)
      BY <2>1 DEF Compatible
    <2>4. Continues(text, words, chosen, e.end)
      <3>1. e.end \in 0 .. n
        BY <1>0, <2>3
      <3>2. ASSUME NEW f \in chosen, f.start >= n + 1 - k PROVE e.end <= f.start
        <4>1. f.start \in Int /\ f.end \in Int /\ f.start <= f.end /\ e.end \in Int
          BY <2>3 DEF Compatible
        <4>2. e # f
          BY <1>0, <2>1, <3>2
        <4>3. Apart(e, f)
          BY <2>1, <4>2 DEF Compatible
        <4> QED
          BY <1>0, <2>1, <3>2, <4>1, <4>3 DEF Apart
      <3> QED
        BY <3>1, <3>2 DEF Made
    <2>5. \A m \in 0 .. e.start : /\ Continues(Splice(text, e), words, chosen, m)
                                  /\ Splice(text, e) \in Seq(Words)
                                  /\ e.replacement # <<>> => Splice(text, e) # <<>>
      BY <2>1, <2>3, <2>4, SpliceContinues
    <2>6. ASSUME NEW m \in 0 .. n, \A f \in chosen : f.start >= s => m <= f.start
          PROVE  Continues(Splice(text, e), words, chosen, m)
      <3>1. m <= e.start
        BY <1>0, <2>1, <2>6
      <3>2. m \in 0 .. e.start
        BY <2>3, <3>1
      <3> QED
        BY <2>5, <3>2
    <2>7. 0 \in 0 .. e.start
      BY <2>3
    <2> QED
      BY <2>2, <2>3, <2>5, <2>6, <2>7 DEF Made
  <1> QED
    BY <1>1, <1>2

LEMMA NothingMade ==
    ASSUME NEW words \in Seq(Words), words # <<>>, NEW chosen
    PROVE  Made(words, chosen, 0, words)
  BY WordsContinue DEF Made

(* apply_edits, from the last edit to the first.                           *)
LEMMA EditsApplied ==
    ASSUME NEW words \in Seq(Words), words # <<>>, NEW chosen, Compatible(chosen, words)
    PROVE  Made(words, chosen, Len(words) + 1, ApplyEdits(words, chosen))
  <1> DEFINE n == Len(words) + 1
             S == Seq(Words)
             step == [k \in 1 .. n |-> [t \in S |-> IF Spliced(words, chosen, k, t) \in S
                                                   THEN Spliced(words, chosen, k, t) ELSE words]]
             Is(h) == h = [k \in 0 .. n |-> IF k = 0 THEN words
                                            ELSE Spliced(words, chosen, k, h[k - 1])]
             F == CHOOSE h : Is(h)
  <1>0. n \in Nat
    OBVIOUS
  <1>1. step \in [1 .. n -> [S -> S]] /\ words \in S
    <2> HIDE DEF S
    <2>1. words \in S
      BY DEF S
    <2> QED
      BY <2>1
  <1>2. PICK f \in [0 .. n -> S] : Follows(f, n, words, step)
    <2> HIDE DEF n, S, step
    <2> QED
      BY <1>0, <1>1, Recursion
  <1>3. f[0] = words
    BY <1>0, <1>2 DEF Follows
  <1>4. ASSUME NEW k \in 1 .. n, Spliced(words, chosen, k, f[k - 1]) \in S
        PROVE  f[k] = Spliced(words, chosen, k, f[k - 1])
    <2>1. k \in 0 .. n /\ k # 0 /\ k - 1 \in 0 .. n
      BY <1>0
    <2>2. f[k] = step[k][f[k - 1]] /\ f[k - 1] \in S
      BY <1>2, <2>1 DEF Follows
    <2> HIDE DEF S
    <2> QED
      BY <1>4, <2>2
  <1> DEFINE made(h) == {k \in 0 .. n : Made(words, chosen, k, h[k])}
  <1>5. ASSUME NEW h, h[0] = words,
               \A k \in 1 .. n : Made(words, chosen, k - 1, h[k - 1])
                                    => h[k] = Spliced(words, chosen, k, h[k - 1])
        PROVE  \A k \in 0 .. n : Made(words, chosen, k, h[k])
    <2> DEFINE T == {k \in 0 .. n : Made(words, chosen, k, h[k])}
    <2>1. 0 \in T
      BY <1>0, <1>5, NothingMade
    <2>2. ASSUME NEW k \in 0 .. n - 1, k \in T PROVE k + 1 \in T
      <3>1. k + 1 \in 1 .. n /\ k + 1 \in 0 .. n /\ (k + 1) - 1 = k /\ k \in 0 .. Len(words)
        BY <1>0
      <3>2. h[k + 1] = Spliced(words, chosen, k + 1, h[k])
        BY <1>5, <2>2, <3>1
      <3>3. Made(words, chosen, k + 1, h[k + 1])
        BY <2>2, <3>1, <3>2, OneMoreMade
      <3> QED
        BY <3>1, <3>3
    <2>3. T = 0 .. n
      <3>1. T \in SUBSET (0 .. n)
        OBVIOUS
      <3> HIDE DEF T, n
      <3> QED
        BY <1>0, <2>1, <2>2, <3>1, Induction
    <2> QED
      BY <2>3
  <1>6. \A k \in 1 .. n : f[k] = Spliced(words, chosen, k, f[k - 1])
    <2>1. ASSUME NEW k \in 1 .. n, Made(words, chosen, k - 1, f[k - 1])
          PROVE  f[k] = Spliced(words, chosen, k, f[k - 1])
      <3>1. k - 1 \in 0 .. Len(words) /\ (k - 1) + 1 = k
        BY <1>0
      <3>2. Made(words, chosen, k, Spliced(words, chosen, k, f[k - 1]))
        BY <2>1, <3>1, OneMoreMade
      <3> QED
        BY <1>4, <3>2 DEF Made
    <2>2. \A k \in 0 .. n : Made(words, chosen, k, f[k])
      <3> HIDE DEF n
      <3> QED
        BY <1>3, <1>5, <2>1
    <2>3. \A k \in 1 .. n : k - 1 \in 0 .. n
      BY <1>0
    <2> HIDE DEF n
    <2> QED
      BY <2>1, <2>2, <2>3
  <1>7. Is(f)
    <2>1. f = [k \in 0 .. n |-> f[k]]
      OBVIOUS
    <2>2. \A k \in 0 .. n : f[k] = IF k = 0 THEN words ELSE Spliced(words, chosen, k, f[k - 1])
      <3>1. \A k \in 0 .. n : k # 0 => k \in 1 .. n
        BY <1>0
      <3> HIDE DEF n
      <3> QED
        BY <1>3, <1>6, <3>1
    <2> HIDE DEF n, S
    <2> QED
      BY <2>1, <2>2
  <1>8. Is(F)
    <2> HIDE DEF Is
    <2> QED
      BY <1>7
  <1>9. ApplyEdits(words, chosen) = F[n]
    BY DEF ApplyEdits, Spliced
  <1>10. \A k \in 0 .. n : F[k] = IF k = 0 THEN words ELSE Spliced(words, chosen, k, F[k - 1])
    <2> HIDE DEF F
    <2> QED
      BY <1>8
  <1> HIDE DEF F
  <1>11. F[0] = words /\ \A k \in 1 .. n : F[k] = Spliced(words, chosen, k, F[k - 1])
    <2>1. 0 \in 0 .. n /\ \A k \in 1 .. n : k \in 0 .. n /\ k # 0
      BY <1>0
    <2> HIDE DEF n
    <2> QED
      BY <1>10, <2>1
  <1>12. \A k \in 0 .. n : Made(words, chosen, k, F[k])
    <2> HIDE DEF n
    <2> QED
      BY <1>5, <1>11
  <1>13. n \in 0 .. n
    BY <1>0
  <1> HIDE DEF n
  <1>14. Made(words, chosen, n, F[n])
    BY <1>12, <1>13
  <1> QED
    BY <1>9, <1>14 DEF n

(* A text the edits were made on.                                           *)
LEMMA EditedText ==
    ASSUME NEW words \in Seq(Words), words # <<>>, NEW chosen, Compatible(chosen, words)
    PROVE  /\ ApplyEdits(words, chosen) \in Seq(Words) /\ ApplyEdits(words, chosen) # <<>>
           /\ Digits(ApplyEdits(words, chosen)) = Digits(words)
           /\ \A i \in DOMAIN words : Untouched(i, chosen) => words[i] \in ToSet(ApplyEdits(words, chosen))
  <1> DEFINE text == ApplyEdits(words, chosen)
  <1>1. Made(words, chosen, Len(words) + 1, text)
    BY EditsApplied
  <1> HIDE DEF text
  <1>2. Continues(text, words, chosen, 0)
    <2>1. 0 \in 0 .. Len(words) /\ \A e \in chosen : 0 <= e.start
      BY DEF Compatible
    <2> QED
      BY <1>1, <2>1 DEF Made
  <1>3. PICK rest : StandsFor(rest, words, chosen, 0) /\ text = SubSeq(words, 0 + 1, 0) \o rest
    BY <1>2 DEF Continues
  <1>4. text = rest
    <2>1. rest \in Seq(Words) /\ SubSeq(words, 0 + 1, 0) = <<>>
      BY <1>3, WholeList DEF StandsFor
    <2>2. <<>> \o rest = rest
      BY <2>1
    <2> QED
      BY <1>3, <2>1, <2>2, Zenon
  <1>5. SubSeq(words, 0 + 1, Len(words)) = words
    BY WholeList
  <1>6. Digits(text) = Digits(words)
    BY <1>3, <1>4, <1>5 DEF StandsFor
  <1>7. \A i \in DOMAIN words : Untouched(i, chosen) => words[i] \in ToSet(text)
    <2>1. \A i \in DOMAIN words : i \in 0 + 1 .. Len(words)
      OBVIOUS
    <2>2. ToSet(text) = Range(text)
      BY DEF ToSet, Range
    <2> QED
      BY <1>3, <1>4, <2>1, <2>2 DEF StandsFor
  <1> QED
    BY <1>1, <1>6, <1>7 DEF Made, text

-----------------------------------------------------------------------------
(* The correction of a page, through all its steps.                        *)

(* The agreed edits of a line can all be made.                             *)
LEMMA AgreedAreCompatible ==
    ASSUME NEW words \in Seq(Words), NEW answers, ThreeAnswers(answers, words)
    PROVE  Compatible(Agreed(answers, words), words)
  <1>1. ASSUME NEW e \in Agreed(answers, words)
        PROVE  /\ e.start \in 0 .. Len(words) /\ e.end \in e.start .. Len(words)
               /\ e.replacement \in Seq(Words) /\ e.replacement # <<>> /\ KeepsDigits(e, words)
    <2>1. e \in UNION Range(answers) /\ e.replacement # <<>> /\ KeepsDigits(e, words)
      BY DEF Agreed
    <2>2. /\ e.start \in 0 .. Len(words) /\ e.end \in 0 .. Len(words)
          /\ e.start <= e.end /\ e.replacement \in Seq(Words)
      BY <2>1, ProposedShape
    <2> QED
      BY <2>1, <2>2
  <1>2. ASSUME NEW e \in Agreed(answers, words), NEW f \in Agreed(answers, words)
        PROVE  e = f \/ Apart(e, f)
    <2>1. HasMajority(e, answers) /\ HasMajority(f, answers)
      BY DEF Agreed
    <2> QED
      BY <2>1, MajoritiesNeverOverlap
  <1> QED
    BY <1>1, <1>2 DEF Compatible

LEMMA ConsensusText ==
    ASSUME NEW words \in Seq(Words), words # <<>>, NEW answers, ThreeAnswers(answers, words)
    PROVE  /\ Consensus(answers, words) = ApplyEdits(words, Agreed(answers, words))
           /\ Consensus(answers, words) \in Seq(Words) /\ Consensus(answers, words) # <<>>
           /\ Digits(Consensus(answers, words)) = Digits(words)
           /\ \A i \in DOMAIN words : Untouched(i, Agreed(answers, words))
                                        => words[i] \in ToSet(Consensus(answers, words))
  <1>1. Consensus(answers, words) = ApplyEdits(words, Agreed(answers, words))
    BY ApprovedAreAgreed DEF Consensus
  <1>2. Compatible(Agreed(answers, words), words)
    BY AgreedAreCompatible
  <1> DEFINE A == Agreed(answers, words)
  <1> HIDE DEF A
  <1>3. /\ ApplyEdits(words, A) \in Seq(Words) /\ ApplyEdits(words, A) # <<>>
        /\ Digits(ApplyEdits(words, A)) = Digits(words)
        /\ \A i \in DOMAIN words : Untouched(i, A) => words[i] \in ToSet(ApplyEdits(words, A))
    BY <1>2, EditedText DEF A
  <1> QED
    BY <1>1, <1>3 DEF A

(* The last line the LLM was asked about, and what came of it.              *)
HeardHolds(heard) ==
    heard.answers # <<>> =>
        /\ heard.words \in Seq(Words) /\ heard.words # <<>>
        /\ ThreeAnswers(heard.answers, heard.words)
        /\ heard.text = Consensus(heard.answers, heard.words)

OcrFields == {"stage", "raw", "lines", "bases", "joins", "at", "llm_enabled", "heard"}

RulesHold(read) ==
    read.stage # "idle" =>
        /\ read.raw \in Seq(Lines) /\ read.lines \in Seq(Lines) /\ read.at \in Nat \ {0}
        /\ Len(read.bases) = Len(read.lines) /\ Len(read.joins) = Len(read.lines)
        /\ AllWords(read.bases) = AllWords(TextsOf(CleanLines(Postprocess(read.raw))))
        /\ \A i \in 1 .. Len(read.lines) :
             /\ read.lines[i].text # <<>>
             /\ \/ Letters(read.lines[i].text) = Letters(read.bases[i])
                \/ i < read.at /\ NeedsLlm(read.lines[i])

OcrInv == DOMAIN ocr = OcrFields /\ HeardHolds(ocr.heard) /\ RulesHold(ocr)

LEMMA NoPageHolds ==
    ASSUME ocr = NoPageRead
    PROVE  OcrInv
  BY DEF OcrInv, OcrFields, NoPageRead, NotHeard, HeardHolds, RulesHold

(* The rules keep the letters of what the OCR read.                        *)
LEMMA RunOcrKeeps ==
    ASSUME OcrInv, NEW raw \in Seq(Lines), NEW configured, RunOcr(raw, configured)
    PROVE  OcrInv'
  <1> DEFINE processed == Postprocess(raw)
             ruled == ApplyCorrectionRules(processed, Vocabulary(processed))
  <1>1. /\ ocr' = [stage |-> "correcting", raw |-> raw, lines |-> ruled.lines,
                   bases |-> ruled.bases, joins |-> ruled.joins, at |-> 1,
                   llm_enabled |-> configured, heard |-> NotHeard]
    BY DEF RunOcr, NoPageRead
  <1>2. ruled \in Aligned /\ AllWords(ruled.bases) = AllWords(TextsOf(CleanLines(processed)))
    BY RulesKeepLetters
  <1> HIDE DEF ruled, processed
  <1>3. ruled.lines \in Seq(Lines) /\ InStep(ruled.lines, ruled.bases, ruled.joins)
    BY <1>2 DEF Aligned, Merges
  <1>4. RulesHold(ocr')
    BY <1>1, <1>2, <1>3 DEF RulesHold, InStep, processed
  <1>5. DOMAIN ocr' = OcrFields /\ HeardHolds(ocr'.heard)
    BY <1>1 DEF OcrFields, HeardHolds, NotHeard
  <1> QED
    BY <1>4, <1>5 DEF OcrInv

(* A line that stays as it is, for whatever reason.                        *)
LEMMA NextLineKeeps ==
    ASSUME OcrInv, KeepLine \/ CorrectionFails \/ AnnotateLines
    PROVE  OcrInv'
  <1>1. /\ DOMAIN ocr' = OcrFields /\ ocr'.heard = NotHeard
        /\ ocr'.raw = ocr.raw /\ ocr'.lines = ocr.lines /\ ocr'.bases = ocr.bases
        /\ ocr'.joins = ocr.joins /\ ocr'.at \in {ocr.at, ocr.at + 1}
        /\ ocr.stage # "idle"
    BY DEF OcrInv, OcrFields, KeepLine, CorrectionFails, AnnotateLines, Correcting
  <1>2. ocr.at \in Nat \ {0}
    BY <1>1 DEF OcrInv, RulesHold
  <1>3. ocr'.at \in Nat \ {0} /\ \A i \in 1 .. Len(ocr.lines) : i < ocr.at => i < ocr'.at
    BY <1>1, <1>2
  <1>4. RulesHold(ocr')
    BY <1>1, <1>3 DEF OcrInv, RulesHold
  <1>5. HeardHolds(ocr'.heard)
    BY <1>1 DEF HeardHolds, NotHeard
  <1> QED
    BY <1>1, <1>4, <1>5 DEF OcrInv

(* A line three answers were asked about.                                  *)
LEMMA CorrectLineKeeps ==
    ASSUME OcrInv, NEW answers, DOMAIN answers = 1 .. 3, CorrectLine(answers)
    PROVE  OcrInv'
  <1> DEFINE n == Len(ocr.lines)
             at == ocr.at
             line == ocr.lines[at]
             words == line.text
             text == Consensus(answers, words)
             changed == [line EXCEPT !.text = text]
  <1>1. /\ ocr.stage = "correcting" /\ at <= n /\ NeedsLlm(line)
        /\ \A i \in DOMAIN answers : IsAnswer(answers[i], words)
        /\ ocr' = [ocr EXCEPT !.lines[ocr.at].text = text, !.at = @ + 1,
                              !.heard = [words |-> words, answers |-> answers, text |-> text]]
    BY DEF CorrectLine, Correcting, Doubtful
  <1>2. /\ ocr.raw \in Seq(Lines) /\ ocr.lines \in Seq(Lines) /\ at \in Nat \ {0}
        /\ Len(ocr.bases) = n /\ Len(ocr.joins) = n
        /\ AllWords(ocr.bases) = AllWords(TextsOf(CleanLines(Postprocess(ocr.raw))))
        /\ \A i \in 1 .. n : /\ ocr.lines[i].text # <<>>
                             /\ \/ Letters(ocr.lines[i].text) = Letters(ocr.bases[i])
                                \/ i < at /\ NeedsLlm(ocr.lines[i])
    BY <1>1 DEF OcrInv, RulesHold
  <1>3. n \in Nat /\ at \in 1 .. n /\ line \in Lines /\ words # <<>> /\ words \in Seq(Words)
    <2>1. n \in Nat /\ at \in 1 .. n
      BY <1>1, <1>2
    <2>2. line \in Lines /\ words # <<>>
      BY <1>2, <2>1
    <2>3. words \in Seq(Words)
      BY <2>2 DEF Lines
    <2> QED
      BY <2>1, <2>2, <2>3
  <1>4. ThreeAnswers(answers, words)
    BY <1>1 DEF ThreeAnswers
  <1> HIDE DEF words, text
  <1>5. text \in Seq(Words) /\ text # <<>>
    BY <1>3, <1>4, ConsensusText DEF text
  <1>6. changed \in Lines /\ changed.text = text /\ (NeedsLlm(changed) <=> NeedsLlm(line))
    <2>1. changed \in Lines /\ changed.text = text /\ changed.conf = line.conf
      BY <1>3, <1>5 DEF Lines
    <2> QED
      BY <2>1 DEF NeedsLlm
  <1> DEFINE lines == [ocr.lines EXCEPT ![at] = changed]
  <1>7. /\ DOMAIN ocr' = OcrFields /\ ocr'.stage = ocr.stage /\ ocr'.raw = ocr.raw
        /\ ocr'.bases = ocr.bases /\ ocr'.joins = ocr.joins /\ ocr'.at = at + 1
        /\ ocr'.lines = lines
        /\ ocr'.heard = [words |-> words, answers |-> answers, text |-> text]
    BY <1>1 DEF OcrInv, OcrFields
  <1> HIDE DEF changed, line
  <1>8. /\ lines \in Seq(Lines) /\ Len(lines) = n /\ lines[at] = changed
        /\ \A i \in 1 .. n : i # at => lines[i] = ocr.lines[i]
    BY <1>2, <1>3, <1>6
  <1> HIDE DEF lines
  <1>9. ASSUME NEW i \in 1 .. n
        PROVE  /\ lines[i].text # <<>>
               /\ \/ Letters(lines[i].text) = Letters(ocr.bases[i])
                  \/ i < at + 1 /\ NeedsLlm(lines[i])
    <2>1. CASE i = at
      BY <1>1, <1>2, <1>5, <1>6, <1>8, <2>1
    <2>2. CASE i # at
      <3>1. lines[i] = ocr.lines[i] /\ (i < at => i < at + 1)
        BY <1>2, <1>8, <2>2
      <3> HIDE DEF at
      <3> QED
        BY <1>2, <3>1
    <2> QED
      BY <2>1, <2>2
  <1>10. RulesHold(ocr')
    BY <1>2, <1>7, <1>8, <1>9 DEF RulesHold
  <1>11. HeardHolds(ocr'.heard)
    BY <1>3, <1>4, <1>7 DEF HeardHolds, text
  <1> QED
    BY <1>7, <1>10, <1>11 DEF OcrInv

LEMMA OcrNextKeeps ==
    ASSUME OcrInv, OcrNext
    PROVE  OcrInv'
  <1>1. CASE KeepLine \/ CorrectionFails \/ AnnotateLines
    BY <1>1, NextLineKeeps
  <1>2. ASSUME NEW answers \in [1 .. 3 -> Answers(ocr.lines[ocr.at].text)], CorrectLine(answers)
        PROVE  OcrInv'
    <2>1. DOMAIN answers = 1 .. 3
      OBVIOUS
    <2> QED
      BY <1>2, <2>1, CorrectLineKeeps
  <1> QED
    BY <1>1, <1>2 DEF OcrNext

(* Only the correction of the page under way touches it.                   *)
LEMMA OcrSteps ==
    ASSUME [Next]_vars
    PROVE  \/ UNCHANGED ocr \/ OcrNext
           \/ \E p \in Pages : StartOcr(p) \/ StoreOcr(p) \/ ResultFails(p)
  <1>1. ASSUME NEW p \in Pages, TaskStep(p)
        PROVE  UNCHANGED ocr \/ StartOcr(p) \/ StoreOcr(p) \/ ResultFails(p)
    BY <1>1 DEF TaskStep, ClaimPage, PageFails, SourceMissing, OcrFails, RenderFails, ExtractPdfPageText,
                PersistPdfPageImage, RenderForViewerFails, StorePdfText, FindReusablePage,
                ReadReusableChunks, StoreCopy
  <1>2. ASSUME NEW p \in Pages, EditStep(p) \/ Finalize(p) \/ SyncPage(p) \/ Withdraw(p)
        PROVE  UNCHANGED ocr
    BY <1>2 DEF EditStep, CheckEdit, EditPageText, EditFails, LoadPage, DeleteChunks, Finalize, FinalizeManual, SyncPage, SyncPageRag, Withdraw, DeleteManual,
                BeginReprocessing
  <1>3. (\/ \E ids \in purges : DeleteChunksFromRag(ids)
         \/ \E u \in Users, words \in Questions : AskGame(u, words)
         \/ RetrieveChunks \/ GenerateGameAnswer \/ Answer) => UNCHANGED ocr
    BY DEF DeleteChunksFromRag, AskGame, RetrieveChunks, GenerateGameAnswer, Answer
  <1> QED
    BY <1>1, <1>2, <1>3 DEF Next, vars

LEMMA OcrInvNext ==
    ASSUME OcrInv, [Next]_vars
    PROVE  OcrInv'
  <1>1. CASE UNCHANGED ocr
    BY <1>1 DEF OcrInv
  <1>2. CASE OcrNext
    BY <1>2, OcrNextKeeps
  <1>3. ASSUME NEW p \in Pages, StartOcr(p) PROVE OcrInv'
    <2>1. PICK raw \in OcrReadings[Image[p]], configured \in BOOLEAN : RunOcr(raw, configured)
      BY <1>3 DEF StartOcr
    <2>2. raw \in Seq(Lines)
      BY <2>1, ReadingsAssumption
    <2> QED
      BY <2>1, <2>2, RunOcrKeeps
  <1>4. ASSUME NEW p \in Pages, StoreOcr(p) \/ ResultFails(p) PROVE OcrInv'
    <2>1. ocr' = NoPageRead
      BY <1>4 DEF StoreOcr, ResultFails
    <2> QED
      BY <2>1 DEF OcrInv, OcrFields, NoPageRead, NotHeard, HeardHolds, RulesHold
  <1> QED
    BY <1>1, <1>2, <1>3, <1>4, OcrSteps

LEMMA OcrInvAlways == Spec => []OcrInv
  <1>1. Init => OcrInv
    BY NoPageHolds DEF Init, PageTextInit, OcrInit
  <1>2. OcrInv /\ [Next]_vars => OcrInv'
    BY OcrInvNext
  <1> QED
    BY <1>1, <1>2, PTL DEF Spec

(* On every page, for any readings, vocabulary and thresholds:             *)
(* postprocess_ocr_lines, clean_ocr_lines and merge_hyphenated_lines drop  *)
(* whole lines or bullets and lose no letter of a line they keep, the      *)
(* three lists they give stay in step, and only lines the LLM was asked    *)
(* about differ from what the OCR read.                                    *)
THEOREM LettersAreKept == Spec => []NoLetterLost
  <1>1. OcrInv => NoLetterLost
    BY DEF OcrInv, RulesHold, NoLetterLost, Survivors
  <1> QED
    BY <1>1, OcrInvAlways, PTL

LEMMA ConsensusInAnyOrder ==
    ASSUME NEW words \in Seq(Words), words # <<>>, NEW answers, ThreeAnswers(answers, words),
           NEW order \in Bijection(1 .. 3, 1 .. 3)
    PROVE  Consensus([i \in 1 .. 3 |-> answers[order[i]]], words) = Consensus(answers, words)
  <1> DEFINE other == [i \in 1 .. 3 |-> answers[order[i]]]
  <1>1. \A i \in 1 .. 3 : order[i] \in 1 .. 3
    BY DEF Bijection, Injection
  <1>2. ThreeAnswers(other, words)
    BY <1>1 DEF ThreeAnswers
  <1>3. Agreed(other, words) = Agreed(answers, words)
    BY AgreedInAnyOrder DEF ThreeAnswers
  <1> HIDE DEF other
  <1>4. Consensus(other, words) = ApplyEdits(words, Agreed(other, words))
    BY <1>2, ConsensusText
  <1>5. Consensus(answers, words) = ApplyEdits(words, Agreed(answers, words))
    BY ConsensusText
  <1> QED
    BY <1>3, <1>4, <1>5 DEF other

(* For any line and any three answers, consensus_correction gives one      *)
(* text, whatever the order of the answers; the text has the digits of the *)
(* line in their order, is never empty, and has each word that no majority *)
(* replaces.                                                               *)
THEOREM MajoritiesDecide == Spec => []MajorityDecides
  <1>1. ASSUME OcrInv PROVE MajorityDecides
    <2> DEFINE words == ocr.heard.words
               answers == ocr.heard.answers
               text == ocr.heard.text
               majority == {e \in UNION Range(answers) : Votes(e, answers) >= 2}
               kept == {i \in DOMAIN words : \A e \in majority : i <= e.start \/ i > e.end}
    <2> HIDE DEF words, answers, text
    <2>1. SUFFICES ASSUME answers # <<>>
                   PROVE  /\ \A order \in Bijection(1 .. 3, 1 .. 3) :
                               Consensus([i \in 1 .. 3 |-> answers[order[i]]], words) = text
                          /\ Digits(text) = Digits(words)
                          /\ text # <<>>
                          /\ \A i \in kept : words[i] \in ToSet(text)
      BY DEF MajorityDecides, words, answers, text
    <2>2. /\ words \in Seq(Words) /\ words # <<>> /\ ThreeAnswers(answers, words)
          /\ text = Consensus(answers, words)
      BY <1>1, <2>1 DEF OcrInv, HeardHolds, words, answers, text
    <2>3. \A order \in Bijection(1 .. 3, 1 .. 3) :
             Consensus([i \in 1 .. 3 |-> answers[order[i]]], words) = text
      BY <2>2, ConsensusInAnyOrder
    <2>4. /\ text # <<>> /\ Digits(text) = Digits(words)
          /\ \A i \in DOMAIN words : Untouched(i, Agreed(answers, words)) => words[i] \in ToSet(text)
      BY <2>2, ConsensusText
    <2>5. \A i \in kept : Untouched(i, Agreed(answers, words))
      BY DEF Untouched, Agreed, HasMajority
    <2>6. \A i \in kept : words[i] \in ToSet(text)
      BY <2>4, <2>5
    <2> QED
      BY <2>3, <2>4, <2>6
  <1>2. OcrInv => MajorityDecides
    BY <1>1
  <1> QED
    BY <1>2, OcrInvAlways, PTL

-----------------------------------------------------------------------------
(* How a text is cut into chunks: Chunking, for any text and any sizes.    *)

LEMMA GreatestNatural ==
    ASSUME NEW n \in Nat, NEW T \in SUBSET (1 .. n), T # {}
    PROVE  \E x \in T : \A y \in T : y <= x
  <1> DEFINE mirror == {n - x : x \in T}
  <1>1. \A x \in T : x \in Nat /\ n - x \in Nat
    OBVIOUS
  <1>2. mirror \in SUBSET Nat
    BY <1>1
  <1>3. mirror # {}
    OBVIOUS
  <1>4. PICK m \in mirror : \A y \in mirror : m <= y
    <2> HIDE DEF mirror
    <2> QED
      BY <1>2, <1>3, LeastNatural
  <1>5. PICK x \in T : m = n - x
    BY <1>4
  <1>6. \A y \in T : n - x <= n - y
    BY <1>4, <1>5
  <1> QED
    BY <1>1, <1>5, <1>6

(* Two recursions with one beginning and one step are one.                 *)
LEMMA SameValues ==
    ASSUME NEW n \in Nat, NEW f, NEW g, f[0] = g[0],
           \A i \in 0 .. n - 1 : f[i] = g[i] => f[i + 1] = g[i + 1]
    PROVE  \A i \in 0 .. n : f[i] = g[i]
  <1> DEFINE same == {i \in 0 .. n : f[i] = g[i]}
  <1>1. same \in SUBSET (0 .. n) /\ 0 \in same
    OBVIOUS
  <1>2. ASSUME NEW i \in 0 .. n - 1, i \in same PROVE i + 1 \in same
    <2>1. i + 1 \in 0 .. n
      OBVIOUS
    <2> QED
      BY <1>2, <2>1
  <1>3. same = 0 .. n
    <2> HIDE DEF same
    <2> QED
      BY <1>1, <1>2, Induction
  <1> QED
    BY <1>3

(* Lists of lists with one at least.                                       *)
Lists(X) == {parts \in Seq(Seq(X)) : parts # <<>>}

LEMMA AddUnitTo ==
    ASSUME NEW X, NEW before \in Seq(Seq(X)), NEW last \in Seq(X), NEW u \in X, NEW sep
    PROVE  AddUnit(Append(before, last), u, sep)
              = IF u = sep THEN Append(Append(before, last), <<>>)
                ELSE Append(before, Append(last, u))
  <1> DEFINE seqs == Append(before, last)
             n == Len(before)
             more == Append(last, u)
             longer == [seqs EXCEPT ![Len(seqs)] = Append(@, u)]
  <1>0. /\ n \in Nat /\ seqs \in Seq(Seq(X)) /\ Len(seqs) = n + 1 /\ seqs[n + 1] = last
        /\ \A i \in 1 .. n : seqs[i] = before[i]
    OBVIOUS
  <1>1. /\ n \in Nat /\ seqs \in Seq(Seq(X)) /\ Len(seqs) = n + 1 /\ seqs[n + 1] = last
        /\ seqs \in [1 .. n + 1 -> Seq(X)]
        /\ \A i \in 1 .. n : seqs[i] = before[i]
    <2> DEFINE Y == Seq(X)
               m == n + 1
    <2>1. seqs \in Seq(Y) /\ Len(seqs) = m
      BY <1>0
    <2> HIDE DEF seqs, Y, m
    <2>2. seqs \in [1 .. m -> Y]
      BY <2>1
    <2> QED
      BY <1>0, <2>2 DEF Y, m
  <1>2. more \in Seq(X)
    OBVIOUS
  <1> HIDE DEF n, seqs
  <1>3. longer = [seqs EXCEPT ![n + 1] = more]
    BY <1>1
  <1>4. /\ longer \in Seq(Seq(X)) /\ Len(longer) = n + 1
        /\ longer[n + 1] = more /\ \A i \in 1 .. n : longer[i] = before[i]
    <2> HIDE DEF more, longer
    <2>1. longer \in [1 .. n + 1 -> Seq(X)]
      BY <1>1, <1>2, <1>3
    <2> DEFINE Y == Seq(X)
               m == n + 1
    <2>2. longer \in Seq(Y) /\ Len(longer) = m
      <3>1. longer \in [1 .. m -> Y] /\ m \in Nat
        BY <1>1, <2>1
      <3> HIDE DEF Y, m
      <3> QED
        BY <3>1, FunctionIsList
    <2>3. n + 1 \in 1 .. n + 1 /\ \A i \in 1 .. n : i \in 1 .. n + 1 /\ i # n + 1
      BY <1>1
    <2>4. longer[n + 1] = more /\ \A i \in 1 .. n : longer[i] = before[i]
      BY <1>1, <1>3, <2>3
    <2> QED
      BY <2>2, <2>4
  <1> HIDE DEF more, longer
  <1>5. /\ Append(before, more) \in Seq(Seq(X)) /\ Len(Append(before, more)) = n + 1
        /\ Append(before, more)[n + 1] = more
        /\ \A i \in 1 .. n : Append(before, more)[i] = before[i]
    BY <1>2 DEF n
  <1>6. \A i \in 1 .. n + 1 : i = n + 1 \/ i \in 1 .. n
    BY <1>1
  <1>7. \A i \in 1 .. n + 1 : longer[i] = Append(before, more)[i]
    BY <1>4, <1>5, <1>6
  <1>8. longer = Append(before, more)
    BY <1>4, <1>5, <1>7, SeqEqual
  <1>9. AddUnit(seqs, u, sep) = IF u = sep THEN Append(seqs, <<>>) ELSE longer
    BY DEF AddUnit, longer
  <1> QED
    BY <1>8, <1>9 DEF seqs, more

LEMMA AddUnitKeeps ==
    ASSUME NEW X, NEW parts \in Lists(X), NEW u \in X, NEW sep
    PROVE  AddUnit(parts, u, sep) \in Lists(X)
  <1> DEFINE before == Front(parts)
             last == Last(parts)
  <1>1. /\ before \in Seq(Seq(X)) /\ last \in Seq(X) /\ parts = Append(before, last)
    <2>1. parts \in Seq(Seq(X)) /\ parts # <<>>
      BY DEF Lists
    <2> DEFINE Y == Seq(X)
    <2>2. parts \in Seq(Y)
      BY <2>1
    <2> HIDE DEF Y
    <2>3. Front(parts) \in Seq(Y) /\ Last(parts) \in Y /\ parts = Append(Front(parts), Last(parts))
      BY <2>1, <2>2, FrontAndLast
    <2> QED
      BY <2>3 DEF Y
  <1> HIDE DEF before, last
  <1>2. AddUnit(parts, u, sep) = IF u = sep THEN Append(Append(before, last), <<>>)
                                 ELSE Append(before, Append(last, u))
    BY <1>1, AddUnitTo
  <1>3. Append(Append(before, last), <<>>) \in Lists(X)
    BY <1>1 DEF Lists
  <1>4. Append(before, Append(last, u)) \in Lists(X)
    BY <1>1 DEF Lists
  <1> QED
    BY <1>2, <1>3, <1>4

LEMMA PartsUnfold ==
    ASSUME NEW X, NEW text \in Seq(X), NEW sep
    PROVE  \E f \in [0 .. Len(text) -> Lists(X)] :
              /\ f[0] = <<<<>>>>
              /\ \A i \in 1 .. Len(text) : f[i] = AddUnit(f[i - 1], text[i], sep)
              /\ Parts(text, sep) = f[Len(text)]
  <1> DEFINE n == Len(text)
             S == Lists(X)
             none == <<<<>>>>
             step == [i \in 1 .. n |-> [m \in S |-> AddUnit(m, text[i], sep)]]
             Is(h) == h = [i \in 0 .. n |-> IF i = 0 THEN none ELSE AddUnit(h[i - 1], text[i], sep)]
             F == CHOOSE h : Is(h)
  <1>1. n \in Nat /\ (\A i \in 1 .. n : text[i] \in X) /\ n \in 0 .. n
    OBVIOUS
  <1>2. none \in S
    BY DEF Lists
  <1>3. step \in [1 .. n -> [S -> S]]
    BY <1>1, AddUnitKeeps
  <1> HIDE DEF S
  <1>4. PICK f \in [0 .. n -> S] : Follows(f, n, none, step)
    <2> HIDE DEF n, none, step
    <2> QED
      BY <1>1, <1>2, <1>3, Recursion
  <1>5. ASSUME NEW i \in 1 .. n PROVE f[i] = AddUnit(f[i - 1], text[i], sep)
    <2>1. i \in 0 .. n /\ i # 0 /\ i - 1 \in 0 .. n
      BY <1>1
    <2>2. f[i] = step[i][f[i - 1]]
      BY <1>4, <2>1 DEF Follows
    <2>3. f[i - 1] \in S
      BY <2>1
    <2> QED
      BY <2>2, <2>3
  <1>6. f[0] = none
    BY <1>1, <1>4 DEF Follows
  <1>7. Is(f)
    <2>1. f = [i \in 0 .. n |-> f[i]]
      OBVIOUS
    <2>2. \A i \in 0 .. n : i # 0 => i \in 1 .. n
      BY <1>1
    <2> HIDE DEF none, n
    <2>3. \A i \in 0 .. n : f[i] = IF i = 0 THEN none ELSE AddUnit(f[i - 1], text[i], sep)
      BY <1>5, <1>6, <2>2
    <2> QED
      BY <2>1, <2>3
  <1>8. Is(F)
    <2> HIDE DEF Is
    <2> QED
      BY <1>7
  <1>9. Parts(text, sep) = F[n]
    BY DEF Parts
  <1>10. F[n] = f[n]
    <2> HIDE DEF F
    <2>1. \A i \in 0 .. n : F[i] = IF i = 0 THEN none ELSE AddUnit(F[i - 1], text[i], sep)
      BY <1>8
    <2>2. F[0] = f[0]
      <3> HIDE DEF none
      <3> QED
        BY <1>1, <1>6, <2>1
    <2>3. ASSUME NEW i \in 0 .. n - 1, F[i] = f[i] PROVE F[i + 1] = f[i + 1]
      <3>1. i + 1 \in 1 .. n /\ i + 1 \in 0 .. n /\ (i + 1) - 1 = i /\ i + 1 # 0
        BY <1>1
      <3> HIDE DEF none, n
      <3> QED
        BY <1>5, <2>1, <2>3, <3>1
    <2> HIDE DEF n
    <2> QED
      BY <1>1, <2>2, <2>3, SameValues
  <1> HIDE DEF F
  <1> QED
    BY <1>5, <1>6, <1>9, <1>10 DEF S

LEMMA PartsNothing ==
    ASSUME NEW sep
    PROVE  Parts(<<>>, sep) = <<<<>>>>
  <1> DEFINE text == <<>>
             X == Nat
  <1>1. text \in Seq(X) /\ Len(text) = 0
    OBVIOUS
  <1>2. PICK f \in [0 .. Len(text) -> Lists(X)] :
              /\ f[0] = <<<<>>>>
              /\ \A i \in 1 .. Len(text) : f[i] = AddUnit(f[i - 1], text[i], sep)
              /\ Parts(text, sep) = f[Len(text)]
    <2>1. text \in Seq(X)
      BY <1>1
    <2> HIDE DEF text, X
    <2> QED
      BY <2>1, PartsUnfold, ZenonT(30)
  <1> QED
    BY <1>1, <1>2

LEMMA SplitsAreLists ==
    ASSUME NEW X, NEW text \in Seq(X), NEW sep
    PROVE  Parts(text, sep) \in Lists(X)
  <1>1. PICK f \in [0 .. Len(text) -> Lists(X)] : Parts(text, sep) = f[Len(text)]
    BY PartsUnfold
  <1>2. Len(text) \in 0 .. Len(text)
    OBVIOUS
  <1> QED
    BY <1>1, <1>2

(* split, unit by unit.                                                    *)
LEMMA PartsAppend ==
    ASSUME NEW X, NEW text \in Seq(X), NEW u \in X, NEW sep
    PROVE  Parts(Append(text, u), sep) = AddUnit(Parts(text, sep), u, sep)
  <1> DEFINE n == Len(text)
             more == Append(text, u)
  <1>0. /\ n \in Nat /\ more \in Seq(X) /\ Len(more) = n + 1 /\ more[n + 1] = u
        /\ \A i \in 1 .. n : more[i] = text[i]
    OBVIOUS
  <1> HIDE DEF more
  <1>1. PICK f \in [0 .. n -> Lists(X)] :
              /\ f[0] = <<<<>>>>
              /\ \A i \in 1 .. n : f[i] = AddUnit(f[i - 1], text[i], sep)
              /\ Parts(text, sep) = f[n]
    BY PartsUnfold, ZenonT(30)
  <1>2. PICK g \in [0 .. Len(more) -> Lists(X)] :
              /\ g[0] = <<<<>>>>
              /\ \A i \in 1 .. Len(more) : g[i] = AddUnit(g[i - 1], more[i], sep)
              /\ Parts(more, sep) = g[Len(more)]
    <2>1. more \in Seq(X)
      BY <1>0
    <2> QED
      BY <2>1, PartsUnfold, ZenonT(30)
  <1> HIDE DEF n
  <1>3. ASSUME NEW i \in 0 .. n - 1, f[i] = g[i] PROVE f[i + 1] = g[i + 1]
    <2>1. i + 1 \in 1 .. n /\ i + 1 \in 1 .. n + 1 /\ (i + 1) - 1 = i
      BY <1>0
    <2> QED
      BY <1>0, <1>1, <1>2, <1>3, <2>1
  <1>4. f[n] = g[n]
    <2>0. n \in Nat /\ f[0] = g[0]
      BY <1>0, <1>1, <1>2
    <2>1. \A i \in 0 .. n : f[i] = g[i]
      BY <2>0, <1>3, SameValues
    <2> QED
      BY <1>0, <2>1
  <1>5. n + 1 \in 1 .. n + 1 /\ (n + 1) - 1 = n
    BY <1>0
  <1>6. g[n + 1] = AddUnit(g[n], u, sep)
    BY <1>0, <1>2, <1>5
  <1> QED
    BY <1>0, <1>1, <1>2, <1>4, <1>6 DEF more

LEMMA AddUnitAfter ==
    ASSUME NEW X, NEW first \in Seq(Seq(X)), NEW parts \in Lists(X), NEW u \in X, NEW sep
    PROVE  AddUnit(first \o parts, u, sep) = first \o AddUnit(parts, u, sep)
  <1> DEFINE S == Seq(X)
             before == Front(parts)
             last == Last(parts)
             fb == first \o before
             longer == Append(last, u)
  <1>1. before \in Seq(S) /\ last \in S /\ parts = Append(before, last)
    <2>1. parts \in Seq(S) /\ parts # <<>>
      BY DEF Lists
    <2> HIDE DEF S
    <2> QED
      BY <2>1, FrontAndLast
  <1> HIDE DEF before, last
  <1>2. first \in Seq(S) /\ longer \in S /\ <<>> \in S
    BY <1>1
  <1>3. AddUnit(Append(before, last), u, sep)
           = IF u = sep THEN Append(Append(before, last), <<>>) ELSE Append(before, longer)
    BY <1>1, AddUnitTo
  <1>4. fb \in Seq(S)
    <2> HIDE DEF S
    <2> QED
      BY <1>1, <1>2
  <1> HIDE DEF fb
  <1>5. AddUnit(Append(fb, last), u, sep)
           = IF u = sep THEN Append(Append(fb, last), <<>>) ELSE Append(fb, longer)
    BY <1>1, <1>4, AddUnitTo, SMTT(30)
  <1> HIDE DEF S, longer
  <1>6. \A b \in Seq(S), x \in S : Append(first \o b, x) = first \o Append(b, x)
    <2> SUFFICES ASSUME NEW b \in Seq(S), NEW x \in S PROVE Append(first \o b, x) = first \o Append(b, x)
      OBVIOUS
    <2> DEFINE c == <<x>>
               all == first \o b
    <2>1. c \in Seq(S)
      OBVIOUS
    <2>2. all \in Seq(S)
      BY <1>2
    <2>3. Append(b, x) = b \o c
      OBVIOUS
    <2> HIDE DEF all
    <2>4. Append(all, x) = all \o c
      BY <2>2
    <2> HIDE DEF c
    <2>5. (first \o b) \o c = first \o (b \o c)
      BY <1>2, <2>1, ConcatAssociative
    <2> QED
      BY <2>3, <2>4, <2>5, Zenon DEF all
  <1>7. /\ Append(fb, last) = first \o Append(before, last)
        /\ Append(fb, longer) = first \o Append(before, longer)
    BY <1>1, <1>2, <1>6 DEF fb
  <1>8. Append(first \o parts, <<>>) = first \o Append(parts, <<>>)
    <2> DEFINE e == <<>>
    <2>1. e \in S /\ parts \in Seq(S)
      BY <1>1, <1>2
    <2> HIDE DEF e
    <2>2. Append(first \o parts, e) = first \o Append(parts, e)
      BY <1>6, <2>1
    <2> QED
      BY <2>2 DEF e
  <1> QED
    BY <1>1, <1>3, <1>5, <1>7, <1>8

LEMMA PartsConcat ==
    ASSUME NEW X, NEW a \in Seq(X), NEW sep \in X, NEW b \in Seq(X)
    PROVE  Parts((a \o <<sep>>) \o b, sep) = Parts(a, sep) \o Parts(b, sep)
  <1> DEFINE T == {c \in Seq(X) : Parts((a \o <<sep>>) \o c, sep) = Parts(a, sep) \o Parts(c, sep)}
             S == Seq(X)
             first == Parts(a, sep)
  <1>0. first \in Seq(S) /\ first # <<>> /\ a \o <<sep>> \in Seq(X)
    BY SplitsAreLists DEF Lists
  <1>1. <<>> \in T
    <2>1. (a \o <<sep>>) \o <<>> = Append(a, sep)
      OBVIOUS
    <2>2. Parts(Append(a, sep), sep) = AddUnit(first, sep, sep)
      BY PartsAppend
    <2>3. AddUnit(first, sep, sep) = Append(first, <<>>)
      BY DEF AddUnit
    <2>4. Append(first, <<>>) = first \o <<<<>>>>
      <3> DEFINE e == <<>>
      <3>1. e \in S
        OBVIOUS
      <3> HIDE DEF first, S, e
      <3>2. Append(first, e) = first \o <<e>>
        BY <1>0, <3>1
      <3> QED
        BY <3>2 DEF e
    <2>5. Parts((a \o <<sep>>) \o <<>>, sep) = first \o Parts(<<>>, sep)
      BY <2>1, <2>2, <2>3, <2>4, PartsNothing
    <2>6. <<>> \in Seq(X)
      OBVIOUS
    <2> QED
      BY <2>5, <2>6, Zenon
  <1>2. ASSUME NEW c \in Seq(X), NEW u \in X, c \in T PROVE Append(c, u) \in T
    <2> DEFINE ac == (a \o <<sep>>) \o c
               rest == Parts(c, sep)
    <2>1. (a \o <<sep>>) \o Append(c, u) = Append(ac, u) /\ ac \in Seq(X)
      <3> DEFINE d == a \o <<sep>>
      <3>1. d \in Seq(X)
        BY <1>0
      <3> HIDE DEF d
      <3>2. d \o Append(c, u) = Append(d \o c, u) /\ d \o c \in Seq(X)
        BY <3>1
      <3> QED
        BY <3>2 DEF d
    <2>2. Parts(Append(ac, u), sep) = AddUnit(Parts(ac, sep), u, sep)
      <3> HIDE DEF ac
      <3> QED
        BY <2>1, PartsAppend
    <2>3. Parts(ac, sep) = first \o rest
      BY <1>2
    <2>5. Parts(Append(c, u), sep) = AddUnit(rest, u, sep)
      BY PartsAppend
    <2>8. AddUnit(first \o rest, u, sep) = first \o AddUnit(rest, u, sep)
      <3>1. first \in Seq(Seq(X)) /\ rest \in Lists(X)
        BY <1>0, SplitsAreLists
      <3> HIDE DEF first, rest
      <3> QED
        BY <3>1, AddUnitAfter
    <2>9. Parts((a \o <<sep>>) \o Append(c, u), sep) = first \o Parts(Append(c, u), sep)
      BY <2>1, <2>2, <2>3, <2>5, <2>8
    <2>10. Append(c, u) \in Seq(X)
      OBVIOUS
    <2> QED
      BY <2>9, <2>10, Zenon
  <1>3. Seq(X) \subseteq T
    <2> HIDE DEF T
    <2> QED
      BY <1>1, <1>2, SequenceInduction
  <1> QED
    BY <1>3

(* A text without the separator is its only part.                          *)
LEMMA PartsOne ==
    ASSUME NEW X, NEW text \in Seq(X), NEW sep, sep \notin X
    PROVE  Parts(text, sep) = <<text>>
  <1> DEFINE T == {t \in Seq(X) : Parts(t, sep) = <<t>>}
  <1>1. <<>> \in T
    BY PartsNothing
  <1>2. ASSUME NEW t \in Seq(X), NEW u \in X, t \in T PROVE Append(t, u) \in T
    <2>1. Parts(Append(t, u), sep) = AddUnit(<<t>>, u, sep)
      BY <1>2, PartsAppend
    <2>2. <<t>> = Append(<<>>, t) /\ <<>> \in Seq(Seq(X)) /\ u # sep
      OBVIOUS
    <2>3. AddUnit(Append(<<>>, t), u, sep) = Append(<<>>, Append(t, u))
      <3> DEFINE none == <<>>
      <3>1. none \in Seq(Seq(X)) /\ u # sep
        BY <2>2
      <3> HIDE DEF none
      <3>2. AddUnit(Append(none, t), u, sep) = Append(none, Append(t, u))
        BY <3>1, AddUnitTo
      <3> QED
        BY <3>2 DEF none
    <2>4. Append(<<>>, Append(t, u)) = <<Append(t, u)>> /\ Append(t, u) \in Seq(X)
      OBVIOUS
    <2> QED
      BY <2>1, <2>2, <2>3, <2>4
  <1>3. Seq(X) \subseteq T
    <2> HIDE DEF T
    <2> QED
      BY <1>1, <1>2, SequenceInduction
  <1> QED
    BY <1>3

(* The parts of a text do not have the separator.                          *)
LEMMA PartsAreWithout ==
    ASSUME NEW X, NEW text \in Seq(X), NEW sep
    PROVE  Parts(text, sep) \in Seq(Seq(X \ {sep}))
  <1> DEFINE Z == X \ {sep}
             T == {t \in Seq(X) : Parts(t, sep) \in Lists(Z)}
  <1>1. <<>> \in T
    <2>1. <<<<>>>> \in Lists(Z)
      <3> HIDE DEF Z
      <3> QED
        BY DEF Lists
    <2>2. Parts(<<>>, sep) \in Lists(Z)
      <3> HIDE DEF Z
      <3> QED
        BY <2>1, PartsNothing
    <2>3. <<>> \in Seq(X)
      OBVIOUS
    <2> QED
      BY <2>2, <2>3
  <1>2. ASSUME NEW t \in Seq(X), NEW u \in X, t \in T PROVE Append(t, u) \in T
    <2> DEFINE parts == Parts(t, sep)
    <2>1. Parts(Append(t, u), sep) = AddUnit(parts, u, sep) /\ parts \in Lists(Z)
      BY <1>2, PartsAppend
    <2>2. AddUnit(parts, u, sep) \in Lists(Z)
      <3>1. CASE u = sep
        <4>1. parts \in Seq(Seq(Z)) /\ <<>> \in Seq(Z)
          BY <2>1 DEF Lists
        <4> DEFINE S == Seq(Z)
                   none == <<>>
        <4>2. parts \in Seq(S) /\ none \in S
          BY <4>1
        <4> HIDE DEF parts, Z, S, none
        <4>3. Append(parts, none) \in Seq(S) /\ Append(parts, none) # <<>>
          BY <4>2
        <4>4. Append(parts, <<>>) \in Lists(Z)
          BY <4>3 DEF Lists, S, none
        <4> QED
          BY <3>1, <4>4, Zenon DEF AddUnit
      <3>2. CASE u # sep
        <4>1. u \in Z
          BY <3>2
        <4> HIDE DEF parts, Z
        <4> QED
          BY <2>1, <4>1, AddUnitKeeps
      <3> QED
        BY <3>1, <3>2
    <2>3. Append(t, u) \in Seq(X)
      OBVIOUS
    <2> QED
      BY <2>1, <2>2, <2>3
  <1>3. Seq(X) \subseteq T
    <2> HIDE DEF T
    <2> QED
      BY <1>1, <1>2, SequenceInduction
  <1> QED
    BY <1>3 DEF Lists

-----------------------------------------------------------------------------
(* A function over the elements of a list, its values joined.              *)
Mapped(M, seq) == [i \in DOMAIN seq |-> M[seq[i]]]
Gather(M, seq) == FlattenSeq(Mapped(M, seq))

Maps(X, Y) == [X -> Y]

LEMMA MappedIsList ==
    ASSUME NEW X, NEW Y, NEW M \in Maps(X, Y), NEW seq \in Seq(X)
    PROVE  Mapped(M, seq) \in Seq(Y) /\ Len(Mapped(M, seq)) = Len(seq)
  <1>1. Len(seq) \in Nat /\ DOMAIN seq = 1 .. Len(seq) /\ \A i \in DOMAIN seq : M[seq[i]] \in Y
    BY DEF Maps
  <1>2. Mapped(M, seq) \in [1 .. Len(seq) -> Y]
    BY <1>1 DEF Mapped, Maps
  <1> QED
    BY <1>1, <1>2, FunctionIsList

LEMMA GatherIsList ==
    ASSUME NEW X, NEW Y, NEW M \in Maps(X, Seq(Y)), NEW seq \in Seq(X)
    PROVE  Gather(M, seq) \in Seq(Y)
  <1>1. Mapped(M, seq) \in Seq(Seq(Y))
    BY MappedIsList
  <1> QED
    BY <1>1, FlattenIsList DEF Gather

LEMMA GatherNothing ==
    ASSUME NEW M
    PROVE  Gather(M, <<>>) = <<>>
  <1>1. Mapped(M, <<>>) = <<>>
    BY DEF Mapped, Maps
  <1> QED
    BY <1>1, FlattenNothing DEF Gather

LEMMA GatherOne ==
    ASSUME NEW X, NEW Y, NEW M \in Maps(X, Seq(Y)), NEW x \in X
    PROVE  Gather(M, <<x>>) = M[x]
  <1>1. Mapped(M, <<x>>) = <<M[x]>> /\ M[x] \in Seq(Y)
    BY DEF Mapped, Maps
  <1> QED
    BY <1>1, FlattenOne DEF Gather

LEMMA GatherConcat ==
    ASSUME NEW X, NEW Y, NEW M \in Maps(X, Seq(Y)), NEW a \in Seq(X), NEW b \in Seq(X)
    PROVE  Gather(M, a \o b) = Gather(M, a) \o Gather(M, b)
  <1> DEFINE Z == Seq(Y)
             ab == a \o b
             f == Mapped(M, a)
             g == Mapped(M, b)
             h == Mapped(M, ab)
  <1>1. /\ ab \in Seq(X) /\ Len(ab) = Len(a) + Len(b) /\ Len(a) \in Nat /\ Len(b) \in Nat
        /\ DOMAIN ab = 1 .. Len(a) + Len(b)
        /\ DOMAIN a = 1 .. Len(a) /\ DOMAIN b = 1 .. Len(b)
        /\ \A i \in 1 .. Len(a) : ab[i] = a[i]
        /\ \A i \in 1 .. Len(b) : ab[Len(a) + i] = b[i]
    OBVIOUS
  <1>2. /\ \A i \in 1 .. Len(a) : h[i] = f[i]
        /\ \A i \in 1 .. Len(b) : h[Len(a) + i] = g[i]
    <2> HIDE DEF ab
    <2> QED
      BY <1>1, SMTT(30) DEF Mapped, Maps
  <1>3. f \in Seq(Z) /\ Len(f) = Len(a) /\ g \in Seq(Z) /\ Len(g) = Len(b)
    <2>2. f \in Seq(Z) /\ Len(f) = Len(a)
      BY MappedIsList
    <2>3. g \in Seq(Z) /\ Len(g) = Len(b)
      BY MappedIsList
    <2> QED
      BY <2>2, <2>3
  <1>4. h \in Seq(Z) /\ Len(h) = Len(ab)
    <2> HIDE DEF ab
    <2> QED
      BY <1>1, MappedIsList
  <1>5. h = f \o g
    <2>1. /\ Len(h) = Len(f) + Len(g)
          /\ \A i \in 1 .. Len(f) : h[i] = f[i]
          /\ \A i \in 1 .. Len(g) : h[Len(f) + i] = g[i]
      BY <1>1, <1>2, <1>3, <1>4
    <2> HIDE DEF f, g, h, Z, ab
    <2> QED
      BY <1>3, <1>4, <2>1, ConcatIs
  <1>6. FlattenSeq(f \o g) = FlattenSeq(f) \o FlattenSeq(g)
    BY <1>3, FlattenConcat
  <1> QED
    BY <1>5, <1>6 DEF Gather

(* A list of texts without the empty ones.                                 *)
Kept(S) == [text \in S |-> IF text = <<>> THEN <<>> ELSE <<text>>]

LEMMA KeptMaps ==
    ASSUME NEW S
    PROVE  Kept(S) \in Maps(S, Seq(S \ {<<>>}))
  <1> DEFINE Y == S \ {<<>>}
  <1>1. ASSUME NEW t \in S PROVE (IF t = <<>> THEN <<>> ELSE <<t>>) \in Seq(Y)
    <2>1. CASE t = <<>>
      <3> HIDE DEF Y
      <3>1. <<>> \in Seq(Y)
        OBVIOUS
      <3> QED
        BY <2>1, <3>1, Zenon
    <2>2. CASE t # <<>>
      <3>1. t \in Y
        BY <2>2
      <3> HIDE DEF Y
      <3>2. <<t>> \in Seq(Y)
        BY <3>1
      <3> QED
        BY <2>2, <3>2, Zenon
    <2> QED
      BY <2>1, <2>2
  <1> QED
    BY <1>1, Zenon DEF Kept, Maps

LEMMA NonEmptyIs ==
    ASSUME NEW S, NEW texts \in Seq(S)
    PROVE  NonEmpty(texts) = Gather(Kept(S), texts)
  <1>1. \A i \in DOMAIN texts : Kept(S)[texts[i]] = IF texts[i] = <<>> THEN <<>> ELSE <<texts[i]>>
    BY DEF Kept
  <1>2. Mapped(Kept(S), texts) = [i \in DOMAIN texts |-> IF texts[i] = <<>> THEN <<>> ELSE <<texts[i]>>]
    BY <1>1, Zenon DEF Mapped
  <1> QED
    BY <1>2, Zenon DEF NonEmpty, Gather

LEMMA NonEmptyIsList ==
    ASSUME NEW S, NEW texts \in Seq(S)
    PROVE  NonEmpty(texts) \in Seq(S \ {<<>>})
  <1> DEFINE Y == S \ {<<>>}
             M == Kept(S)
  <1>1. M \in Maps(S, Seq(Y))
    BY KeptMaps
  <1> HIDE DEF Y, M
  <1>2. Gather(M, texts) \in Seq(Y)
    BY <1>1, GatherIsList
  <1> QED
    BY <1>2, NonEmptyIs DEF Y, M

LEMMA NonEmptyConcat ==
    ASSUME NEW S, NEW a \in Seq(S), NEW b \in Seq(S)
    PROVE  NonEmpty(a \o b) = NonEmpty(a) \o NonEmpty(b)
  <1> DEFINE ab == a \o b
  <1>1. ab \in Seq(S)
    OBVIOUS
  <1>2. Gather(Kept(S), a \o b) = Gather(Kept(S), a) \o Gather(Kept(S), b)
    <2> DEFINE Y == S \ {<<>>}
               M == Kept(S)
    <2>1. M \in Maps(S, Seq(Y))
      BY KeptMaps
    <2> HIDE DEF Y, M
    <2>2. Gather(M, a \o b) = Gather(M, a) \o Gather(M, b)
      BY <2>1, GatherConcat
    <2> QED
      BY <2>2 DEF M
  <1>3. NonEmpty(a) = Gather(Kept(S), a) /\ NonEmpty(b) = Gather(Kept(S), b)
    BY NonEmptyIs
  <1> HIDE DEF ab
  <1>4. NonEmpty(ab) = Gather(Kept(S), ab)
    BY <1>1, NonEmptyIs
  <1> QED
    BY <1>2, <1>3, <1>4, Zenon DEF ab

LEMMA NonEmptyOne ==
    ASSUME NEW text
    PROVE  NonEmpty(<<text>>) = IF text = <<>> THEN <<>> ELSE <<text>>
  <1> DEFINE S == {text}
             x == text
  <1>1. NonEmpty(<<text>>) = Gather(Kept(S), <<text>>)
    <2>1. <<text>> \in Seq(S)
      OBVIOUS
    <2> QED
      BY <2>1, NonEmptyIs
  <1>2. Kept(S)[text] = IF text = <<>> THEN <<>> ELSE <<text>>
    BY DEF Kept
  <1>3. Gather(Kept(S), <<text>>) = Kept(S)[text]
    <2>1. text \in S
      OBVIOUS
    <2> DEFINE Y == S \ {<<>>}
               M == Kept(S)
    <2> HIDE DEF S
    <2>2. M \in Maps(S, Seq(Y))
      BY KeptMaps
    <2> HIDE DEF Y, M
    <2>3. Gather(M, <<text>>) = M[text]
      BY <2>1, <2>2, GatherOne
    <2> QED
      BY <2>3 DEF M
  <1> QED
    BY <1>1, <1>2, <1>3

-----------------------------------------------------------------------------
(* The words of a text.                                                    *)
Blanks == {NewLine, Space}

Blanked(text) == [i \in DOMAIN text |-> IF text[i] = NewLine THEN Space ELSE text[i]]

LEMMA BlankedIsList ==
    ASSUME NEW U, Space \in U, NEW text \in Seq(U)
    PROVE  Blanked(text) \in Seq(U) /\ Len(Blanked(text)) = Len(text)
  <1>1. Len(text) \in Nat /\ DOMAIN text = 1 .. Len(text) /\ \A i \in DOMAIN text : text[i] \in U
    OBVIOUS
  <1>2. Blanked(text) \in [1 .. Len(text) -> U]
    BY <1>1 DEF Blanked
  <1> QED
    BY <1>1, <1>2, FunctionIsList

LEMMA BlankedConcat ==
    ASSUME NEW U, Space \in U, NEW a \in Seq(U), NEW b \in Seq(U)
    PROVE  Blanked(a \o b) = Blanked(a) \o Blanked(b)
  <1> DEFINE ab == a \o b
             f == Blanked(a)
             g == Blanked(b)
             h == Blanked(ab)
  <1>1. /\ ab \in Seq(U) /\ Len(ab) = Len(a) + Len(b) /\ Len(a) \in Nat /\ Len(b) \in Nat
        /\ DOMAIN ab = 1 .. Len(a) + Len(b)
        /\ DOMAIN a = 1 .. Len(a) /\ DOMAIN b = 1 .. Len(b)
        /\ \A i \in 1 .. Len(a) : ab[i] = a[i]
        /\ \A i \in 1 .. Len(b) : ab[Len(a) + i] = b[i]
    OBVIOUS
  <1>2. /\ \A i \in 1 .. Len(a) : h[i] = f[i]
        /\ \A i \in 1 .. Len(b) : h[Len(a) + i] = g[i]
    <2> HIDE DEF ab
    <2> QED
      BY <1>1 DEF Blanked
  <1>3. f \in Seq(U) /\ Len(f) = Len(a)
    BY BlankedIsList
  <1>4. g \in Seq(U) /\ Len(g) = Len(b)
    BY BlankedIsList
  <1>5. h \in Seq(U) /\ Len(h) = Len(ab)
    <2> HIDE DEF ab
    <2> QED
      BY <1>1, BlankedIsList
  <1>6. /\ Len(h) = Len(f) + Len(g)
        /\ \A i \in 1 .. Len(f) : h[i] = f[i]
        /\ \A i \in 1 .. Len(g) : h[Len(f) + i] = g[i]
    BY <1>1, <1>2, <1>3, <1>4, <1>5
  <1> HIDE DEF f, g, h, ab
  <1>7. h = f \o g
    BY <1>3, <1>4, <1>5, <1>6, ConcatIs
  <1> QED
    BY <1>7 DEF f, g, h, ab

LEMMA BlankedOne ==
    ASSUME NEW u
    PROVE  Blanked(<<u>>) = IF u = NewLine THEN <<Space>> ELSE <<u>>
  BY DEF Blanked

LEMMA WordsAreLists ==
    ASSUME NEW U, Space \in U, NEW text \in Seq(U)
    PROVE  WordsOf(text) \in Seq(Seq(U))
  <1> DEFINE parts == Parts(Blanked(text), Space)
             S == Seq(U)
  <1>1. parts \in Seq(S)
    <2>1. Blanked(text) \in Seq(U)
      BY BlankedIsList
    <2> QED
      BY <2>1, SplitsAreLists DEF Lists
  <1> HIDE DEF parts, S
  <1>2. NonEmpty(parts) \in Seq(S \ {<<>>})
    BY <1>1, NonEmptyIsList
  <1>3. NonEmpty(parts) \in Seq(S)
    BY <1>2, SeqMonotonic
  <1> QED
    BY <1>3 DEF WordsOf, Blanked, parts, S

LEMMA NoWords ==
    WordsOf(<<>>) = <<>>
  <1>1. Blanked(<<>>) = <<>>
    BY DEF Blanked
  <1>2. WordsOf(<<>>) = NonEmpty(<<<<>>>>)
    BY <1>1, PartsNothing, Zenon DEF WordsOf, Blanked
  <1> QED
    BY <1>2, NonEmptyOne

(* A blank ends a word.                                                    *)
LEMMA WordsSplit ==
    ASSUME NEW U, Space \in U, NEW a \in Seq(U), NEW b \in Seq(U), NEW blank \in Blanks \cap U
    PROVE  WordsOf((a \o <<blank>>) \o b) = WordsOf(a) \o WordsOf(b)
  <1> DEFINE f == Blanked(a)
             g == Blanked(b)
             first == Parts(f, Space)
             rest == Parts(g, Space)
             S == Seq(U)
             one == <<blank>>
             ab == a \o one
             sp == <<Space>>
  <1>1. one \in Seq(U) /\ Blanked(one) = sp /\ sp \in Seq(U)
    BY BlankedOne DEF Blanks
  <1>2. f \in Seq(U) /\ g \in Seq(U)
    BY BlankedIsList
  <1> HIDE DEF one, sp
  <1>3. ab \in Seq(U)
    BY <1>1
  <1>4. Blanked(a \o one) = f \o sp
    BY <1>1, BlankedConcat
  <1> HIDE DEF ab
  <1>5. Blanked(ab \o b) = Blanked(ab) \o g
    BY <1>3, BlankedConcat
  <1>6. Blanked(ab \o b) = (f \o <<Space>>) \o g
    BY <1>4, <1>5, Zenon DEF ab, sp
  <1> HIDE DEF f, g
  <1>7. Parts((f \o <<Space>>) \o g, Space) = first \o rest
    BY <1>2, PartsConcat
  <1>8. first \in Seq(S) /\ rest \in Seq(S)
    BY <1>2, SplitsAreLists DEF Lists
  <1> HIDE DEF first, rest, S
  <1>9. NonEmpty(first \o rest) = NonEmpty(first) \o NonEmpty(rest)
    BY <1>8, NonEmptyConcat
  <1>10. WordsOf(ab \o b) = NonEmpty(Parts(Blanked(ab \o b), Space))
    BY Zenon DEF WordsOf, Blanked
  <1>11. WordsOf(a) = NonEmpty(first) /\ WordsOf(b) = NonEmpty(rest)
    BY Zenon DEF WordsOf, Blanked, first, rest, f, g
  <1> QED
    BY <1>6, <1>7, <1>9, <1>10, <1>11, Zenon DEF ab, one

(* A text without blanks is one word.                                      *)
LEMMA OneWord ==
    ASSUME NEW U, NEW text \in Seq(U \ Blanks), text # <<>>
    PROVE  WordsOf(text) = <<text>>
  <1> DEFINE V == U \ Blanks
  <1>1. Space \notin V /\ NewLine \notin V
    BY DEF Blanks
  <1> HIDE DEF V
  <1>2. text \in Seq(V)
    BY DEF V
  <1>3. Blanked(text) = text
    <2>1. \A i \in DOMAIN text : text[i] # NewLine
      BY <1>1, <1>2
    <2>2. text = [i \in DOMAIN text |-> text[i]]
      BY <1>2
    <2> QED
      BY <2>1, <2>2 DEF Blanked
  <1>4. Parts(text, Space) = <<text>>
    BY <1>1, <1>2, PartsOne
  <1>5. NonEmpty(<<text>>) = <<text>>
    BY NonEmptyOne
  <1> QED
    BY <1>3, <1>4, <1>5, Zenon DEF WordsOf, Blanked

(* strip takes blanks from both ends.                                      *)
LEMMA StripSplits ==
    ASSUME NEW U, NEW text \in Seq(U)
    PROVE  \E m \in 0 .. Len(text) : \E n \in m .. Len(text) :
              /\ Strip(text) = SubSeq(text, m + 1, n)
              /\ \A i \in 1 .. m : text[i] \in Blanks
              /\ \A i \in n + 1 .. Len(text) : text[i] \in Blanks
              /\ m < n => text[m + 1] \notin Blanks /\ text[n] \notin Blanks
  <1> DEFINE solid == {i \in DOMAIN text : text[i] \notin {NewLine, Space}}
             len == Len(text)
  <1>1. /\ len \in Nat /\ DOMAIN text = 1 .. len /\ solid \in SUBSET (1 .. len)
        /\ \A i \in 1 .. len : i \in solid <=> text[i] \notin Blanks
    BY DEF Blanks
  <1>2. Strip(text) = IF solid = {} THEN <<>> ELSE SubSeq(text, Min(solid), Max(solid))
    BY DEF Strip
  <1> HIDE DEF solid
  <1>3. CASE solid = {}
    <2>1. SubSeq(text, len + 1, len) = <<>>
      <3>1. len \in 0 .. len /\ len \in len .. len
        BY <1>1
      <3>2. SubSeq(text, len + 1, len) \in Seq(U) /\ Len(SubSeq(text, len + 1, len)) = len - len
        BY <3>1, SubSeqIs
      <3>3. Len(SubSeq(text, len + 1, len)) = 0
        BY <1>1, <3>2
      <3> QED
        BY <3>2, <3>3
    <2>2. Strip(text) = SubSeq(text, len + 1, len)
      BY <1>2, <1>3, <2>1, Zenon
    <2>3. /\ \A i \in 1 .. len : text[i] \in Blanks
          /\ \A i \in len + 1 .. len : text[i] \in Blanks
          /\ ~(len < len)
          /\ len \in 0 .. len /\ len \in len .. len
      BY <1>1, <1>3
    <2> HIDE DEF len
    <2> QED
      BY <2>2, <2>3 DEF len
  <1>4. CASE solid # {}
    <2>1. Min(solid) \in solid /\ \A i \in solid : Min(solid) <= i
      <3>1. solid \in SUBSET Nat
        BY <1>1
      <3>2. \E x \in solid : \A y \in solid : x <= y
        BY <1>4, <3>1, LeastNatural
      <3> QED
        BY <3>2 DEF Min
    <2>2. Max(solid) \in solid /\ \A i \in solid : Max(solid) >= i
      <3>1. \E x \in solid : \A y \in solid : y <= x
        BY <1>1, <1>4, GreatestNatural
      <3>2. \A x, y \in solid : y <= x => x >= y
        BY <1>1
      <3>3. \E x \in solid : \A y \in solid : x >= y
        BY <3>1, <3>2
      <3> QED
        BY <3>3 DEF Max
    <2> DEFINE m == Min(solid) - 1
               n == Max(solid)
    <2>3. m \in 0 .. len /\ n \in m .. len /\ m + 1 = Min(solid)
      <3> DEFINE x == Min(solid)
                 y == Max(solid)
      <3>1. x \in 1 .. len /\ y \in 1 .. len /\ x <= y
        BY <1>1, <2>1, <2>2
      <3> HIDE DEF x, y
      <3>2. x - 1 \in 0 .. len /\ y \in x - 1 .. len /\ x - 1 + 1 = x
        BY <1>1, <3>1
      <3> QED
        BY <3>2 DEF x, y
    <2>4. Strip(text) = SubSeq(text, m + 1, n)
      BY <1>2, <1>4, <2>3
    <2>5. /\ \A i \in 1 .. m : text[i] \in Blanks
          /\ \A i \in n + 1 .. len : text[i] \in Blanks
          /\ text[m + 1] \notin Blanks /\ text[n] \notin Blanks
      <3>1. \A i \in 1 .. m : i \in 1 .. len /\ i \notin solid
        BY <1>1, <2>1, <2>3
      <3>2. \A i \in n + 1 .. len : i \in 1 .. len /\ i \notin solid
        BY <1>1, <2>2, <2>3
      <3> HIDE DEF n, m
      <3>3. m + 1 \in solid /\ m + 1 \in 1 .. len
        BY <1>1, <2>1, <2>3
      <3>4. n \in solid /\ n \in 1 .. len
        BY <1>1, <2>2 DEF n
      <3> QED
        BY <1>1, <3>1, <3>2, <3>3, <3>4
    <2> HIDE DEF m, n, len
    <2> QED
      BY <2>3, <2>4, <2>5 DEF len
  <1> QED
    BY <1>3, <1>4

LEMMA BlanksBefore ==
    ASSUME NEW U, Blanks \subseteq U, NEW p \in Seq(Blanks), NEW text \in Seq(U)
    PROVE  WordsOf(p \o text) = WordsOf(text)
  <1> DEFINE B == Blanks
             T == {q \in Seq(B) : \A t \in Seq(U) : WordsOf(q \o t) = WordsOf(t)}
  <1>1. <<>> \in T
    <2>1. \A t \in Seq(U) : <<>> \o t = t
      OBVIOUS
    <2>2. <<>> \in Seq(B)
      OBVIOUS
    <2> QED
      BY <2>1, <2>2
  <1>2. ASSUME NEW q \in Seq(B), NEW u \in B, q \in T PROVE Append(q, u) \in T
    <2>1. ASSUME NEW t \in Seq(U) PROVE WordsOf(Append(q, u) \o t) = WordsOf(t)
      <3> DEFINE one == <<u>>
      <3>1. one \in Seq(U) /\ one \in Seq(B) /\ Append(q, u) = q \o one /\ q \in Seq(U)
        <4>1. u \in U
          OBVIOUS
        <4> HIDE DEF B
        <4>2. one \in Seq(U) /\ one \in Seq(B)
          BY <4>1
        <4>3. Append(q, u) = q \o one
          OBVIOUS
        <4>4. q \in Seq(U)
          BY SeqMonotonic DEF B
        <4> QED
          BY <4>2, <4>3, <4>4
      <3>2. (q \o one) \o t = q \o (one \o t)
        <4>1. one \in Seq(U) /\ q \in Seq(U)
          BY <3>1
        <4> HIDE DEF one
        <4> QED
          BY <4>1, ConcatAssociative, SMTT(30)
      <3>3. one \o t \in Seq(U) /\ one \o t = (<<>> \o one) \o t
        <4> HIDE DEF one
        <4> QED
          BY <3>1
      <3>4. WordsOf(q \o (one \o t)) = WordsOf(one \o t)
        <4> HIDE DEF one
        <4> QED
          BY <1>2, <3>3
      <3>5. WordsOf((<<>> \o one) \o t) = WordsOf(<<>>) \o WordsOf(t)
        <4> DEFINE none == <<>>
        <4>1. none \in Seq(U) /\ u \in Blanks \cap U /\ Space \in U
          BY DEF Blanks
        <4> HIDE DEF none
        <4>2. WordsOf((none \o <<u>>) \o t) = WordsOf(none) \o WordsOf(t)
          BY <4>1, WordsSplit
        <4> QED
          BY <4>2 DEF none
      <3>6. WordsOf(<<>>) \o WordsOf(t) = WordsOf(t)
        <4>1. Space \in U
          BY DEF Blanks
        <4>2. WordsOf(t) \in Seq(Seq(U))
          BY <4>1, WordsAreLists
        <4> QED
          BY <4>2, NoWords
      <3> QED
        BY <3>1, <3>2, <3>3, <3>4, <3>5, <3>6, Zenon
    <2>2. Append(q, u) \in Seq(B)
      OBVIOUS
    <2> QED
      BY <2>1, <2>2, Zenon
  <1>3. Seq(B) \subseteq T
    <2> HIDE DEF T, B
    <2> QED
      BY <1>1, <1>2, SequenceInduction
  <1> QED
    BY <1>3

LEMMA BlanksAfter ==
    ASSUME NEW U, Blanks \subseteq U, NEW p \in Seq(Blanks), NEW text \in Seq(U)
    PROVE  WordsOf(text \o p) = WordsOf(text)
  <1> DEFINE B == Blanks
             T == {q \in Seq(B) : WordsOf(text \o q) = WordsOf(text)}
  <1>1. <<>> \in T
    <2>1. text \o <<>> = text
      OBVIOUS
    <2>2. <<>> \in Seq(B)
      OBVIOUS
    <2> QED
      BY <2>1, <2>2
  <1>2. ASSUME NEW q \in Seq(B), NEW u \in B, q \in T PROVE Append(q, u) \in T
    <2> DEFINE one == <<u>>
               all == text \o q
               none == <<>>
    <2>1. one \in Seq(U) /\ Append(q, u) = q \o one /\ q \in Seq(U) /\ none \in Seq(U)
      BY SMTT(30)
    <2>2. text \o (q \o one) = (text \o q) \o one
      <3> HIDE DEF one
      <3> QED
        BY <2>1, ConcatAssociative
    <2>3. all \in Seq(U)
      BY <2>1
    <2> HIDE DEF all, none
    <2>4. all \o one = (all \o one) \o none
      <3> HIDE DEF one
      <3> QED
        BY <2>1, <2>3 DEF none
    <2>5. u \in Blanks \cap U /\ Space \in U
      BY DEF Blanks
    <2>6. WordsOf((all \o <<u>>) \o none) = WordsOf(all) \o WordsOf(none)
      BY <2>1, <2>3, <2>5, WordsSplit
    <2>7. WordsOf(all) \o WordsOf(none) = WordsOf(all)
      <3>1. WordsOf(all) \in Seq(Seq(U))
        BY <2>3, <2>5, WordsAreLists
      <3> QED
        BY <3>1, NoWords DEF none
    <2>8. WordsOf(text \o Append(q, u)) = WordsOf(text)
      BY <1>2, <2>1, <2>2, <2>4, <2>6, <2>7, Zenon DEF all
    <2>9. Append(q, u) \in Seq(B)
      OBVIOUS
    <2> QED
      BY <2>8, <2>9, Zenon
  <1>3. Seq(B) \subseteq T
    <2> HIDE DEF T, B
    <2> QED
      BY <1>1, <1>2, SequenceInduction
  <1> QED
    BY <1>3

(* Neither end is blank.                                                   *)
Neat(text) == text # <<>> /\ text[1] \notin Blanks /\ text[Len(text)] \notin Blanks

LEMMA StripKeeps ==
    ASSUME NEW U, Blanks \subseteq U, NEW text \in Seq(U)
    PROVE  /\ Strip(text) \in Seq(U) /\ Len(Strip(text)) <= Len(text)
           /\ WordsOf(Strip(text)) = WordsOf(text)
           /\ Strip(text) # <<>> => Neat(Strip(text))
  <1> DEFINE len == Len(text)
  <1>0. PICK m \in 0 .. len : \E n \in m .. len :
              /\ Strip(text) = SubSeq(text, m + 1, n)
              /\ \A i \in 1 .. m : text[i] \in Blanks
              /\ \A i \in n + 1 .. len : text[i] \in Blanks
              /\ m < n => text[m + 1] \notin Blanks /\ text[n] \notin Blanks
    BY StripSplits
  <1>1. PICK n \in m .. len :
              /\ Strip(text) = SubSeq(text, m + 1, n)
              /\ \A i \in 1 .. m : text[i] \in Blanks
              /\ \A i \in n + 1 .. len : text[i] \in Blanks
              /\ m < n => text[m + 1] \notin Blanks /\ text[n] \notin Blanks
    BY <1>0
  <1>2. /\ len \in Nat /\ m \in Nat /\ n \in Nat /\ m <= n /\ n <= len
        /\ 0 \in 0 .. len /\ m \in 0 .. len /\ n \in 0 .. len /\ len \in n .. len /\ len \in m .. len
    OBVIOUS
  <1> DEFINE before == SubSeq(text, 0 + 1, m)
             inner == SubSeq(text, m + 1, n)
             after == SubSeq(text, n + 1, len)
             rest == SubSeq(text, m + 1, len)
  <1>3. inner \in Seq(U) /\ Len(inner) = n - m /\ \A i \in 1 .. n - m : inner[i] = text[m + i]
    BY <1>2, SubSeqIs
  <1>4. before \in Seq(U) /\ Len(before) = m - 0 /\ \A i \in 1 .. m - 0 : before[i] = text[0 + i]
    BY <1>2, SubSeqIs
  <1>5. after \in Seq(U) /\ Len(after) = len - n /\ \A i \in 1 .. len - n : after[i] = text[n + i]
    BY <1>2, SubSeqIs
  <1>6. text = before \o rest
    <2>1. SubSeq(text, 0 + 1, len) = before \o rest
      BY <1>2, SubSeqSplits
    <2> QED
      BY <2>1, WholeList
  <1>7. rest = inner \o after
    BY <1>2, SubSeqSplits
  <1>8. rest \in Seq(U)
    BY <1>2, SubSeqIs
  <1> HIDE DEF before, inner, after, rest
  <1>9. before \in Seq(Blanks)
    <2>1. \A i \in 1 .. Len(before) : before[i] \in Blanks
      BY <1>1, <1>2, <1>4
    <2> QED
      BY <1>4, <2>1
  <1>10. after \in Seq(Blanks)
    <2>1. ASSUME NEW i \in 1 .. Len(after) PROVE after[i] \in Blanks
      <3>1. i \in 1 .. len - n /\ n + i \in n + 1 .. len
        BY <1>2, <1>5
      <3> QED
        BY <1>1, <1>5, <3>1
    <2> QED
      BY <1>5, <2>1
  <1>11. WordsOf(before \o rest) = WordsOf(rest)
    BY <1>8, <1>9, BlanksBefore
  <1>12. WordsOf(inner \o after) = WordsOf(inner)
    BY <1>3, <1>10, BlanksAfter
  <1>13. inner # <<>> => Neat(inner)
    <2>1. SUFFICES ASSUME inner # <<>> PROVE inner[1] \notin Blanks /\ inner[Len(inner)] \notin Blanks
      BY DEF Neat
    <2>2. Len(inner) # 0
      BY <1>3, <2>1
    <2>3. m < n /\ 1 \in 1 .. n - m /\ n - m \in 1 .. n - m /\ m + (n - m) = n
      BY <1>2, <1>3, <2>2
    <2> QED
      BY <1>1, <1>3, <2>3
  <1>14. Strip(text) = inner
    BY <1>1 DEF inner
  <1>15. Len(inner) <= len
    BY <1>2, <1>3
  <1> QED
    BY <1>3, <1>6, <1>7, <1>11, <1>12, <1>13, <1>14, <1>15

LEMMA Division ==
    ASSUME NEW n \in Nat, NEW d \in Nat \ {0}
    PROVE  n \div d \in Nat /\ d * (n \div d) <= n /\ n < d * (n \div d) + d
  OBVIOUS

(* A list is the join of its elements, each a list of its own.             *)
Single(X) == [x \in X |-> <<x>>]

LEMMA GatherSingles ==
    ASSUME NEW X, NEW seq \in Seq(X)
    PROVE  Gather(Single(X), seq) = seq
  <1> DEFINE M == Single(X)
             T == {s \in Seq(X) : Gather(M, s) = s}
  <1>0. M \in Maps(X, Seq(X))
    <2>1. \A x \in X : <<x>> \in Seq(X)
      OBVIOUS
    <2> QED
      BY <2>1, Zenon DEF Single, Maps
  <1>1. <<>> \in T
    <2>1. <<>> \in Seq(X)
      OBVIOUS
    <2> QED
      BY <2>1, GatherNothing, Zenon
  <1>2. ASSUME NEW s \in Seq(X), NEW x \in X, s \in T PROVE Append(s, x) \in T
    <2> DEFINE one == <<x>>
    <2>1. one \in Seq(X) /\ Append(s, x) = s \o one
      OBVIOUS
    <2>2. Gather(M, one) = M[x]
      <3> HIDE DEF M
      <3> QED
        BY <1>0, GatherOne
    <2>3. M[x] = one
      BY DEF Single
    <2> HIDE DEF M, one
    <2>4. Gather(M, s \o one) = Gather(M, s) \o Gather(M, one)
      BY <1>0, <2>1, GatherConcat
    <2>5. Append(s, x) \in Seq(X)
      OBVIOUS
    <2>6. Gather(M, Append(s, x)) = Append(s, x)
      BY <1>2, <2>1, <2>2, <2>3, <2>4, Zenon
    <2> QED
      BY <2>5, <2>6, Zenon
  <1>3. Seq(X) \subseteq T
    <2> HIDE DEF T
    <2> QED
      BY <1>1, <1>2, SequenceInduction
  <1> QED
    BY <1>3

-----------------------------------------------------------------------------
(* The words of several texts.                                             *)
WordMap(U) == [text \in Seq(U) |-> WordsOf(text)]
WordsOfAll(texts) == FlattenSeq([i \in DOMAIN texts |-> WordsOf(texts[i])])

LEMMA WordMapMaps ==
    ASSUME NEW U, Space \in U
    PROVE  WordMap(U) \in Maps(Seq(U), Seq(Seq(U)))
  BY WordsAreLists, Zenon DEF WordMap, Maps

LEMMA WordsOfAllIs ==
    ASSUME NEW U, NEW texts \in Seq(Seq(U))
    PROVE  WordsOfAll(texts) = Gather(WordMap(U), texts)
  <1> DEFINE S == Seq(U)
  <1>1. \A i \in DOMAIN texts : texts[i] \in S
    <2> HIDE DEF S
    <2>1. texts \in Seq(S)
      BY DEF S
    <2> QED
      BY <2>1
  <1>2. \A i \in DOMAIN texts : WordMap(U)[texts[i]] = WordsOf(texts[i])
    BY <1>1, Zenon DEF WordMap
  <1>3. Mapped(WordMap(U), texts) = [i \in DOMAIN texts |-> WordsOf(texts[i])]
    BY <1>2, Zenon DEF Mapped
  <1> QED
    BY <1>3, Zenon DEF WordsOfAll, Gather

LEMMA WordsOfAllAreLists ==
    ASSUME NEW U, Space \in U, NEW texts \in Seq(Seq(U))
    PROVE  WordsOfAll(texts) \in Seq(Seq(U))
  <1> DEFINE S == Seq(U)
             M == WordMap(U)
  <1>1. M \in Maps(S, Seq(S)) /\ texts \in Seq(S)
    BY WordMapMaps
  <1> HIDE DEF S, M
  <1>2. Gather(M, texts) \in Seq(S)
    BY <1>1, GatherIsList
  <1> QED
    BY <1>2, WordsOfAllIs DEF S, M

LEMMA WordsOfNothing ==
    WordsOfAll(<<>>) = <<>>
  <1>1. [i \in DOMAIN <<>> |-> WordsOf(<<>>[i])] = <<>>
    OBVIOUS
  <1> QED
    BY <1>1, FlattenNothing DEF WordsOfAll

LEMMA WordsOfOne ==
    ASSUME NEW U, Space \in U, NEW text \in Seq(U)
    PROVE  WordsOfAll(<<text>>) = WordsOf(text)
  <1> DEFINE S == Seq(U)
             M == WordMap(U)
  <1>1. M \in Maps(S, Seq(S)) /\ text \in S
    BY WordMapMaps
  <1>2. M[text] = WordsOf(text)
    BY Zenon DEF WordMap
  <1>3. <<text>> \in Seq(S)
    <2> HIDE DEF S
    <2> QED
      BY <1>1
  <1>4. WordsOfAll(<<text>>) = Gather(M, <<text>>)
    BY <1>3, WordsOfAllIs
  <1> HIDE DEF S, M
  <1>5. Gather(M, <<text>>) = M[text]
    BY <1>1, GatherOne
  <1> QED
    BY <1>2, <1>4, <1>5

LEMMA WordsOfConcat ==
    ASSUME NEW U, Space \in U, NEW a \in Seq(Seq(U)), NEW b \in Seq(Seq(U))
    PROVE  WordsOfAll(a \o b) = WordsOfAll(a) \o WordsOfAll(b)
  <1> DEFINE S == Seq(U)
             M == WordMap(U)
             ab == a \o b
  <1>1. M \in Maps(S, Seq(S)) /\ a \in Seq(S) /\ b \in Seq(S)
    BY WordMapMaps
  <1>2. ab \in Seq(S)
    <2> HIDE DEF S
    <2> QED
      BY <1>1
  <1>3. WordsOfAll(a) = Gather(M, a) /\ WordsOfAll(b) = Gather(M, b)
    BY WordsOfAllIs
  <1> HIDE DEF ab
  <1>4. WordsOfAll(ab) = Gather(M, ab)
    BY <1>2, WordsOfAllIs
  <1> HIDE DEF S, M
  <1>5. Gather(M, a \o b) = Gather(M, a) \o Gather(M, b)
    BY <1>1, GatherConcat
  <1> QED
    BY <1>3, <1>4, <1>5, Zenon DEF ab

-----------------------------------------------------------------------------
(* Pieces that have the words of a text: the same units in the same order, *)
(* and the same words when each of them fits in a chunk.                   *)
Fit(words) == \A i \in DOMAIN words : Len(words[i]) <= ChunkSize
Same(found, words) ==
    /\ FlattenSeq(found) = FlattenSeq(words)
    /\ Fit(words) => found = words

LEMMA FitParts ==
    ASSUME NEW X, NEW a \in Seq(X), NEW b \in Seq(X), Fit(a \o b)
    PROVE  Fit(a) /\ Fit(b)
  <1> DEFINE ab == a \o b
  <1>1. /\ DOMAIN ab = 1 .. Len(a) + Len(b) /\ Len(a) \in Nat /\ Len(b) \in Nat
        /\ DOMAIN a = 1 .. Len(a) /\ DOMAIN b = 1 .. Len(b)
        /\ \A i \in 1 .. Len(a) : ab[i] = a[i]
        /\ \A i \in 1 .. Len(b) : ab[Len(a) + i] = b[i]
    OBVIOUS
  <1>2. \A i \in DOMAIN ab : Len(ab[i]) <= ChunkSize
    BY DEF Fit
  <1> HIDE DEF ab
  <1>3. /\ \A i \in 1 .. Len(a) : i \in DOMAIN ab
        /\ \A i \in 1 .. Len(b) : Len(a) + i \in DOMAIN ab
    BY <1>1
  <1>4. \A i \in DOMAIN a : Len(a[i]) <= ChunkSize
    BY <1>1, <1>2, <1>3
  <1>5. \A i \in DOMAIN b : Len(b[i]) <= ChunkSize
    <2> SUFFICES ASSUME NEW i \in 1 .. Len(b) PROVE Len(b[i]) <= ChunkSize
      BY <1>1
    <2>1. Len(ab[Len(a) + i]) <= ChunkSize
      BY <1>2, <1>3
    <2> QED
      BY <1>1, <2>1
  <1> QED
    BY <1>4, <1>5, Zenon DEF Fit

LEMMA SameConcat ==
    ASSUME NEW X, NEW a \in Seq(Seq(X)), NEW b \in Seq(Seq(X)),
           NEW c \in Seq(Seq(X)), NEW d \in Seq(Seq(X)), Same(a, c), Same(b, d)
    PROVE  Same(a \o b, c \o d)
  <1>1. FlattenSeq(a \o b) = FlattenSeq(a) \o FlattenSeq(b)
    BY FlattenConcat
  <1>2. FlattenSeq(c \o d) = FlattenSeq(c) \o FlattenSeq(d)
    BY FlattenConcat
  <1>3. Fit(c \o d) => Fit(c) /\ Fit(d)
    <2> DEFINE S == Seq(X)
    <2>1. c \in Seq(S) /\ d \in Seq(S)
      OBVIOUS
    <2> HIDE DEF S
    <2> QED
      BY <2>1, FitParts
  <1> QED
    BY <1>1, <1>2, <1>3, Zenon DEF Same

LEMMA SameItself ==
    ASSUME NEW words
    PROVE  Same(words, words)
  BY DEF Same

(* What a chunk is before the overlap.                                     *)
Pieces(U) == {text \in Seq(U) : Len(text) \in 1 .. ChunkSize /\ Neat(text)}
Cuts(U, pieces, text) ==
    /\ pieces \in Seq(Pieces(U))
    /\ Same(WordsOfAll(pieces), WordsOf(text))

LEMMA PiecesAreTexts ==
    ASSUME NEW U, NEW pieces \in Seq(Pieces(U))
    PROVE  pieces \in Seq(Seq(U))
  <1> DEFINE S == Seq(U)
             P == Pieces(U)
  <1>1. P \subseteq S
    BY DEF Pieces
  <1>2. pieces \in Seq(P)
    OBVIOUS
  <1> HIDE DEF S, P
  <1>3. pieces \in Seq(S)
    BY <1>1, <1>2, SeqMonotonic
  <1> QED
    BY <1>3 DEF S

(* Where the units of a text are cut: every ChunkSize of them.             *)
IsCut(ends, k, len) ==
    /\ ends \in [0 .. k -> 0 .. len] /\ ends[0] = 0 /\ ends[k] = len
    /\ \A i \in 1 .. k : ends[i] - ends[i - 1] \in 1 .. ChunkSize

LEMMA UnitsAreCut ==
    ASSUME NEW U, NEW text \in Seq(U), text # <<>>
    PROVE  \E k \in Nat : \E ends :
              /\ IsCut(ends, k, Len(text))
              /\ SplitUnits(text) = [i \in 1 .. k |-> SubSeq(text, ends[i - 1] + 1, ends[i])]
  <1> DEFINE len == Len(text)
             size == ChunkSize
             k == (len + size - 1) \div size
             at == [i \in 0 .. k |-> i * size]
             ends == [i \in 0 .. k |-> IF i < k THEN at[i] ELSE len]
  <1>1. len \in Nat \ {0} /\ size \in Nat \ {0}
    BY ChunkingAssumption
  <1> HIDE DEF len, size
  <1>2. k \in Nat /\ size * k < len + size /\ len <= size * k
    <2> DEFINE n == len + size - 1
    <2>1. n \in Nat
      BY <1>1
    <2>2. n \div size \in Nat /\ size * (n \div size) <= n /\ n < size * (n \div size) + size
      <3> HIDE DEF n
      <3> QED
        BY <1>1, <2>1, Division
    <2> DEFINE q == n \div size
               x == size * q
    <2>3. q \in Nat /\ x \in Int /\ x <= n /\ n < x + size
      BY <1>1, <2>2
    <2> HIDE DEF q, x
    <2>4. x < len + size /\ len <= x
      BY <1>1, <2>3
    <2> QED
      BY <2>3, <2>4 DEF q, x
  <1> HIDE DEF k
  <1>3. /\ at[0] = 0 /\ \A i \in 0 .. k : at[i] = i * size /\ at[i] \in Nat
        /\ \A i \in 0 .. k - 1 : at[i + 1] = at[i] + size
    <2>1. \A i \in Nat : i * size \in Nat /\ (i + 1) * size = i * size + size
      BY <1>1
    <2>2. 0 * size = 0
      BY <1>1
    <2>3. \A i \in 0 .. k - 1 : i \in Nat /\ i \in 0 .. k /\ i + 1 \in 0 .. k
      BY <1>2
    <2>4. \A i \in 0 .. k : at[i] = i * size
      OBVIOUS
    <2> HIDE DEF at
    <2>5. 0 \in 0 .. k /\ \A i \in 0 .. k : i \in Nat
      BY <1>2
    <2>6. \A i \in 0 .. k : at[i] = i * size /\ at[i] \in Nat
      BY <2>1, <2>4, <2>5
    <2>7. \A i \in 0 .. k - 1 : at[i + 1] = at[i] + size
      BY <2>1, <2>3, <2>4
    <2> QED
      BY <2>2, <2>4, <2>5, <2>6, <2>7
  <1>4. at[k] = size * k
    <2>1. k * size = size * k
      BY <1>1, <1>2
    <2> QED
      BY <1>2, <1>3, <2>1
  <1> HIDE DEF at
  <1>5. k # 0
    BY <1>1, <1>2, <1>3, <1>4
  (* The last cut but one is inside the text.                               *)
  <1>6. \A i \in 0 .. k - 1 : at[i] < len
    <2>1. at[k - 1] < len
      <3>1. k - 1 \in 0 .. k - 1 /\ k - 1 + 1 = k /\ k - 1 \in 0 .. k
        BY <1>2, <1>5
      <3>2. at[k] = at[k - 1] + size /\ at[k - 1] \in Nat
        BY <1>3, <3>1
      <3>3. at[k] < len + size
        BY <1>2, <1>4
      <3> QED
        BY <1>1, <3>2, <3>3
    <2> DEFINE T == {j \in 0 .. k - 1 : at[k - 1 - j] < len}
    <2>2. 0 \in T
      <3>1. k - 1 - 0 = k - 1 /\ 0 \in 0 .. k - 1
        BY <1>2, <1>5
      <3> QED
        BY <2>1, <3>1
    <2>3. ASSUME NEW j \in 0 .. (k - 1) - 1, j \in T PROVE j + 1 \in T
      <3> DEFINE i == k - 1 - (j + 1)
      <3>1. i \in 0 .. k - 1 /\ i + 1 = k - 1 - j /\ i \in 0 .. k /\ j + 1 \in 0 .. k - 1
        BY <1>2
      <3>2. at[i + 1] = at[i] + size /\ at[i] \in Nat
        <4> HIDE DEF i
        <4> QED
          BY <1>3, <3>1
      <3>3. at[i + 1] < len
        BY <2>3, <3>1
      <3>4. at[i] < len
        <4> HIDE DEF i
        <4> QED
          BY <1>1, <3>2, <3>3
      <3> QED
        BY <3>1, <3>4
    <2>4. T = 0 .. k - 1
      <3>1. k - 1 \in Nat /\ T \in SUBSET (0 .. k - 1)
        BY <1>2, <1>5
      <3> HIDE DEF T
      <3> QED
        BY <2>2, <2>3, <3>1, Induction
    <2>5. ASSUME NEW i \in 0 .. k - 1 PROVE at[i] < len
      <3>1. k - 1 - i \in 0 .. k - 1 /\ k - 1 - (k - 1 - i) = i
        BY <1>2
      <3>2. k - 1 - i \in T
        BY <2>4, <3>1
      <3> QED
        BY <3>1, <3>2
    <2> QED
      BY <2>5
  <1>7. /\ ends[0] = 0 /\ ends[k] = len
        /\ \A i \in 0 .. k : ends[i] = IF i < k THEN at[i] ELSE len
    BY <1>2, <1>3, <1>5
  <1>8. ends \in [0 .. k -> 0 .. len]
    <2>1. \A i \in 0 .. k : i < k => i \in 0 .. k - 1
      BY <1>2
    <2>2. \A i \in 0 .. k : i < k => at[i] \in 0 .. len
      BY <1>1, <1>3, <1>6, <2>1
    <2>3. len \in 0 .. len
      BY <1>1
    <2> QED
      BY <2>2, <2>3
  <1> HIDE DEF ends
  <1>9. ASSUME NEW i \in 1 .. k
        PROVE  ends[i - 1] = (i - 1) * size /\ ends[i] = Min({i * size, len})
               /\ ends[i] - ends[i - 1] \in 1 .. size
    <2>1. i - 1 \in 0 .. k - 1 /\ i - 1 \in 0 .. k /\ i \in 0 .. k /\ i - 1 < k /\ i - 1 + 1 = i
      BY <1>2
    <2>2. ends[i - 1] = at[i - 1] /\ at[i - 1] = (i - 1) * size /\ at[i] = i * size
      BY <1>3, <1>7, <2>1
    <2>3. at[i] = at[i - 1] + size /\ at[i - 1] \in Nat /\ at[i] \in Nat /\ at[i - 1] < len
      BY <1>3, <1>6, <2>1
    <2>4. ends[i] = Min({at[i], len})
      <3> DEFINE x == at[i]
      <3>1. x \in Nat /\ (i < k => x < len) /\ (~(i < k) => len <= x)
        <4>1. i < k => i \in 0 .. k - 1
          BY <1>2
        <4>2. ~(i < k) => i = k
          BY <1>2
        <4> QED
          BY <1>2, <1>4, <1>6, <2>3, <4>1, <4>2
      <3>2. ends[i] = IF i < k THEN x ELSE len
        BY <1>7, <2>1
      <3> HIDE DEF x
      <3>3. Min({x, len}) = IF x < len THEN x ELSE len
        BY <1>1, <3>1 DEF Min
      <3>4. CASE i < k
        BY <3>1, <3>2, <3>3, <3>4 DEF x
      <3>5. CASE ~(i < k)
        <4>1. ends[i] = len /\ ~(x < len)
          BY <1>1, <3>1, <3>2, <3>5
        <4> QED
          BY <3>3, <4>1 DEF x
      <3> QED
        BY <3>4, <3>5
    <2>5. ends[i] - ends[i - 1] \in 1 .. size
      <3>1. CASE i < k
        <4>1. ends[i] = at[i]
          BY <1>7, <2>1, <3>1
        <4> QED
          BY <1>1, <2>2, <2>3, <4>1
      <3>2. CASE ~(i < k)
        <4>1. ends[i] = len /\ i = k
          BY <1>2, <1>7, <2>1, <3>2
        <4>2. len <= at[i]
          BY <1>2, <1>4, <4>1
        <4> QED
          BY <1>1, <2>2, <2>3, <4>1, <4>2
      <3> QED
        BY <3>1, <3>2
    <2> QED
      BY <2>2, <2>4, <2>5
  <1>10. IsCut(ends, k, len)
    BY <1>7, <1>8, <1>9 DEF IsCut, size
  <1>11. SplitUnits(text) = [i \in 1 .. k |-> SubSeq(text, ends[i - 1] + 1, ends[i])]
    <2>1. SplitUnits(text) = [i \in 1 .. k |-> SubSeq(text, (i - 1) * size + 1, Min({i * size, len}))]
      BY DEF SplitUnits, k, size, len
    <2>2. \A i \in 1 .. k : SubSeq(text, (i - 1) * size + 1, Min({i * size, len}))
                            = SubSeq(text, ends[i - 1] + 1, ends[i])
      BY <1>9, Zenon
    <2> QED
      BY <2>1, <2>2, Zenon
  <1> QED
    BY <1>2, <1>10, <1>11 DEF len

(* A word too long for a chunk.                                            *)
LEMMA UnitsAreKept ==
    ASSUME NEW U, NEW text \in Seq(U \ Blanks), Space \in U, Len(text) > ChunkSize
    PROVE  Cuts(U, SplitUnits(text), text)
  <1> DEFINE V == U \ Blanks
             len == Len(text)
             pieces == SplitUnits(text)
  <1>1. text # <<>> /\ len \in Nat
    <2>1. ChunkSize \in Nat /\ Len(<<>>) = 0
      BY ChunkingAssumption
    <2> QED
      BY <2>1
  <1>2. PICK k \in Nat : \E ends :
              /\ IsCut(ends, k, Len(text))
              /\ SplitUnits(text) = [i \in 1 .. k |-> SubSeq(text, ends[i - 1] + 1, ends[i])]
    BY <1>1, UnitsAreCut
  <1>3. PICK ends :
              /\ IsCut(ends, k, Len(text))
              /\ SplitUnits(text) = [i \in 1 .. k |-> SubSeq(text, ends[i - 1] + 1, ends[i])]
    BY <1>2
  <1>4. /\ ends \in [0 .. k -> 0 .. len] /\ ends[0] = 0 /\ ends[k] = len
        /\ \A i \in 1 .. k : ends[i] - ends[i - 1] \in 1 .. ChunkSize
    BY <1>3, Zenon DEF IsCut
  <1>5. text \in Seq(V)
    OBVIOUS
  <1> HIDE DEF V
  <1>6. ASSUME NEW i \in 1 .. k
        PROVE  /\ pieces[i] = SubSeq(text, ends[i - 1] + 1, ends[i])
               /\ pieces[i] \in Seq(V) /\ Len(pieces[i]) \in 1 .. ChunkSize
               /\ ends[i - 1] \in 0 .. len /\ ends[i] \in ends[i - 1] .. len
    <2>1. i - 1 \in 0 .. k /\ i \in 0 .. k
      BY <1>2
    <2>2. pieces[i] = SubSeq(text, ends[i - 1] + 1, ends[i])
      BY <1>3
    <2> DEFINE a == ends[i - 1]
               b == ends[i]
    <2>3. a \in 0 .. len /\ b \in 0 .. len /\ b - a \in 1 .. ChunkSize
      BY <1>4, <2>1
    <2> HIDE DEF a, b
    <2>4. a \in 0 .. len /\ b \in a .. len
      BY <1>1, <2>3, ChunkingAssumption
    <2>5. SubSeq(text, a + 1, b) \in Seq(V) /\ Len(SubSeq(text, a + 1, b)) = b - a
      BY <1>5, <2>4, SubSeqIs
    <2> HIDE DEF pieces
    <2> QED
      BY <2>2, <2>3, <2>4, <2>5 DEF a, b
  <1>7. pieces \in Seq(Seq(V)) /\ Len(pieces) = k
    <2>1. pieces \in [1 .. k -> Seq(V)]
      <3>1. pieces = [i \in 1 .. k |-> pieces[i]]
        BY <1>3
      <3> HIDE DEF pieces
      <3> QED
        BY <1>6, <3>1
    <2> DEFINE S == Seq(V)
    <2> HIDE DEF S, pieces
    <2>2. pieces \in [1 .. k -> S]
      BY <2>1 DEF S
    <2>3. pieces \in Seq(S) /\ Len(pieces) = k
      BY <2>2, FunctionIsList
    <2> QED
      BY <2>3 DEF S
  <1> HIDE DEF pieces
  <1>8. FlattenSeq(pieces) = text
    <2>1. PICK g \in [0 .. Len(pieces) -> Seq(V)] :
              /\ g[0] = <<>>
              /\ \A i \in 1 .. Len(pieces) : g[i] = g[i - 1] \o pieces[i]
              /\ FlattenSeq(pieces) = g[Len(pieces)]
      BY <1>7, FlattenUnfolds
    <2> DEFINE T == {i \in 0 .. k : g[i] = SubSeq(text, 0 + 1, ends[i])}
    <2>2. 0 \in T
      <3>1. SubSeq(text, 0 + 1, 0) = <<>>
        BY <1>5, WholeList
      <3> QED
        BY <1>4, <2>1, <3>1
    <2>3. ASSUME NEW i \in 0 .. k - 1, i \in T PROVE i + 1 \in T
      <3>1. i + 1 \in 1 .. k /\ i + 1 - 1 = i /\ i + 1 \in 0 .. k /\ i \in 0 .. k
        BY <1>2
      <3> DEFINE a == ends[i]
                 b == ends[i + 1]
      <3>2. pieces[i + 1] = SubSeq(text, a + 1, b) /\ a \in 0 .. len /\ b \in a .. len
        BY <1>6, <3>1
      <3>3. g[i + 1] = g[i] \o pieces[i + 1]
        <4>1. i + 1 \in 1 .. Len(pieces)
          BY <1>7, <3>1
        <4>2. g[i + 1] = g[(i + 1) - 1] \o pieces[i + 1]
          BY <2>1, <4>1
        <4>3. (i + 1) - 1 = i
          BY <3>1
        <4> QED
          BY <4>2, <4>3, Zenon
      <3>4. g[i] = SubSeq(text, 0 + 1, a)
        BY <2>3
      <3> HIDE DEF a, b
      <3>5. 0 \in 0 .. len /\ a \in 0 .. len /\ b \in a .. len
        BY <1>1, <3>2
      <3>6. SubSeq(text, 0 + 1, b) = SubSeq(text, 0 + 1, a) \o SubSeq(text, a + 1, b)
        BY <1>5, <3>5, SubSeqSplits
      <3>7. g[i + 1] = SubSeq(text, 0 + 1, b)
        BY <3>2, <3>3, <3>4, <3>6
      <3> QED
        BY <3>1, <3>7 DEF b
    <2>4. T = 0 .. k
      <3>1. T \in SUBSET (0 .. k)
        OBVIOUS
      <3> HIDE DEF T
      <3> QED
        BY <1>2, <2>2, <2>3, <3>1, Induction
    <2>5. g[k] = SubSeq(text, 0 + 1, len)
      <3>1. k \in T
        <4>1. k \in 0 .. k
          BY <1>2
        <4> HIDE DEF T
        <4> QED
          BY <2>4, <4>1
      <3> QED
        BY <1>4, <3>1
    <2> QED
      BY <1>5, <1>7, <2>1, <2>5, WholeList
  <1> DEFINE P == {t \in Seq(V) : t # <<>> /\ Len(t) \in 1 .. ChunkSize}
  <1>9. pieces \in Seq(P)
    <2>1. \A i \in 1 .. k : pieces[i] \in P
      <3>1. \A i \in 1 .. k : pieces[i] # <<>>
        BY <1>6
      <3> QED
        BY <1>6, <3>1
    <2> HIDE DEF P
    <2> QED
      BY <1>7, <2>1
  <1>10. P \subseteq Pieces(U)
    <2> SUFFICES ASSUME NEW t \in P PROVE t \in Pieces(U)
      OBVIOUS
    <2>1. t \in Seq(V) /\ t # <<>> /\ Len(t) \in 1 .. ChunkSize
      OBVIOUS
    <2>2. t[1] \in V /\ t[Len(t)] \in V
      BY <2>1
    <2>3. t \in Seq(U)
      BY <2>1 DEF V
    <2> QED
      BY <2>1, <2>2, <2>3 DEF Pieces, Neat, V
  <1>11. \A t \in P : WordsOf(t) = <<t>>
    BY OneWord DEF V
  <1> HIDE DEF P
  <1>12. WordsOfAll(pieces) = pieces
    <2>1. \A i \in DOMAIN pieces : pieces[i] \in P
      BY <1>9
    <2>2. \A i \in DOMAIN pieces : WordsOf(pieces[i]) = Single(P)[pieces[i]]
      BY <1>11, <2>1 DEF Single
    <2>3. [i \in DOMAIN pieces |-> WordsOf(pieces[i])] = Mapped(Single(P), pieces)
      BY <2>2, Zenon DEF Mapped
    <2>4. Gather(Single(P), pieces) = pieces
      BY <1>9, GatherSingles
    <2> QED
      BY <2>3, <2>4, Zenon DEF WordsOfAll, Gather
  <1>13. WordsOf(text) = <<text>>
    <2>1. text \in Seq(U \ Blanks)
      OBVIOUS
    <2> QED
      BY <1>1, <2>1, OneWord
  <1>14. FlattenSeq(<<text>>) = text
    BY <1>5, FlattenOne
  <1>15. ~Fit(<<text>>)
    BY ChunkingAssumption, <1>1 DEF Fit
  <1>16. Same(WordsOfAll(pieces), WordsOf(text))
    BY <1>8, <1>12, <1>13, <1>14, <1>15, Zenon DEF Same
  <1>17. pieces \in Seq(Pieces(U))
    BY <1>9, <1>10, SeqMonotonic
  <1> QED
    BY <1>16, <1>17 DEF Cuts, pieces

(* The words of a text are those of its parts.                             *)
LEMMA PartsHaveTheWords ==
    ASSUME NEW U, Blanks \subseteq U, NEW sep \in Blanks, NEW text \in Seq(U)
    PROVE  WordsOfAll(Parts(text, sep)) = WordsOf(text)
  <1> DEFINE S == Seq(U)
             Z == Seq(U \ {sep})
             same(t) == WordsOfAll(Parts(t, sep)) = WordsOf(t)
             (* What is after the last separator, and what is before it.   *)
             ends(t, l) == t = l \/ \E a \in S : t = (a \o <<sep>>) \o l /\ same(a)
             T == {t \in S : \E l \in Z : ends(t, l)}
  <1>0. Space \in U /\ sep \in U /\ sep \in Blanks \cap U /\ Z \subseteq S /\ <<>> \in Z /\ <<>> \in S
    <2>1. U \ {sep} \subseteq U
      OBVIOUS
    <2>2. Z \subseteq S
      BY <2>1, SeqMonotonic
    <2>3. <<>> \in Z
      OBVIOUS
    <2> HIDE DEF S, Z
    <2> QED
      BY <2>2, <2>3 DEF Blanks
  <1>1. ASSUME NEW l \in Z
        PROVE  Parts(l, sep) = <<l>> /\ <<l>> \in Seq(S) /\ WordsOfAll(<<l>>) = WordsOf(l)
    <2>1. sep \notin U \ {sep}
      OBVIOUS
    <2>2. Parts(l, sep) = <<l>>
      BY <2>1, PartsOne
    <2>3. l \in S
      BY <1>0
    <2>4. <<l>> \in Seq(S)
      <3> HIDE DEF S
      <3> QED
        BY <2>3
    <2> QED
      BY <1>0, <2>2, <2>3, <2>4, WordsOfOne
  <1>2. ASSUME NEW t \in T PROVE same(t)
    <2>1. PICK l \in Z : ends(t, l)
      OBVIOUS
    <2>2. CASE t = l
      BY <1>1, <2>2, Zenon
    <2>3. CASE \E a \in S : t = (a \o <<sep>>) \o l /\ same(a)
      <3>1. PICK a \in S : t = (a \o <<sep>>) \o l /\ same(a)
        BY <2>3, Zenon
      <3>2. l \in S
        BY <1>0
      <3>3. Parts((a \o <<sep>>) \o l, sep) = Parts(a, sep) \o Parts(l, sep)
        BY <1>0, <3>2, PartsConcat, ZenonT(30)
      <3> DEFINE before == Parts(a, sep)
                 one == <<l>>
      <3>4. before \in Seq(S) /\ one \in Seq(S)
        BY <1>1, SplitsAreLists DEF Lists
      <3> HIDE DEF before, one
      <3>5. WordsOfAll(before \o one) = WordsOfAll(before) \o WordsOfAll(one)
        BY <1>0, <3>4, WordsOfConcat
      <3>6. WordsOf((a \o <<sep>>) \o l) = WordsOf(a) \o WordsOf(l)
        BY <1>0, <3>2, WordsSplit, SMTT(30)
      <3> QED
        BY <1>1, <3>1, <3>3, <3>5, <3>6, Zenon DEF before, one
    <2> QED
      BY <2>1, <2>2, <2>3
  <1>3. <<>> \in T
    BY <1>0
  <1>4. ASSUME NEW t \in S, NEW u \in U, t \in T PROVE Append(t, u) \in T
    <2>1. Append(t, u) \in S
      OBVIOUS
    <2>2. CASE u = sep
      <3>1. Append(t, u) = (t \o <<sep>>) \o <<>>
        BY <2>2
      <3>2. same(t)
        BY <1>2, <1>4
      <3>3. ends(Append(t, u), <<>>)
        <4> HIDE DEF same, S
        <4> QED
          BY <3>1, <3>2
      <3> QED
        BY <1>0, <2>1, <3>3, Zenon
    <2>3. CASE u # sep
      <3>1. PICK l \in Z : ends(t, l)
        BY <1>4
      <3>2. u \in U \ {sep}
        BY <2>3
      <3>3. Append(l, u) \in Z
        BY <3>2
      <3>4. CASE t = l
        <4>1. ends(Append(t, u), Append(l, u))
          BY <3>4
        <4> QED
          BY <2>1, <3>3, <4>1, Zenon
      <3>5. CASE \E a \in S : t = (a \o <<sep>>) \o l /\ same(a)
        <4>1. PICK a \in S : t = (a \o <<sep>>) \o l /\ same(a)
          BY <3>5, Zenon
        <4> DEFINE b == a \o <<sep>>
        <4>2. b \in S /\ l \in S
          BY <1>0
        <4>3. Append(b \o l, u) = b \o Append(l, u)
          <5>1. \A x, y \in S : Append(x \o y, u) = x \o Append(y, u)
            BY SMTT(30)
          <5> HIDE DEF b, S
          <5> QED
            BY <4>2, <5>1, Zenon
        <4>4. Append(t, u) = (a \o <<sep>>) \o Append(l, u)
          BY <4>1, <4>3
        <4>5. ends(Append(t, u), Append(l, u))
          BY <4>1, <4>4, Zenon
        <4> QED
          BY <2>1, <3>3, <4>5, Zenon
      <3> QED
        BY <3>1, <3>4, <3>5
    <2> QED
      BY <2>2, <2>3
  <1>5. Seq(U) \subseteq T
    <2> HIDE DEF T
    <2> QED
      BY <1>3, <1>4, SequenceInduction
  <1> QED
    BY <1>2, <1>5

-----------------------------------------------------------------------------
(* Texts that fit in a chunk, and what is left of them without the blanks  *)
(* at their ends.                                                          *)
Short(U) == {text \in Seq(U) : Len(text) <= ChunkSize}
Stripped(texts) == NonEmpty([i \in DOMAIN texts |-> Strip(texts[i])])
Trimmed(U) == [text \in Short(U) |-> IF Strip(text) = <<>> THEN <<>> ELSE <<Strip(text)>>]

LEMMA ShortAreTexts ==
    ASSUME NEW U, NEW texts \in Seq(Short(U))
    PROVE  texts \in Seq(Seq(U))
  <1> DEFINE S == Seq(U)
             P == Short(U)
  <1>1. P \subseteq S
    BY DEF Short
  <1>2. texts \in Seq(P)
    OBVIOUS
  <1> HIDE DEF S, P
  <1>3. texts \in Seq(S)
    BY <1>1, <1>2, SeqMonotonic
  <1> QED
    BY <1>3 DEF S

LEMMA TrimmedText ==
    ASSUME NEW U, Blanks \subseteq U, NEW text \in Short(U)
    PROVE  /\ Trimmed(U)[text] \in Seq(Pieces(U))
           /\ WordsOfAll(Trimmed(U)[text]) = WordsOf(text)
  <1> DEFINE stripped == Strip(text)
             P == Pieces(U)
  <1>1. /\ stripped \in Seq(U) /\ Len(stripped) <= ChunkSize
        /\ WordsOf(stripped) = WordsOf(text)
        /\ stripped # <<>> => Neat(stripped)
    <2>1. text \in Seq(U) /\ Len(text) <= ChunkSize
      BY DEF Short
    <2>2. /\ Strip(text) \in Seq(U) /\ Len(Strip(text)) <= Len(text)
          /\ WordsOf(Strip(text)) = WordsOf(text)
          /\ Strip(text) # <<>> => Neat(Strip(text))
      BY <2>1, StripKeeps
    <2> HIDE DEF stripped
    <2>3. Len(stripped) \in Nat /\ Len(text) \in Nat
      BY <2>1, <2>2 DEF stripped
    <2> QED
      BY <2>1, <2>2, <2>3, ChunkingAssumption DEF stripped
  <1>2. Trimmed(U)[text] = IF stripped = <<>> THEN <<>> ELSE <<stripped>>
    BY DEF Trimmed
  <1> HIDE DEF stripped
  <1>3. CASE stripped = <<>>
    <2>1. <<>> \in Seq(P)
      <3> HIDE DEF P
      <3> QED
        OBVIOUS
    <2>2. WordsOf(text) = <<>>
      <3>1. WordsOf(text) = WordsOf(stripped)
        BY <1>1
      <3> QED
        BY <1>3, <3>1, NoWords, Zenon
    <2> QED
      BY <1>2, <1>3, <2>1, <2>2, WordsOfNothing, Zenon
  <1>4. CASE stripped # <<>>
    <2>1. stripped \in P
      <3>1. Len(stripped) \in 1 .. ChunkSize
        <4>1. Len(stripped) \in Nat /\ Len(stripped) # 0
          BY <1>1, <1>4
        <4> QED
          BY <1>1, <4>1, ChunkingAssumption
      <3>2. stripped \in Seq(U) /\ Neat(stripped)
        BY <1>1, <1>4
      <3> QED
        BY <3>1, <3>2, Zenon DEF Pieces
    <2>2. <<stripped>> \in Seq(P)
      <3> HIDE DEF P
      <3> QED
        BY <2>1
    <2>3. WordsOfAll(<<stripped>>) = WordsOf(stripped)
      <3>1. Space \in U /\ stripped \in Seq(U)
        BY <1>1 DEF Blanks
      <3> QED
        BY <3>1, WordsOfOne
    <2> QED
      BY <1>1, <1>2, <1>4, <2>2, <2>3, Zenon
  <1> QED
    BY <1>3, <1>4

(* The chunks that are left have all the words.                            *)
LEMMA TrimmedAll ==
    ASSUME NEW U, Blanks \subseteq U, NEW texts \in Seq(Short(U))
    PROVE  /\ Gather(Trimmed(U), texts) \in Seq(Pieces(U))
           /\ WordsOfAll(Gather(Trimmed(U), texts)) = WordsOfAll(texts)
           /\ Stripped(texts) = Gather(Trimmed(U), texts)
  <1> DEFINE P == Pieces(U)
             Q == Short(U)
             M == Trimmed(U)
             T == {s \in Seq(Q) : WordsOfAll(Gather(M, s)) = WordsOfAll(s)}
  <1>1. M \in Maps(Q, Seq(P))
    BY TrimmedText, Zenon DEF Trimmed, Maps
  <1>2. <<>> \in T
    <2>1. <<>> \in Seq(Q)
      <3> HIDE DEF Q
      <3> QED
        OBVIOUS
    <2>2. Gather(M, <<>>) = <<>>
      BY GatherNothing
    <2> QED
      BY <2>1, <2>2, Zenon
  <1>3. ASSUME NEW s \in Seq(Q), NEW x \in Q, s \in T PROVE Append(s, x) \in T
    <2> DEFINE one == <<x>>
               rest == Gather(M, s)
    <2>1. one \in Seq(Q) /\ Append(s, x) = s \o one /\ Append(s, x) \in Seq(Q)
      <3> HIDE DEF Q
      <3> QED
        OBVIOUS
    <2>2. Gather(M, one) = M[x] /\ rest \in Seq(P)
      <3> HIDE DEF M, Q, P
      <3> QED
        BY <1>1, GatherOne, GatherIsList
    <2> HIDE DEF one
    <2>3. Gather(M, s \o one) = rest \o Gather(M, one)
      <3> HIDE DEF M, Q, P
      <3> QED
        BY <1>1, <2>1, GatherConcat
    <2> DEFINE mx == M[x]
    <2>4. mx \in Seq(P) /\ WordsOfAll(mx) = WordsOf(x)
      BY TrimmedText
    <2> HIDE DEF mx, rest
    <2>5. rest \in Seq(Seq(U)) /\ mx \in Seq(Seq(U)) /\ s \in Seq(Seq(U)) /\ one \in Seq(Seq(U))
      BY <2>1, <2>2, <2>4, PiecesAreTexts, ShortAreTexts
    <2>6. WordsOfAll(rest \o mx) = WordsOfAll(rest) \o WordsOfAll(mx)
      BY <2>5, WordsOfConcat DEF Blanks
    <2>7. WordsOfAll(s \o one) = WordsOfAll(s) \o WordsOfAll(one)
      BY <2>5, WordsOfConcat DEF Blanks
    <2>8. WordsOfAll(one) = WordsOf(x)
      <3>1. x \in Seq(U)
        BY DEF Short
      <3>2. WordsOfAll(<<x>>) = WordsOf(x)
        BY <3>1, WordsOfOne DEF Blanks
      <3> QED
        BY <3>2 DEF one
    <2>9. WordsOfAll(rest) = WordsOfAll(s)
      BY <1>3 DEF rest
    <2> QED
      BY <2>1, <2>2, <2>3, <2>4, <2>6, <2>7, <2>8, <2>9, Zenon DEF mx
  <1>4. Seq(Q) \subseteq T
    <2> HIDE DEF T, Q
    <2> QED
      BY <1>2, <1>3, SequenceInduction
  <1>5. Gather(M, texts) \in Seq(P)
    <2> HIDE DEF M, P
    <2> QED
      BY <1>1, GatherIsList
  <1>6. Stripped(texts) = Gather(M, texts)
    <2>1. \A i \in DOMAIN texts : texts[i] \in Q
      <3> HIDE DEF Q
      <3> QED
        BY DEF Q
    <2> DEFINE stripped == [i \in DOMAIN texts |-> Strip(texts[i])]
    <2>2. DOMAIN stripped = DOMAIN texts /\ \A i \in DOMAIN texts : stripped[i] = Strip(texts[i])
      BY Zenon
    <2> HIDE DEF stripped
    <2>3. \A i \in DOMAIN texts : M[texts[i]] = IF stripped[i] = <<>> THEN <<>> ELSE <<stripped[i]>>
      BY <2>1, <2>2, Zenon DEF Trimmed
    <2>4. [i \in DOMAIN stripped |-> IF stripped[i] = <<>> THEN <<>> ELSE <<stripped[i]>>] = Mapped(M, texts)
      BY <2>2, <2>3, Zenon DEF Mapped
    <2>5. NonEmpty(stripped) = Gather(M, texts)
      BY <2>4, Zenon DEF NonEmpty, Gather
    <2> QED
      BY <2>5 DEF stripped, Stripped
  <1> QED
    BY <1>4, <1>5, <1>6

(* The chunks so far, and the one being filled.                            *)
Splits(U) == [chunks : Seq(Short(U)), current : Short(U)]

LEMMA ClosedHas ==
    ASSUME NEW U, Blanks \subseteq U, NEW split \in Splits(U)
    PROVE  /\ Closed(split) \in Seq(Short(U))
           /\ WordsOfAll(Closed(split)) = WordsOfAll(split.chunks) \o WordsOf(split.current)
           /\ WordsOfAll(split.chunks) \in Seq(Seq(U)) /\ WordsOf(split.current) \in Seq(Seq(U))
  <1> DEFINE P == Short(U)
             chs == split.chunks
             cur == split.current
             one == <<cur>>
  <1>1. chs \in Seq(P) /\ cur \in P
    BY DEF Splits
  <1>2. cur \in Seq(U) /\ Space \in U /\ chs \in Seq(Seq(U))
    BY <1>1, ShortAreTexts DEF Short, Blanks
  <1>3. Closed(split) = IF cur = <<>> THEN chs ELSE Append(chs, cur)
    BY DEF Closed
  <1> HIDE DEF chs, cur, P
  <1>4. one \in Seq(P) /\ chs \o one \in Seq(P) /\ Append(chs, cur) = chs \o one
    BY <1>1
  <1>5. Closed(split) \in Seq(P)
    BY <1>1, <1>3, <1>4
  <1>6. WordsOfAll(chs) \in Seq(Seq(U)) /\ WordsOf(cur) \in Seq(Seq(U))
    BY <1>2, WordsOfAllAreLists, WordsAreLists
  <1>7. WordsOfAll(Closed(split)) = WordsOfAll(chs) \o WordsOf(cur)
    <2>1. CASE cur = <<>>
      <3>1. WordsOf(cur) = <<>>
        BY <2>1, NoWords, Zenon
      <3>2. \A w \in Seq(Seq(U)) : w \o <<>> = w
        <4> DEFINE S == Seq(U)
        <4> HIDE DEF S
        <4>1. \A w \in Seq(S) : w \o <<>> = w
          OBVIOUS
        <4> QED
          BY <4>1 DEF S
      <3>3. WordsOfAll(chs) \o <<>> = WordsOfAll(chs)
        BY <1>6, <3>2, Zenon
      <3> QED
        BY <1>3, <2>1, <3>1, <3>3, Zenon
    <2>2. CASE cur # <<>>
      <3>1. WordsOfAll(<<cur>>) = WordsOf(cur)
        BY <1>2, WordsOfOne
      <3>2. one \in Seq(Seq(U))
        BY <1>4, ShortAreTexts DEF P
      <3> HIDE DEF one
      <3>3. WordsOfAll(chs \o one) = WordsOfAll(chs) \o WordsOfAll(one)
        BY <1>2, <3>2, WordsOfConcat
      <3> QED
        BY <1>3, <1>4, <2>2, <3>1, <3>3, Zenon DEF one
    <2> QED
      BY <2>1, <2>2
  <1> QED
    BY <1>5, <1>6, <1>7 DEF chs, cur, P

(* One more part, one more part of the words.                              *)
LEMMA AddPartKeeps ==
    ASSUME NEW U, Blanks \subseteq U, NEW split \in Splits(U), NEW sep \in Blanks,
           NEW part \in Seq(U), NEW pieces,
           Len(part) > ChunkSize => Cuts(U, pieces[part], part)
    PROVE  /\ AddPart(split, part, sep, pieces) \in Splits(U)
           /\ \A words \in Seq(Seq(U)) :
                 Same(WordsOfAll(Closed(split)), words)
                    => Same(WordsOfAll(Closed(AddPart(split, part, sep, pieces))), words \o WordsOf(part))
  <1> DEFINE P == Short(U)
             S == Seq(U)
             chs == split.chunks
             cur == split.current
             candidate == IF cur = <<>> THEN part ELSE cur \o <<sep>> \o part
             new == AddPart(split, part, sep, pieces)
             old == WordsOfAll(Closed(split))
             cp == pieces[part]
  <1>0. Space \in U /\ sep \in U /\ sep \in Blanks \cap U /\ ChunkSize \in Nat
    BY ChunkingAssumption DEF Blanks
  <1>1. chs \in Seq(P) /\ cur \in P /\ cur \in S
    BY DEF Splits, Short
  <1>2. candidate \in S /\ WordsOf(candidate) = WordsOf(cur) \o WordsOf(part)
    <2>1. CASE cur = <<>>
      <3>1. WordsOf(cur) = <<>> /\ WordsOf(part) \in Seq(S)
        BY <1>0, <2>1, NoWords, WordsAreLists
      <3> HIDE DEF S
      <3>2. <<>> \o WordsOf(part) = WordsOf(part)
        BY <3>1
      <3>3. candidate = part
        BY <2>1
      <3> QED
        BY <3>1, <3>2, <3>3 DEF S
    <2>2. CASE cur # <<>>
      <3> HIDE DEF cur
      <3>1. candidate = (cur \o <<sep>>) \o part
        BY <2>2
      <3>2. cur \in Seq(U)
        BY <1>1
      <3>3. (cur \o <<sep>>) \o part \in S
        BY <1>0, <3>2
      <3>4. WordsOf((cur \o <<sep>>) \o part) = WordsOf(cur) \o WordsOf(part)
        BY <1>0, <3>2, WordsSplit
      <3> HIDE DEF candidate
      <3> QED
        BY <3>1, <3>3, <3>4, Zenon
    <2> QED
      BY <2>1, <2>2
  <1>3. Len(candidate) \in Nat /\ Len(part) \in Nat
    BY <1>2
  <1> DEFINE filled == [split EXCEPT !.current = candidate]
  <1>4. new = CASE Len(candidate) <= ChunkSize -> filled
                [] Len(candidate) > ChunkSize /\ Len(part) <= ChunkSize ->
                       [chunks |-> Closed(split), current |-> part]
                [] OTHER -> [chunks |-> Closed(split) \o cp, current |-> <<>>]
    BY DEF AddPart
  <1>5. /\ Closed(split) \in Seq(P) /\ Closed(split) \in Seq(S)
        /\ old = WordsOfAll(chs) \o WordsOf(cur)
        /\ WordsOfAll(chs) \in Seq(S) /\ WordsOf(cur) \in Seq(S) /\ WordsOf(part) \in Seq(S)
        /\ old \in Seq(S)
    <2>1. /\ Closed(split) \in Seq(P) /\ old = WordsOfAll(chs) \o WordsOf(cur)
          /\ WordsOfAll(chs) \in Seq(S) /\ WordsOf(cur) \in Seq(S)
      BY ClosedHas
    <2>2. Closed(split) \in Seq(S)
      BY <2>1, ShortAreTexts
    <2>3. WordsOf(part) \in Seq(S)
      BY <1>0, WordsAreLists
    <2>4. old \in Seq(S)
      BY <1>0, <2>2, WordsOfAllAreLists
    <2> QED
      BY <2>1, <2>2, <2>3, <2>4
  <1>6. \A a, b, c \in Seq(S) : (a \o b) \o c = a \o (b \o c)
    <2> HIDE DEF S
    <2> QED
      OBVIOUS
  <1> HIDE DEF candidate, new, old, cp, chs, cur, P, filled
  (* What the part adds to the words, whole or in pieces.                  *)
  <1>7. \E more \in Seq(S) :
           /\ new \in Splits(U)
           /\ WordsOfAll(Closed(new)) = old \o more
           /\ Same(more, WordsOf(part))
    <2>1. CASE Len(candidate) <= ChunkSize
      <3>1. new = [chunks |-> chs, current |-> candidate]
        <4>1. new = [split EXCEPT !.current = candidate]
          <5>1. ~(Len(candidate) > ChunkSize)
            BY <1>0, <1>3, <2>1
          <5> QED
            BY <1>4, <2>1, <5>1 DEF filled
        <4> QED
          BY <4>1 DEF Splits, chs
      <3>2. candidate \in P
        BY <1>2, <2>1 DEF Short, P
      <3>3. new \in Splits(U) /\ new.chunks = chs /\ new.current = candidate
        BY <1>1, <3>1, <3>2 DEF Splits, P
      <3>4. WordsOfAll(Closed(new)) = WordsOfAll(new.chunks) \o WordsOf(new.current)
        BY <3>3, ClosedHas
      <3>5. WordsOfAll(Closed(new)) = WordsOfAll(chs) \o (WordsOf(cur) \o WordsOf(part))
        BY <1>2, <3>3, <3>4, Zenon
      <3>6. WordsOfAll(Closed(new)) = old \o WordsOf(part)
        BY <1>5, <1>6, <3>5, ZenonT(30)
      <3> QED
        BY <1>5, <3>3, <3>6, SameItself, Zenon
    <2>2. CASE Len(candidate) > ChunkSize /\ Len(part) <= ChunkSize
      <3>1. new = [chunks |-> Closed(split), current |-> part]
        <4>1. ~(Len(candidate) <= ChunkSize)
          BY <1>0, <1>3, <2>2
        <4> QED
          BY <1>4, <2>2, <4>1
      <3>2. part \in P
        BY <2>2 DEF Short, P
      <3>3. new \in Splits(U) /\ new.chunks = Closed(split) /\ new.current = part
        BY <1>5, <3>1, <3>2 DEF Splits, P
      <3>4. WordsOfAll(Closed(new)) = WordsOfAll(new.chunks) \o WordsOf(new.current)
        BY <3>3, ClosedHas
      <3>5. WordsOfAll(Closed(new)) = old \o WordsOf(part)
        BY <3>3, <3>4, Zenon DEF old
      <3> QED
        BY <1>5, <3>3, <3>5, SameItself, Zenon
    <2>3. CASE Len(candidate) > ChunkSize /\ Len(part) > ChunkSize
      <3> DEFINE longer == Closed(split) \o cp
      <3>1. new = [chunks |-> longer, current |-> <<>>]
        <4>1. ~(Len(candidate) <= ChunkSize) /\ ~(Len(part) <= ChunkSize)
          BY <1>0, <1>3, <2>3
        <4> QED
          BY <1>4, <2>3, <4>1
      <3>2. cp \in Seq(Pieces(U)) /\ Same(WordsOfAll(cp), WordsOf(part))
        BY <2>3 DEF Cuts, cp
      <3>3. cp \in Seq(P) /\ cp \in Seq(S)
        <4>1. Pieces(U) \subseteq P
          BY <1>0 DEF Pieces, Short, P
        <4>2. cp \in Seq(P)
          BY <3>2, <4>1, SeqMonotonic
        <4> QED
          BY <3>2, <4>2, PiecesAreTexts
      <3>4. longer \in Seq(P)
        BY <1>5, <3>3
      <3>5. WordsOfAll(longer) = old \o WordsOfAll(cp)
        BY <1>0, <1>5, <3>3, WordsOfConcat DEF old
      <3>6. WordsOfAll(cp) \in Seq(S)
        BY <1>0, <3>3, WordsOfAllAreLists
      <3> HIDE DEF longer
      <3>7. <<>> \in P
        <4>1. <<>> \in Seq(U) /\ Len(<<>>) <= ChunkSize
          BY <1>0
        <4> QED
          BY <4>1 DEF P, Short
      <3>8. new \in Splits(U) /\ Closed(new) = longer
        BY <3>1, <3>4, <3>7 DEF Splits, P, Closed
      <3> QED
        BY <3>2, <3>5, <3>6, <3>8, Zenon
    <2>4. \/ Len(candidate) <= ChunkSize
          \/ Len(candidate) > ChunkSize /\ Len(part) <= ChunkSize
          \/ Len(candidate) > ChunkSize /\ Len(part) > ChunkSize
      BY <1>0, <1>3
    <2> QED
      BY <2>1, <2>2, <2>3, <2>4, Zenon
  <1>8. PICK more \in Seq(S) :
           /\ new \in Splits(U)
           /\ WordsOfAll(Closed(new)) = old \o more
           /\ Same(more, WordsOf(part))
    BY <1>7
  <1>9. ASSUME NEW words \in Seq(S), Same(old, words)
        PROVE  Same(WordsOfAll(Closed(new)), words \o WordsOf(part))
    <2>1. Same(old \o more, words \o WordsOf(part))
      BY <1>5, <1>8, <1>9, SameConcat
    <2> QED
      BY <1>8, <2>1, Zenon
  <1> QED
    BY <1>8, <1>9 DEF new, old, S

(* Every part in its turn.                                                 *)
Fills(f, parts, sep, pieces) ==
    /\ f[0] = [chunks |-> <<>>, current |-> <<>>]
    /\ \A i \in 1 .. Len(parts) : f[i] = AddPart(f[i - 1], parts[i], sep, pieces)

LEMMA SplitUnfolds ==
    ASSUME NEW U, Blanks \subseteq U, NEW sep \in Blanks, NEW text \in Seq(U), NEW pieces,
           ~(Len(text) <= ChunkSize), sep \in ToSet(text),
           \A part \in ToSet(Parts(text, sep)) :
               Len(part) > ChunkSize => Cuts(U, pieces[part], part)
    PROVE  \E f \in [0 .. Len(Parts(text, sep)) -> Splits(U)] :
              /\ Fills(f, Parts(text, sep), sep, pieces)
              /\ SplitBy(sep, text, pieces) = Stripped(Closed(f[Len(Parts(text, sep))]))
  <1> DEFINE parts == Parts(text, sep)
             n == Len(parts)
             S == Splits(U)
             none == [chunks |-> <<>>, current |-> <<>>]
             step == [i \in 1 .. n |-> [m \in S |-> AddPart(m, parts[i], sep, pieces)]]
             Is(h) == h = [i \in 0 .. n |-> IF i = 0 THEN none ELSE AddPart(h[i - 1], parts[i], sep, pieces)]
             F == CHOOSE h : Is(h)
  <1>1. /\ n \in Nat /\ n \in 0 .. n
        /\ \A i \in 1 .. n : /\ parts[i] \in Seq(U)
                             /\ Len(parts[i]) > ChunkSize => Cuts(U, pieces[parts[i]], parts[i])
    <2>1. parts \in Seq(Seq(U))
      BY SplitsAreLists DEF Lists
    <2> HIDE DEF parts
    <2>2. n \in Nat /\ n \in 0 .. n /\ \A i \in 1 .. n : parts[i] \in Seq(U)
      <3> DEFINE Z == Seq(U)
      <3>1. parts \in Seq(Z)
        BY <2>1
      <3> HIDE DEF Z
      <3>2. n \in Nat /\ n \in 0 .. n /\ \A i \in 1 .. n : parts[i] \in Z
        BY <3>1
      <3> QED
        BY <3>2 DEF Z
    <2>3. DOMAIN parts = 1 .. n
      BY <2>1
    <2>4. \A i \in 1 .. n : parts[i] \in ToSet(parts)
      BY <2>3, Zenon DEF ToSet
    <2>5. \A part \in ToSet(parts) : Len(part) > ChunkSize => Cuts(U, pieces[part], part)
      BY DEF parts
    <2> QED
      BY <2>2, <2>4, <2>5
  <1> HIDE DEF parts
  <1>2. none \in S
    <2>1. <<>> \in Short(U)
      <3>1. <<>> \in Seq(U) /\ Len(<<>>) <= ChunkSize
        BY ChunkingAssumption
      <3> QED
        BY <3>1 DEF Short
    <2> DEFINE P == Short(U)
    <2>2. <<>> \in Seq(P)
      <3> HIDE DEF P
      <3> QED
        OBVIOUS
    <2> QED
      BY <2>1, <2>2 DEF Splits
  <1>3. step \in [1 .. n -> [S -> S]]
    <2>1. \A i \in 1 .. n : \A m \in S : AddPart(m, parts[i], sep, pieces) \in S
      BY <1>1, AddPartKeeps
    <2> HIDE DEF S, n
    <2> QED
      BY <2>1
  <1> HIDE DEF S
  <1>4. PICK f \in [0 .. n -> S] : Follows(f, n, none, step)
    <2> HIDE DEF n, none, step
    <2> QED
      BY <1>1, <1>2, <1>3, Recursion
  <1>5. ASSUME NEW i \in 1 .. n PROVE f[i] = AddPart(f[i - 1], parts[i], sep, pieces)
    <2>1. i \in 0 .. n /\ i # 0 /\ i - 1 \in 0 .. n
      BY <1>1
    <2>2. f[i] = step[i][f[i - 1]]
      BY <1>4, <2>1 DEF Follows
    <2>3. f[i - 1] \in S
      BY <2>1
    <2> QED
      BY <2>2, <2>3
  <1>6. f[0] = none
    BY <1>1, <1>4 DEF Follows
  <1>7. Is(f)
    <2>1. f = [i \in 0 .. n |-> f[i]]
      OBVIOUS
    <2>2. \A i \in 0 .. n : i # 0 => i \in 1 .. n
      BY <1>1
    <2> HIDE DEF none, n
    <2>3. \A i \in 0 .. n : f[i] = IF i = 0 THEN none ELSE AddPart(f[i - 1], parts[i], sep, pieces)
      BY <1>5, <1>6, <2>2
    <2> QED
      BY <2>1, <2>3
  <1>8. Is(F)
    <2> HIDE DEF Is
    <2> QED
      BY <1>7
  <1>9. SplitBy(sep, text, pieces) = Stripped(Closed(F[n]))
    BY DEF SplitBy, parts, Stripped
  <1>10. F[n] = f[n]
    <2> HIDE DEF F
    <2>1. \A i \in 0 .. n : F[i] = IF i = 0 THEN none ELSE AddPart(F[i - 1], parts[i], sep, pieces)
      BY <1>8
    <2>2. F[0] = f[0]
      <3> HIDE DEF none
      <3> QED
        BY <1>1, <1>6, <2>1
    <2>3. ASSUME NEW i \in 0 .. n - 1, F[i] = f[i] PROVE F[i + 1] = f[i + 1]
      <3>1. i + 1 \in 1 .. n /\ i + 1 \in 0 .. n /\ (i + 1) - 1 = i /\ i + 1 # 0
        BY <1>1
      <3>2. F[i + 1] = AddPart(F[(i + 1) - 1], parts[i + 1], sep, pieces)
        BY <2>1, <3>1
      <3>3. f[i + 1] = AddPart(f[(i + 1) - 1], parts[i + 1], sep, pieces)
        BY <1>5, <3>1
      <3> QED
        BY <2>3, <3>1, <3>2, <3>3, Zenon
    <2>4. \A i \in 0 .. n : F[i] = f[i]
      <3> HIDE DEF n
      <3> QED
        BY <1>1, <2>2, <2>3, SameValues
    <2> QED
      BY <1>1, <2>4
  <1> HIDE DEF F, n
  <1>11. SplitBy(sep, text, pieces) = Stripped(Closed(f[n]))
    BY <1>9, <1>10, Zenon
  <1>12. Fills(f, parts, sep, pieces)
    BY <1>5, <1>6 DEF Fills, n
  <1> QED
    BY <1>11, <1>12 DEF S, n, parts

(* A text cut along a separator has its words, if its parts that are too   *)
(* long, when they are cut by the next one, have theirs.                   *)
LEMMA SplitByCuts ==
    ASSUME NEW U, Blanks \subseteq U, NEW sep \in Blanks, NEW text \in Seq(U), NEW pieces,
           Len(text) <= ChunkSize => Neat(text),
           \A part \in ToSet(Parts(text, sep)) :
               Len(part) > ChunkSize => Cuts(U, pieces[part], part)
    PROVE  Cuts(U, SplitBy(sep, text, pieces), text)
  <1>0. Space \in U /\ ChunkSize \in Nat /\ Len(text) \in Nat
    BY ChunkingAssumption DEF Blanks
  <1>1. CASE Len(text) <= ChunkSize
    <2>1. SplitBy(sep, text, pieces) = <<text>>
      <3>1. ~(Len(text) > ChunkSize)
        BY <1>0, <1>1
      <3> DEFINE whole == <<text>>
                 other == pieces[text]
      <3>2. SplitBy(sep, text, pieces) = whole
        <4> HIDE DEF whole
        <4> QED
          BY <1>1, <3>1 DEF SplitBy, whole
      <3> QED
        BY <3>2
    <2>2. text \in Pieces(U)
      <3>1. text # <<>>
        BY <1>1 DEF Neat
      <3>2. Len(text) # 0
        BY <3>1
      <3>3. Len(text) \in 1 .. ChunkSize
        BY <1>0, <1>1, <3>2
      <3> QED
        BY <1>1, <3>3 DEF Pieces
    <2> DEFINE P == Pieces(U)
    <2>3. <<text>> \in Seq(P)
      <3> HIDE DEF P
      <3> QED
        BY <2>2 DEF P
    <2>4. WordsOfAll(<<text>>) = WordsOf(text)
      BY <1>0, WordsOfOne
    <2> QED
      BY <2>1, <2>3, <2>4, SameItself, Zenon DEF Cuts
  <1>2. CASE ~(Len(text) <= ChunkSize) /\ sep \notin ToSet(text)
    <2>1. Len(text) > ChunkSize
      BY <1>0, <1>2
    <2>2. SplitBy(sep, text, pieces) = pieces[text]
      <3> DEFINE other == pieces[text]
      <3> HIDE DEF other
      <3>1. SplitBy(sep, text, pieces) = other
        BY <1>2, <2>1 DEF SplitBy, other
      <3> QED
        BY <3>1 DEF other
    <2>3. text \in Seq(U \ {sep})
      <3>1. \A i \in 1 .. Len(text) : text[i] \in U /\ text[i] # sep
        BY <1>2 DEF ToSet
      <3> QED
        BY <3>1
    <2>4. Parts(text, sep) = <<text>>
      <3> DEFINE Z == U \ {sep}
      <3>1. sep \notin Z
        OBVIOUS
      <3>2. text \in Seq(Z)
        BY <2>3
      <3> HIDE DEF Z
      <3> QED
        BY <3>1, <3>2, PartsOne
    <2>5. text \in ToSet(<<text>>)
      BY DEF ToSet
    <2>6. text \in ToSet(Parts(text, sep))
      BY <2>4, <2>5, Zenon
    <2> QED
      BY <2>1, <2>2, <2>6, Zenon
  <1>3. CASE ~(Len(text) <= ChunkSize) /\ sep \in ToSet(text)
    <2> DEFINE parts == Parts(text, sep)
               n == Len(parts)
               words == [i \in DOMAIN parts |-> WordsOf(parts[i])]
               S == Seq(U)
    <2>1. PICK f \in [0 .. n -> Splits(U)] :
              Fills(f, parts, sep, pieces) /\ SplitBy(sep, text, pieces) = Stripped(Closed(f[n]))
      <3>1. \A part \in ToSet(Parts(text, sep)) : Len(part) > ChunkSize => Cuts(U, pieces[part], part)
        OBVIOUS
      <3> QED
        BY <1>3, <3>1, SplitUnfolds
    <2>2. /\ n \in Nat /\ DOMAIN parts = 1 .. n
          /\ \A i \in 1 .. n : /\ parts[i] \in S
                               /\ Len(parts[i]) > ChunkSize => Cuts(U, pieces[parts[i]], parts[i])
      <3>1. parts \in Seq(S)
        BY SplitsAreLists DEF Lists
      <3> HIDE DEF parts, S
      <3>2. n \in Nat /\ DOMAIN parts = 1 .. n /\ \A i \in 1 .. n : parts[i] \in S
        BY <3>1
      <3>3. \A i \in 1 .. n : parts[i] \in ToSet(parts)
        BY <3>2, Zenon DEF ToSet
      <3>4. \A part \in ToSet(parts) : Len(part) > ChunkSize => Cuts(U, pieces[part], part)
        BY DEF parts
      <3> QED
        BY <3>2, <3>3, <3>4
    <2>3. WordsOfAll(parts) = WordsOf(text)
      BY PartsHaveTheWords
    <2>4. words \in Seq(Seq(S)) /\ Len(words) = n
      <3> HIDE DEF parts
      <3>1. \A i \in 1 .. n : WordsOf(parts[i]) \in Seq(S)
        BY <1>0, <2>2, WordsAreLists
      <3>2. words \in [1 .. n -> Seq(S)]
        BY <2>2, <3>1
      <3> HIDE DEF words
      <3> QED
        BY <2>2, <3>2, FunctionIsList
    <2>5. WordsOfAll(parts) = FlattenSeq(words)
      BY DEF WordsOfAll
    <2>6. PICK g \in [0 .. n -> Seq(S)] :
              /\ g[0] = <<>>
              /\ \A i \in 1 .. n : g[i] = g[i - 1] \o words[i]
              /\ FlattenSeq(words) = g[n]
      <3> HIDE DEF words, n, S
      <3> QED
        BY <2>4, FlattenUnfolds
    <2>7. \A i \in 1 .. n : words[i] = WordsOf(parts[i])
      BY <2>2
    <2> HIDE DEF words
    <2>8. /\ f[0] = [chunks |-> <<>>, current |-> <<>>]
           /\ \A i \in 1 .. n : f[i] = AddPart(f[i - 1], parts[i], sep, pieces)
      <3> HIDE DEF parts
      <3> QED
        BY <2>1 DEF Fills
    <2> HIDE DEF parts, n
    <2> DEFINE good(i) == Same(WordsOfAll(Closed(f[i])), g[i])
               T == {i \in 0 .. n : good(i)}
    <2>9. 0 \in T
      <3>1. f[0].chunks = <<>> /\ f[0].current = <<>>
        BY <2>8
      <3>2. Closed(f[0]) = <<>>
        BY <3>1, Zenon DEF Closed
      <3>3. WordsOfAll(Closed(f[0])) = g[0]
        BY <2>6, <3>2, WordsOfNothing, Zenon
      <3>4. 0 \in 0 .. n
        BY <2>2
      <3> QED
        BY <3>3, <3>4, SameItself, Zenon
    <2>10. ASSUME NEW i \in 0 .. n - 1, i \in T PROVE i + 1 \in T
      <3>1. i + 1 \in 1 .. n /\ (i + 1) - 1 = i /\ i + 1 \in 0 .. n /\ i \in 0 .. n
        BY <2>2
      <3> DEFINE part == parts[i + 1]
                 split == f[i]
                 new == AddPart(split, part, sep, pieces)
      <3>2. f[i + 1] = new
        <4>1. f[i + 1] = AddPart(f[(i + 1) - 1], parts[i + 1], sep, pieces)
          BY <2>8, <3>1
        <4> QED
          BY <3>1, <4>1, Zenon
      <3>3. g[i + 1] = g[i] \o WordsOf(part)
        <4>1. g[i + 1] = g[(i + 1) - 1] \o words[i + 1]
          BY <2>6, <3>1
        <4> QED
          BY <2>7, <3>1, <4>1, Zenon
      <3>4. split \in Splits(U) /\ part \in S /\ g[i] \in Seq(S)
        BY <2>2, <2>6, <3>1
      <3>5. Len(part) > ChunkSize => Cuts(U, pieces[part], part)
        BY <2>2, <3>1
      <3>6. Same(WordsOfAll(Closed(split)), g[i])
        BY <2>10
      <3> HIDE DEF split, part
      <3>7. Same(WordsOfAll(Closed(new)), g[i] \o WordsOf(part))
        BY <3>4, <3>5, <3>6, AddPartKeeps
      <3>8. good(i + 1)
        BY <3>2, <3>3, <3>7, Zenon
      <3> QED
        BY <3>1, <3>8, Zenon
    <2>11. T = 0 .. n
      <3>1. T \in SUBSET (0 .. n)
        OBVIOUS
      <3> HIDE DEF T
      <3> QED
        BY <2>2, <2>9, <2>10, <3>1, Induction
    <2>12. good(n)
      <3>1. n \in 0 .. n
        BY <2>2
      <3>2. n \in T
        BY <2>11, <3>1, Zenon
      <3> QED
        BY <3>2, Zenon
    <2> DEFINE closed == Closed(f[n])
               trimmed == Gather(Trimmed(U), closed)
    <2>13. closed \in Seq(Short(U))
      <3>1. f[n] \in Splits(U)
        BY <2>2
      <3> QED
        BY <3>1, ClosedHas
    <2>14. /\ trimmed \in Seq(Pieces(U)) /\ WordsOfAll(trimmed) = WordsOfAll(closed)
           /\ Stripped(closed) = trimmed
      <3> HIDE DEF closed
      <3> QED
        BY <2>13, TrimmedAll
    <2>15. SplitBy(sep, text, pieces) = trimmed
      BY <2>1, <2>14, Zenon
    <2>16. Same(WordsOfAll(trimmed), WordsOf(text))
      BY <2>3, <2>5, <2>6, <2>12, <2>14, Zenon
    <2> QED
      BY <2>14, <2>15, <2>16, Zenon DEF Cuts
  <1> QED
    BY <1>1, <1>2, <1>3

(* A line too long for a chunk, cut along its words.                       *)
LEMMA WordsAreCut ==
    ASSUME NEW U, Blanks \subseteq U, NEW line \in Seq(U \ {NewLine}), Len(line) > ChunkSize
    PROVE  Cuts(U, SplitWords(line), line)
  <1> DEFINE parts == Parts(line, Space)
             pieces == [word \in ToSet(parts) |-> SplitUnits(word)]
             V == U \ {NewLine}
  <1>0. Space \in U /\ Space \in Blanks /\ ChunkSize \in Nat
    BY ChunkingAssumption DEF Blanks
  <1>1. line \in Seq(U) /\ Len(line) \in Nat
    <2>1. V \subseteq U
      OBVIOUS
    <2>2. line \in Seq(V)
      OBVIOUS
    <2> HIDE DEF V
    <2> QED
      BY <2>1, <2>2
  <1>2. ASSUME NEW word \in ToSet(parts), Len(word) > ChunkSize
        PROVE  Cuts(U, pieces[word], word)
    <2>1. parts \in Seq(Seq(V \ {Space}))
      <3> HIDE DEF V
      <3> QED
        BY PartsAreWithout DEF V
    <2> DEFINE S == Seq(V \ {Space})
    <2>2. word \in S
      <3> HIDE DEF S, parts
      <3>1. \A i \in DOMAIN parts : parts[i] \in S
        BY <2>1 DEF S
      <3> QED
        BY <3>1, Zenon DEF ToSet
    <2>3. V \ {Space} = U \ Blanks
      BY DEF Blanks
    <2>4. word \in Seq(U \ Blanks)
      BY <2>2, <2>3, Zenon
    <2>5. Cuts(U, SplitUnits(word), word)
      BY <1>0, <1>2, <2>4, UnitsAreKept
    <2>6. pieces[word] = SplitUnits(word)
      BY Zenon
    <2> QED
      BY <2>5, <2>6, Zenon
  <1>3. Len(line) <= ChunkSize => Neat(line)
    BY <1>0, <1>1
  <1>4. SplitWords(line) = SplitBy(Space, line, pieces)
    BY Zenon DEF SplitWords
  <1> HIDE DEF pieces
  <1>5. Cuts(U, SplitBy(Space, line, pieces), line)
    BY <1>0, <1>1, <1>2, <1>3, SplitByCuts DEF parts
  <1> QED
    BY <1>4, <1>5, Zenon

(* A text, cut along its lines.                                            *)
LEMMA LinesAreCut ==
    ASSUME NEW U, Blanks \subseteq U, NEW text \in Seq(U), Neat(text)
    PROVE  Cuts(U, SplitLines(text), text)
  <1> DEFINE parts == Parts(text, NewLine)
             pieces == [line \in ToSet(parts) |-> SplitWords(line)]
             V == U \ {NewLine}
  <1>0. NewLine \in Blanks
    BY DEF Blanks
  <1>2. ASSUME NEW line \in ToSet(parts), Len(line) > ChunkSize
        PROVE  Cuts(U, pieces[line], line)
    <2>1. parts \in Seq(Seq(V))
      BY PartsAreWithout
    <2> DEFINE S == Seq(V)
    <2>2. line \in S
      <3> HIDE DEF S, parts
      <3>1. \A i \in DOMAIN parts : parts[i] \in S
        BY <2>1 DEF S
      <3> QED
        BY <3>1, Zenon DEF ToSet
    <2>3. Cuts(U, SplitWords(line), line)
      BY <1>2, <2>2, WordsAreCut
    <2>4. pieces[line] = SplitWords(line)
      BY Zenon
    <2> QED
      BY <2>3, <2>4, Zenon
  <1>3. SplitLines(text) = SplitBy(NewLine, text, pieces)
    BY Zenon DEF SplitLines
  <1> HIDE DEF pieces
  <1>4. Cuts(U, SplitBy(NewLine, text, pieces), text)
    BY <1>0, <1>2, SplitByCuts DEF parts
  <1> QED
    BY <1>3, <1>4, Zenon

-----------------------------------------------------------------------------
(* A chunk that begins with the end of another one ends with itself.       *)
LEMMA OwnPart ==
    ASSUME NEW U, NEW o \in Seq(U), Len(o) <= Overlap, NEW c \in Seq(U), Neat(c)
    PROVE  \E r \in 0 .. Overlap :
               SubSeq(Strip(o \o c), 1 + r, Len(Strip(o \o c))) = c
  <1> DEFINE t == o \o c
             k == Len(o)
             len == Len(t)
  <1>1. /\ k \in Nat /\ Len(c) \in Nat \ {0} /\ len = k + Len(c) /\ t \in Seq(U)
        /\ t[k + 1] = c[1] /\ t[len] = c[Len(c)]
    <2>1. c # <<>>
      BY DEF Neat
    <2>2. Len(c) \in Nat \ {0} /\ k \in Nat /\ len = k + Len(c) /\ t \in Seq(U)
      BY <2>1
    <2>3. \A i \in 1 .. Len(c) : t[k + i] = c[i]
      OBVIOUS
    <2> HIDE DEF t, k, len
    <2> QED
      BY <2>2, <2>3
  <1>2. c[1] \notin Blanks /\ c[Len(c)] \notin Blanks
    BY DEF Neat
  <1> HIDE DEF t
  <1>3. PICK m \in 0 .. len : \E n \in m .. len :
              /\ Strip(t) = SubSeq(t, m + 1, n)
              /\ \A i \in 1 .. m : t[i] \in Blanks
              /\ \A i \in n + 1 .. len : t[i] \in Blanks
              /\ m < n => t[m + 1] \notin Blanks /\ t[n] \notin Blanks
    BY <1>1, StripSplits
  <1>4. PICK n \in m .. len :
              /\ Strip(t) = SubSeq(t, m + 1, n)
              /\ \A i \in 1 .. m : t[i] \in Blanks
              /\ \A i \in n + 1 .. len : t[i] \in Blanks
    BY <1>3
  <1> HIDE DEF k, len
  <1>5. n = len /\ m <= k
    <2>1. len \in n + 1 .. len \/ n = len
      BY <1>1
    <2>2. k + 1 \in 1 .. m \/ m <= k
      BY <1>1
    <2> QED
      BY <1>1, <1>2, <1>4, <2>1, <2>2
  <1> DEFINE a == SubSeq(t, m + 1, k)
  <1>6. a \in Seq(U) /\ Len(a) = k - m /\ SubSeq(t, k + 1, len) = c /\ Strip(t) = a \o c
    <2>1. m \in 0 .. Len(t) /\ k \in m .. Len(t) /\ len \in k .. Len(t)
      BY <1>1, <1>5 DEF len
    <2>2. SubSeq(t, m + 1, len) = SubSeq(t, m + 1, k) \o SubSeq(t, k + 1, len)
      BY <1>1, <2>1, SubSeqSplits
    <2>3. a \in Seq(U) /\ Len(a) = k - m
      BY <1>1, <2>1, SubSeqIs
    <2>4. SubSeq(t, k + 1, len) = c
      <3>1. 0 \in 0 .. Len(o)
        BY <1>1 DEF k
      <3>2. SubSeq(o \o c, Len(o) + 1, Len(o \o c)) = c
        BY <3>1, ConcatParts
      <3> QED
        BY <3>2 DEF t, k, len
    <2> QED
      BY <1>4, <1>5, <2>2, <2>3, <2>4
  <1> HIDE DEF a
  <1>7. SubSeq(a \o c, Len(a) + 1, Len(a \o c)) = c
    <2>1. 0 \in 0 .. Len(a)
      BY <1>1, <1>5, <1>6
    <2> QED
      BY <1>6, <2>1, ConcatParts
  <1>8. Len(a) \in 0 .. Overlap /\ Len(a) + 1 = 1 + Len(a)
    BY <1>1, <1>5, <1>6, ChunkingAssumption DEF k
  <1>9. SubSeq(Strip(t), 1 + Len(a), Len(Strip(t))) = c
    BY <1>6, <1>7, <1>8, Zenon
  <1> QED
    BY <1>8, <1>9 DEF t

(* The end of a chunk that goes before the next one.                       *)
LEMMA EndsAreShort ==
    ASSUME NEW U, NEW before \in Seq(U)
    PROVE  LET end == SubSeq(before, Max({1, Len(before) - Overlap + 1}), Len(before))
           IN end \in Seq(U) /\ Len(end) <= Overlap
  <1> DEFINE len == Len(before)
             from == Max({1, len - Overlap + 1})
  <1>1. len \in Nat /\ Overlap \in Nat
    BY ChunkingAssumption
  <1>2. from \in 1 .. len + 1 /\ len - (from - 1) <= Overlap
    <2> DEFINE x == len - Overlap + 1
    <2>1. x \in Int /\ x <= len + 1 /\ len + 1 - x = Overlap
      BY <1>1
    <2> HIDE DEF x, len
    <2>2. Max({1, x}) = IF x > 1 THEN x ELSE 1
      BY <2>1 DEF Max
    <2> QED
      BY <1>1, <2>1, <2>2 DEF x
  <1> HIDE DEF from
  <1> DEFINE a == from - 1
  <1>3. a \in 0 .. Len(before) /\ Len(before) \in a .. Len(before) /\ a + 1 = from /\ len - a <= Overlap
    BY <1>1, <1>2
  <1> HIDE DEF a
  <1>4. /\ SubSeq(before, a + 1, len) \in Seq(U)
        /\ Len(SubSeq(before, a + 1, len)) = len - a
    BY <1>1, <1>3, SubSeqIs
  <1> QED
    BY <1>3, <1>4 DEF from

(* Chunks that cut a text cover it, each with the end of the one before.   *)
LEMMA OverlapCovers ==
    ASSUME NEW U, NEW chs, NEW text, Cuts(U, chs, text)
    PROVE  CoversInOrder(ApplyOverlap(chs), text)
  <1> DEFINE out == ApplyOverlap(chs)
             n == Len(chs)
             end(i) == SubSeq(chs[i - 1], Max({1, Len(chs[i - 1]) - Overlap + 1}), Len(chs[i - 1]))
  <1>1. /\ n \in Nat /\ DOMAIN chs = 1 .. n /\ chs = [i \in 1 .. n |-> chs[i]]
        /\ \A i \in 1 .. n : chs[i] \in Seq(U) /\ Neat(chs[i]) /\ Len(chs[i]) \in 1 .. ChunkSize
    <2> DEFINE P == Pieces(U)
    <2>1. chs \in Seq(P)
      BY DEF Cuts
    <2> HIDE DEF P
    <2>2. n \in Nat /\ DOMAIN chs = 1 .. n /\ chs = [i \in 1 .. n |-> chs[i]]
      BY <2>1
    <2>3. \A i \in 1 .. n : chs[i] \in P
      BY <2>1
    <2>4. \A p \in P : p \in Seq(U) /\ Neat(p) /\ Len(p) \in 1 .. ChunkSize
      BY DEF P, Pieces
    <2> HIDE DEF n
    <2> QED
      BY <2>2, <2>3, <2>4
  <1>2. out = [i \in 1 .. n |-> IF i = 1 THEN chs[i] ELSE Strip(end(i) \o chs[i])]
    BY <1>1, Zenon DEF ApplyOverlap
  <1>3. ASSUME NEW i \in 1 .. n, i # 1
        PROVE  end(i) \in Seq(U) /\ Len(end(i)) <= Overlap
    <2>1. chs[i - 1] \in Seq(U)
      BY <1>1, <1>3
    <2> QED
      BY <2>1, EndsAreShort
  <1> HIDE DEF end
  <1> DEFINE mine(i, r) == SubSeq(out[i], 1 + r, Len(out[i])) = chs[i]
  <1>4. ASSUME NEW i \in 1 .. n, i # 1
        PROVE  \E r \in 0 .. Overlap : mine(i, r)
    <2>1. out[i] = Strip(end(i) \o chs[i])
      BY <1>2, <1>4
    <2> DEFINE o == end(i)
               c == chs[i]
    <2>2. o \in Seq(U) /\ Len(o) <= Overlap /\ c \in Seq(U) /\ Neat(c)
      BY <1>1, <1>3, <1>4
    <2> HIDE DEF o, c, out
    <2>3. \E r \in 0 .. Overlap : SubSeq(Strip(o \o c), 1 + r, Len(Strip(o \o c))) = c
      BY <2>2, OwnPart
    <2> QED
      BY <2>1, <2>3, Zenon DEF o, c
  <1>5. ASSUME NEW i \in 1 .. n, i = 1
        PROVE  mine(i, 0)
    <2>1. out[i] = chs[i] /\ chs[i] \in Seq(U)
      BY <1>1, <1>2, <1>5
    <2>2. 1 + 0 = 0 + 1
      OBVIOUS
    <2> QED
      BY <2>1, <2>2, WholeList, Zenon
  <1>6. DOMAIN out = 1 .. n
    BY <1>2, Zenon
  <1> HIDE DEF out
  <1> DEFINE repeated == [i \in 1 .. n |-> IF i = 1 THEN 0 ELSE CHOOSE r \in 0 .. Overlap : mine(i, r)]
             own == [i \in DOMAIN out |->
                        SubSeq(out[i], 1 + (IF i = 1 THEN 0 ELSE repeated[i]), Len(out[i]))]
  <1>7. repeated \in [DOMAIN out -> 0 .. Overlap]
    <2>1. 0 \in 0 .. Overlap
      BY ChunkingAssumption
    <2>2. \A i \in 1 .. n : i # 1 => (CHOOSE r \in 0 .. Overlap : mine(i, r)) \in 0 .. Overlap
      BY <1>4, Zenon
    <2> HIDE DEF mine
    <2>3. \A i \in 1 .. n : repeated[i] \in 0 .. Overlap
      BY <2>1, <2>2
    <2> QED
      BY <1>6, <2>3
  <1>8. own = chs
    <2>1. \A i \in 1 .. n : SubSeq(out[i], 1 + (IF i = 1 THEN 0 ELSE repeated[i]), Len(out[i])) = chs[i]
      <3> SUFFICES ASSUME NEW i \in 1 .. n
                   PROVE SubSeq(out[i], 1 + (IF i = 1 THEN 0 ELSE repeated[i]), Len(out[i])) = chs[i]
        OBVIOUS
      <3>1. CASE i = 1
        BY <1>5, <3>1, Zenon
      <3>2. CASE i # 1
        <4>1. mine(i, CHOOSE r \in 0 .. Overlap : mine(i, r))
          BY <1>4, <3>2, Zenon
        <4>2. repeated[i] = CHOOSE r \in 0 .. Overlap : mine(i, r)
          BY <3>2, Zenon
        <4> HIDE DEF repeated
        <4>3. mine(i, repeated[i])
          BY <4>1, <4>2, Zenon
        <4> QED
          BY <3>2, <4>3, Zenon
      <3> QED
        BY <3>1, <3>2
    <2> HIDE DEF repeated
    <2>2. own = [i \in 1 .. n |-> chs[i]]
      BY <1>6, <2>1, Zenon
    <2> QED
      BY <1>1, <2>2, Zenon
  <1> DEFINE words == FlattenSeq([i \in DOMAIN own |-> WordsOf(own[i])])
  <1>9. words = WordsOfAll(chs)
    <2> HIDE DEF own
    <2> QED
      BY <1>8, Zenon DEF WordsOfAll
  <1>10. FlattenSeq(words) = FlattenSeq(WordsOf(text)) /\ (Fit(WordsOf(text)) => words = WordsOf(text))
    <2> HIDE DEF words
    <2> QED
      BY <1>9, Zenon DEF Cuts, Same
  <1>11. (\A word \in ToSet(WordsOf(text)) : Len(word) <= ChunkSize) => Fit(WordsOf(text))
    BY Zenon DEF Fit, ToSet
  <1>12. \A i \in DOMAIN own : Len(own[i]) \in 1 .. ChunkSize
    <2> HIDE DEF own
    <2> QED
      BY <1>1, <1>8
  <1> HIDE DEF repeated, words
  <1>13. /\ FlattenSeq(words) = FlattenSeq(WordsOf(text))
         /\ (\A word \in ToSet(WordsOf(text)) : Len(word) <= ChunkSize) => words = WordsOf(text)
         /\ \A i \in DOMAIN own : Len(own[i]) \in 1 .. ChunkSize
    BY <1>10, <1>11, <1>12, Zenon
  <1> QED
    BY <1>7, <1>13, Zenon DEF CoversInOrder, words, out

(* A text of any length, whatever the sizes, is covered by its chunks.     *)
LEMMA ChunksCoverText ==
    ASSUME NEW U, Blanks \subseteq U, NEW text \in Seq(U)
    PROVE  CoversInOrder(ChunkText(text), text)
  <1>1. /\ Strip(text) \in Seq(U) /\ WordsOf(Strip(text)) = WordsOf(text)
        /\ Strip(text) # <<>> => Neat(Strip(text))
    BY StripKeeps
  <1>2. CASE Strip(text) = <<>>
    <2>1. WordsOf(text) = <<>>
      BY <1>1, <1>2, NoWords, Zenon
    <2> DEFINE P == Pieces(U)
    <2>2. <<>> \in Seq(P)
      <3> HIDE DEF P
      <3> QED
        OBVIOUS
    <2>3. Cuts(U, <<>>, text)
      BY <2>1, <2>2, WordsOfNothing, SameItself, Zenon DEF Cuts
    <2>4. ApplyOverlap(<<>>) = <<>>
      BY DEF ApplyOverlap
    <2>5. ChunkText(text) = ApplyOverlap(<<>>)
      BY <1>2, <2>4, Zenon DEF ChunkText
    <2> QED
      BY <2>3, <2>5, OverlapCovers
  <1>3. CASE Strip(text) # <<>>
    <2>1. Cuts(U, SplitLines(Strip(text)), Strip(text))
      BY <1>1, <1>3, LinesAreCut
    <2>2. Cuts(U, SplitLines(Strip(text)), text)
      BY <1>1, <2>1, Zenon DEF Cuts
    <2>3. ChunkText(text) = ApplyOverlap(SplitLines(Strip(text)))
      BY <1>3, Zenon DEF ChunkText
    <2> QED
      BY <2>2, <2>3, OverlapCovers
  <1> QED
    BY <1>2, <1>3

LEMMA JoinIsList ==
    ASSUME NEW U, NEW texts \in Seq(Seq(U)), NEW sep \in U
    PROVE  Join(texts, sep) \in Seq(U)
  <1> DEFINE S == Seq(U)
             n == Len(texts)
             none == <<>>
             more(m, t) == IF m = <<>> THEN t ELSE m \o <<sep>> \o t
             step == [i \in 1 .. n |-> [m \in S |-> more(m, texts[i])]]
             Is(h) == h = [i \in 0 .. n |-> IF i = 0 THEN none ELSE more(h[i - 1], texts[i])]
             F == CHOOSE h : Is(h)
  <1>1. n \in Nat /\ n \in 0 .. n /\ \A i \in 1 .. n : texts[i] \in S
    <2>1. texts \in Seq(S)
      OBVIOUS
    <2> HIDE DEF S
    <2> QED
      BY <2>1
  <1>2. none \in S
    OBVIOUS
  <1>3. \A m, t \in S : more(m, t) \in S
    OBVIOUS
  <1> HIDE DEF S, more
  <1>4. step \in [1 .. n -> [S -> S]]
    BY <1>1, <1>3
  <1>5. PICK f \in [0 .. n -> S] : Follows(f, n, none, step)
    <2> HIDE DEF n, none, step
    <2> QED
      BY <1>1, <1>2, <1>4, Recursion
  <1>6. ASSUME NEW i \in 1 .. n PROVE f[i] = more(f[i - 1], texts[i])
    <2>1. i \in 0 .. n /\ i # 0 /\ i - 1 \in 0 .. n
      BY <1>1
    <2>2. f[i] = step[i][f[i - 1]]
      BY <1>5, <2>1 DEF Follows
    <2>3. f[i - 1] \in S
      BY <2>1
    <2> QED
      BY <2>2, <2>3
  <1>7. f[0] = none
    BY <1>1, <1>5 DEF Follows
  <1>8. Is(f)
    <2>1. f = [i \in 0 .. n |-> f[i]]
      OBVIOUS
    <2>2. \A i \in 0 .. n : i # 0 => i \in 1 .. n
      BY <1>1
    <2> HIDE DEF none, n
    <2>3. \A i \in 0 .. n : f[i] = IF i = 0 THEN none ELSE more(f[i - 1], texts[i])
      BY <1>6, <1>7, <2>2
    <2> QED
      BY <2>1, <2>3
  <1>9. Is(F)
    <2> HIDE DEF Is
    <2> QED
      BY <1>8
  <1>10. Join(texts, sep) = F[n]
    BY DEF Join, more
  <1>11. F[n] = f[n]
    <2> HIDE DEF F
    <2>1. \A i \in 0 .. n : F[i] = IF i = 0 THEN none ELSE more(F[i - 1], texts[i])
      BY <1>9
    <2>2. F[0] = f[0]
      <3> HIDE DEF none
      <3> QED
        BY <1>1, <1>7, <2>1
    <2>3. ASSUME NEW i \in 0 .. n - 1, F[i] = f[i] PROVE F[i + 1] = f[i + 1]
      <3>1. i + 1 \in 1 .. n /\ i + 1 \in 0 .. n /\ (i + 1) - 1 = i /\ i + 1 # 0
        BY <1>1
      <3>2. F[i + 1] = more(F[(i + 1) - 1], texts[i + 1])
        BY <2>1, <3>1
      <3>3. f[i + 1] = more(f[(i + 1) - 1], texts[i + 1])
        BY <1>6, <3>1
      <3> QED
        BY <2>3, <3>1, <3>2, <3>3, Zenon
    <2>4. \A i \in 0 .. n : F[i] = f[i]
      <3> HIDE DEF n
      <3> QED
        BY <1>1, <2>2, <2>3, SameValues
    <2> QED
      BY <1>1, <2>4
  <1>12. F[n] \in S
    <2> HIDE DEF F, n
    <2> QED
      BY <1>1, <1>11
  <1> QED
    BY <1>10, <1>12 DEF S

(* The units a text is made of.                                            *)
Units == Fragments \cup {Hyphen} \cup Blanks

LEMMA NormalizedIsText ==
    ASSUME NEW lines \in Seq(Seq(Words))
    PROVE  Normalized(lines) \in Seq(Units)
  <1> DEFINE S == Seq(Units)
             word(w) == w.parts \o IF w.hyphen THEN <<Hyphen>> ELSE <<>>
             line(l) == Join([i \in DOMAIN l |-> word(l[i])], Space)
             texts == [i \in DOMAIN lines |-> line(lines[i])]
  <1>1. Space \in Units /\ NewLine \in Units /\ Hyphen \in Units /\ Fragments \subseteq Units
    BY DEF Units, Blanks
  <1>2. ASSUME NEW w \in Words PROVE word(w) \in S
    <2>1. w.parts \in Seq(Fragments)
      BY DEF Words
    <2>2. w.parts \in Seq(Units)
      BY <1>1, <2>1, SeqMonotonic
    <2> HIDE DEF Units
    <2> QED
      BY <1>1, <2>2
  <1> HIDE DEF word
  <1>3. ASSUME NEW l \in Seq(Words) PROVE line(l) \in S
    <2> DEFINE words == [i \in DOMAIN l |-> word(l[i])]
    <2>1. Len(l) \in Nat /\ DOMAIN l = 1 .. Len(l) /\ \A i \in DOMAIN l : l[i] \in Words
      OBVIOUS
    <2>2. words \in [1 .. Len(l) -> S]
      BY <1>2, <2>1
    <2> HIDE DEF words, S
    <2>3. words \in Seq(S)
      BY <2>1, <2>2, FunctionIsList
    <2>4. Join(words, Space) \in S
      BY <1>1, <2>3, JoinIsList DEF S
    <2> QED
      BY <2>4 DEF words
  <1>4. Len(lines) \in Nat /\ DOMAIN lines = 1 .. Len(lines) /\ \A i \in DOMAIN lines : lines[i] \in Seq(Words)
    <2> DEFINE W == Seq(Words)
    <2>1. lines \in Seq(W)
      OBVIOUS
    <2> HIDE DEF W
    <2>2. Len(lines) \in Nat /\ DOMAIN lines = 1 .. Len(lines) /\ \A i \in DOMAIN lines : lines[i] \in W
      BY <2>1
    <2> QED
      BY <2>2 DEF W
  <1> HIDE DEF line, S
  <1>5. texts \in Seq(S)
    <2>1. texts \in [1 .. Len(lines) -> S]
      BY <1>3, <1>4
    <2> HIDE DEF texts
    <2> QED
      BY <1>4, <2>1, FunctionIsList
  <1> HIDE DEF texts
  <1>6. NonEmpty(texts) \in Seq(S)
    <2>1. NonEmpty(texts) \in Seq(S \ {<<>>})
      BY <1>5, NonEmptyIsList
    <2>2. S \ {<<>>} \subseteq S
      OBVIOUS
    <2> QED
      BY <2>1, <2>2, SeqMonotonic
  <1>7. Join(NonEmpty(texts), NewLine) \in S
    BY <1>1, <1>6, JoinIsList DEF S
  <1> QED
    BY <1>7, Zenon DEF Normalized, texts, line, word, S

-----------------------------------------------------------------------------
(* Positions in a list.                                                    *)

UpTo(T, i) == {j \in T : j <= i}

LEMMA SizesUpTo ==
    ASSUME NEW n \in Nat, NEW T \in SUBSET (1 .. n), NEW i \in 1 .. n
    PROVE  /\ IsFiniteSet(T) /\ Cardinality(T) \in Nat
           /\ IsFiniteSet(UpTo(T, i)) /\ Cardinality(UpTo(T, i)) \in Nat
  <1>1. IsFiniteSet(1 .. n)
    BY FS_Interval
  <1>2. UpTo(T, i) \in SUBSET (1 .. n)
    BY DEF UpTo
  <1> QED
    BY <1>1, <1>2, FS_Subset, FS_CardinalityType

(* There is an element with each number of elements up to it.              *)
LEMMA Ranked ==
    ASSUME NEW n \in Nat, NEW T \in SUBSET (1 .. n), NEW k \in 1 .. Cardinality(T)
    PROVE  \E i \in T : Cardinality(UpTo(T, i)) = k
  <1> DEFINE enough == {i \in T : Cardinality(UpTo(T, i)) >= k}
  <1>0. IsFiniteSet(T) /\ Cardinality(T) \in Nat /\ k \in Nat /\ k >= 1
    <2>1. IsFiniteSet(1 .. n)
      BY FS_Interval
    <2>2. IsFiniteSet(T)
      BY <2>1, FS_Subset
    <2> QED
      BY <2>2, FS_CardinalityType
  <1>1. T # {}
    BY <1>0, FS_EmptySet
  <1>2. enough # {}
    <2>1. PICK last \in T : \A y \in T : y <= last
      BY <1>1, GreatestNatural
    <2>2. UpTo(T, last) = T
      BY <2>1 DEF UpTo
    <2> QED
      BY <1>0, <2>2
  <1>3. PICK i \in enough : \A j \in enough : i <= j
    <2>1. \A j \in 1 .. n : j \in Nat
      OBVIOUS
    <2>2. enough \in SUBSET Nat
      BY <2>1
    <2> HIDE DEF enough
    <2> QED
      BY <1>2, <2>2, LeastNatural
  <1>4. i \in T /\ i \in 1 .. n /\ Cardinality(UpTo(T, i)) >= k
    OBVIOUS
  <1> DEFINE below == UpTo(T, i) \ {i}
  <1>5. /\ IsFiniteSet(UpTo(T, i)) /\ Cardinality(UpTo(T, i)) \in Nat /\ i \in UpTo(T, i)
    BY <1>4, SizesUpTo DEF UpTo
  <1>6. Cardinality(below) = Cardinality(UpTo(T, i)) - 1 /\ IsFiniteSet(below)
    BY <1>5, FS_RemoveElement
  <1>7. Cardinality(below) < k
    <2> SUFFICES ASSUME Cardinality(below) >= k PROVE FALSE
      BY <1>0, <1>5, <1>6
    <2>1. below # {}
      BY <1>0, <1>6, FS_EmptySet
    <2>2. below \in SUBSET (1 .. n)
      BY DEF UpTo
    <2>3. PICK last \in below : \A y \in below : y <= last
      <3> HIDE DEF below
      <3> QED
        BY <2>1, <2>2, GreatestNatural
    <2>4. last \in T /\ last \in Int /\ i \in Int /\ last < i
      BY <1>4, <2>2 DEF UpTo
    <2>5. \A j \in T : j \in Int
      OBVIOUS
    <2>6. UpTo(T, last) = below
      <3>1. ASSUME NEW j \in T PROVE j <= last <=> (j <= i /\ j # i)
        <4>1. j <= i /\ j # i => j \in below
          BY DEF UpTo
        <4> HIDE DEF below
        <4> QED
          BY <2>3, <2>4, <2>5, <4>1
      <3> QED
        BY <3>1 DEF UpTo
    <2>7. last \in enough
      BY <2>4, <2>6
    <2> QED
      BY <1>3, <2>4, <2>7
  <1> QED
    BY <1>0, <1>4, <1>5, <1>6, <1>7

(* The hits at some positions are hits of the list, in a list.             *)
HitsOn(hits, T) == {hits[i] : i \in T}

LEMMA HitsAreThere ==
    ASSUME NEW hits, NEW n \in Nat, NEW T \in SUBSET (1 .. n)
    PROVE  /\ Cardinality(T) \in Nat
           /\ DOMAIN HitsAt(hits, T) = 1 .. Cardinality(T)
           /\ \A k \in DOMAIN HitsAt(hits, T) : HitsAt(hits, T)[k] \in HitsOn(hits, T)
  <1>1. Cardinality(T) \in Nat
    <2>1. IsFiniteSet(1 .. n)
      BY FS_Interval
    <2>2. IsFiniteSet(T)
      BY <2>1, FS_Subset
    <2> QED
      BY <2>2, FS_CardinalityType
  <1>2. DOMAIN HitsAt(hits, T) = 1 .. Cardinality(T)
    BY DEF HitsAt
  <1>3. ASSUME NEW k \in 1 .. Cardinality(T)
        PROVE  HitsAt(hits, T)[k] \in HitsOn(hits, T)
    <2> DEFINE at == CHOOSE i \in T : Cardinality({j \in T : j <= i}) = k
    <2>1. at \in T
      BY Ranked, ZenonT(30) DEF UpTo
    <2>2. HitsAt(hits, T)[k] = hits[at]
      BY DEF HitsAt
    <2> QED
      BY <2>1, <2>2 DEF HitsOn
  <1> QED
    BY <1>1, <1>2, <1>3

LEMMA DeduplicatedAreThere ==
    ASSUME NEW hits, NEW n \in Nat, DOMAIN hits \subseteq 1 .. n
    PROVE  \A k \in DOMAIN Deduplicate(hits) : Deduplicate(hits)[k] \in HitsOn(hits, DOMAIN hits)
  <1> DEFINE first == {i \in DOMAIN hits : \A j \in DOMAIN hits :
                          j < i => hits[j].content_hash # hits[i].content_hash}
  <1>1. Deduplicate(hits) = HitsAt(hits, first)
    BY DEF Deduplicate
  <1>2. first \in SUBSET (1 .. n)
    OBVIOUS
  <1>3. HitsOn(hits, first) \subseteq HitsOn(hits, DOMAIN hits)
    BY DEF HitsOn
  <1> HIDE DEF first
  <1> QED
    BY <1>1, <1>2, <1>3, HitsAreThere

-----------------------------------------------------------------------------
(* The fusion of two rankings.  Fractions first.                           *)

Fractions == [num : Nat, den : Nat \ {0}]
Reaches(a, b) == ~Higher(b, a)

LEMMA CrossProducts ==
    ASSUME NEW an \in Nat, NEW ad \in Nat \ {0}, NEW bn \in Nat, NEW bd \in Nat \ {0},
           NEW cn \in Nat, NEW cd \in Nat \ {0}, an * bd >= bn * ad, bn * cd >= cn * bd
    PROVE  an * cd >= cn * ad
  OBVIOUS

LEMMA CrossSums ==
    ASSUME NEW an \in Nat, NEW ad \in Nat \ {0}, NEW bn \in Nat, NEW bd \in Nat \ {0},
           NEW cn \in Nat, NEW cd \in Nat \ {0}, NEW dn \in Nat, NEW dd \in Nat \ {0},
           an * bd >= bn * ad, cn * dd >= dn * cd
    PROVE  (an * cd + cn * ad) * (bd * dd) >= (bn * dd + dn * bd) * (ad * cd)
  OBVIOUS

LEMMA Naturals ==
    ASSUME NEW x \in Nat, NEW y \in Nat
    PROVE  x * y \in Nat /\ (x # 0 /\ y # 0 => x * y # 0)
  OBVIOUS

LEMMA ReachesIsOrder ==
    /\ \A a, b \in Fractions : Reaches(a, b) <=> a.num * b.den >= b.num * a.den
    /\ \A a, b \in Fractions : Reaches(a, b) \/ Reaches(b, a)
    /\ \A a, b, c \in Fractions : Reaches(a, b) /\ Reaches(b, c) => Reaches(a, c)
  <1>1. ASSUME NEW a \in Fractions, NEW b \in Fractions
        PROVE  Reaches(a, b) <=> a.num * b.den >= b.num * a.den
    <2>1. a.num * b.den \in Nat /\ b.num * a.den \in Nat
      BY Naturals DEF Fractions
    <2> QED
      BY <2>1 DEF Reaches, Higher
  <1>2. ASSUME NEW a \in Fractions, NEW b \in Fractions
        PROVE  Reaches(a, b) \/ Reaches(b, a)
    <2>1. a.num * b.den \in Nat /\ b.num * a.den \in Nat
      BY Naturals DEF Fractions
    <2> QED
      BY <1>1, <2>1
  <1>3. ASSUME NEW a \in Fractions, NEW b \in Fractions, NEW c \in Fractions,
               Reaches(a, b), Reaches(b, c)
        PROVE  Reaches(a, c)
    <2>1. /\ a.num \in Nat /\ a.den \in Nat \ {0} /\ b.num \in Nat /\ b.den \in Nat \ {0}
          /\ c.num \in Nat /\ c.den \in Nat \ {0}
      BY DEF Fractions
    <2>2. a.num * b.den >= b.num * a.den /\ b.num * c.den >= c.num * b.den
      BY <1>1, <1>3
    <2>3. a.num * c.den >= c.num * a.den
      BY <2>1, <2>2, CrossProducts
    <2> QED
      BY <1>1, <2>3
  <1> QED
    BY <1>1, <1>2, <1>3

LEMMA Positions ==
    ASSUME NEW H, NEW ranking \in Seq(H), NEW x
    PROVE  /\ Len(ranking) \in Nat
           /\ x \in ToSet(ranking) => /\ Position(ranking, x) \in 1 .. Len(ranking)
                                       /\ ranking[Position(ranking, x)] = x
           /\ x \notin ToSet(ranking) => Position(ranking, x) = Len(ranking) + 1
           /\ Position(ranking, x) \in Nat \ {0}
  <1>1. Len(ranking) \in Nat /\ DOMAIN ranking = 1 .. Len(ranking)
    OBVIOUS
  <1>2. CASE x \in ToSet(ranking)
    <2>1. \E i \in DOMAIN ranking : ranking[i] = x
      BY <1>2 DEF ToSet
    <2>2. Position(ranking, x) \in DOMAIN ranking /\ ranking[Position(ranking, x)] = x
      BY <1>2, <2>1 DEF Position
    <2> QED
      BY <1>1, <1>2, <2>2
  <1>3. CASE x \notin ToSet(ranking)
    BY <1>1, <1>3 DEF Position
  <1> QED
    BY <1>1, <1>2, <1>3

(* Who comes first in a ranking gets no less from it.                      *)
LEMMA PartsFollowPositions ==
    ASSUME NEW H, NEW ranking \in Seq(H), NEW x
    PROVE  /\ Part(ranking, x) \in Fractions
           /\ \A y : Position(ranking, x) <= Position(ranking, y) =>
                 Reaches(Part(ranking, x), Part(ranking, y))
  <1>1. \A y : Part(ranking, y) \in Fractions
    BY Positions, RankingAssumption DEF Part, Fractions
  <1>2. ASSUME NEW y, Position(ranking, x) <= Position(ranking, y)
        PROVE  Reaches(Part(ranking, x), Part(ranking, y))
    <2> DEFINE px == Position(ranking, x)
               py == Position(ranking, y)
    <2>0. px \in Nat \ {0} /\ py \in Nat \ {0} /\ Len(ranking) \in Nat
      BY Positions
    <2>1. CASE y \notin ToSet(ranking)
      <3>1. Part(ranking, y).num = 0 /\ Part(ranking, y).den = 1
        BY <2>1 DEF Part
      <3>2. Part(ranking, x).num \in Nat /\ Part(ranking, x).den \in Nat
        BY <1>1 DEF Fractions
      <3> QED
        BY <3>1, <3>2 DEF Reaches, Higher
    <2>2. CASE y \in ToSet(ranking)
      <3>1. py <= Len(ranking)
        BY <2>0, <2>2, Positions
      <3>2. x \in ToSet(ranking)
        BY <1>2, <2>0, <3>1, Positions
      <3>3. /\ Part(ranking, x).num = 1 /\ Part(ranking, x).den = RrfK + px
            /\ Part(ranking, y).num = 1 /\ Part(ranking, y).den = RrfK + py
        BY <2>2, <3>2 DEF Part
      <3> QED
        BY <1>2, <2>0, <3>3, RankingAssumption DEF Reaches, Higher
    <2> QED
      BY <2>1, <2>2
  <1> QED
    BY <1>1, <1>2

LEMMA ScoresFollowPositions ==
    ASSUME NEW H, NEW semantic \in Seq(H), NEW lexical \in Seq(H), NEW x, NEW y
    PROVE  /\ Score(semantic, lexical, x) \in Fractions
           /\ /\ Position(semantic, x) <= Position(semantic, y)
              /\ Position(lexical, x) <= Position(lexical, y)
              => Reaches(Score(semantic, lexical, x), Score(semantic, lexical, y))
  <1> DEFINE a == Part(semantic, x)
             b == Part(semantic, y)
             c == Part(lexical, x)
             d == Part(lexical, y)
  <1>1. a \in Fractions /\ b \in Fractions /\ c \in Fractions /\ d \in Fractions
    BY PartsFollowPositions
  <1>2. /\ a.num \in Nat /\ a.den \in Nat \ {0} /\ b.num \in Nat /\ b.den \in Nat \ {0}
        /\ c.num \in Nat /\ c.den \in Nat \ {0} /\ d.num \in Nat /\ d.den \in Nat \ {0}
    BY <1>1 DEF Fractions
  <1>3. /\ Score(semantic, lexical, x) = [num |-> a.num * c.den + c.num * a.den, den |-> a.den * c.den]
        /\ Score(semantic, lexical, y) = [num |-> b.num * d.den + d.num * b.den, den |-> b.den * d.den]
    BY DEF Score
  <1>4. Position(semantic, x) <= Position(semantic, y) => a.num * b.den >= b.num * a.den
    BY <1>1, PartsFollowPositions, ReachesIsOrder
  <1>5. Position(lexical, x) <= Position(lexical, y) => c.num * d.den >= d.num * c.den
    BY <1>1, PartsFollowPositions, ReachesIsOrder
  <1> HIDE DEF a, b, c, d
  <1>6. /\ a.num * c.den + c.num * a.den \in Nat /\ a.den * c.den \in Nat \ {0}
        /\ b.num * d.den + d.num * b.den \in Nat /\ b.den * d.den \in Nat \ {0}
    <2>1. /\ a.num * c.den \in Nat /\ c.num * a.den \in Nat
          /\ b.num * d.den \in Nat /\ d.num * b.den \in Nat
      BY <1>2, Naturals
    <2>2. a.den * c.den \in Nat \ {0} /\ b.den * d.den \in Nat \ {0}
      BY <1>2, Naturals
    <2> QED
      BY <2>1, <2>2
  <1>7. Score(semantic, lexical, x) \in Fractions /\ Score(semantic, lexical, y) \in Fractions
    BY <1>3, <1>6 DEF Fractions
  <1>8. ASSUME Position(semantic, x) <= Position(semantic, y), Position(lexical, x) <= Position(lexical, y)
        PROVE  Reaches(Score(semantic, lexical, x), Score(semantic, lexical, y))
    <2>1. (a.num * c.den + c.num * a.den) * (b.den * d.den)
              >= (b.num * d.den + d.num * b.den) * (a.den * c.den)
      BY <1>2, <1>4, <1>5, <1>8, CrossSums
    <2>2. Score(semantic, lexical, x).num * Score(semantic, lexical, y).den
              >= Score(semantic, lexical, y).num * Score(semantic, lexical, x).den
      BY <1>3, <2>1
    <2> QED
      BY <1>7, <2>2, ReachesIsOrder
  <1> QED
    BY <1>7, <1>8

(* The elements of a finite set, by how many come before them.             *)
Lower(S, R, x) == {y \in S : <<y, x>> \in R}
StrictlyOrders(R, S) ==
    /\ \A x \in S : <<x, x>> \notin R
    /\ \A x, y \in S : x # y => <<x, y>> \in R \/ <<y, x>> \in R
    /\ \A x, y, z \in S : <<x, y>> \in R /\ <<y, z>> \in R => <<x, z>> \in R

LEMMA LowerGrows ==
    ASSUME NEW S, IsFiniteSet(S), NEW R, StrictlyOrders(R, S), NEW x \in S
    PROVE  /\ Cardinality(Lower(S, R, x)) \in 0 .. Cardinality(S) - 1
           /\ \A y \in S : <<x, y>> \in R =>
                 Cardinality(Lower(S, R, x)) < Cardinality(Lower(S, R, y))
  <1> DEFINE less == Lower(S, R, x)
  <1>1. less \in SUBSET S /\ x \notin less
    BY DEF Lower, StrictlyOrders
  <1>2. IsFiniteSet(less) /\ Cardinality(less) \in Nat /\ Cardinality(S) \in Nat
    BY <1>1, FS_Subset, FS_CardinalityType
  <1>3. Cardinality(less \cup {x}) = Cardinality(less) + 1
    BY <1>1, <1>2, FS_AddElement
  <1>4. ASSUME NEW T \in SUBSET S, less \cup {x} \subseteq T
        PROVE  Cardinality(less) + 1 <= Cardinality(T) /\ Cardinality(T) \in Nat
    <2>1. IsFiniteSet(T) /\ Cardinality(T) \in Nat
      BY FS_Subset, FS_CardinalityType
    <2>2. Cardinality(less \cup {x}) <= Cardinality(T)
      BY <1>4, <2>1, FS_Subset
    <2> QED
      BY <1>3, <2>1, <2>2
  <1>5. Cardinality(less) + 1 <= Cardinality(S)
    BY <1>1, <1>4
  <1>6. ASSUME NEW y \in S, <<x, y>> \in R
        PROVE  Cardinality(less) < Cardinality(Lower(S, R, y))
    <2>1. Lower(S, R, y) \in SUBSET S /\ less \cup {x} \subseteq Lower(S, R, y)
      BY <1>6 DEF Lower, StrictlyOrders
    <2> HIDE DEF less
    <2>2. Cardinality(less) + 1 <= Cardinality(Lower(S, R, y)) /\ Cardinality(Lower(S, R, y)) \in Nat
      BY <1>4, <2>1
    <2> QED
      BY <1>2, <2>2
  <1> HIDE DEF less
  <1>7. Cardinality(less) \in 0 .. Cardinality(S) - 1
    BY <1>2, <1>5
  <1> QED
    BY <1>6, <1>7 DEF less

LEMMA EveryPlaceIsTaken ==
    ASSUME NEW S, IsFiniteSet(S), NEW R, StrictlyOrders(R, S)
    PROVE  /\ \A k \in 1 .. Cardinality(S) : \E x \in S : Cardinality(Lower(S, R, x)) = k - 1
           /\ \A x, y \in S : Cardinality(Lower(S, R, x)) = Cardinality(Lower(S, R, y)) => x = y
  <1> DEFINE n == Cardinality(S)
             place == [x \in S |-> Cardinality(Lower(S, R, x)) + 1]
  <1>1. n \in Nat
    BY FS_CardinalityType
  <1>2. ASSUME NEW x \in S, NEW y \in S, x # y
        PROVE  Cardinality(Lower(S, R, x)) # Cardinality(Lower(S, R, y))
    <2>1. Cardinality(Lower(S, R, x)) \in Int /\ Cardinality(Lower(S, R, y)) \in Int
      BY LowerGrows
    <2>2. <<x, y>> \in R \/ <<y, x>> \in R
      BY <1>2 DEF StrictlyOrders
    <2> QED
      BY <2>1, <2>2, LowerGrows
  <1>3. \A x \in S : Cardinality(Lower(S, R, x)) \in 0 .. n - 1
    BY LowerGrows
  <1>4. place \in [S -> 1 .. n]
    BY <1>1, <1>3
  <1>5. place \in Injection(S, 1 .. n)
    <2>1. ASSUME NEW x \in S, NEW y \in S, place[x] = place[y] PROVE x = y
      <3>1. Cardinality(Lower(S, R, x)) = Cardinality(Lower(S, R, y))
        BY <1>1, <1>3, <2>1
      <3> QED
        BY <1>2, <3>1
    <2> HIDE DEF place
    <2> QED
      BY <1>4, <2>1 DEF Injection, IsInjective
  <1>6. IsFiniteSet(1 .. n) /\ Cardinality(1 .. n) = n
    BY <1>1, FS_Interval
  <1>7. place \in Surjection(S, 1 .. n)
    <2> HIDE DEF place
    <2> QED
      BY <1>5, <1>6, FS_Injection
  <1>8. ASSUME NEW k \in 1 .. n PROVE \E x \in S : Cardinality(Lower(S, R, x)) = k - 1
    <2>1. PICK x \in S : place[x] = k
      BY <1>7 DEF Surjection
    <2>2. Cardinality(Lower(S, R, x)) + 1 = k /\ Cardinality(Lower(S, R, x)) \in Int /\ k \in Int
      BY <1>1, <1>3, <2>1
    <2> QED
      BY <2>2
  <1> QED
    BY <1>2, <1>8

LEMMA TextsAreFinite ==
    ASSUME NEW H, NEW ranking \in Seq(H)
    PROVE  IsFiniteSet(ToSet(ranking))
  <1>1. Len(ranking) \in Nat /\ DOMAIN ranking = 1 .. Len(ranking)
    OBVIOUS
  <1>2. IsFiniteSet(1 .. Len(ranking))
    BY <1>1, FS_Interval
  <1>3. ranking \in Surjection(1 .. Len(ranking), ToSet(ranking))
    BY <1>1 DEF Surjection, ToSet
  <1> QED
    BY <1>2, <1>3, FS_Surjection

-----------------------------------------------------------------------------
(* The order of the fusion.                                                *)

Fused(semantic, lexical) == ToSet(semantic) \cup ToSet(lexical)
InFusion(semantic, lexical) ==
    {pair \in Fused(semantic, lexical) \X Fused(semantic, lexical) :
        Before(semantic, lexical, pair[1], pair[2])}

(* A hash has its own two positions.                                       *)
LEMMA OwnPositions ==
    ASSUME NEW H, NEW semantic \in Seq(H), NEW lexical \in Seq(H),
           NEW x \in Fused(semantic, lexical), NEW y \in Fused(semantic, lexical),
           Position(semantic, x) = Position(semantic, y), Position(lexical, x) = Position(lexical, y)
    PROVE  x = y
  <1>1. ASSUME NEW ranking \in Seq(H), Position(ranking, x) = Position(ranking, y), x \in ToSet(ranking)
        PROVE  x = y
    <2>1. Position(ranking, y) \in 1 .. Len(ranking) /\ Len(ranking) \in Nat
      BY <1>1, Positions
    <2>2. y \in ToSet(ranking)
      BY <2>1, Positions
    <2> QED
      BY <1>1, <2>2, Positions
  <1> QED
    BY <1>1 DEF Fused

LEMMA FusionIsAnOrder ==
    ASSUME NEW H, NEW semantic \in Seq(H), NEW lexical \in Seq(H)
    PROVE  StrictlyOrders(InFusion(semantic, lexical), Fused(semantic, lexical))
  <1> DEFINE S == Fused(semantic, lexical)
             score(x) == Score(semantic, lexical, x)
             p(x) == Position(semantic, x)
             l(x) == Position(lexical, x)
             tie(x, y) == p(x) < p(y) \/ (p(x) = p(y) /\ l(x) < l(y))
  <1>1. \A x : score(x) \in Fractions /\ p(x) \in Nat /\ l(x) \in Nat
    BY ScoresFollowPositions, Positions
  <1>2. \A x, y \in S : <<x, y>> \in InFusion(semantic, lexical) <=>
            \/ ~Reaches(score(y), score(x))
            \/ Reaches(score(x), score(y)) /\ tie(x, y)
    BY DEF InFusion, Before, Reaches
  <1>3. \A x, y \in S : p(x) = p(y) /\ l(x) = l(y) => x = y
    BY OwnPositions
  <1> HIDE DEF S, score, p, l
  <1>4. ASSUME NEW x \in S PROVE <<x, x>> \notin InFusion(semantic, lexical)
    BY <1>1, <1>2, ReachesIsOrder
  <1>5. ASSUME NEW x \in S, NEW y \in S, x # y
        PROVE  <<x, y>> \in InFusion(semantic, lexical) \/ <<y, x>> \in InFusion(semantic, lexical)
    <2>1. tie(x, y) \/ tie(y, x)
      BY <1>1, <1>3, <1>5
    <2> QED
      BY <1>1, <1>2, <2>1, ReachesIsOrder
  <1>6. ASSUME NEW x \in S, NEW y \in S, NEW z \in S,
               <<x, y>> \in InFusion(semantic, lexical), <<y, z>> \in InFusion(semantic, lexical)
        PROVE  <<x, z>> \in InFusion(semantic, lexical)
    <2>1. tie(x, y) /\ tie(y, z) => tie(x, z)
      BY <1>1
    <2>2. Reaches(score(x), score(y)) /\ Reaches(score(y), score(z))
      BY <1>1, <1>2, <1>6, ReachesIsOrder
    <2>3. Reaches(score(x), score(z))
      BY <1>1, <2>2, ReachesIsOrder
    <2>4. CASE ~Reaches(score(y), score(x)) \/ ~Reaches(score(z), score(y))
      <3>1. ~Reaches(score(z), score(x))
        BY <1>1, <2>2, <2>4, ReachesIsOrder
      <3> QED
        BY <1>2, <3>1
    <2>5. CASE Reaches(score(y), score(x)) /\ Reaches(score(z), score(y))
      <3>1. tie(x, y) /\ tie(y, z)
        BY <1>2, <1>6, <2>5
      <3> QED
        BY <1>2, <2>1, <2>3, <3>1
    <2> QED
      BY <2>4, <2>5
  <1> QED
    BY <1>4, <1>5, <1>6 DEF StrictlyOrders, S

LEMMA DominanceIsKept ==
    ASSUME NEW H, NEW semantic \in Seq(H), NEW lexical \in Seq(H),
           NEW x \in Fused(semantic, lexical), NEW y \in Fused(semantic, lexical),
           Dominates(semantic, lexical, x, y)
    PROVE  <<x, y>> \in InFusion(semantic, lexical)
  <1>1. /\ Position(semantic, x) \in Nat /\ Position(semantic, y) \in Nat
        /\ Position(lexical, x) \in Nat /\ Position(lexical, y) \in Nat
    BY Positions
  <1>2. Reaches(Score(semantic, lexical, x), Score(semantic, lexical, y))
    BY ScoresFollowPositions DEF Dominates
  <1>3. Position(semantic, x) < Position(semantic, y) \/
            (Position(semantic, x) = Position(semantic, y) /\ Position(lexical, x) < Position(lexical, y))
    BY <1>1, OwnPositions DEF Dominates
  <1> QED
    BY <1>2, <1>3 DEF InFusion, Before, Reaches

LEMMA FusionPlaces ==
    ASSUME NEW H, NEW semantic \in Seq(H), NEW lexical \in Seq(H)
    PROVE  LET S == Fused(semantic, lexical)
               R == InFusion(semantic, lexical)
               order == FuseRrf(semantic, lexical)
           IN /\ IsFiniteSet(S) /\ Cardinality(S) \in Nat
              /\ DOMAIN order = 1 .. Cardinality(S)
              /\ \A k \in 1 .. Cardinality(S) :
                    order[k] \in S /\ Cardinality(Lower(S, R, order[k])) = k - 1
  <1> DEFINE S == Fused(semantic, lexical)
             R == InFusion(semantic, lexical)
             order == FuseRrf(semantic, lexical)
  <1>1. IsFiniteSet(S) /\ Cardinality(S) \in Nat
    BY TextsAreFinite, FS_Union, FS_CardinalityType DEF Fused
  <1>2. DOMAIN order = 1 .. Cardinality(S)
    BY DEF FuseRrf, Fused
  <1>3. ASSUME NEW k \in 1 .. Cardinality(S)
        PROVE  order[k] \in S /\ Cardinality(Lower(S, R, order[k])) = k - 1
    <2>1. PICK x \in S : Cardinality(Lower(S, R, x)) = k - 1
      BY <1>1, FusionIsAnOrder, EveryPlaceIsTaken
    <2>2. \A z \in S : Lower(S, R, z) = {y \in S : Before(semantic, lexical, y, z)}
      BY DEF Lower, InFusion
    <2>3. order[k] = CHOOSE z \in S : Cardinality({y \in S : Before(semantic, lexical, y, z)}) = k - 1
      BY DEF FuseRrf, Fused
    <2>4. \E z \in S : Cardinality({y \in S : Before(semantic, lexical, y, z)}) = k - 1
      BY <2>1, <2>2
    <2>5. order[k] \in S /\ Cardinality({y \in S : Before(semantic, lexical, y, order[k])}) = k - 1
      BY <2>3, <2>4
    <2> QED
      BY <2>2, <2>5
  <1> QED
    BY <1>1, <1>2, <1>3

LEMMA FusedTexts ==
    ASSUME NEW H, NEW dense, NEW lexical, Hashes(dense) \in Seq(H), Hashes(lexical) \in Seq(H),
           NEW top \in Nat
    PROVE  Hashes(FuseHybridChunks(dense, lexical, top))
               = FirstOf(FuseRrf(Hashes(dense), Hashes(lexical)), top)
  <1> DEFINE fused == FirstOf(FuseRrf(Hashes(dense), Hashes(lexical)), top)
             hits == FuseHybridChunks(dense, lexical, top)
  <1>1. ASSUME NEW hs, NEW hash \in ToSet(Hashes(hs))
        PROVE  HitOf(hs, hash).content_hash = hash
    <2>1. PICK i \in DOMAIN hs : hs[i].content_hash = hash
      BY DEF ToSet, Hashes
    <2>2. hs[i] \in ToSet(hs)
      BY DEF ToSet
    <2> QED
      BY <2>1, <2>2 DEF HitOf
  <1>2. \A i \in DOMAIN fused : fused[i] \in ToSet(Hashes(dense)) \cup ToSet(Hashes(lexical))
    BY FusionPlaces DEF FirstOf, Fused
  <1>3. DOMAIN hits = DOMAIN fused
    BY DEF FuseHybridChunks
  <1>4. ASSUME NEW i \in DOMAIN fused PROVE hits[i].content_hash = fused[i]
    <2>1. hits[i] = IF fused[i] \in ToSet(Hashes(dense)) THEN HitOf(dense, fused[i])
                    ELSE HitOf(lexical, fused[i])
      BY DEF FuseHybridChunks
    <2> HIDE DEF fused, hits
    <2> QED
      BY <1>1, <1>2, <2>1
  <1>5. fused = [i \in DOMAIN fused |-> fused[i]]
    BY DEF FirstOf
  <1> HIDE DEF fused, hits
  <1>6. Hashes(hits) = [i \in DOMAIN fused |-> fused[i]]
    BY <1>3, <1>4 DEF Hashes
  <1> QED
    BY <1>5, <1>6 DEF fused, hits

(* _fuse_hybrid_chunks over any two rankings, whatever the constant of the *)
(* fusion and the number of chunks it keeps: a text that another one       *)
(* precedes by meaning and by words never takes its place, nor comes before*)
(* it.                                                                     *)
THEOREM FusionKeepsRanks ==
    ASSUME NEW Texts, NEW dense, NEW lexical,
           Hashes(dense) \in Seq(Texts), Hashes(lexical) \in Seq(Texts), NEW top \in Nat
    PROVE  RespectsRanks(Hashes(dense), Hashes(lexical), Hashes(FuseHybridChunks(dense, lexical, top)))
  <1> DEFINE ds == Hashes(dense)
             ls == Hashes(lexical)
             S == Fused(ds, ls)
             R == InFusion(ds, ls)
             all == FuseRrf(ds, ls)
             order == FirstOf(all, top)
             place(x) == Cardinality(Lower(S, R, x)) + 1
  <1>0. ds \in Seq(Texts) /\ ls \in Seq(Texts)
    OBVIOUS
  <1> HIDE DEF ds, ls
  <1>1. /\ IsFiniteSet(S) /\ Cardinality(S) \in Nat /\ StrictlyOrders(R, S)
        /\ DOMAIN all = 1 .. Cardinality(S)
        /\ \A k \in 1 .. Cardinality(S) : all[k] \in S /\ Cardinality(Lower(S, R, all[k])) = k - 1
    BY <1>0, FusionPlaces, FusionIsAnOrder
  <1>2. \A x \in S : Cardinality(Lower(S, R, x)) \in 0 .. Cardinality(S) - 1
    BY <1>1, LowerGrows
  <1>3. \A x \in S : place(x) \in 1 .. Cardinality(S) /\ all[place(x)] = x
    <2> SUFFICES ASSUME NEW x \in S PROVE place(x) \in 1 .. Cardinality(S) /\ all[place(x)] = x
      OBVIOUS
    <2>1. place(x) \in 1 .. Cardinality(S) /\ place(x) - 1 = Cardinality(Lower(S, R, x))
      BY <1>1, <1>2
    <2>2. all[place(x)] \in S /\ Cardinality(Lower(S, R, all[place(x)])) = place(x) - 1
      BY <1>1, <2>1
    <2> HIDE DEF all, place
    <2> QED
      BY <1>1, <2>1, <2>2, EveryPlaceIsTaken
  <1>4. \A k \in 1 .. Cardinality(S) : k = place(all[k])
    BY <1>1
  <1>5. /\ DOMAIN order = {k \in 1 .. Cardinality(S) : k <= top}
        /\ \A k \in DOMAIN order : order[k] = all[k]
    BY <1>1 DEF FirstOf
  <1> HIDE DEF all, order, place, S, R
  <1>6. ASSUME NEW x \in S, x \in ToSet(order)
        PROVE  place(x) \in DOMAIN order /\ Position(order, x) = place(x)
    <2>1. \A k \in DOMAIN order : order[k] = x <=> k = place(x)
      BY <1>3, <1>4, <1>5
    <2>2. \E k \in DOMAIN order : order[k] = x
      BY <1>6 DEF ToSet
    <2> QED
      BY <1>6, <2>1, <2>2 DEF Position
  <1>7. ASSUME NEW x \in S, NEW y \in S, Dominates(ds, ls, x, y), y \in ToSet(order)
        PROVE  x \in ToSet(order) /\ Position(order, x) < Position(order, y)
    <2>1. <<x, y>> \in R
      BY <1>0, <1>7, DominanceIsKept DEF R, S
    <2>2. place(x) < place(y)
      <3>1. Cardinality(Lower(S, R, x)) < Cardinality(Lower(S, R, y))
        BY <1>1, <2>1, LowerGrows
      <3> QED
        BY <1>2, <3>1 DEF place
    <2>3. place(x) \in DOMAIN order
      BY <1>3, <1>5, <1>6, <1>7, <2>2
    <2>4. x \in ToSet(order)
      BY <1>3, <1>5, <2>3 DEF ToSet
    <2> QED
      BY <1>6, <1>7, <2>2, <2>4
  <1>8. Hashes(FuseHybridChunks(dense, lexical, top)) = order
    BY FusedTexts DEF ds, ls, all, order
  <1> QED
    BY <1>7, <1>8 DEF RespectsRanks, S, Fused, ds, ls

-----------------------------------------------------------------------------
(* The fusion along the questions.                                         *)

IsList(ranking) == ranking \in Seq(ToSet(ranking))

LEMMA DenseIsList ==
    ASSUME NEW nearest, NEW n \in Nat
    PROVE  IsList(Hashes(Deduplicate(FirstOf(nearest, n))))
  <1> DEFINE near == FirstOf(nearest, n)
             dense == Deduplicate(near)
             first == {i \in DOMAIN near : \A j \in DOMAIN near :
                          j < i => near[j].content_hash # near[i].content_hash}
             hashes == Hashes(dense)
  <1>1. dense = HitsAt(near, first)
    BY DEF Deduplicate
  <1>2. first \in SUBSET (1 .. n)
    BY DEF FirstOf
  <1> HIDE DEF near, first
  <1>3. DOMAIN dense = 1 .. Cardinality(first) /\ Cardinality(first) \in Nat
    BY <1>1, <1>2, HitsAreThere
  <1> HIDE DEF dense
  <1>4. DOMAIN hashes = 1 .. Cardinality(first) /\ hashes = [i \in DOMAIN hashes |-> hashes[i]]
    BY <1>3 DEF Hashes
  <1> HIDE DEF hashes
  <1>5. hashes \in [1 .. Cardinality(first) -> ToSet(hashes)]
    BY <1>4 DEF ToSet
  <1>6. hashes \in Seq(ToSet(hashes))
    BY <1>3, <1>5, SeqDef
  <1> QED
    BY <1>6 DEF IsList, hashes, dense, near

LEMMA ListsAreFused ==
    ASSUME NEW dense, NEW lexical, IsList(Hashes(dense)), IsList(Hashes(lexical))
    PROVE  RespectsRanks(Hashes(dense), Hashes(lexical), Hashes(FuseHybridChunks(dense, lexical, TopK)))
  <1> DEFINE Texts == ToSet(Hashes(dense)) \cup ToSet(Hashes(lexical))
  <1>1. \A D, S : D \subseteq S => Seq(D) \subseteq Seq(S)
    BY SeqDef
  <1>2. Hashes(dense) \in Seq(Texts) /\ Hashes(lexical) \in Seq(Texts)
    BY <1>1 DEF IsList
  <1> QED
    BY <1>2, QuestionsAssumption, FusionKeepsRanks

-----------------------------------------------------------------------------
(* Every text is kept once.                                                *)

(* Every hit at those positions is in the list, at the place that counts   *)
(* them.                                                                   *)
LEMMA HitsAreKept ==
    ASSUME NEW hits, NEW n \in Nat, NEW T \in SUBSET (1 .. n)
    PROVE  \A i \in T : \E k \in 1 .. Cardinality(T) : HitsAt(hits, T)[k] = hits[i]
  <1> SUFFICES ASSUME NEW i \in T PROVE \E k \in 1 .. Cardinality(T) : HitsAt(hits, T)[k] = hits[i]
    OBVIOUS
  <1> DEFINE k == Cardinality(UpTo(T, i))
  <1>1. \A j \in T : /\ IsFiniteSet(UpTo(T, j)) /\ Cardinality(UpTo(T, j)) \in Nat
                     /\ j \in UpTo(T, j) /\ j \in Int
    BY SizesUpTo DEF UpTo
  <1>2. IsFiniteSet(T) /\ Cardinality(T) \in Nat
    BY SizesUpTo
  <1>3. k \in 1 .. Cardinality(T)
    <2>1. UpTo(T, i) \in SUBSET T /\ UpTo(T, i) # {}
      BY <1>1 DEF UpTo
    <2>2. k # 0 /\ k <= Cardinality(T)
      BY <1>1, <1>2, <2>1, FS_Subset, FS_EmptySet
    <2> QED
      BY <1>1, <1>2, <2>2
  <1>4. ASSUME NEW a \in T, NEW b \in T, a < b PROVE Cardinality(UpTo(T, a)) < Cardinality(UpTo(T, b))
    <2> DEFINE rest == UpTo(T, b) \ {b}
    <2>1. IsFiniteSet(rest) /\ Cardinality(rest) = Cardinality(UpTo(T, b)) - 1
      BY <1>1, FS_RemoveElement
    <2>2. UpTo(T, a) \in SUBSET rest
      <3>1. \A j \in T : j \in Int
        BY <1>1
      <3>2. \A j \in T : j <= a => j <= b /\ j # b
        BY <1>4, <3>1
      <3> QED
        BY <3>2 DEF UpTo
    <2> HIDE DEF rest
    <2>3. Cardinality(UpTo(T, a)) <= Cardinality(rest)
      BY <2>1, <2>2, FS_Subset
    <2> QED
      BY <1>1, <2>1, <2>3
  <1>5. \A j \in T : Cardinality(UpTo(T, j)) = k => j = i
    <2> SUFFICES ASSUME NEW j \in T, Cardinality(UpTo(T, j)) = k, j # i PROVE FALSE
      OBVIOUS
    <2>1. j < i \/ i < j
      BY <1>1
    <2>2. Cardinality(UpTo(T, i)) \in Int /\ Cardinality(UpTo(T, j)) \in Int
      BY <1>1
    <2> QED
      BY <1>4, <2>1, <2>2
  <1>6. HitsAt(hits, T)[k] = hits[CHOOSE j \in T : Cardinality(UpTo(T, j)) = k]
    BY <1>3 DEF HitsAt, UpTo
  <1>7. (CHOOSE j \in T : Cardinality(UpTo(T, j)) = k) = i
    BY <1>5
  <1> HIDE DEF k
  <1> QED
    BY <1>3, <1>6, <1>7

(* A finite set in any order.                                              *)
LEMMA OrdersAreLists ==
    ASSUME NEW S, IsFiniteSet(S), NEW list \in SetToSeqs(S)
    PROVE  Cardinality(S) \in Nat /\ list \in [1 .. Cardinality(S) -> S] /\ ToSet(list) = S
  <1> DEFINE n == Cardinality(S)
  <1>1. n \in Nat
    BY FS_CardinalityType
  <1>2. list \in [1 .. n -> S] /\ \A i, j \in 1 .. n : i # j => list[i] # list[j]
    BY DEF SetToSeqs
  <1>3. list \in Injection(1 .. n, S)
    BY <1>2 DEF Injection, IsInjective
  <1>4. Cardinality(1 .. n) = n
    BY <1>1, FS_Interval
  <1> HIDE DEF n
  <1>5. list \in Surjection(1 .. n, S)
    BY <1>3, <1>4, FS_Injection DEF n
  <1>6. ToSet(list) = S
    BY <1>2, <1>5 DEF Surjection, ToSet
  <1> QED
    BY <1>1, <1>2, <1>6 DEF n

(* Every text of a list keeps one of its hits.                             *)
LEMMA TextsAreKept ==
    ASSUME NEW hits, NEW n \in Nat, DOMAIN hits = 1 .. n, NEW i \in 1 .. n
    PROVE  \E k \in DOMAIN Deduplicate(hits) : Deduplicate(hits)[k].content_hash = hits[i].content_hash
  <1> DEFINE first == {j \in DOMAIN hits : \A m \in DOMAIN hits :
                          m < j => hits[m].content_hash # hits[j].content_hash}
             alike == {j \in 1 .. n : hits[j].content_hash = hits[i].content_hash}
  <1>1. Deduplicate(hits) = HitsAt(hits, first)
    BY DEF Deduplicate
  <1>2. first \in SUBSET (1 .. n)
    OBVIOUS
  <1>3. PICK j \in alike : \A m \in alike : j <= m
    <2>1. alike \in SUBSET Nat /\ i \in alike
      OBVIOUS
    <2> HIDE DEF alike
    <2> QED
      BY <2>1, LeastNatural
  <1>4. j \in first /\ hits[j].content_hash = hits[i].content_hash
    <2>1. \A m \in 1 .. n : m < j => m \notin alike
      BY <1>3
    <2> QED
      BY <1>3, <2>1
  <1> HIDE DEF first, alike
  <1>5. PICK k \in 1 .. Cardinality(first) : HitsAt(hits, first)[k] = hits[j]
    BY <1>2, <1>4, HitsAreKept
  <1>6. DOMAIN HitsAt(hits, first) = 1 .. Cardinality(first)
    BY <1>2, HitsAreThere
  <1> QED
    BY <1>1, <1>4, <1>5, <1>6

-----------------------------------------------------------------------------
(* Words.                                                                  *)

LEMMA TokensAreLists ==
    ASSUME NEW X, NEW words \in Seq(Seq(X))
    PROVE  Tokenize(words) \in Seq(Seq(X))
  <1> DEFINE W == Seq(X)
             kept == [i \in DOMAIN words |->
                         IF words[i] \in Stopwords THEN <<>> ELSE <<Stem(words[i])>>]
  <1>1. \A word \in W : Stem(word) \in W
    <2> SUFFICES ASSUME NEW word \in Seq(X) PROVE Stem(word) \in Seq(X)
      OBVIOUS
    <2>1. Len(word) > 1 => SubSeq(word, 1, Len(word) - 1) \in Seq(X)
      OBVIOUS
    <2> QED
      BY <2>1 DEF Stem
  <1>2. Len(words) \in Nat /\ DOMAIN words = 1 .. Len(words) /\ \A i \in DOMAIN words : words[i] \in W
    OBVIOUS
  <1> HIDE DEF W
  <1>3. \A i \in DOMAIN words : kept[i] \in Seq(W)
    BY <1>1, <1>2
  <1>4. kept \in [1 .. Len(words) -> Seq(W)]
    BY <1>2, <1>3
  <1>5. Tokenize(words) = FlattenSeq(kept)
    BY DEF Tokenize
  <1> HIDE DEF kept
  <1>6. kept \in Seq(Seq(W))
    BY <1>2, <1>4, FunctionIsList
  <1>7. FlattenSeq(kept) \in Seq(W)
    BY <1>6, FlattenIsList
  <1> QED
    BY <1>5, <1>7 DEF W

-----------------------------------------------------------------------------
(* Sums.                                                                   *)

LEMMA TotalUnfolds ==
    ASSUME NEW numbers \in Seq(Nat)
    PROVE  \E f \in [0 .. Len(numbers) -> Nat] :
              /\ f[0] = 0
              /\ \A i \in 1 .. Len(numbers) : f[i] = f[i - 1] + numbers[i]
              /\ Total(numbers) = f[Len(numbers)]
  <1> DEFINE n == Len(numbers)
             step == [i \in 1 .. n |-> [m \in Nat |-> m + numbers[i]]]
             Is(h) == h = [i \in 0 .. n |-> IF i = 0 THEN 0 ELSE h[i - 1] + numbers[i]]
             F == CHOOSE h : Is(h)
  <1>1. n \in Nat /\ (\A i \in 1 .. n : numbers[i] \in Nat) /\ n \in 0 .. n
    OBVIOUS
  <1>2. step \in [1 .. n -> [Nat -> Nat]]
    BY <1>1
  <1>3. PICK f \in [0 .. n -> Nat] : Follows(f, n, 0, step)
    <2> HIDE DEF n, step
    <2> QED
      BY <1>1, <1>2, Recursion
  <1>4. ASSUME NEW i \in 1 .. n PROVE f[i] = f[i - 1] + numbers[i]
    <2>1. i \in 0 .. n /\ i # 0 /\ i - 1 \in 0 .. n
      BY <1>1
    <2>2. f[i] = step[i][f[i - 1]]
      BY <1>3, <2>1 DEF Follows
    <2>3. f[i - 1] \in Nat
      BY <2>1
    <2> QED
      BY <2>2, <2>3
  <1>5. f[0] = 0
    BY <1>1, <1>3 DEF Follows
  <1>6. Is(f)
    <2>1. f = [i \in 0 .. n |-> f[i]]
      OBVIOUS
    <2>2. \A i \in 0 .. n : i # 0 => i \in 1 .. n
      BY <1>1
    <2> HIDE DEF n
    <2>3. \A i \in 0 .. n : f[i] = IF i = 0 THEN 0 ELSE f[i - 1] + numbers[i]
      BY <1>4, <1>5, <2>2
    <2> QED
      BY <2>1, <2>3
  <1>7. Is(F)
    <2> HIDE DEF Is
    <2> QED
      BY <1>6
  <1>8. Total(numbers) = F[n]
    BY DEF Total
  <1>9. F[n] = f[n]
    <2> HIDE DEF F
    <2>1. \A i \in 0 .. n : F[i] = IF i = 0 THEN 0 ELSE F[i - 1] + numbers[i]
      BY <1>7
    <2>2. F[0] = f[0]
      BY <1>1, <1>5, <2>1
    <2>3. ASSUME NEW i \in 0 .. n - 1, F[i] = f[i] PROVE F[i + 1] = f[i + 1]
      <3>1. i + 1 \in 1 .. n /\ i + 1 \in 0 .. n /\ (i + 1) - 1 = i /\ i + 1 # 0
        BY <1>1
      <3> HIDE DEF n
      <3> QED
        BY <1>4, <2>1, <2>3, <3>1
    <2> HIDE DEF n
    <2> QED
      BY <1>1, <2>2, <2>3, SameValues
  <1> HIDE DEF F
  <1> QED
    BY <1>4, <1>5, <1>8, <1>9

(* A sum is as great as each of its terms.                                 *)
LEMMA TotalBounds ==
    ASSUME NEW numbers \in Seq(Nat)
    PROVE  Total(numbers) \in Nat /\ \A i \in 1 .. Len(numbers) : numbers[i] <= Total(numbers)
  <1> DEFINE n == Len(numbers)
  <1>1. PICK f \in [0 .. n -> Nat] :
              /\ f[0] = 0
              /\ \A i \in 1 .. n : f[i] = f[i - 1] + numbers[i]
              /\ Total(numbers) = f[n]
    BY TotalUnfolds, ZenonT(30)
  <1>2. n \in Nat /\ \A i \in 1 .. n : numbers[i] \in Nat
    OBVIOUS
  <1> HIDE DEF n
  <1> DEFINE T == {k \in 0 .. n : \A i \in 1 .. k : numbers[i] <= f[k]}
  <1>3. 0 \in T /\ T \in SUBSET (0 .. n)
    BY <1>2
  <1>4. ASSUME NEW k \in 0 .. n - 1, k \in T PROVE k + 1 \in T
    <2>1. k + 1 \in 1 .. n /\ (k + 1) - 1 = k /\ k + 1 \in 0 .. n /\ k \in 0 .. n
      BY <1>2
    <2>2. f[k + 1] = f[k] + numbers[k + 1] /\ numbers[k + 1] \in Nat /\ f[k] \in Nat
      BY <1>1, <1>2, <2>1
    <2>3. ASSUME NEW i \in 1 .. k + 1 PROVE numbers[i] <= f[k + 1]
      <3>1. CASE i = k + 1
        BY <2>2, <3>1
      <3>2. CASE i # k + 1
        <4>1. i \in 1 .. k /\ i \in 1 .. n
          BY <1>2, <3>2
        <4>2. numbers[i] <= f[k] /\ numbers[i] \in Nat
          BY <1>2, <1>4, <4>1
        <4> QED
          BY <2>2, <4>2
      <3> QED
        BY <3>1, <3>2
    <2> QED
      BY <2>1, <2>3
  <1>5. T = 0 .. n
    <2> HIDE DEF T
    <2> QED
      BY <1>2, <1>3, <1>4, Induction
  <1>6. \A i \in 1 .. n : numbers[i] <= f[n]
    <2>1. n \in 0 .. n
      BY <1>2
    <2>2. n \in T
      BY <1>5, <2>1, Zenon
    <2> QED
      BY <2>2
  <1> QED
    BY <1>1, <1>2, <1>6 DEF n

-----------------------------------------------------------------------------
(* BM25.                                                                   *)

Listing(documents) ==
    IsList(documents) /\ \A d \in DOMAIN documents : IsList(documents[d].tokens)

LEMMA ListHas ==
    ASSUME NEW list, IsList(list)
    PROVE  Len(list) \in Nat /\ DOMAIN list = 1 .. Len(list)
  BY DEF IsList

LEMMA FrequencyCounts ==
    ASSUME NEW document, IsList(document.tokens), NEW term
    PROVE  /\ Frequency(document, term) \in Nat
           /\ Frequency(document, term) > 0 <=> term \in ToSet(document.tokens)
           /\ Frequency(document, term) > 0 => Len(document.tokens) > 0
  <1> DEFINE tokens == document.tokens
             places == {i \in DOMAIN tokens : tokens[i] = term}
  <1>1. Len(tokens) \in Nat /\ DOMAIN tokens = 1 .. Len(tokens)
    BY ListHas
  <1> HIDE DEF tokens
  <1>2. IsFiniteSet(places) /\ Cardinality(places) \in Nat
    <2>1. places \in SUBSET (1 .. Len(tokens))
      BY <1>1
    <2>2. IsFiniteSet(1 .. Len(tokens))
      BY <1>1, FS_Interval
    <2> HIDE DEF places
    <2>3. IsFiniteSet(places)
      BY <2>1, <2>2, FS_Subset
    <2> QED
      BY <2>3, FS_CardinalityType
  <1>3. Cardinality(places) > 0 <=> places # {}
    <2> HIDE DEF places
    <2> QED
      BY <1>2, FS_EmptySet
  <1>4. places # {} <=> term \in ToSet(tokens)
    BY DEF ToSet
  <1>5. places # {} => Len(tokens) > 0
    BY <1>1
  <1>6. Frequency(document, term) = Cardinality(places)
    BY DEF Frequency, tokens
  <1> HIDE DEF places
  <1> QED
    BY <1>2, <1>3, <1>4, <1>5, <1>6 DEF tokens

LEMMA DocumentsCount ==
    ASSUME NEW documents, Listing(documents), NEW d \in DOMAIN documents, NEW term,
           d \in Postings(documents, term)
    PROVE  /\ Cardinality(Postings(documents, term)) \in 1 .. Len(documents)
           /\ TotalLength(documents) \in Nat /\ TotalLength(documents) > 0
           /\ Len(documents[d].tokens) \in Nat /\ Len(documents) \in Nat
           /\ Frequency(documents[d], term) \in Nat /\ Frequency(documents[d], term) > 0
  <1> DEFINE n == Len(documents)
             lengths == [e \in DOMAIN documents |-> Len(documents[e].tokens)]
             postings == Postings(documents, term)
  <1>1. n \in Nat /\ DOMAIN documents = 1 .. n
    BY ListHas DEF Listing
  <1>2. postings \in SUBSET (1 .. n) /\ postings # {}
    BY <1>1 DEF Postings
  <1>3. Cardinality(postings) \in 1 .. n
    <2> HIDE DEF postings, n
    <2>1. IsFiniteSet(1 .. n) /\ Cardinality(1 .. n) = n
      BY <1>1, FS_Interval
    <2>2. IsFiniteSet(postings) /\ Cardinality(postings) \in Nat /\ Cardinality(postings) <= n
      BY <1>2, <2>1, FS_Subset, FS_CardinalityType
    <2>3. Cardinality(postings) # 0
      BY <1>2, <2>2, FS_EmptySet
    <2> QED
      BY <1>1, <2>2, <2>3
  <1>4. \A e \in DOMAIN documents : Len(documents[e].tokens) \in Nat
    BY ListHas DEF Listing
  <1> HIDE DEF n
  <1>5. lengths \in [1 .. n -> Nat] /\ \A e \in 1 .. n : lengths[e] = Len(documents[e].tokens)
    BY <1>1, <1>4
  <1>6. TotalLength(documents) = Total(lengths)
    BY DEF TotalLength
  <1> HIDE DEF lengths
  <1>7. lengths \in Seq(Nat) /\ Len(lengths) = n
    BY <1>1, <1>5, FunctionIsList
  <1>8. Total(lengths) \in Nat /\ lengths[d] <= Total(lengths)
    BY <1>1, <1>7, TotalBounds
  <1>9. IsList(documents[d].tokens)
    BY DEF Listing
  <1>10. Frequency(documents[d], term) \in Nat /\ Frequency(documents[d], term) > 0
    BY <1>9, FrequencyCounts DEF Postings
  <1>11. Len(documents[d].tokens) > 0
    BY <1>9, <1>10, FrequencyCounts
  <1>12. lengths[d] \in Nat /\ lengths[d] > 0
    BY <1>1, <1>4, <1>5, <1>11
  <1>13. Total(lengths) > 0
    BY <1>8, <1>12
  <1> QED
    BY <1>1, <1>3, <1>4, <1>6, <1>8, <1>10, <1>13 DEF n, postings

LEMMA Products ==
    ASSUME NEW x \in Nat, NEW y \in Nat
    PROVE  x * y \in Nat /\ (x > 0 /\ y > 0 => x * y > 0)
  OBVIOUS

LEMMA Quotients ==
    ASSUME NEW p \in Nat, NEW v \in Nat \ {0}
    PROVE  (p + v - 1) \div v \in Nat /\ (p > 0 => (p + v - 1) \div v > 0)
  OBVIOUS

(* What a word of a document adds to its score.                            *)
LEMMA TermsScore ==
    ASSUME NEW documents, Listing(documents), NEW d \in DOMAIN documents, NEW term,
           d \in Postings(documents, term)
    PROVE  TermScore(documents, d, term) \in Nat /\ TermScore(documents, d, term) > 0
  <1> DEFINE f == Frequency(documents[d], term)
             n == Len(documents)
             total == TotalLength(documents)
             c == Cardinality(Postings(documents, term))
             idf == Idf(Tabled(c), Tabled(n))
             len == Len(documents[d].tokens)
             divisor == 8 * f * total + 3 * total + 9 * len * n
             above == 1000 * 20 * idf * f * total
  <1>1. /\ c \in 1 .. n /\ n \in Nat /\ total \in Nat /\ total > 0 /\ len \in Nat
        /\ f \in Nat /\ f > 0
    BY DocumentsCount
  <1>2. TermScore(documents, d, term) = (above + divisor - 1) \div divisor
    BY DEF TermScore
  <1>3. idf \in Nat /\ idf > 0
    <2> HIDE DEF c, n
    <2>1. /\ Tabled(c) \in 1 .. MaxTexts /\ Tabled(n) \in 1 .. MaxTexts /\ Tabled(c) <= Tabled(n)
      BY <1>1, LogarithmsAssumption DEF Tabled
    <2>2. idf \in Nat \ {0}
      BY <2>1, LogarithmsAssumption
    <2> HIDE DEF idf
    <2> QED
      BY <2>2
  <1> HIDE DEF f, n, total, c, idf, len
  <1>4. above \in Nat /\ above > 0
    <2>1. 1000 * 20 * idf \in Nat /\ 1000 * 20 * idf > 0
      BY <1>3
    <2>2. 1000 * 20 * idf * f \in Nat /\ 1000 * 20 * idf * f > 0
      BY <1>1, <2>1, Products
    <2> QED
      BY <1>1, <2>2, Products
  <1>5. divisor \in Nat \ {0}
    <2>1. 8 * f * total \in Nat
      <3>1. 8 * f \in Nat
        BY <1>1
      <3> QED
        BY <1>1, <3>1, Products
    <2>2. 9 * len * n \in Nat
      <3>1. 9 * len \in Nat
        BY <1>1
      <3> QED
        BY <1>1, <3>1, Products
    <2> QED
      BY <1>1, <2>1, <2>2
  <1> HIDE DEF above, divisor
  <1> QED
    BY <1>2, <1>4, <1>5, Quotients

(* A document with a word of the question has a score.                     *)
LEMMA ScoresAreFair ==
    ASSUME NEW documents, Listing(documents), NEW query, IsList(query), NEW d \in DOMAIN documents
    PROVE  /\ Bm25(documents, d, query) \in Nat
           /\ \A term \in ToSet(query) : term \in ToSet(documents[d].tokens) =>
                 Bm25(documents, d, query) > 0
  <1> DEFINE First(i) == \A j \in 1 .. i - 1 : query[j] # query[i]
             scores == [i \in DOMAIN query |->
                           IF d \in Postings(documents, query[i]) /\ First(i)
                           THEN TermScore(documents, d, query[i]) ELSE 0]
             n == Len(query)
  <1>1. n \in Nat /\ DOMAIN query = 1 .. n
    BY ListHas
  <1>2. Bm25(documents, d, query) = Total(scores)
    BY DEF Bm25
  <1>3. \A i \in 1 .. n : scores[i] = IF d \in Postings(documents, query[i]) /\ First(i)
                                      THEN TermScore(documents, d, query[i]) ELSE 0
    BY <1>1
  <1>4. DOMAIN scores = 1 .. n /\ scores = [i \in 1 .. n |-> scores[i]]
    BY <1>1
  <1> HIDE DEF scores, n, First
  <1>5. \A i \in 1 .. n : scores[i] \in Nat
    BY <1>3, TermsScore
  <1>6. scores \in Seq(Nat) /\ Len(scores) = n
    <2>1. scores \in [1 .. n -> Nat]
      BY <1>4, <1>5
    <2> QED
      BY <1>1, <2>1, FunctionIsList
  <1>7. Total(scores) \in Nat /\ \A i \in 1 .. n : scores[i] <= Total(scores)
    BY <1>6, TotalBounds
  <1>8. ASSUME NEW term \in ToSet(query), term \in ToSet(documents[d].tokens)
        PROVE  Total(scores) > 0
    <2> DEFINE places == {i \in 1 .. n : query[i] = term}
    <2>1. PICK i \in places : \A j \in places : i <= j
      <3>1. places \in SUBSET Nat /\ places # {}
        BY <1>1, <1>8 DEF ToSet
      <3> HIDE DEF places
      <3> QED
        BY <3>1, LeastNatural
    <2>2. i \in 1 .. n /\ query[i] = term
      OBVIOUS
    <2>3. First(i)
      <3>1. \A j \in 1 .. i - 1 : j \in 1 .. n /\ ~(i <= j)
        BY <1>1, <2>2
      <3> QED
        BY <2>1, <2>2, <3>1 DEF First
    <2>4. d \in Postings(documents, term)
      <3>1. IsList(documents[d].tokens)
        BY DEF Listing
      <3> QED
        BY <1>8, <3>1, FrequencyCounts DEF Postings
    <2>5. scores[i] = TermScore(documents, d, term)
      BY <1>3, <2>2, <2>3, <2>4
    <2>6. scores[i] \in Nat /\ scores[i] > 0
      BY <2>4, <2>5, TermsScore
    <2> QED
      BY <1>7, <2>2, <2>6
  <1> QED
    BY <1>2, <1>7, <1>8

-----------------------------------------------------------------------------
(* The ranking by words.                                                   *)

Found(documents, query) == {d \in DOMAIN documents : Bm25(documents, d, query) > 0}

LEMMA RankHasFound ==
    ASSUME NEW documents, Listing(documents), NEW query, IsList(query)
    PROVE  LET ranked == RankBm25(documents, query) IN
           /\ Cardinality(Found(documents, query)) \in Nat
           /\ DOMAIN ranked = 1 .. Cardinality(Found(documents, query))
           /\ \A k \in DOMAIN ranked : ranked[k] \in Found(documents, query)
           /\ \A d \in Found(documents, query) : \E k \in DOMAIN ranked : ranked[k] = d
  <1> DEFINE score == [d \in DOMAIN documents |-> Bm25(documents, d, query)]
             S == Found(documents, query)
             Ahead(d, e) == score[d] > score[e] \/ (score[d] = score[e] /\ d < e)
             R == {pair \in S \X S : Ahead(pair[1], pair[2])}
             ranked == RankBm25(documents, query)
  <1>1. Len(documents) \in Nat /\ DOMAIN documents = 1 .. Len(documents)
    BY ListHas DEF Listing
  <1>2. S = {d \in DOMAIN documents : score[d] > 0} /\ S \subseteq DOMAIN documents
    BY DEF Found
  <1>3. \A d \in S : score[d] \in Nat /\ d \in Int
    <2>1. \A d \in DOMAIN documents : score[d] = Bm25(documents, d, query)
      OBVIOUS
    <2> HIDE DEF S, score
    <2> QED
      BY <1>1, <1>2, <2>1, ScoresAreFair
  <1>4. IsFiniteSet(S) /\ Cardinality(S) \in Nat
    <2>1. IsFiniteSet(1 .. Len(documents))
      BY <1>1, FS_Interval
    <2> HIDE DEF S
    <2>2. IsFiniteSet(S)
      BY <1>1, <1>2, <2>1, FS_Subset
    <2> QED
      BY <2>2, FS_CardinalityType
  <1>5. ranked = [k \in 1 .. Cardinality(S) |->
                    CHOOSE d \in S : Cardinality({e \in S : Ahead(e, d)}) = k - 1]
    BY <1>2 DEF RankBm25
  <1> HIDE DEF score, S, ranked
  <1>6. StrictlyOrders(R, S)
    <2>1. \A x, y \in S : <<x, y>> \in R <=> Ahead(x, y)
      OBVIOUS
    <2> HIDE DEF R
    <2> QED
      BY <1>3, <2>1 DEF StrictlyOrders
  <1>7. \A d \in S : {e \in S : Ahead(e, d)} = Lower(S, R, d)
    BY DEF Lower
  <1> HIDE DEF R, Ahead
  <1>8. ASSUME NEW k \in 1 .. Cardinality(S)
        PROVE  ranked[k] \in S /\ Cardinality(Lower(S, R, ranked[k])) = k - 1
    <2>1. \E d \in S : Cardinality(Lower(S, R, d)) = k - 1
      BY <1>4, <1>6, EveryPlaceIsTaken
    <2>2. \E d \in S : Cardinality({e \in S : Ahead(e, d)}) = k - 1
      BY <1>7, <2>1
    <2>3. ranked[k] = CHOOSE d \in S : Cardinality({e \in S : Ahead(e, d)}) = k - 1
      BY <1>5
    <2>4. ranked[k] \in S /\ Cardinality({e \in S : Ahead(e, ranked[k])}) = k - 1
      BY <2>2, <2>3
    <2> QED
      BY <1>7, <2>4
  <1>9. ASSUME NEW d \in S PROVE \E k \in 1 .. Cardinality(S) : ranked[k] = d
    <2> DEFINE k == Cardinality(Lower(S, R, d)) + 1
    <2>1. Cardinality(Lower(S, R, d)) \in 0 .. Cardinality(S) - 1
      BY <1>4, <1>6, LowerGrows
    <2>2. k \in 1 .. Cardinality(S) /\ k - 1 = Cardinality(Lower(S, R, d))
      BY <1>4, <2>1
    <2> HIDE DEF k
    <2>3. ranked[k] = d
      BY <1>4, <1>6, <1>8, <2>2, EveryPlaceIsTaken
    <2> QED
      BY <2>2, <2>3
  <1>10. DOMAIN ranked = 1 .. Cardinality(S)
    BY <1>5
  <1> QED
    BY <1>4, <1>8, <1>9, <1>10 DEF S, ranked

-----------------------------------------------------------------------------
(* The index of a game.                                                    *)

Occurrences(corpus, hash) == {i \in DOMAIN corpus : corpus[i].content_hash = hash}

Indexes(documents, corpus) ==
    /\ Listing(documents)
    /\ \A d \in DOMAIN documents :
          /\ documents[d].tokens = Tokenize(WordsOf(documents[d].content_hash))
          /\ documents[d].occurrences
                 = HitsAt(corpus, Occurrences(corpus, documents[d].content_hash))
    /\ \A i \in DOMAIN corpus : \E d \in DOMAIN documents :
          documents[d].content_hash = corpus[i].content_hash

LEMMA GameIsIndexed ==
    ASSUME NEW X, Space \in X, NEW corpus, NEW n \in Nat, DOMAIN corpus = 1 .. n,
           \A i \in 1 .. n : corpus[i].content_hash \in Seq(X)
    PROVE  Indexes(BuildGameIndex(corpus), corpus)
  <1> DEFINE kept == Deduplicate(corpus)
             texts == Hashes(kept)
             documents == BuildGameIndex(corpus)
  <1>1. \E m \in Nat : DOMAIN kept = 1 .. m
    <2> DEFINE first == {i \in DOMAIN corpus : \A j \in DOMAIN corpus :
                            j < i => corpus[j].content_hash # corpus[i].content_hash}
    <2>1. kept = HitsAt(corpus, first)
      BY DEF Deduplicate
    <2>2. first \in SUBSET (1 .. n)
      OBVIOUS
    <2> HIDE DEF kept, first
    <2> QED
      BY <2>1, <2>2, HitsAreThere
  <1>2. \A k \in DOMAIN kept : \E i \in 1 .. n : kept[k] = corpus[i]
    <2>1. \A k \in DOMAIN kept : kept[k] \in HitsOn(corpus, 1 .. n)
      BY DeduplicatedAreThere
    <2> HIDE DEF kept
    <2> QED
      BY <2>1 DEF HitsOn
  <1>3. \A i \in 1 .. n : \E k \in DOMAIN kept : kept[k].content_hash = corpus[i].content_hash
    BY TextsAreKept
  <1>4. DOMAIN texts = DOMAIN kept /\ \A k \in DOMAIN kept : texts[k] = kept[k].content_hash
    BY DEF Hashes
  <1>5. documents = [i \in DOMAIN texts |->
                        [content_hash |-> texts[i], tokens |-> Tokenize(WordsOf(texts[i])),
                         occurrences |-> HitsAt(corpus, Occurrences(corpus, texts[i]))]]
    BY DEF BuildGameIndex, Occurrences
  <1> HIDE DEF kept, texts
  <1>6. /\ DOMAIN documents = DOMAIN kept
        /\ \A d \in DOMAIN kept :
              /\ documents[d].content_hash = texts[d]
              /\ documents[d].tokens = Tokenize(WordsOf(texts[d]))
              /\ documents[d].occurrences = HitsAt(corpus, Occurrences(corpus, texts[d]))
    BY <1>4, <1>5
  <1> HIDE DEF documents
  <1>7. IsList(documents)
    <2>1. PICK m \in Nat : DOMAIN kept = 1 .. m
      BY <1>1
    <2>2. documents = [d \in DOMAIN documents |-> documents[d]]
      BY <1>4, <1>5, <1>6
    <2>3. documents \in [1 .. m -> ToSet(documents)]
      BY <1>6, <2>1, <2>2 DEF ToSet
    <2> QED
      BY <2>3, FunctionIsList DEF IsList
  <1>8. ASSUME NEW d \in DOMAIN documents PROVE IsList(documents[d].tokens)
    <2>1. texts[d] \in Seq(X)
      BY <1>2, <1>4, <1>6
    <2>2. WordsOf(texts[d]) \in Seq(Seq(X))
      BY <2>1, WordsAreLists
    <2>3. Tokenize(WordsOf(texts[d])) \in Seq(Seq(X))
      BY <2>2, TokensAreLists
    <2>4. \A W, list : list \in Seq(W) => IsList(list)
      BY DEF IsList, ToSet
    <2> QED
      BY <1>6, <2>3, <2>4
  <1> QED
    BY <1>3, <1>4, <1>6, <1>7, <1>8 DEF Indexes, Listing, documents

LEMMA HitsAreList ==
    ASSUME NEW hits, NEW n \in Nat, NEW T \in SUBSET (1 .. n)
    PROVE  /\ HitsAt(hits, T) \in Seq(HitsOn(hits, T)) /\ Len(HitsAt(hits, T)) = Cardinality(T)
           /\ HitsAt(hits, T) = <<>> <=> T = {}
  <1> DEFINE list == HitsAt(hits, T)
  <1>1. /\ Cardinality(T) \in Nat /\ DOMAIN list = 1 .. Cardinality(T)
        /\ \A k \in DOMAIN list : list[k] \in HitsOn(hits, T)
    BY HitsAreThere
  <1>2. list = [k \in 1 .. Cardinality(T) |-> list[k]]
    BY DEF HitsAt
  <1> HIDE DEF list
  <1>3. list \in [1 .. Cardinality(T) -> HitsOn(hits, T)]
    BY <1>1, <1>2
  <1>4. list \in Seq(HitsOn(hits, T)) /\ Len(list) = Cardinality(T)
    BY <1>1, <1>3, FunctionIsList
  <1>5. T = {} <=> Cardinality(T) = 0
    <2>1. IsFiniteSet(1 .. n)
      BY FS_Interval
    <2>2. IsFiniteSet(T)
      BY <2>1, FS_Subset
    <2> QED
      BY <2>2, FS_EmptySet
  <1>6. list = <<>> <=> Len(list) = 0
    BY <1>4
  <1> QED
    BY <1>4, <1>5, <1>6 DEF list

(* A text is cited by a chunk that says it, if the user may consult any.   *)
LEMMA TextsAreCited ==
    ASSUME NEW documents, NEW corpus, NEW n \in Nat, DOMAIN corpus = 1 .. n,
           Indexes(documents, corpus), NEW d \in DOMAIN documents, NEW allowed
    PROVE  LET cited == Consultable(documents[d], allowed) IN
           /\ cited # <<>> => Head(cited).content_hash = documents[d].content_hash
           /\ \A i \in DOMAIN corpus :
                 corpus[i].content_hash = documents[d].content_hash /\ corpus[i].page \in allowed =>
                     cited # <<>>
  <1> DEFINE places == Occurrences(corpus, documents[d].content_hash)
             said == documents[d].occurrences
             cited == Consultable(documents[d], allowed)
             open == {i \in DOMAIN said : said[i].page \in allowed}
  <1>1. said = HitsAt(corpus, places) /\ places \in SUBSET (1 .. n)
    BY DEF Indexes, Occurrences
  <1>2. \A i \in places : corpus[i].content_hash = documents[d].content_hash
    BY DEF Occurrences
  <1>3. cited = HitsAt(said, open)
    BY DEF Consultable
  <1> HIDE DEF said, cited
  <1>4. /\ said \in Seq(HitsOn(corpus, places)) /\ Len(said) \in Nat
        /\ DOMAIN said = 1 .. Len(said)
    <2> HIDE DEF places
    <2>1. HitsAt(corpus, places) \in Seq(HitsOn(corpus, places))
      BY <1>1, HitsAreList
    <2>2. said \in Seq(HitsOn(corpus, places))
      BY <1>1, <2>1
    <2> QED
      BY <2>2
  <1>5. \A k \in DOMAIN said : said[k].content_hash = documents[d].content_hash
    <2>1. \A k \in DOMAIN said : \E i \in places : said[k] = corpus[i]
      BY <1>4 DEF HitsOn
    <2> HIDE DEF places
    <2> QED
      BY <1>2, <2>1
  <1>6. open \in SUBSET (1 .. Len(said))
    BY <1>4
  <1>7. cited \in Seq(HitsOn(said, open)) /\ (cited = <<>> <=> open = {})
    <2> HIDE DEF open
    <2> QED
      BY <1>3, <1>4, <1>6, HitsAreList
  <1>8. ASSUME cited # <<>> PROVE Head(cited).content_hash = documents[d].content_hash
    <2>1. Head(cited) \in HitsOn(said, open)
      <3> HIDE DEF open
      <3> QED
        BY <1>7, <1>8
    <2> QED
      BY <1>5, <2>1 DEF HitsOn
  <1>9. ASSUME NEW i \in DOMAIN corpus, corpus[i].content_hash = documents[d].content_hash,
               corpus[i].page \in allowed
        PROVE  cited # <<>>
    <2>1. i \in places
      BY <1>9 DEF Occurrences
    <2> HIDE DEF places
    <2>2. PICK k \in 1 .. Cardinality(places) : said[k] = corpus[i]
      BY <1>1, <2>1, HitsAreKept
    <2>3. k \in DOMAIN said
      BY <1>1, HitsAreThere
    <2>4. k \in open
      BY <1>9, <2>2, <2>3
    <2> QED
      BY <1>7, <2>4
  <1> QED
    BY <1>8, <1>9 DEF cited

Says(hit, query) == ToSet(Tokenize(WordsOf(hit.content_hash))) \cap ToSet(query) # {}
Lexical(corpus, query, allowed) == Hashes(RankAuthorizedLexicalChunks(corpus, query, allowed))

(* The ranking by words is a list, and has every text with a word of the   *)
(* question in a manual the user may consult, unless it is cut.            *)
LEMMA WordsAreRanked ==
    ASSUME NEW X, Space \in X, NEW corpus, NEW n \in Nat, DOMAIN corpus = 1 .. n,
           \A i \in 1 .. n : corpus[i].content_hash \in Seq(X),
           NEW query, IsList(query), NEW allowed
    PROVE  /\ IsList(Lexical(corpus, query, allowed))
           /\ Len(Lexical(corpus, query, allowed)) < FusionCandidates =>
                 \A i \in 1 .. n : corpus[i].page \in allowed /\ Says(corpus[i], query) =>
                     corpus[i].content_hash \in ToSet(Lexical(corpus, query, allowed))
  <1> DEFINE documents == BuildGameIndex(corpus)
             ranked == RankBm25(documents, query)
             cited(d) == Consultable(documents[d], allowed)
             places == {i \in DOMAIN ranked : cited(ranked[i]) # <<>>}
             citable == HitsAt(ranked, places)
             all == [i \in DOMAIN citable |-> Head(cited(citable[i]))]
             lexical == Lexical(corpus, query, allowed)
             S == Found(documents, query)
  <1>1. lexical = Hashes(FirstOf(all, FusionCandidates))
    BY DEF Lexical, RankAuthorizedLexicalChunks
  <1>2. Indexes(documents, corpus)
    BY GameIsIndexed
  <1> HIDE DEF documents
  <1>3. /\ Cardinality(S) \in Nat /\ DOMAIN ranked = 1 .. Cardinality(S)
        /\ \A k \in DOMAIN ranked : ranked[k] \in S
        /\ \A d \in S : \E k \in DOMAIN ranked : ranked[k] = d
    BY <1>2, RankHasFound DEF Indexes
  <1>4. S \subseteq DOMAIN documents
    BY DEF Found
  <1>5. \A d \in DOMAIN documents : cited(d) # <<>> =>
            Head(cited(d)).content_hash = documents[d].content_hash
    BY <1>2, TextsAreCited
  <1>6. \A d \in DOMAIN documents : \A i \in DOMAIN corpus :
            corpus[i].content_hash = documents[d].content_hash /\ corpus[i].page \in allowed =>
                cited(d) # <<>>
    BY <1>2, TextsAreCited
  <1> HIDE DEF cited, S, ranked
  <1>7. places \in SUBSET (1 .. Cardinality(S)) /\ \A k \in places : cited(ranked[k]) # <<>>
    BY <1>3
  <1> HIDE DEF places
  <1>8. /\ Cardinality(places) \in Nat /\ DOMAIN citable = 1 .. Cardinality(places)
        /\ \A k \in DOMAIN citable : \E i \in places : citable[k] = ranked[i]
        /\ \A i \in places : \E k \in DOMAIN citable : citable[k] = ranked[i]
    <2>1. /\ Cardinality(places) \in Nat /\ DOMAIN citable = 1 .. Cardinality(places)
          /\ \A k \in DOMAIN citable : citable[k] \in HitsOn(ranked, places)
      BY <1>3, <1>7, HitsAreThere
    <2>2. \A i \in places : \E k \in 1 .. Cardinality(places) : citable[k] = ranked[i]
      BY <1>3, <1>7, HitsAreKept
    <2> QED
      BY <2>1, <2>2 DEF HitsOn
  <1> HIDE DEF citable
  <1>9. /\ DOMAIN all = DOMAIN citable
        /\ \A k \in DOMAIN all : all[k] = Head(cited(citable[k]))
    OBVIOUS
  <1> HIDE DEF all
  <1>10. \A k \in DOMAIN citable : all[k].content_hash = documents[citable[k]].content_hash
    <2> SUFFICES ASSUME NEW k \in DOMAIN citable
                 PROVE  all[k].content_hash = documents[citable[k]].content_hash
      OBVIOUS
    <2>1. PICK i \in places : citable[k] = ranked[i]
      BY <1>8
    <2>2. cited(citable[k]) # <<>> /\ citable[k] \in DOMAIN documents
      BY <1>3, <1>4, <1>7, <2>1
    <2> QED
      BY <1>5, <1>9, <2>2
  <1>11. /\ DOMAIN lexical = DOMAIN all \cap (1 .. FusionCandidates)
         /\ lexical = [k \in DOMAIN lexical |-> lexical[k]]
         /\ \A k \in DOMAIN lexical : lexical[k] = all[k].content_hash
    BY <1>1 DEF Hashes, FirstOf
  <1> HIDE DEF lexical
  <1> DEFINE m == IF Cardinality(places) <= FusionCandidates THEN Cardinality(places)
                  ELSE FusionCandidates
  <1>12. m \in Nat /\ DOMAIN lexical = 1 .. m /\ (m < FusionCandidates => m = Cardinality(places))
    BY <1>8, <1>9, <1>11, RankingAssumption
  <1> HIDE DEF m
  <1>13. lexical \in Seq(ToSet(lexical)) /\ Len(lexical) = m
    <2>1. lexical \in [1 .. m -> ToSet(lexical)]
      BY <1>11, <1>12 DEF ToSet
    <2> QED
      BY <1>12, <2>1, FunctionIsList
  <1>14. ASSUME m < FusionCandidates, NEW i \in 1 .. n, corpus[i].page \in allowed,
                Says(corpus[i], query)
         PROVE  corpus[i].content_hash \in ToSet(lexical)
    <2>1. PICK d \in DOMAIN documents : documents[d].content_hash = corpus[i].content_hash
      BY <1>2 DEF Indexes
    <2>2. d \in S
      <3>1. PICK term \in ToSet(query) : term \in ToSet(Tokenize(WordsOf(corpus[i].content_hash)))
        BY <1>14 DEF Says
      <3>2. term \in ToSet(documents[d].tokens)
        BY <1>2, <2>1, <3>1 DEF Indexes
      <3>3. Bm25(documents, d, query) > 0
        BY <1>2, <3>2, ScoresAreFair DEF Indexes
      <3> QED
        BY <3>3 DEF S, Found
    <2>3. PICK r \in DOMAIN ranked : ranked[r] = d
      BY <1>3, <2>2
    <2>4. cited(d) # <<>>
      BY <1>6, <1>14, <2>1
    <2>5. r \in places
      BY <2>3, <2>4 DEF places
    <2>6. PICK k \in DOMAIN citable : citable[k] = d
      BY <1>8, <2>3, <2>5
    <2>7. k \in DOMAIN lexical
      BY <1>8, <1>12, <1>14, <2>6
    <2>8. lexical[k] = corpus[i].content_hash
      BY <1>10, <1>11, <2>1, <2>6, <2>7
    <2> QED
      BY <2>7, <2>8 DEF ToSet
  <1> QED
    BY <1>13, <1>14 DEF IsList, lexical

-----------------------------------------------------------------------------
PageFields == {"ocr_status", "text_source", "text_quality", "image", "source_fingerprint",
               "reused_from", "lines"}
TaskFields == {"at", "from", "seen", "lines", "quality", "source", "chunk_texts", "torn"}
QuestionFields == {"at", "user", "words", "allowed", "hybrid", "dense", "lexical", "hits",
                   "context", "asked"}

(* The rows and the tasks, whatever a text says.                           *)
Shape ==
    /\ DOMAIN pages = Pages /\ \A p \in Pages : DOMAIN pages[p] = PageFields
    /\ DOMAIN task = Pages /\ \A p \in Pages : DOMAIN task[p] = TaskFields
    /\ DOMAIN chunks = Pages
    /\ version \in [Pages -> Nat]

(* Whose text the lines of a page may be.                                  *)
MayShow(p, text) ==
    /\ text.by \in Pages /\ Image[text.by] = Image[p]
    /\ Owner[text.by] = Owner[p] \/ (text.by \in Shared /\ text.how # "user_edit")

(* Whose text its chunks may be: those of a torn copy are read when the    *)
(* page copied may already hold what its owner wrote on another one.       *)
SharesImage(by) == \E s \in Shared : Owner[s] = Owner[by] /\ Image[s] = Image[by]
MayIndex(p, text) ==
    /\ text.by \in Pages /\ Image[text.by] = Image[p]
    /\ Owner[text.by] = Owner[p] \/ SharesImage(text.by)

(* A page that users who do not own it may copy has a text of its own.     *)
OwnText(p) ==
    p \in Shared /\ pages[p].ocr_status = "completed" /\ pages[p].reused_from = NoPage =>
        pages[p].lines.by = p /\ pages[p].lines.how # "user_edit"

Held(p) ==
    /\ pages[p].lines # NoText => MayShow(p, pages[p].lines)
    /\ \A c \in chunks[p] : MayIndex(p, c.text)

Whole(p) == pages[p].lines # NoText => ChunksInOrder(p) = ChunkTexts(pages[p].lines)

(* What a task carries from one transaction to the next.                   *)
Layer(p, text) == text.by = p /\ text.how = "pdf_text"
SourceOf(p) ==
    LET q == task[p].from IN
    /\ q \in Pages /\ Image[q] = Image[p]
    /\ Owner[q] = Owner[p] \/ q \in Shared
Carried(p) ==
    LET t == task[p] IN
    /\ t.at = "rendering" => t.lines = NoText \/ Layer(p, t.lines)
    /\ t.at = "layer" => Layer(p, t.lines)
    /\ t.at \in {"found", "copying"} => SourceOf(p) /\ (t.lines # NoText => MayShow(p, t.lines))
    /\ t.at = "found" =>
         /\ t.seen \in Nat /\ t.seen <= version[t.from]
         /\ t.seen = version[t.from] /\ t.from \notin crossed /\ t.lines # NoText
                => ChunksInOrder(t.from) = ChunkTexts(t.lines)
    /\ t.at = "copying" =>
         /\ t.chunk_texts = [i \in DOMAIN t.chunk_texts |-> t.chunk_texts[i]]
         /\ \A i \in DOMAIN t.chunk_texts : MayIndex(p, t.chunk_texts[i])
         /\ t.torn \in BOOLEAN
         /\ t.torn \/ t.lines = NoText \/ t.chunk_texts = ChunkTexts(t.lines)

PagesHold == \A p \in Pages : OwnText(p) /\ Held(p) /\ (p \notin crossed => Whole(p))
TasksCarry == \A p \in Pages : Carried(p)

(* The question: what RAG chose is a finite list, and the context is empty *)
(* until the answer is written.                                            *)
QuestionHolds ==
    /\ DOMAIN question = QuestionFields
    /\ question.allowed \subseteq Pages
    /\ DOMAIN question.hits \subseteq 1 .. TopK
    /\ question.at # "answering" => question.context = <<>>

(* Nobody writes by hand on a shared page, so its task replaces it alone.  *)
PrivateEdits ==
    /\ DOMAIN storing = Pages /\ DOMAIN editing = Pages
    /\ \A p \in Shared : storing[p].at = "idle" /\ editing[p].at = "idle"

PageInv == Shape /\ PagesHold /\ TasksCarry
TextInv == PageInv /\ PrivateEdits /\ QuestionHolds /\ NobodyReadsPrivateText

USE PagesAssumption, QuestionsAssumption

-----------------------------------------------------------------------------
(* A page gets a result.                                                   *)

Function(f) == f = [i \in DOMAIN f |-> f[i]]

(* Another transaction may have left the lines or the chunks it stored.    *)
Rewritten(p) ==
    /\ \A q \in Pages \ {p} :
          /\ pages'[q] = pages[q] /\ chunks'[q] = chunks[q] /\ version'[q] = version[q]
          /\ q \in crossed' <=> q \in crossed
    /\ version'[p] = version[p] + 1

Alone(p, result) ==
    /\ pages'[p].lines = result.lines
    /\ chunks'[p] = PrepareTextChunks(p, result.chunk_texts)
    /\ p \in crossed' <=> result.torn

Beside(p, result) ==
    /\ pages'[p].lines \in {result.lines, pages[p].lines}
    /\ chunks'[p] \in {PrepareTextChunks(p, result.chunk_texts), chunks[p]}
    /\ p \in crossed'

Stored(p, result) ==
    /\ Rewritten(p)
    /\ Alone(p, result) \/ (p \notin Shared /\ Beside(p, result))
    /\ p \in Shared => pages'[p].reused_from = result.from

(* The rows, without the tasks.                                            *)
RowsShape ==
    /\ DOMAIN pages = Pages /\ \A p \in Pages : DOMAIN pages[p] = PageFields
    /\ DOMAIN chunks = Pages
    /\ version \in [Pages -> Nat]

(* A transaction that has not begun finds what it would load.              *)
Undisturbed(own) == own.at \notin {"loaded", "deleted"}

LEMMA ResultRewrites ==
    ASSUME Shape, NEW p \in Pages, NEW own, NEW result,
           result.torn \in BOOLEAN, p \in Shared => Undisturbed(own),
           ReplacePageResult(p, own, result)
    PROVE  Stored(p, result) /\ RowsShape'
  <1> DEFINE unseen == Unseen(p, own)
             texts == result.chunk_texts
  <1>1. PICK lines \in LinesLeft(p, own, result.lines) :
           /\ pages' = [pages EXCEPT
                  ![p].ocr_status = Column(p, own, "ocr_status", "completed"), ![p].lines = lines,
                  ![p].text_source = Column(p, own, "text_source", result.source),
                  ![p].text_quality = Column(p, own, "text_quality", result.quality),
                  ![p].reused_from = Column(p, own, "reused_from", result.from)]
           /\ crossed' = IF result.torn \/ unseen # {} \/ lines # result.lines
                         THEN crossed \cup {p} ELSE crossed \ {p}
    BY DEF ReplacePageResult
  <1>2. /\ DOMAIN pages' = Pages
        /\ \A q \in Pages \ {p} : pages'[q] = pages[q]
        /\ pages'[p].lines = lines
        /\ pages'[p].reused_from = Column(p, own, "reused_from", result.from)
        /\ \A q \in Pages : DOMAIN pages'[q] = PageFields
    BY <1>1 DEF Shape, PageFields
  <1>3. /\ unseen = {} \/ texts = <<>>
        /\ DOMAIN chunks' = Pages
        /\ \A q \in Pages \ {p} : chunks'[q] = chunks[q]
        /\ chunks'[p] = unseen \cup PrepareTextChunks(p, texts)
    BY DEF ReplacePageResult, Shape
  <1>4. /\ version' \in [Pages -> Nat]
        /\ \A q \in Pages \ {p} : version'[q] = version[q]
        /\ version'[p] = version[p] + 1
    BY DEF ReplacePageResult, Shape
  <1>5. unseen \in {{}, chunks[p]} /\ lines \in {result.lines, pages[p].lines}
    BY DEF Unseen, LinesLeft
  <1>6. texts = <<>> => PrepareTextChunks(p, texts) = {}
    <2>1. DOMAIN <<>> = {}
      OBVIOUS
    <2> QED
      BY <2>1 DEF PrepareTextChunks
  <1>7. chunks'[p] = IF unseen = {} THEN PrepareTextChunks(p, texts) ELSE chunks[p]
    BY <1>3, <1>5, <1>6
  <1>8. Undisturbed(own) => /\ unseen = {} /\ lines = result.lines
                            /\ pages'[p].reused_from = result.from
    <2> SUFFICES ASSUME Undisturbed(own)
                 PROVE  unseen = {} /\ lines = result.lines /\ pages'[p].reused_from = result.from
      OBVIOUS
    <2>1. unseen = {} /\ Loaded(p, own) = pages[p]
      BY DEF Undisturbed, Unseen, Loaded
    <2>2. lines = result.lines
      BY <2>1 DEF LinesLeft
    <2>3. pages'[p].reused_from = result.from
      BY <1>2, <2>1 DEF Column
    <2> QED
      BY <2>1, <2>2, <2>3
  <1>9. Rewritten(p) /\ RowsShape'
    BY <1>1, <1>2, <1>3, <1>4 DEF Rewritten, RowsShape
  <1>10. CASE unseen = {} /\ lines = result.lines
    BY <1>1, <1>2, <1>7, <1>8, <1>9, <1>10 DEF Stored, Alone
  <1>11. CASE ~(unseen = {} /\ lines = result.lines)
    <2>1. p \notin Shared /\ p \in crossed'
      BY <1>1, <1>8, <1>11
    <2> QED
      BY <1>2, <1>5, <1>7, <1>9, <2>1 DEF Stored, Beside
  <1> QED
    BY <1>10, <1>11

(* The texts of some rows, by their index.                                 *)
TextsIn(rows) ==
    [i \in {c.id[3] : c \in rows} |-> (CHOOSE c \in rows : c.id[3] = i).text]

(* What was cut is read back whole and in its order.                       *)
LEMMA ReadBack ==
    ASSUME NEW p \in Pages, NEW texts, Function(texts), chunks'[p] = PrepareTextChunks(p, texts)
    PROVE  ChunksInOrder(p)' = texts
  <1> DEFINE rows == {[id |-> <<p, version[p] + 1, i>>, text |-> texts[i]] : i \in DOMAIN texts}
  <1>1. chunks'[p] = rows
    BY DEF PrepareTextChunks
  <1>2. \A c \in rows : c.id[3] \in DOMAIN texts /\ c.text = texts[c.id[3]]
    OBVIOUS
  <1>3. ASSUME NEW i \in DOMAIN texts PROVE \E c \in rows : c.id[3] = i
    <2> DEFINE row == [id |-> <<p, version[p] + 1, i>>, text |-> texts[i]]
    <2>1. row \in rows /\ row.id[3] = i
      OBVIOUS
    <2> QED
      BY <2>1
  <1> HIDE DEF rows
  <1>4. {c.id[3] : c \in rows} = DOMAIN texts
    <2>1. {c.id[3] : c \in rows} \subseteq DOMAIN texts
      BY <1>2
    <2>2. DOMAIN texts \subseteq {c.id[3] : c \in rows}
      BY <1>3
    <2> QED
      BY <2>1, <2>2
  <1>5. \A i \in DOMAIN texts : (CHOOSE c \in rows : c.id[3] = i).text = texts[i]
    BY <1>2, <1>3
  <1>6. TextsIn(rows) = [i \in DOMAIN texts |-> texts[i]]
    BY <1>4, <1>5 DEF TextsIn
  <1>7. ChunksInOrder(p)' = TextsIn(chunks'[p])
    BY DEF ChunksInOrder, TextsIn
  <1> QED
    BY <1>1, <1>6, <1>7 DEF Function

LEMMA OthersReadAlike ==
    ASSUME NEW q \in Pages, chunks'[q] = chunks[q]
    PROVE  ChunksInOrder(q)' = ChunksInOrder(q)
  BY DEF ChunksInOrder

(* The chunks of a page, in their order, are chunks of the page.           *)
LEMMA OrderedAreChunks ==
    ASSUME NEW q \in Pages
    PROVE  /\ Function(ChunksInOrder(q))
           /\ \A i \in DOMAIN ChunksInOrder(q) :
                 \E c \in chunks[q] : ChunksInOrder(q)[i] = c.text
  <1>1. ASSUME NEW i \in DOMAIN ChunksInOrder(q)
        PROVE  \E c \in chunks[q] : ChunksInOrder(q)[i] = c.text
    <2> DEFINE row == CHOOSE c \in chunks[q] : c.id[3] = i
    <2>1. row \in chunks[q]
      BY DEF ChunksInOrder
    <2>2. ChunksInOrder(q)[i] = row.text
      BY DEF ChunksInOrder
    <2> QED
      BY <2>1, <2>2
  <1>2. Function(ChunksInOrder(q))
    BY DEF Function, ChunksInOrder
  <1> QED
    BY <1>1, <1>2

LEMMA CutKeepsOrigin ==
    ASSUME NEW text
    PROVE  /\ Function(ChunkTexts(text))
           /\ \A i \in DOMAIN ChunkTexts(text) : ChunkTexts(text)[i].by = text.by
  BY DEF Function, ChunkTexts

LEMMA ShownIsIndexable ==
    ASSUME NEW p \in Pages, NEW text, MayShow(p, text), NEW other, other.by = text.by
    PROVE  MayIndex(p, other)
  BY DEF MayShow, MayIndex, SharesImage

(* A rewritten page keeps its promise if its text does, and the others     *)
(* theirs.                                                                 *)
LEMMA RewriteHolds ==
    ASSUME Shape, PagesHold, NEW p \in Pages, NEW result, Stored(p, result),
           Function(result.chunk_texts),
           result.lines # NoText => MayShow(p, result.lines),
           \A i \in DOMAIN result.chunk_texts : MayIndex(p, result.chunk_texts[i]),
           result.from = NoPage =>
               result.lines.by = p /\ (p \in Shared => result.lines.how # "user_edit"),
           \/ result.torn \/ result.lines = NoText
           \/ result.chunk_texts = ChunkTexts(result.lines)
    PROVE  PagesHold'
  <1> DEFINE text == result.lines
             texts == result.chunk_texts
  <1>1. ASSUME NEW q \in Pages, q # p
        PROVE  (OwnText(q) /\ Held(q) /\ (q \notin crossed => Whole(q)))'
    <2>1. OwnText(q) /\ Held(q) /\ (q \notin crossed => Whole(q))
      BY DEF PagesHold
    <2>2. pages'[q] = pages[q] /\ chunks'[q] = chunks[q] /\ (q \in crossed' <=> q \in crossed)
      BY <1>1 DEF Stored, Rewritten
    <2>3. ChunksInOrder(q)' = ChunksInOrder(q)
      BY <2>2, OthersReadAlike
    <2>4. OwnText(q)'
      BY <2>1, <2>2 DEF OwnText
    <2>5. Held(q)'
      BY <2>1, <2>2 DEF Held
    <2>6. (q \notin crossed => Whole(q))'
      BY <2>1, <2>2, <2>3 DEF Whole
    <2> QED
      BY <2>4, <2>5, <2>6
  <1>2. OwnText(p)'
    BY DEF OwnText, Stored, Alone
  <1>3. Held(p)'
    <2>1. /\ pages'[p].lines \in {text, pages[p].lines}
          /\ chunks'[p] \in {PrepareTextChunks(p, texts), chunks[p]}
      BY DEF Stored, Alone, Beside
    <2>2. \A c \in PrepareTextChunks(p, texts) : MayIndex(p, c.text)
      BY DEF PrepareTextChunks
    <2>3. Held(p)
      BY DEF PagesHold
    <2> QED
      BY <2>1, <2>2, <2>3 DEF Held
  <1>4. (p \notin crossed => Whole(p))'
    <2> SUFFICES ASSUME p \notin crossed', pages'[p].lines # NoText
                 PROVE  ChunksInOrder(p)' = ChunkTexts(pages'[p].lines)
      BY DEF Whole, ChunkTexts
    <2>1. Alone(p, result) /\ ~result.torn
      BY DEF Stored, Alone, Beside
    <2>2. pages'[p].lines = text /\ chunks'[p] = PrepareTextChunks(p, texts)
      BY <2>1 DEF Alone
    <2>3. texts = ChunkTexts(text)
      BY <2>1, <2>2
    <2>4. ChunksInOrder(p)' = texts
      BY <2>2, ReadBack
    <2> QED
      BY <2>2, <2>3, <2>4
  <1> QED
    BY <1>1, <1>2, <1>3, <1>4 DEF PagesHold

(* A task that does not move keeps its promise, whatever page is rewritten:*)
(* of a page it has found, it notices.                                     *)
LEMMA RewriteCarries ==
    ASSUME Shape, NEW p \in Pages, Rewritten(p),
           NEW q \in Pages, Carried(q), task'[q] = task[q]
    PROVE  Carried(q)'
  <1>1. CASE task[q].at # "found"
    BY <1>1 DEF Carried, SourceOf
  <1>2. CASE task[q].at = "found"
    <2> DEFINE s == task[q].from
    <2>1. s \in Pages /\ SourceOf(q) /\ (task[q].lines # NoText => MayShow(q, task[q].lines))
      BY <1>2 DEF Carried, SourceOf
    <2>2. CASE s # p
      <3>1. /\ version'[s] = version[s] /\ ChunksInOrder(s)' = ChunksInOrder(s)
            /\ s \in crossed' <=> s \in crossed
        BY <2>1, <2>2, OthersReadAlike DEF Rewritten
      <3> QED
        BY <1>2, <2>1, <3>1 DEF Carried, SourceOf
    <2>3. CASE s = p
      <3>1. version'[s] = version[s] + 1 /\ version[s] \in Nat
        BY <2>3 DEF Rewritten, Shape
      <3>2. task[q].seen \in Nat /\ task[q].seen <= version[s]
        BY <1>2 DEF Carried
      <3>3. task[q].seen <= version'[s] /\ task[q].seen # version'[s]
        BY <3>1, <3>2
      <3> QED
        BY <1>2, <2>1, <3>2, <3>3 DEF Carried, SourceOf
    <2> QED
      BY <2>2, <2>3
  <1> QED
    BY <1>1, <1>2

-----------------------------------------------------------------------------
(* The steps of the tasks and of the manuals.                              *)

LEMMA RestHolds ==
    ASSUME PagesHold, UNCHANGED <<chunks, crossed>>,
           \A q \in Pages :
              /\ pages'[q].lines = pages[q].lines
              /\ pages'[q].ocr_status = "completed" /\ pages'[q].reused_from = NoPage =>
                    pages[q].ocr_status = "completed" /\ pages[q].reused_from = NoPage
    PROVE  PagesHold'
  <1> SUFFICES ASSUME NEW q \in Pages
               PROVE  (OwnText(q) /\ Held(q) /\ (q \notin crossed => Whole(q)))'
    BY DEF PagesHold
  <1>1. OwnText(q) /\ Held(q) /\ (q \notin crossed => Whole(q))
    BY DEF PagesHold
  <1>2. ChunksInOrder(q)' = ChunksInOrder(q)
    BY OthersReadAlike
  <1> QED
    BY <1>1, <1>2 DEF OwnText, Held, Whole

LEMMA RestCarries ==
    ASSUME UNCHANGED <<chunks, version, crossed>>, NEW q \in Pages, Carried(q), task'[q] = task[q]
    PROVE  Carried(q)'
  <1>1. CASE task[q].at # "found"
    BY <1>1 DEF Carried, SourceOf
  <1>2. CASE task[q].at = "found"
    <2>1. ChunksInOrder(task[q].from)' = ChunksInOrder(task[q].from)
      BY <1>2, OthersReadAlike DEF Carried, SourceOf
    <2> QED
      BY <1>2, <2>1 DEF Carried, SourceOf
  <1> QED
    BY <1>1, <1>2

(* Only the task of p moves.                                               *)
OnlyTask(p) ==
    /\ DOMAIN task' = Pages /\ DOMAIN task'[p] = TaskFields
    /\ \A q \in Pages \ {p} : task'[q] = task[q]

LEMMA MovesKeep ==
    ASSUME PageInv, NEW p \in Pages, OnlyTask(p), RowsShape', Carried(p)',
           UNCHANGED <<chunks, version, crossed>>, PagesHold'
    PROVE  PageInv'
  <1>1. Shape'
    BY DEF PageInv, Shape, RowsShape, OnlyTask
  <1>2. \A q \in Pages \ {p} : Carried(q)'
    BY RestCarries DEF PageInv, TasksCarry, OnlyTask
  <1> QED
    BY <1>1, <1>2 DEF PageInv, TasksCarry

(* The rows are as they were, but for the task of p.                       *)
LEMMA TaskMoves ==
    ASSUME PageInv, NEW p \in Pages, OnlyTask(p), Carried(p)',
           UNCHANGED <<pages, chunks, version, crossed>>
    PROVE  PageInv'
  <1>1. PagesHold'
    BY RestHolds DEF PageInv
  <1>2. RowsShape'
    BY DEF PageInv, Shape, RowsShape
  <1> QED
    BY <1>1, <1>2, MovesKeep

(* A step that gives a page a result ends a task or none.                  *)
LEMMA ResultKeeps ==
    ASSUME PageInv, NEW p \in Pages, Rewritten(p), RowsShape', PagesHold',
           OnlyTask(p), task'[p] = Idle \/ task'[p] = task[p]
    PROVE  PageInv'
  <1>1. Shape'
    BY DEF PageInv, Shape, RowsShape, OnlyTask
  <1>2. ASSUME NEW q \in Pages, task'[q] = task[q] PROVE Carried(q)'
    BY <1>2, RewriteCarries DEF PageInv, TasksCarry
  <1>3. task'[p] = Idle => Carried(p)'
    BY DEF Carried, Idle
  <1> QED
    BY <1>1, <1>2, <1>3 DEF PageInv, TasksCarry, OnlyTask

LEMMA MovedTask ==
    ASSUME Shape, NEW p \in Pages, NEW at, Move(p, at)
    PROVE  OnlyTask(p) /\ task'[p].at = at /\ task'[p].lines = task[p].lines
  BY DEF Shape, Move, OnlyTask, TaskFields

LEMMA EndedTask ==
    ASSUME Shape, NEW p \in Pages, task' = [task EXCEPT ![p] = Idle]
    PROVE  OnlyTask(p) /\ task'[p] = Idle
  BY DEF Shape, OnlyTask, TaskFields, Idle

LEMMA FailedStep ==
    ASSUME PageInv, NEW p \in Pages, MarkPageFailed(p)
    PROVE  PageInv'
  <1>1. OnlyTask(p) /\ task'[p] = Idle
    BY EndedTask DEF MarkPageFailed, PageInv
  <1>2. /\ RowsShape'
        /\ \A q \in Pages :
              /\ pages'[q].lines = pages[q].lines
              /\ pages'[q].ocr_status = "completed" => pages'[q] = pages[q]
    BY DEF MarkPageFailed, PageInv, Shape, RowsShape, PageFields
  <1>3. PagesHold'
    BY <1>2, RestHolds DEF MarkPageFailed, PageInv
  <1>4. Carried(p)'
    BY <1>1 DEF Carried, Idle
  <1> QED
    BY <1>1, <1>2, <1>3, <1>4, MovesKeep DEF MarkPageFailed

LEMMA ClaimStep ==
    ASSUME PageInv, NEW p \in Pages, ClaimPage(p)
    PROVE  PageInv'
  <1>1. OnlyTask(p) /\ task'[p].at \in {"pdf", "looking"}
    <2>1. PICK at \in {"pdf", "looking"} : Move(p, at)
      BY DEF ClaimPage
    <2> QED
      BY <2>1, MovedTask DEF PageInv
  <1>2. /\ RowsShape'
        /\ \A q \in Pages :
              /\ pages'[q].lines = pages[q].lines
              /\ pages'[q].ocr_status = "completed" => pages'[q] = pages[q]
    BY DEF ClaimPage, PageInv, Shape, RowsShape, PageFields
  <1>3. PagesHold'
    BY <1>2, RestHolds DEF ClaimPage, PageInv
  <1>4. Carried(p)'
    BY <1>1 DEF Carried
  <1> QED
    BY <1>1, <1>2, <1>3, <1>4, MovesKeep DEF ClaimPage

LEMMA ExtractStep ==
    ASSUME PageInv, NEW p \in Pages, ExtractPdfPageText(p)
    PROVE  PageInv'
  <1>1. PICK words \in {TextLayer[p], <<>>} :
            LET usable == PdfTextIsUsable(words)
            IN task' = [task EXCEPT
                   ![p].lines = IF usable THEN [by |-> p, how |-> "pdf_text", words |-> words]
                                ELSE NoText,
                   ![p].at = CASE ~pages[p].image -> "rendering"
                               [] pages[p].image /\ usable -> "layer"
                               [] OTHER -> "looking"]
    BY DEF ExtractPdfPageText
  <1>2. /\ OnlyTask(p)
        /\ task'[p].at \in {"rendering", "layer", "looking"}
        /\ task'[p].lines = NoText \/ Layer(p, task'[p].lines)
        /\ task'[p].at = "layer" => Layer(p, task'[p].lines)
    BY <1>1 DEF OnlyTask, PageInv, Shape, TaskFields, Layer
  <1>3. Carried(p)'
    BY <1>2 DEF Carried, Layer
  <1> QED
    BY <1>2, <1>3, TaskMoves DEF ExtractPdfPageText

LEMMA RenderStep ==
    ASSUME PageInv, NEW p \in Pages, PersistPdfPageImage(p) \/ RenderForViewerFails(p)
    PROVE  PageInv'
  <1>1. /\ OnlyTask(p) /\ task'[p].lines = task[p].lines
        /\ (task'[p].at = "layer" /\ HasLayer(p)) \/ task'[p].at = "looking"
    <2>1. PICK at \in {"layer", "looking"} : Move(p, at) /\ (at = "layer" => HasLayer(p))
      BY DEF PersistPdfPageImage, RenderForViewerFails
    <2> QED
      BY <2>1, MovedTask DEF PageInv
  <1>2. /\ RowsShape' /\ UNCHANGED <<chunks, version, crossed>>
        /\ \A q \in Pages :
              /\ pages'[q].lines = pages[q].lines
              /\ pages'[q].ocr_status = pages[q].ocr_status
              /\ pages'[q].reused_from = pages[q].reused_from
    BY DEF PersistPdfPageImage, RenderForViewerFails, PageInv, Shape, RowsShape, PageFields
  <1>3. PagesHold'
    BY <1>2, RestHolds DEF PageInv
  <1>4. task[p].at = "rendering"
    BY DEF PersistPdfPageImage, RenderForViewerFails
  <1>5. task[p].lines = NoText \/ Layer(p, task[p].lines)
    BY <1>4 DEF Carried, PageInv, TasksCarry
  <1>6. Carried(p)'
    <2>1. task'[p].at = "layer" => Layer(p, task'[p].lines)
      BY <1>1, <1>5 DEF HasLayer
    <2> QED
      BY <1>1, <2>1 DEF Carried, Layer
  <1> QED
    BY <1>1, <1>2, <1>3, <1>6, MovesKeep

(* A text read or written on the page itself.                              *)
LEMMA OwnResult ==
    ASSUME PageInv, NEW p \in Pages, NEW own, p \in Shared => Undisturbed(own),
           NEW text, NEW source, NEW low, ReplacePageResult(p, own, Result(text, source, low)),
           text.by = p, p \in Shared => text.how # "user_edit",
           OnlyTask(p), task'[p] = Idle \/ task'[p] = task[p]
    PROVE  PageInv'
  <1> DEFINE result == Result(text, source, low)
  <1>1. /\ result.lines = text /\ result.chunk_texts = ChunkTexts(text)
        /\ result.from = NoPage /\ result.torn = FALSE
    BY DEF Result
  <1>2. Stored(p, result) /\ RowsShape'
    <2>1. ReplacePageResult(p, own, result)
      OBVIOUS
    <2>2. Shape
      BY DEF PageInv
    <2>3. result.torn \in BOOLEAN
      BY <1>1
    <2> HIDE DEF result
    <2> QED
      BY <2>1, <2>2, <2>3, ResultRewrites
  <1>3. /\ Function(ChunkTexts(text))
        /\ \A i \in DOMAIN ChunkTexts(text) : ChunkTexts(text)[i].by = p
    BY CutKeepsOrigin
  <1>4. MayShow(p, text)
    BY DEF MayShow
  <1>5. \A i \in DOMAIN ChunkTexts(text) : MayIndex(p, ChunkTexts(text)[i])
    BY <1>3, <1>4, ShownIsIndexable
  <1> HIDE DEF result
  <1>6. PagesHold'
    BY <1>1, <1>2, <1>3, <1>4, <1>5, RewriteHolds DEF PageInv
  <1> QED
    BY <1>2, <1>6, ResultKeeps DEF Stored

LEMMA LayerStep ==
    ASSUME PageInv, PrivateEdits, NEW p \in Pages, StorePdfText(p)
    PROVE  PageInv'
  <1>1. Layer(p, task[p].lines)
    BY DEF StorePdfText, Carried, PageInv, TasksCarry
  <1>2. OnlyTask(p) /\ task'[p] = Idle
    BY EndedTask DEF StorePdfText, StoreResult, PageInv
  <1>3. ReplacePageResult(p, storing[p], Result(task[p].lines, "pdf_text", FALSE))
    BY DEF StorePdfText, StoreResult
  <1>4. p \in Shared => Undisturbed(storing[p])
    BY DEF PrivateEdits, Undisturbed
  <1> QED
    BY <1>1, <1>2, <1>3, <1>4, OwnResult DEF Layer

LEMMA ReadStep ==
    ASSUME PageInv, PrivateEdits, NEW p \in Pages, StoreOcr(p)
    PROVE  PageInv'
  <1> DEFINE text == [by |-> p, how |-> "ocr", words |-> TextsOf(ocr.lines)]
  <1>1. OnlyTask(p) /\ task'[p] = Idle
    BY EndedTask DEF StoreOcr, StoreResult, PageInv
  <1>2. /\ ReplacePageResult(p, storing[p], Result(text, "ocr", LowConfidence(ocr.lines)))
        /\ text.by = p /\ text.how = "ocr"
    BY DEF StoreOcr, StoreResult
  <1>3. p \in Shared => Undisturbed(storing[p])
    BY DEF PrivateEdits, Undisturbed
  <1> HIDE DEF text
  <1> QED
    BY <1>1, <1>2, <1>3, OwnResult

LEMMA EditStored ==
    ASSUME PageInv, PrivateEdits, NEW p \in Pages, EditPageText(p)
    PROVE  PageInv'
  <1>1. PICK words \in HandWritten :
            ReplacePageResult(p, editing[p],
                Result([by |-> p, how |-> "user_edit", words |-> words], "user_edit", FALSE))
    BY DEF EditPageText
  <1> DEFINE text == [by |-> p, how |-> "user_edit", words |-> words]
  <1>2. ReplacePageResult(p, editing[p], Result(text, "user_edit", FALSE)) /\ text.by = p
    BY <1>1
  <1>3. p \notin Shared /\ UNCHANGED task
    BY DEF EditPageText, PrivateEdits
  <1>4. OnlyTask(p)
    BY <1>3 DEF OnlyTask, PageInv, Shape
  <1> HIDE DEF text
  <1> QED
    BY <1>2, <1>3, <1>4, OwnResult

(* What a page may copy is its own text, of the same owner or of a manual  *)
(* everybody may read.                                                     *)
LEMMA ReusableIsOwn ==
    ASSUME PageInv, NEW p \in Pages, NEW q \in Reusable(p)
    PROVE  /\ q \in Pages /\ Image[q] = Image[p] /\ (Owner[q] = Owner[p] \/ q \in Shared)
           /\ pages[q].lines # NoText =>
                /\ MayShow(p, pages[q].lines)
                /\ q \notin crossed => ChunksInOrder(q) = ChunkTexts(pages[q].lines)
  <1>1. /\ q \in Pages /\ Image[q] = Image[p] /\ (Owner[q] = Owner[p] \/ q \in Shared)
        /\ pages[q].ocr_status = "completed" /\ pages[q].reused_from = NoPage
    BY DEF Reusable, ReadableManual
  <1>2. q \in Shared => pages[q].lines.by = q /\ pages[q].lines.how # "user_edit"
    BY <1>1 DEF PageInv, PagesHold, OwnText
  <1>3. pages[q].lines # NoText => MayShow(q, pages[q].lines)
    BY <1>1 DEF PageInv, PagesHold, Held
  <1>4. pages[q].lines # NoText => MayShow(p, pages[q].lines)
    BY <1>1, <1>2, <1>3 DEF MayShow
  <1>5. pages[q].lines # NoText /\ q \notin crossed => ChunksInOrder(q) = ChunkTexts(pages[q].lines)
    BY <1>1 DEF PageInv, PagesHold, Whole
  <1> QED
    BY <1>1, <1>4, <1>5

LEMMA FindStep ==
    ASSUME PageInv, NEW p \in Pages, FindReusablePage(p)
    PROVE  PageInv'
  <1>1. CASE Move(p, "ocr")
    <2>1. OnlyTask(p) /\ task'[p].at = "ocr"
      BY <1>1, MovedTask DEF PageInv
    <2>2. Carried(p)'
      BY <2>1 DEF Carried
    <2> QED
      BY <2>1, <2>2, TaskMoves DEF FindReusablePage
  <1>2. CASE ~Move(p, "ocr")
    <2>1. PICK q \in Reusable(p) :
              task' = [task EXCEPT ![p] = [Idle EXCEPT !.at = "found", !.from = q,
                                              !.seen = version[q], !.lines = pages[q].lines,
                                              !.quality = pages[q].text_quality,
                                              !.source = pages[q].text_source]]
      BY <1>2 DEF FindReusablePage
    <2>2. /\ OnlyTask(p) /\ task'[p].at = "found" /\ task'[p].from = q
          /\ task'[p].seen = version[q] /\ task'[p].lines = pages[q].lines
      BY <2>1 DEF OnlyTask, PageInv, Shape, TaskFields, Idle
    <2>3. /\ q \in Pages /\ Image[q] = Image[p] /\ (Owner[q] = Owner[p] \/ q \in Shared)
          /\ pages[q].lines # NoText =>
               /\ MayShow(p, pages[q].lines)
               /\ q \notin crossed => ChunksInOrder(q) = ChunkTexts(pages[q].lines)
      BY ReusableIsOwn
    <2>4. UNCHANGED <<pages, chunks, version, crossed>>
      BY DEF FindReusablePage
    <2>5. ChunksInOrder(q)' = ChunksInOrder(q) /\ version'[q] \in Nat
      BY <2>3, <2>4, OthersReadAlike DEF PageInv, Shape
    <2>6. Carried(p)'
      BY <2>2, <2>3, <2>4, <2>5 DEF Carried, SourceOf
    <2> QED
      BY <2>2, <2>4, <2>6, TaskMoves
  <1> QED
    BY <1>1, <1>2

LEMMA CopyReadStep ==
    ASSUME PageInv, NEW p \in Pages, ReadReusableChunks(p)
    PROVE  PageInv'
  <1> DEFINE q == task[p].from
  <1>1. /\ OnlyTask(p) /\ task'[p].at = "copying" /\ task'[p].from = q
        /\ task'[p].lines = task[p].lines /\ task'[p].chunk_texts = ChunksInOrder(q)
        /\ task'[p].torn = (version[q] # task[p].seen \/ q \in crossed)
        /\ UNCHANGED <<pages, chunks, version, crossed>>
    BY DEF ReadReusableChunks, OnlyTask, PageInv, Shape, TaskFields
  <1>2. /\ q \in Pages /\ Image[q] = Image[p] /\ (Owner[q] = Owner[p] \/ q \in Shared)
        /\ task[p].lines # NoText => MayShow(p, task[p].lines)
        /\ task[p].seen = version[q] /\ q \notin crossed /\ task[p].lines # NoText
               => ChunksInOrder(q) = ChunkTexts(task[p].lines)
    BY DEF ReadReusableChunks, PageInv, TasksCarry, Carried, SourceOf
  <1> HIDE DEF q
  <1>3. Function(ChunksInOrder(q))
    BY <1>2, OrderedAreChunks
  <1>4. ASSUME NEW i \in DOMAIN ChunksInOrder(q)
        PROVE  MayIndex(p, ChunksInOrder(q)[i])
    <2>1. PICK c \in chunks[q] : ChunksInOrder(q)[i] = c.text
      BY <1>2, <1>4, OrderedAreChunks
    <2>2. MayIndex(q, c.text)
      BY <1>2 DEF PageInv, PagesHold, Held
    <2>3. MayIndex(p, c.text)
      BY <1>2, <2>2 DEF MayIndex, SharesImage
    <2> QED
      BY <2>1, <2>3
  <1>5. Carried(p)'
    BY <1>1, <1>2, <1>3, <1>4 DEF Carried, SourceOf, Function
  <1> QED
    BY <1>1, <1>5, TaskMoves DEF ReadReusableChunks

LEMMA CopyStep ==
    ASSUME PageInv, PrivateEdits, NEW p \in Pages, StoreCopy(p)
    PROVE  PageInv'
  <1>1. OnlyTask(p) /\ task'[p] = Idle
    BY EndedTask DEF StoreCopy, StoreResult, PageInv
  <1>2. task[p].at = "copying" /\ ReplacePageResult(p, storing[p], task[p])
    BY DEF StoreCopy, StoreResult
  <1>3. /\ task[p].lines # NoText => MayShow(p, task[p].lines)
        /\ task[p].from \in Pages
        /\ Function(task[p].chunk_texts)
        /\ \A i \in DOMAIN task[p].chunk_texts : MayIndex(p, task[p].chunk_texts[i])
        /\ \/ task[p].torn \/ task[p].lines = NoText
           \/ task[p].chunk_texts = ChunkTexts(task[p].lines)
        /\ task[p].torn \in BOOLEAN
    BY <1>2 DEF PageInv, TasksCarry, Carried, SourceOf, Function
  <1>4. p \in Shared => Undisturbed(storing[p])
    BY DEF PrivateEdits, Undisturbed
  <1>5. Stored(p, task[p]) /\ RowsShape'
    BY <1>2, <1>3, <1>4, ResultRewrites DEF PageInv
  <1>6. task[p].from # NoPage
    BY <1>3
  <1>7. PagesHold'
    BY <1>3, <1>5, <1>6, RewriteHolds DEF PageInv
  <1> QED
    BY <1>1, <1>5, <1>7, ResultKeeps DEF Stored

LEMMA OcrStep ==
    ASSUME PageInv, NEW p \in Pages, StartOcr(p)
    PROVE  PageInv'
  <1>1. OnlyTask(p) /\ task'[p].at = "reading"
    BY MovedTask DEF StartOcr, PageInv
  <1>2. Carried(p)'
    BY <1>1 DEF Carried
  <1> QED
    BY <1>1, <1>2, TaskMoves DEF StartOcr

(* Nothing a page says and no task changes.                                *)
LEMMA SamePages ==
    ASSUME PageInv, UNCHANGED <<pages, chunks, version, task, crossed>>
    PROVE  PageInv'
  <1>1. PagesHold'
    BY RestHolds DEF PageInv
  <1>2. TasksCarry'
    BY RestCarries DEF PageInv, TasksCarry
  <1>3. Shape'
    BY DEF PageInv, Shape
  <1> QED
    BY <1>1, <1>2, <1>3 DEF PageInv

LEMMA ReprocessStep ==
    ASSUME PageInv, NEW p \in Pages, BeginReprocessing(p)
    PROVE  PageInv'
  <1>1. /\ RowsShape' /\ UNCHANGED <<chunks, version, task, crossed>>
        /\ \A q \in Pages :
              /\ pages'[q].lines = pages[q].lines
              /\ pages'[q].ocr_status = "completed" => pages'[q] = pages[q]
    BY DEF BeginReprocessing, PageInv, Shape, RowsShape, PageFields
  <1>2. PagesHold'
    BY <1>1, RestHolds DEF PageInv
  <1>3. TasksCarry'
    BY <1>1, RestCarries DEF PageInv, TasksCarry
  <1>4. Shape'
    BY <1>1 DEF PageInv, Shape, RowsShape
  <1> QED
    BY <1>2, <1>3, <1>4 DEF PageInv

LEMMA TaskSteps ==
    ASSUME PageInv, PrivateEdits, NEW p \in Pages, TaskStep(p)
    PROVE  PageInv'
  <1>1. CASE PageFails(p) \/ SourceMissing(p) \/ OcrFails(p) \/ RenderFails(p) \/ ResultFails(p)
    BY <1>1, FailedStep DEF PageFails, SourceMissing, OcrFails, RenderFails, ResultFails
  <1> QED
    BY <1>1, ClaimStep, ExtractStep, RenderStep, LayerStep, FindStep, CopyReadStep, CopyStep,
       OcrStep, ReadStep DEF TaskStep

LEMMA EditSteps ==
    ASSUME PageInv, PrivateEdits, NEW p \in Pages, EditStep(p)
    PROVE  PageInv'
  <1>1. CASE EditPageText(p)
    BY <1>1, EditStored
  <1>2. CASE CheckEdit(p) \/ EditFails(p) \/ LoadPage(p) \/ DeleteChunks(p)
    BY <1>2, SamePages DEF CheckEdit, EditFails, LoadPage, DeleteChunks
  <1> QED
    BY <1>1, <1>2 DEF EditStep

(* Every step, for the pages.                                              *)
LEMMA PagesNext ==
    ASSUME PageInv, PrivateEdits, [Next]_vars
    PROVE  PageInv'
  <1>1. CASE UNCHANGED pageVars
    BY <1>1, SamePages DEF pageVars
  <1>2. ASSUME NEW p \in Pages, TaskStep(p) \/ EditStep(p) PROVE PageInv'
    BY <1>2, TaskSteps, EditSteps
  <1>3. ASSUME NEW p \in Pages, Finalize(p) \/ SyncPage(p) \/ Withdraw(p) PROVE PageInv'
    <2>1. CASE Finalize(p) \/ SyncPage(p) \/ DeleteManual(p)
      BY <2>1, SamePages DEF Finalize, FinalizeManual, SyncPage, SyncPageRag, DeleteManual
    <2>2. CASE BeginReprocessing(p)
      BY <2>2, ReprocessStep
    <2> QED
      BY <1>3, <2>1, <2>2 DEF Withdraw
  <1>4. ASSUME NEW ids, DeleteChunksFromRag(ids) PROVE UNCHANGED pageVars
    BY <1>4 DEF DeleteChunksFromRag
  <1>5. ASSUME NEW user, NEW words, AskGame(user, words) PROVE UNCHANGED pageVars
    BY <1>5 DEF AskGame
  <1>6. CASE RetrieveChunks \/ GenerateGameAnswer \/ Answer
    BY <1>1, <1>6 DEF RetrieveChunks, GenerateGameAnswer, Answer
  <1> QED
    BY <1>1, <1>2, <1>3, <1>4, <1>5, <1>6 DEF Next, vars

-----------------------------------------------------------------------------
(* The question.                                                           *)

LEMMA NoQuestionHolds ==
    ASSUME NEW asked, question' = NoQuestion(asked)
    PROVE  QuestionHolds' /\ NobodyReadsPrivateText'
  <1>1. /\ DOMAIN question' = QuestionFields /\ question'.allowed = {}
        /\ question'.hits = <<>> /\ question'.context = <<>>
    BY DEF NoQuestion, QuestionFields
  <1>2. DOMAIN question'.hits = {} /\ DOMAIN question'.context = {}
    BY <1>1
  <1> QED
    BY <1>1, <1>2 DEF QuestionHolds, NobodyReadsPrivateText

LEMMA AskStep ==
    ASSUME QuestionHolds, NEW user, NEW words, AskGame(user, words)
    PROVE  QuestionHolds' /\ NobodyReadsPrivateText'
  <1>1. /\ DOMAIN question' = QuestionFields /\ question'.allowed = Retrievable(user)
        /\ question'.hits = question.hits /\ question'.context = <<>>
    BY DEF AskGame, QuestionHolds, QuestionFields
  <1>2. DOMAIN question'.context = {}
    BY <1>1
  <1> QED
    BY <1>1, <1>2 DEF QuestionHolds, NobodyReadsPrivateText, Retrievable

(* Whatever the rankings are, RAG answers a list of at most TopK.          *)
LEMMA FewHits ==
    ASSUME NEW hits, NEW dense, NEW lexical
    PROVE  /\ DOMAIN FirstOf(hits, TopK) \subseteq 1 .. TopK
           /\ DOMAIN FuseHybridChunks(dense, lexical, TopK) \subseteq 1 .. TopK
  BY DEF FirstOf, FuseHybridChunks

LEMMA RetrieveStep ==
    ASSUME QuestionHolds, RetrieveChunks
    PROVE  QuestionHolds' /\ NobodyReadsPrivateText'
  <1>1. CASE question' = NoQuestion(question.asked)
    BY <1>1, NoQuestionHolds
  <1>2. CASE question' # NoQuestion(question.asked)
    <2>1. \/ \E nearest : question' = [question EXCEPT !.at = "ranked", !.hits = FirstOf(nearest, TopK)]
          \/ \E dense, lexical, d, l :
                question' = [question EXCEPT !.at = "ranked", !.hybrid = TRUE, !.dense = d, !.lexical = l,
                                             !.hits = FuseHybridChunks(dense, lexical, TopK)]
      BY <1>2 DEF RetrieveChunks
    <2>2. /\ DOMAIN question' = QuestionFields /\ question'.allowed = question.allowed
          /\ DOMAIN question'.hits \subseteq 1 .. TopK
          /\ question'.context = question.context
      <3>1. ASSUME NEW nearest,
                   question' = [question EXCEPT !.at = "ranked", !.hits = FirstOf(nearest, TopK)]
            PROVE  /\ DOMAIN question' = QuestionFields /\ question'.allowed = question.allowed
                   /\ question'.hits = FirstOf(nearest, TopK)
                   /\ question'.context = question.context
        BY <3>1 DEF QuestionHolds, QuestionFields
      <3>2. ASSUME NEW dense, NEW lexical, NEW d, NEW l,
                   question' = [question EXCEPT !.at = "ranked", !.hybrid = TRUE, !.dense = d, !.lexical = l,
                                                !.hits = FuseHybridChunks(dense, lexical, TopK)]
            PROVE  /\ DOMAIN question' = QuestionFields /\ question'.allowed = question.allowed
                   /\ question'.hits = FuseHybridChunks(dense, lexical, TopK)
                   /\ question'.context = question.context
        BY <3>2 DEF QuestionHolds, QuestionFields
      <3>3. CASE \E nearest : question' = [question EXCEPT !.at = "ranked", !.hits = FirstOf(nearest, TopK)]
        BY <3>1, <3>3, FewHits
      <3> QED
        BY <2>1, <3>2, <3>3, FewHits
    <2>3. question.context = <<>>
      BY DEF RetrieveChunks, QuestionHolds
    <2>4. DOMAIN question'.context = {}
      BY <2>2, <2>3
    <2> QED
      BY <2>2, <2>3, <2>4 DEF QuestionHolds, NobodyReadsPrivateText
  <1> QED
    BY <1>1, <1>2

(* A chunk the second reading lets pass is of its reader, or of somebody   *)
(* who shares a manual with that image.                                    *)
Readable(user, by) == Owner[by] = user \/ SharesImage(by)

LEMMA AuthorizedIsReadable ==
    ASSUME PageInv, QuestionHolds, NEW h, h \in HitsOf(chunks, {h.page}),
           RetrievableManual(h.page, question.user), h.page \in question.allowed
    PROVE  Readable(question.user, h.by)
  <1> DEFINE p == h.page
  <1>1. p \in Pages /\ (Owner[p] = question.user \/ p \in Shared)
    BY DEF QuestionHolds, RetrievableManual
  <1>2. PICK c \in chunks[p] : h = Hit(p, c)
    BY DEF HitsOf
  <1>3. h.by = c.text.by
    BY <1>2 DEF Hit
  <1>4. MayIndex(p, c.text)
    BY <1>1, <1>2 DEF PageInv, PagesHold, Held
  <1> QED
    BY <1>1, <1>3, <1>4 DEF MayIndex, Readable, SharesImage

LEMMA AuthorizedAreReadable ==
    ASSUME PageInv, QuestionHolds
    PROVE  LET authorized == LoadAuthorizedChunks(question.hits)
           IN /\ \E n \in Nat : DOMAIN authorized = 1 .. n
              /\ \A i \in DOMAIN authorized : Readable(question.user, authorized[i].by)
  <1> DEFINE hits == question.hits
             T == {i \in DOMAIN hits :
                      /\ hits[i] \in HitsOf(chunks, {hits[i].page})
                      /\ RetrievableManual(hits[i].page, question.user)
                      /\ hits[i].page \in question.allowed}
             authorized == LoadAuthorizedChunks(hits)
  <1>1. authorized = HitsAt(hits, T)
    BY DEF LoadAuthorizedChunks
  <1>2. T \in SUBSET (1 .. TopK) /\ TopK \in Nat
    BY DEF QuestionHolds
  <1>3. \A h \in HitsOn(hits, T) : Readable(question.user, h.by)
    BY AuthorizedIsReadable DEF HitsOn
  <1> HIDE DEF T
  <1>4. /\ Cardinality(T) \in Nat
        /\ DOMAIN HitsAt(hits, T) = 1 .. Cardinality(T)
        /\ \A k \in DOMAIN HitsAt(hits, T) : HitsAt(hits, T)[k] \in HitsOn(hits, T)
    BY <1>2, HitsAreThere
  <1> QED
    BY <1>1, <1>3, <1>4

LEMMA AnswerStep ==
    ASSUME PageInv, QuestionHolds, GenerateGameAnswer
    PROVE  QuestionHolds' /\ NobodyReadsPrivateText'
  <1>1. CASE question' = NoQuestion(question.asked)
    BY <1>1, NoQuestionHolds
  <1>2. CASE question' # NoQuestion(question.asked)
    <2> DEFINE authorized == LoadAuthorizedChunks(question.hits)
               chosen == Deduplicate(authorized)
    <2>1. question' = [question EXCEPT !.at = "answering", !.context = FirstOf(chosen, TopK)]
      BY <1>2 DEF GenerateGameAnswer
    <2>2. PICK n \in Nat : DOMAIN authorized = 1 .. n
      BY AuthorizedAreReadable
    <2>3. \A i \in DOMAIN authorized : Readable(question.user, authorized[i].by)
      BY AuthorizedAreReadable
    <2> HIDE DEF authorized
    <2>4. \A k \in DOMAIN chosen : chosen[k] \in HitsOn(authorized, DOMAIN authorized)
      BY <2>2, DeduplicatedAreThere
    <2>5. \A k \in DOMAIN chosen : Readable(question.user, chosen[k].by)
      BY <2>3, <2>4 DEF HitsOn
    <2> HIDE DEF chosen
    <2>6. /\ DOMAIN question' = QuestionFields /\ question'.user = question.user
          /\ question'.allowed = question.allowed /\ question'.hits = question.hits
          /\ question'.at = "answering" /\ question'.context = FirstOf(chosen, TopK)
      BY <2>1 DEF QuestionHolds, QuestionFields
    <2>7. \A k \in DOMAIN FirstOf(chosen, TopK) :
              k \in DOMAIN chosen /\ FirstOf(chosen, TopK)[k] = chosen[k]
      BY DEF FirstOf
    <2>8. NobodyReadsPrivateText'
      BY <2>5, <2>6, <2>7 DEF NobodyReadsPrivateText, Readable, SharesImage
    <2>9. QuestionHolds'
      BY <2>6 DEF QuestionHolds
    <2> QED
      BY <2>8, <2>9
  <1> QED
    BY <1>1, <1>2

LEMMA QuestionNext ==
    ASSUME TextInv, [Next]_vars
    PROVE  QuestionHolds' /\ NobodyReadsPrivateText'
  <1>1. CASE UNCHANGED question
    BY <1>1 DEF TextInv, QuestionHolds, NobodyReadsPrivateText
  <1>2. ASSUME NEW user, NEW words, AskGame(user, words)
        PROVE  QuestionHolds' /\ NobodyReadsPrivateText'
    BY <1>2, AskStep DEF TextInv
  <1>3. CASE RetrieveChunks \/ GenerateGameAnswer \/ Answer
    BY <1>3, RetrieveStep, AnswerStep, NoQuestionHolds DEF TextInv, Answer
  <1> QED
    BY <1>1, <1>2, <1>3
       DEF Next, vars, Finalize, SyncPage, Withdraw, DeleteChunksFromRag

LEMMA TextInvInit == Init => TextInv
  <1> SUFFICES ASSUME Init PROVE TextInv
    OBVIOUS
  <1>1. Shape
    BY DEF Init, PageTextInit, Shape, NewPage, PageFields, Idle, TaskFields
  <1>2. PagesHold
    BY DEF Init, PageTextInit, PagesHold, OwnText, Held, Whole, NewPage
  <1>3. TasksCarry
    BY DEF Init, PageTextInit, TasksCarry, Carried, Idle
  <1>4. QuestionHolds /\ NobodyReadsPrivateText
    <2>1. /\ DOMAIN question = QuestionFields /\ question.allowed = {}
          /\ question.hits = <<>> /\ question.context = <<>>
      BY DEF Init, NoQuestion, QuestionFields
    <2>2. DOMAIN question.hits = {} /\ DOMAIN question.context = {}
      BY <2>1
    <2> QED
      BY <2>1, <2>2 DEF QuestionHolds, NobodyReadsPrivateText
  <1>5. PrivateEdits
    BY DEF Init, PageTextInit, PrivateEdits, NotBegun
  <1> QED
    BY <1>1, <1>2, <1>3, <1>4, <1>5 DEF TextInv, PageInv

LEMMA PrivateNext ==
    ASSUME PrivateEdits, [Next]_vars
    PROVE  PrivateEdits'
  <1>1. CASE UNCHANGED <<storing, editing>>
    BY <1>1 DEF PrivateEdits
  <1>2. ASSUME NEW p \in Pages, MarkPageFailed(p) \/ \E result : StoreResult(p, result)
        PROVE  PrivateEdits'
    <2>1. storing' = [storing EXCEPT ![p] = NotBegun] /\ UNCHANGED editing
      BY <1>2, Zenon DEF MarkPageFailed, StoreResult
    <2> QED
      BY <2>1 DEF PrivateEdits, NotBegun
  <1>3. ASSUME NEW p \in Pages, TaskStep(p) PROVE PrivateEdits'
    <2>1. CASE ClaimPage(p) \/ ExtractPdfPageText(p) \/ PersistPdfPageImage(p) \/ RenderForViewerFails(p)
               \/ FindReusablePage(p) \/ ReadReusableChunks(p) \/ StartOcr(p)
      BY <1>1, <2>1, Zenon DEF ClaimPage, ExtractPdfPageText, PersistPdfPageImage, RenderForViewerFails,
                               FindReusablePage, ReadReusableChunks, StartOcr, writing
    <2>2. CASE PageFails(p) \/ SourceMissing(p) \/ OcrFails(p) \/ RenderFails(p) \/ ResultFails(p)
      BY <1>2, <2>2 DEF PageFails, SourceMissing, OcrFails, RenderFails, ResultFails
    <2>3. CASE StorePdfText(p) \/ StoreCopy(p) \/ StoreOcr(p)
      BY <1>2, <2>3, Zenon DEF StorePdfText, StoreCopy, StoreOcr
    <2> QED
      BY <1>3, <2>1, <2>2, <2>3 DEF TaskStep
  <1>4. ASSUME NEW p \in Pages, EditStep(p) PROVE PrivateEdits'
    <2>1. CASE CheckEdit(p)
      BY <2>1 DEF CheckEdit, PrivateEdits, Checked
    <2>2. CASE EditPageText(p) \/ EditFails(p)
      BY <2>2 DEF EditPageText, EditFails, PrivateEdits, NotBegun
    <2>3. CASE LoadPage(p) \/ DeleteChunks(p)
      <3>1. p \notin Shared
        BY <2>3 DEF LoadPage, DeleteChunks, PrivateEdits
      <3>2. \/ \E own : storing' = [storing EXCEPT ![p] = own] /\ UNCHANGED editing
            \/ \E own : editing' = [editing EXCEPT ![p] = own] /\ UNCHANGED storing
        BY <2>3 DEF LoadPage, DeleteChunks
      <3> QED
        BY <3>1, <3>2 DEF PrivateEdits
    <2> QED
      BY <1>4, <2>1, <2>2, <2>3 DEF EditStep
  <1>5. ASSUME NEW p \in Pages, Finalize(p) \/ SyncPage(p) \/ Withdraw(p)
        PROVE  UNCHANGED <<storing, editing>>
    BY <1>5, Zenon DEF Finalize, FinalizeManual, SyncPage, SyncPageRag, Withdraw, DeleteManual, BeginReprocessing,
                       writing
  <1>6. (\/ OcrNext /\ UNCHANGED pageVars
         \/ \E ids \in purges : DeleteChunksFromRag(ids)
         \/ \E u \in Users, words \in Questions : AskGame(u, words)
         \/ RetrieveChunks \/ GenerateGameAnswer \/ Answer) => UNCHANGED <<storing, editing>>
    BY DEF DeleteChunksFromRag, AskGame, RetrieveChunks, GenerateGameAnswer, Answer, pageVars, writing
  <1> QED
    BY <1>1, <1>3, <1>4, <1>5, <1>6 DEF Next, vars, pageVars, writing

LEMMA TextInvAlways == Spec => []TextInv
  <1>1. TextInv /\ [Next]_vars => TextInv'
    BY PagesNext, PrivateNext, QuestionNext DEF TextInv
  <1> QED
    BY TextInvInit, <1>1, PTL DEF Spec

-----------------------------------------------------------------------------
(* The lines of a page and its chunks are one text, through results of any *)
(* task, copies, edits, reprocessing and failures.  Two mixtures are       *)
(* excepted, and nothing else mixes two texts: a copy whose source was     *)
(* rewritten between the two queries of find_reusable_page_result, or was a*)
(* mixture, and a page that an edit and its task replace at the same time. *)
THEOREM CopiesAreWhole == Spec => []WholeCopies
  <1>1. TextInv => WholeCopies
    BY DEF TextInv, PageInv, PagesHold, Whole, WholeCopies
  <1> QED
    BY <1>1, TextInvAlways, PTL

(* What a page of another user shows was read by the program, on a page    *)
(* everybody may see: find_reusable_page_result never takes a copy of a    *)
(* copy, and a shared page is never written by hand.                       *)
THEOREM OnlySharedTextTravels == Spec => []OthersTextIsShared
  <1>1. TextInv => OthersTextIsShared
    <2> SUFFICES ASSUME TextInv, NEW p \in Pages, pages[p].lines.by # NoPage,
                        Owner[pages[p].lines.by] # Owner[p]
                 PROVE  pages[p].lines.by \in Shared /\ pages[p].lines.how # "user_edit"
      BY DEF OthersTextIsShared
    <2>1. MayShow(p, pages[p].lines)
      BY DEF TextInv, PageInv, PagesHold, Held, NoText
    <2> QED
      BY <2>1 DEF MayShow
  <1> QED
    BY <1>1, TextInvAlways, PTL

(* Whatever the index holds, however RAG ranks it and whatever changes     *)
(* meanwhile, load_authorized_chunks gives the LLM only text of the user   *)
(* who asks, or of somebody who shares a manual with the same image.       *)
THEOREM PrivateTextStaysPrivate == Spec => []NobodyReadsPrivateText
  <1>1. TextInv => NobodyReadsPrivateText
    BY DEF TextInv
  <1> QED
    BY <1>1, TextInvAlways, PTL

-----------------------------------------------------------------------------
(* Every text is made of words: those of the rows and those of the tasks.  *)
WordsHold ==
    \A p \in Pages : pages[p].lines.words \in Seq(Seq(Words)) /\ task[p].lines.words \in Seq(Seq(Words))

LEMMA NoTextIsWords == NoText.words \in Seq(Seq(Words)) /\ Idle.lines = NoText
  <1> DEFINE W == Seq(Words)
  <1>1. <<>> \in Seq(W)
    <2> HIDE DEF W
    <2> QED
      OBVIOUS
  <1> QED
    BY <1>1 DEF NoText, Idle

(* The lines of the rows and of the tasks stay as they are.                *)
LEMMA WordsStayHeld ==
    ASSUME WordsHold,
           \A p \in Pages : /\ pages'[p].lines \in {pages[p].lines, task[p].lines}
                            /\ task'[p].lines \in {NoText, task[p].lines} \cup {pages[q].lines : q \in Pages}
    PROVE  WordsHold'
  BY NoTextIsWords DEF WordsHold

(* A page gets a text that is made of words.                               *)
LEMMA WordsWritten ==
    ASSUME Shape, WordsHold, NEW p \in Pages, NEW own, NEW result,
           result.lines.words \in Seq(Seq(Words)), ReplacePageResult(p, own, result),
           \A q \in Pages : task'[q].lines \in {NoText, task[q].lines}
    PROVE  WordsHold'
  <1>1. PICK lines \in LinesLeft(p, own, result.lines) :
           pages' = [pages EXCEPT
                  ![p].ocr_status = Column(p, own, "ocr_status", "completed"), ![p].lines = lines,
                  ![p].text_source = Column(p, own, "text_source", result.source),
                  ![p].text_quality = Column(p, own, "text_quality", result.quality),
                  ![p].reused_from = Column(p, own, "reused_from", result.from)]
    BY DEF ReplacePageResult
  <1>2. \A q \in Pages : pages'[q].lines = IF q = p THEN lines ELSE pages[q].lines
    BY <1>1 DEF Shape, PageFields
  <1>3. lines \in {result.lines, pages[p].lines}
    BY DEF LinesLeft
  <1> QED
    BY <1>2, <1>3, NoTextIsWords DEF WordsHold

LEMMA ResultIsOf ==
    \A text, source, low : /\ Result(text, source, low).lines = text
                          /\ Result(text, source, low).chunk_texts = ChunkTexts(text)
                          /\ Result(text, source, low).from = NoPage
  BY DEF Result

LEMMA WordsNext ==
    ASSUME Shape, OcrInv, WordsHold, [Next]_vars
    PROVE  WordsHold'
  <1>1. CASE UNCHANGED <<pages, task>>
    BY <1>1 DEF WordsHold
  <1>2. ASSUME NEW p \in Pages,
               \/ MarkPageFailed(p) \/ ClaimPage(p) \/ PersistPdfPageImage(p) \/ RenderForViewerFails(p)
               \/ ReadReusableChunks(p) \/ StartOcr(p) \/ BeginReprocessing(p)
        PROVE  WordsHold'
    <2>1. \A q \in Pages : /\ pages'[q].lines = pages[q].lines
                           /\ task'[q].lines \in {NoText, task[q].lines}
      <3>1. CASE MarkPageFailed(p)
        BY <3>1, NoTextIsWords DEF Shape, PageFields, TaskFields, MarkPageFailed
      <3>2. CASE ClaimPage(p) \/ PersistPdfPageImage(p)
        BY <3>2 DEF Shape, PageFields, TaskFields, ClaimPage, PersistPdfPageImage, Move
      <3>3. CASE RenderForViewerFails(p) \/ ReadReusableChunks(p) \/ StartOcr(p)
        BY <3>3 DEF Shape, TaskFields, RenderForViewerFails, ReadReusableChunks, StartOcr, Move
      <3>4. CASE BeginReprocessing(p)
        BY <3>4 DEF Shape, PageFields, BeginReprocessing
      <3> QED
        BY <1>2, <3>1, <3>2, <3>3, <3>4
    <2> QED
      BY <2>1, WordsStayHeld
  <1>3. ASSUME NEW p \in Pages, ExtractPdfPageText(p)
        PROVE  WordsHold'
    <2>1. PICK words \in {TextLayer[p], <<>>} :
             /\ task'[p].lines = NoText \/ task'[p].lines.words = words
             /\ \A q \in Pages \ {p} : task'[q] = task[q]
      BY <1>3 DEF ExtractPdfPageText, Shape, TaskFields
    <2>2. words \in Seq(Seq(Words))
      BY NoTextIsWords, ReadingsAssumption DEF NoText
    <2>3. UNCHANGED pages
      BY <1>3 DEF ExtractPdfPageText
    <2> QED
      BY <2>1, <2>2, <2>3, NoTextIsWords DEF WordsHold
  <1>4. ASSUME NEW p \in Pages, FindReusablePage(p)
        PROVE  WordsHold'
    <2>1. /\ UNCHANGED pages
          /\ \A q \in Pages : task'[q].lines \in {NoText, task[q].lines} \cup {pages[r].lines : r \in Pages}
      <3>1. CASE Move(p, "ocr")
        <4>1. task' = [task EXCEPT ![p].at = "ocr"]
          BY <3>1 DEF Move
        <4>2. \A q \in Pages : task'[q].lines = task[q].lines
          BY <4>1 DEF Shape, TaskFields
        <4>3. UNCHANGED pages
          BY <1>4 DEF FindReusablePage
        <4> QED
          BY <4>2, <4>3
      <3>2. CASE ~Move(p, "ocr")
        <4>1. PICK q \in Reusable(p) :
                  task' = [task EXCEPT ![p] = [Idle EXCEPT !.at = "found", !.from = q,
                                                  !.seen = version[q], !.lines = pages[q].lines,
                                                  !.quality = pages[q].text_quality,
                                                  !.source = pages[q].text_source]]
          BY <1>4, <3>2 DEF FindReusablePage
        <4>2. q \in Pages
          BY DEF Reusable
        <4>3. task'[p].lines = pages[q].lines /\ \A r \in Pages \ {p} : task'[r] = task[r]
          BY <4>1 DEF Shape, Idle
        <4>4. UNCHANGED pages
          BY <1>4 DEF FindReusablePage
        <4> QED
          BY <4>2, <4>3, <4>4
      <3> QED
        BY <3>1, <3>2
    <2> QED
      BY <2>1, WordsStayHeld
  <1>5. ASSUME NEW p \in Pages, StorePdfText(p) \/ StoreCopy(p)
        PROVE  WordsHold'
    <2>1. \E result : result.lines = task[p].lines /\ ReplacePageResult(p, storing[p], result)
      BY <1>5, ResultIsOf, Zenon DEF StorePdfText, StoreCopy, StoreResult
    <2>2. \A q \in Pages : task'[q].lines \in {NoText, task[q].lines}
      BY <1>5, NoTextIsWords DEF StorePdfText, StoreCopy, StoreResult, Shape
    <2>3. task[p].lines.words \in Seq(Seq(Words))
      BY DEF WordsHold
    <2> QED
      BY <2>1, <2>2, <2>3, WordsWritten
  <1>6. ASSUME NEW p \in Pages, StoreOcr(p)
        PROVE  WordsHold'
    <2> DEFINE text == [by |-> p, how |-> "ocr", words |-> TextsOf(ocr.lines)]
    <2> DEFINE result == Result(text, "ocr", LowConfidence(ocr.lines))
    <2>1. result.lines = text /\ ReplacePageResult(p, storing[p], result)
      BY <1>6, ResultIsOf DEF StoreOcr, StoreResult
    <2>2. \A q \in Pages : task'[q].lines \in {NoText, task[q].lines}
      BY <1>6, NoTextIsWords DEF StoreOcr, StoreResult, Shape
    <2>3. ocr.lines \in Seq(Lines)
      BY <1>6 DEF StoreOcr, OcrInv, RulesHold
    <2>4. text.words \in Seq(Seq(Words))
      BY <2>3, TextsAreLists
    <2> HIDE DEF text, result
    <2> QED
      BY <2>1, <2>2, <2>4, WordsWritten
  <1>7. ASSUME NEW p \in Pages, EditPageText(p)
        PROVE  WordsHold'
    <2>1. PICK words \in HandWritten :
              ReplacePageResult(p, editing[p],
                  Result([by |-> p, how |-> "user_edit", words |-> words], "user_edit", FALSE))
      BY <1>7 DEF EditPageText
    <2> DEFINE text == [by |-> p, how |-> "user_edit", words |-> words]
    <2>2. \E result : result.lines = text /\ ReplacePageResult(p, editing[p], result)
      BY <2>1, ResultIsOf, Zenon
    <2>3. \A q \in Pages : task'[q].lines \in {NoText, task[q].lines}
      BY <1>7 DEF EditPageText
    <2>4. text.words \in Seq(Seq(Words))
      BY ReadingsAssumption
    <2> HIDE DEF text
    <2> QED
      BY <2>2, <2>3, <2>4, WordsWritten
  <1>8. ASSUME NEW p \in Pages, TaskStep(p) PROVE WordsHold'
    BY <1>2, <1>3, <1>4, <1>5, <1>6, <1>8
       DEF TaskStep, PageFails, SourceMissing, OcrFails, RenderFails, ResultFails
  <1>9. ASSUME NEW p \in Pages, Finalize(p) \/ SyncPage(p) \/ Withdraw(p) PROVE WordsHold'
    <2>1. CASE Finalize(p) \/ SyncPage(p) \/ DeleteManual(p)
      BY <1>1, <2>1 DEF Finalize, FinalizeManual, SyncPage, SyncPageRag, DeleteManual
    <2> QED
      BY <1>2, <1>9, <2>1 DEF Withdraw
  <1>10. (\/ OcrNext /\ UNCHANGED pageVars
          \/ \E ids \in purges : DeleteChunksFromRag(ids)
          \/ \E u \in Users, words \in Questions : AskGame(u, words)
          \/ RetrieveChunks \/ GenerateGameAnswer \/ Answer) => UNCHANGED <<pages, task>>
    BY DEF DeleteChunksFromRag, AskGame, RetrieveChunks, GenerateGameAnswer, Answer, pageVars
  <1>11. ASSUME NEW p \in Pages, EditStep(p) PROVE UNCHANGED <<pages, task>> \/ EditPageText(p)
    BY <1>11 DEF EditStep, CheckEdit, EditFails, LoadPage, DeleteChunks
  <1> QED
    BY <1>1, <1>7, <1>8, <1>9, <1>10, <1>11 DEF Next, vars, pageVars

(* What the chunks of a whole text are.                                    *)
LEMMA WholeIsCovered ==
    ASSUME NEW p, NEW text, text.words \in Seq(Seq(Words)), ChunksInOrder(p) = ChunkTexts(text)
    PROVE  LET texts == ChunksInOrder(p)
           IN CoversInOrder([i \in DOMAIN texts |-> texts[i].text], Normalized(text.words))
  <1> DEFINE all == Normalized(text.words)
             cut == ChunkText(all)
             texts == ChunkTexts(text)
             found == [i \in DOMAIN texts |-> texts[i].text]
  <1>1. CoversInOrder(cut, all)
    <2>1. all \in Seq(Units) /\ Blanks \subseteq Units
      BY NormalizedIsText DEF Units
    <2> HIDE DEF all
    <2> QED
      BY <2>1, ChunksCoverText
  <1>2. Function(cut)
    <2>1. cut = <<>> \/ \E chs : cut = ApplyOverlap(chs)
      BY Zenon DEF ChunkText
    <2>2. Function(<<>>)
      BY DEF Function
    <2>3. \A chs : Function(ApplyOverlap(chs))
      BY Zenon DEF Function, ApplyOverlap
    <2> QED
      BY <2>1, <2>2, <2>3, Zenon
  <1>3. found = cut
    <2>1. texts = [i \in DOMAIN cut |-> [by |-> text.by, how |-> text.how, text |-> cut[i]]]
      BY DEF ChunkTexts
    <2> HIDE DEF texts, cut
    <2>2. DOMAIN texts = DOMAIN cut /\ \A i \in DOMAIN cut : texts[i].text = cut[i]
      BY <2>1
    <2>3. found = [i \in DOMAIN cut |-> cut[i]]
      BY <2>2, Zenon
    <2> QED
      BY <1>2, <2>3, Zenon DEF Function
  <1> HIDE DEF cut, all, texts
  <1>4. CoversInOrder([i \in DOMAIN ChunksInOrder(p) |-> ChunksInOrder(p)[i].text], all)
    BY <1>1, <1>3, Zenon DEF texts
  <1> QED
    BY <1>4 DEF all

(* For any text of a page, from its PDF, the OCR, another page or the hand *)
(* of its owner, and any sizes of chunk and overlap: _split_recursively    *)
(* and _apply_overlap lose no word of it, take none from its place, and    *)
(* cut none that fits in a chunk, but for the two mixtures that            *)
(* CopiesAreWhole excepts.                                                 *)
THEOREM PagesAreCovered == Spec => []ChunksCoverPage
  <1>1. Init => WordsHold
    BY NoTextIsWords DEF Init, PageTextInit, NewPage, WordsHold
  <1>2. TextInv /\ OcrInv /\ WordsHold /\ [Next]_vars => WordsHold'
    BY WordsNext DEF TextInv, PageInv
  <1>3. TextInv /\ WordsHold => ChunksCoverPage
    <2> SUFFICES ASSUME TextInv, WordsHold, NEW p \in Pages \ crossed, pages[p].lines # NoText
                 PROVE  LET texts == ChunksInOrder(p)
                        IN CoversInOrder([i \in DOMAIN texts |-> texts[i].text],
                                         Normalized(pages[p].lines.words))
      BY Zenon DEF ChunksCoverPage
    <2>1. ChunksInOrder(p) = ChunkTexts(pages[p].lines)
      BY DEF TextInv, PageInv, PagesHold, Whole
    <2>2. pages[p].lines.words \in Seq(Seq(Words))
      BY DEF WordsHold
    <2> QED
      BY <2>1, <2>2, WholeIsCovered, Zenon
  <1> QED
    BY <1>1, <1>2, <1>3, TextInvAlways, OcrInvAlways, PTL DEF Spec

-----------------------------------------------------------------------------
(* What the rows and the index hold is made of the units of a text.        *)

(* Texts made of the units of a text, numbered from one, and their rows.   *)
Listed(texts) ==
    \E n \in Nat : DOMAIN texts = 1 .. n /\ \A i \in 1 .. n : texts[i].text \in Seq(Units)
Row(p, v, texts, i) == [id |-> <<p, v, i>>, text |-> texts[i]]
RowsOf(p, v, texts) == {Row(p, v, texts, i) : i \in DOMAIN texts}

(* Rows of the index, wherever they come from.                             *)
Rows(rows) ==
    IsFiniteSet(rows) /\ \A c \in rows : c.text.text \in Seq(Units)

LEMMA CutsAreTexts ==
    ASSUME NEW text \in Seq(Units)
    PROVE  ChunkText(text) \in Seq(Seq(Units))
  <1> DEFINE S == Seq(Units)
  <1>0. Blanks \subseteq Units
    BY DEF Units
  <1>1. Strip(text) \in S /\ (Strip(text) # <<>> => Neat(Strip(text)))
    BY <1>0, StripKeeps
  <1>2. CASE Strip(text) = <<>>
    <2>1. ChunkText(text) = <<>>
      BY <1>2, Zenon DEF ChunkText
    <2> HIDE DEF S
    <2>2. <<>> \in Seq(S)
      OBVIOUS
    <2> QED
      BY <2>1, <2>2 DEF S
  <1>3. CASE Strip(text) # <<>>
    <2> DEFINE chs == SplitLines(Strip(text))
               out == ApplyOverlap(chs)
               end(i) == SubSeq(chs[i - 1], Max({1, Len(chs[i - 1]) - Overlap + 1}), Len(chs[i - 1]))
    <2>1. Cuts(Units, chs, Strip(text))
      BY <1>0, <1>1, <1>3, LinesAreCut
    <2>2. ChunkText(text) = out
      BY <1>3, Zenon DEF ChunkText
    <2> HIDE DEF chs
    <2>3. Len(chs) \in Nat /\ DOMAIN chs = 1 .. Len(chs) /\ \A i \in DOMAIN chs : chs[i] \in S
      <3> DEFINE P == Pieces(Units)
      <3>1. chs \in Seq(P) /\ \A x \in P : x \in S
        BY <2>1 DEF Cuts, Pieces
      <3> HIDE DEF P
      <3> QED
        BY <3>1
    <2>4. DOMAIN out = 1 .. Len(chs)
      BY <2>3 DEF ApplyOverlap
    <2>5. ASSUME NEW i \in DOMAIN chs PROVE out[i] \in S
      <3>1. CASE i = 1
        BY <2>3, <3>1 DEF ApplyOverlap
      <3>2. CASE i # 1
        <4>1. i - 1 \in DOMAIN chs
          BY <2>3, <3>2
        <4>2. out[i] = Strip(end(i) \o chs[i])
          BY <3>2, Zenon DEF ApplyOverlap
        <4>3. chs[i - 1] \in S /\ chs[i] \in S
          BY <2>3, <4>1
        <4>4. end(i) \in S
          BY <4>3, EndsAreShort
        <4> HIDE DEF end
        <4>5. end(i) \o chs[i] \in Seq(Units)
          BY <4>3, <4>4
        <4>6. Strip(end(i) \o chs[i]) \in S
          BY <1>0, <4>5, StripKeeps
        <4> QED
          BY <4>2, <4>6
      <3> QED
        BY <3>1, <3>2
    <2>6. out = [i \in DOMAIN out |-> out[i]]
      BY Zenon DEF ApplyOverlap
    <2> HIDE DEF out, S
    <2>7. out \in [1 .. Len(chs) -> S]
      BY <2>3, <2>4, <2>5, <2>6
    <2>8. out \in Seq(S)
      BY <2>3, <2>7, FunctionIsList
    <2> QED
      BY <2>2, <2>8 DEF S
  <1> QED
    BY <1>2, <1>3

(* The chunks of a text that is made of words.                             *)
LEMMA TextsAreListed ==
    ASSUME NEW text, text.words \in Seq(Seq(Words))
    PROVE  Listed(ChunkTexts(text))
  <1> DEFINE all == Normalized(text.words)
             cut == ChunkText(all)
             texts == ChunkTexts(text)
  <1>1. all \in Seq(Units)
    BY NormalizedIsText
  <1>2. texts = [i \in DOMAIN cut |-> [by |-> text.by, how |-> text.how, text |-> cut[i]]]
    BY Zenon DEF ChunkTexts
  <1> HIDE DEF all, texts
  <1> DEFINE S == Seq(Units)
  <1>3. cut \in Seq(S)
    BY <1>1, CutsAreTexts
  <1> HIDE DEF cut, S
  <1>4. DOMAIN texts = DOMAIN cut /\ \A i \in DOMAIN texts : texts[i].text = cut[i]
    BY <1>2
  <1>5. Len(cut) \in Nat /\ DOMAIN texts = 1 .. Len(cut) /\ \A i \in 1 .. Len(cut) : texts[i].text \in S
    BY <1>3, <1>4
  <1> QED
    BY <1>5 DEF Listed, texts, S

(* Each text has its row, and its number in the id of the row.             *)
LEMMA RowsAreNumbered ==
    ASSUME NEW p, NEW v, NEW texts, Listed(texts)
    PROVE  LET rows == RowsOf(p, v, texts) IN
           /\ Rows(rows) /\ Cardinality(rows) \in Nat /\ DOMAIN texts = 1 .. Cardinality(rows)
           /\ \A c \in rows : c.id[1] = p /\ c.id[2] = v /\ c.id[3] \in DOMAIN texts
           /\ \A i \in DOMAIN texts : \E c \in rows : c.id[3] = i
  <1> DEFINE rows == RowsOf(p, v, texts)
             row(i) == Row(p, v, texts, i)
             f == [i \in DOMAIN texts |-> row(i)]
  <1>1. PICK n \in Nat : DOMAIN texts = 1 .. n /\ \A i \in 1 .. n : texts[i].text \in Seq(Units)
    BY DEF Listed
  <1>2. \A i \in DOMAIN texts : /\ row(i).id[1] = p /\ row(i).id[2] = v /\ row(i).id[3] = i
                              /\ row(i).text = texts[i]
    BY DEF Row
  <1>3. rows = {row(i) : i \in DOMAIN texts}
    BY DEF RowsOf
  <1> HIDE DEF row, rows
  <1>4. f \in Bijection(1 .. n, rows)
    <2>1. f \in [1 .. n -> rows]
      BY <1>1, <1>3
    <2>2. \A i, j \in 1 .. n : f[i] = f[j] => i = j
      BY <1>1, <1>2
    <2>3. \A c \in rows : \E i \in 1 .. n : f[i] = c
      BY <1>1, <1>3
    <2> HIDE DEF f
    <2> QED
      BY <2>1, <2>2, <2>3 DEF Bijection, Injection, Surjection, IsInjective
  <1>5. IsFiniteSet(1 .. n) /\ Cardinality(1 .. n) = n
    BY FS_Interval
  <1>6. IsFiniteSet(rows) /\ Cardinality(rows) = n
    <2>1. ExistsBijection(1 .. n, rows)
      BY <1>4, Zenon DEF ExistsBijection
    <2> QED
      BY <1>5, <2>1, FS_Bijection
  <1>7. \A c \in rows : /\ c.id[1] = p /\ c.id[2] = v /\ c.id[3] \in DOMAIN texts
                      /\ c.text.text \in Seq(Units)
    BY <1>1, <1>2, <1>3
  <1>8. \A i \in DOMAIN texts : row(i) \in rows /\ row(i).id[3] = i
    BY <1>2, <1>3
  <1> QED
    BY <1>1, <1>6, <1>7, <1>8 DEF Rows, rows

(* What the rows of a page hold, and the copies on their way to them.      *)
Numbered(p) ==
    chunks[p] # {} =>
        \E v \in 1 .. version[p] : \E texts : Listed(texts) /\ chunks[p] = RowsOf(p, v, texts)

RowsHold ==
    \A p \in Pages : Numbered(p) /\ (task[p].at = "copying" => Listed(task[p].chunk_texts))

LEMMA NothingIsListed == \A p, v : Listed(<<>>) /\ RowsOf(p, v, <<>>) = {}
  <1>1. DOMAIN <<>> = {} /\ DOMAIN <<>> = 1 .. 0 /\ 0 \in Nat
    OBVIOUS
  <1> QED
    BY <1>1 DEF Listed, RowsOf

LEMMA ReadRows ==
    ASSUME NEW q \in Pages, Numbered(q)
    PROVE  Rows(chunks[q]) /\ Listed(ChunksInOrder(q))
  <1> DEFINE found == ChunksInOrder(q)
             rows == chunks[q]
  <1>1. \E v, texts : Listed(texts) /\ rows = RowsOf(q, v, texts)
    <2>1. Listed(<<>>) /\ RowsOf(q, 0, <<>>) = {}
      BY NothingIsListed
    <2> QED
      BY <2>1 DEF Numbered
  <1> PICK v, texts : Listed(texts) /\ rows = RowsOf(q, v, texts)
    BY <1>1
  <1>2. /\ Rows(rows) /\ Cardinality(rows) \in Nat /\ DOMAIN texts = 1 .. Cardinality(rows)
        /\ \A c \in rows : c.id[3] \in DOMAIN texts
        /\ \A i \in DOMAIN texts : \E c \in rows : c.id[3] = i
    <2> HIDE DEF rows, found
    <2>1. /\ Rows(rows) /\ Cardinality(rows) \in Nat /\ DOMAIN texts = 1 .. Cardinality(rows)
          /\ \A c \in rows : c.id[1] = q /\ c.id[2] = v /\ c.id[3] \in DOMAIN texts
          /\ \A i \in DOMAIN texts : \E c \in rows : c.id[3] = i
      BY RowsAreNumbered
    <2> QED
      BY <2>1
  <1>3. DOMAIN found = {c.id[3] : c \in rows}
    BY DEF ChunksInOrder
  <1>4. \A i \in DOMAIN found : \E c \in rows : found[i] = c.text
    BY OrderedAreChunks
  <1> HIDE DEF found, rows
  <1>5. DOMAIN found = DOMAIN texts
    BY <1>2, <1>3
  <1>6. \A i \in DOMAIN found : found[i].text \in Seq(Units)
    BY <1>2, <1>4 DEF Rows
  <1> QED
    BY <1>2, <1>5, <1>6 DEF Listed, found, rows

LEMMA RowsStayHeld ==
    ASSUME RowsHold, UNCHANGED <<chunks, version>>,
           \A p \in Pages : task'[p].at = "copying" =>
               task[p].at = "copying" /\ task'[p].chunk_texts = task[p].chunk_texts
    PROVE  RowsHold'
  BY DEF RowsHold, Numbered

LEMMA RowsWritten ==
    ASSUME Shape, RowsHold, NEW p \in Pages, NEW own, NEW result, Listed(result.chunk_texts),
           ReplacePageResult(p, own, result),
           \A q \in Pages : task'[q] \in {Idle, task[q]}
    PROVE  RowsHold'
  <1> DEFINE texts == result.chunk_texts
             v == version[p] + 1
  <1>1. /\ \A q \in Pages \ {p} : chunks'[q] = chunks[q] /\ version'[q] = version[q]
        /\ chunks'[p] = Unseen(p, own) \cup PrepareTextChunks(p, texts) /\ version'[p] = v
        /\ Unseen(p, own) = {} \/ texts = <<>>
    BY DEF ReplacePageResult, Shape
  <1>2. PrepareTextChunks(p, texts) = RowsOf(p, v, texts)
    BY Zenon DEF PrepareTextChunks, RowsOf, Row
  <1>3. texts = <<>> => RowsOf(p, v, texts) = {}
    BY NothingIsListed
  <1>4. chunks'[p] \in {RowsOf(p, v, texts), chunks[p]}
    BY <1>1, <1>2, <1>3 DEF Unseen
  <1>5. version[p] \in Nat /\ v \in 1 .. v /\ 1 .. version[p] \subseteq 1 .. v
    BY DEF Shape
  <1> HIDE DEF texts, v
  <1>6. ASSUME NEW q \in Pages \ {p} PROVE Numbered(q)'
    BY <1>1, <1>6 DEF RowsHold, Numbered
  <1>7. Numbered(p)'
    <2>1. CASE chunks'[p] = RowsOf(p, v, texts)
      <3>1. Listed(texts)
        BY DEF texts
      <3>2. v \in 1 .. version'[p]
        BY <1>1, <1>5
      <3> QED
        BY <2>1, <3>1, <3>2 DEF Numbered
    <2>2. CASE chunks'[p] = chunks[p]
      <3> SUFFICES ASSUME chunks[p] # {} PROVE Numbered(p)'
        BY <2>2 DEF Numbered
      <3>1. PICK n \in 1 .. version[p] : \E rest : Listed(rest) /\ chunks[p] = RowsOf(p, n, rest)
        BY DEF RowsHold, Numbered
      <3>2. n \in 1 .. version'[p]
        BY <1>1, <1>5
      <3> QED
        BY <2>2, <3>1, <3>2 DEF Numbered
    <2> QED
      BY <1>4, <2>1, <2>2
  <1>8. \A q \in Pages : task'[q].at = "copying" => task'[q] = task[q]
    BY DEF Idle
  <1> QED
    BY <1>6, <1>7, <1>8 DEF RowsHold

(* A task ends or moves, and carries no copy.                              *)
LEMMA TaskAlone ==
    ASSUME Shape, NEW p \in Pages, NEW at, at # "copying",
           MarkPageFailed(p) \/ Move(p, at)
    PROVE  \A q \in Pages : task'[q].at = "copying" => task'[q] = task[q]
  <1>1. \A q \in Pages \ {p} : task'[q] = task[q]
    BY DEF Shape, MarkPageFailed, Move
  <1>2. task'[p].at # "copying"
    BY DEF Shape, TaskFields, MarkPageFailed, Move, Idle
  <1> QED
    BY <1>1, <1>2

LEMMA RowsNext ==
    ASSUME Shape, TasksCarry, OcrInv, WordsHold, RowsHold, [Next]_vars
    PROVE  RowsHold'
  <1>1. CASE UNCHANGED <<chunks, version, task>>
    BY <1>1 DEF RowsHold, Numbered
  <1>2. ASSUME NEW p \in Pages,
               \/ MarkPageFailed(p) \/ ClaimPage(p) \/ PersistPdfPageImage(p) \/ RenderForViewerFails(p)
               \/ StartOcr(p)
        PROVE  RowsHold'
    <2>1. UNCHANGED <<chunks, version>>
      BY <1>2 DEF MarkPageFailed, ClaimPage, PersistPdfPageImage, RenderForViewerFails, StartOcr
    <2>2. MarkPageFailed(p) \/ \E at \in {"pdf", "looking", "layer", "reading"} : Move(p, at)
      BY <1>2, Zenon DEF ClaimPage, PersistPdfPageImage, RenderForViewerFails, StartOcr
    <2>3. \A q \in Pages : task'[q].at = "copying" => task'[q] = task[q]
      BY <2>2, TaskAlone
    <2> QED
      BY <2>1, <2>3, RowsStayHeld
  <1>3. ASSUME NEW p \in Pages, ExtractPdfPageText(p)
        PROVE  RowsHold'
    <2>1. \A q \in Pages \ {p} : task'[q] = task[q]
      BY <1>3 DEF ExtractPdfPageText, Shape
    <2>2. task'[p].at \in {"rendering", "layer", "looking"}
      BY <1>3 DEF ExtractPdfPageText, Shape, TaskFields
    <2>3. UNCHANGED <<chunks, version>>
      BY <1>3 DEF ExtractPdfPageText
    <2> QED
      BY <2>1, <2>2, <2>3, RowsStayHeld
  <1>4. ASSUME NEW p \in Pages, FindReusablePage(p)
        PROVE  RowsHold'
    <2>1. UNCHANGED <<chunks, version>>
      BY <1>4 DEF FindReusablePage
    <2>2. CASE Move(p, "ocr")
      <3>1. \A q \in Pages : task'[q].at = "copying" => task'[q] = task[q]
        BY <2>2, TaskAlone
      <3> QED
        BY <2>1, <3>1, RowsStayHeld
    <2>3. CASE ~Move(p, "ocr")
      <3>1. PICK q \in Reusable(p) :
                task' = [task EXCEPT ![p] = [Idle EXCEPT !.at = "found", !.from = q,
                                                !.seen = version[q], !.lines = pages[q].lines,
                                                !.quality = pages[q].text_quality,
                                                !.source = pages[q].text_source]]
        BY <1>4, <2>3 DEF FindReusablePage
      <3>2. task'[p].at = "found" /\ \A r \in Pages \ {p} : task'[r] = task[r]
        BY <3>1 DEF Shape, Idle
      <3> QED
        BY <2>1, <3>2, RowsStayHeld
    <2> QED
      BY <2>2, <2>3
  <1>5. ASSUME NEW p \in Pages, ReadReusableChunks(p)
        PROVE  RowsHold'
    <2>1. task[p].from \in Pages
      BY <1>5 DEF TasksCarry, Carried, SourceOf, ReadReusableChunks
    <2>2. Listed(ChunksInOrder(task[p].from))
      BY <2>1, ReadRows DEF RowsHold
    <2>3. /\ task'[p].chunk_texts = ChunksInOrder(task[p].from)
          /\ \A q \in Pages \ {p} : task'[q] = task[q]
      BY <1>5 DEF ReadReusableChunks, Shape, TaskFields
    <2>4. UNCHANGED <<chunks, version>>
      BY <1>5 DEF ReadReusableChunks
    <2> QED
      BY <2>2, <2>3, <2>4 DEF RowsHold, Numbered
  <1>6. ASSUME NEW p \in Pages, NEW own, NEW text, text.words \in Seq(Seq(Words)), NEW source, NEW low,
               ReplacePageResult(p, own, Result(text, source, low)),
               \A q \in Pages : task'[q] \in {Idle, task[q]}
        PROVE  RowsHold'
    <2> DEFINE result == Result(text, source, low)
    <2>1. Listed(result.chunk_texts) /\ ReplacePageResult(p, own, result)
      BY <1>6, ResultIsOf, TextsAreListed
    <2> HIDE DEF result
    <2> QED
      BY <1>6, <2>1, RowsWritten
  <1>7. ASSUME NEW p \in Pages, StorePdfText(p)
        PROVE  RowsHold'
    <2>1. task[p].lines.words \in Seq(Seq(Words))
      BY DEF WordsHold
    <2>2. ReplacePageResult(p, storing[p], Result(task[p].lines, "pdf_text", FALSE))
      BY <1>7 DEF StorePdfText, StoreResult
    <2>3. \A q \in Pages : task'[q] \in {Idle, task[q]}
      BY <1>7 DEF StorePdfText, StoreResult, Shape
    <2> QED
      BY <1>6, <2>1, <2>2, <2>3
  <1>8. ASSUME NEW p \in Pages, StoreCopy(p)
        PROVE  RowsHold'
    <2>1. Listed(task[p].chunk_texts)
      BY <1>8 DEF StoreCopy, RowsHold
    <2>2. ReplacePageResult(p, storing[p], task[p])
      BY <1>8 DEF StoreCopy, StoreResult
    <2>3. \A q \in Pages : task'[q] \in {Idle, task[q]}
      BY <1>8 DEF StoreCopy, StoreResult, Shape
    <2> QED
      BY <2>1, <2>2, <2>3, RowsWritten
  <1>9. ASSUME NEW p \in Pages, StoreOcr(p)
        PROVE  RowsHold'
    <2> DEFINE text == [by |-> p, how |-> "ocr", words |-> TextsOf(ocr.lines)]
    <2>1. ReplacePageResult(p, storing[p], Result(text, "ocr", LowConfidence(ocr.lines)))
      BY <1>9 DEF StoreOcr, StoreResult
    <2>2. \A q \in Pages : task'[q] \in {Idle, task[q]}
      BY <1>9 DEF StoreOcr, StoreResult, Shape
    <2>3. ocr.lines \in Seq(Lines)
      BY <1>9 DEF StoreOcr, OcrInv, RulesHold
    <2>4. text.words \in Seq(Seq(Words))
      BY <2>3, TextsAreLists
    <2> HIDE DEF text
    <2> QED
      BY <1>6, <2>1, <2>2, <2>4
  <1>10. ASSUME NEW p \in Pages, EditPageText(p)
         PROVE  RowsHold'
    <2>1. PICK words \in HandWritten :
              ReplacePageResult(p, editing[p],
                  Result([by |-> p, how |-> "user_edit", words |-> words], "user_edit", FALSE))
      BY <1>10 DEF EditPageText
    <2> DEFINE text == [by |-> p, how |-> "user_edit", words |-> words]
    <2>2. \A q \in Pages : task'[q] \in {Idle, task[q]}
      BY <1>10 DEF EditPageText
    <2>3. text.words \in Seq(Seq(Words)) /\ ReplacePageResult(p, editing[p], Result(text, "user_edit", FALSE))
      BY <2>1, ReadingsAssumption
    <2> HIDE DEF text
    <2> QED
      BY <1>6, <2>2, <2>3
  <1>11. ASSUME NEW p \in Pages, TaskStep(p) PROVE RowsHold'
    <2>1. CASE PageFails(p) \/ SourceMissing(p) \/ OcrFails(p) \/ RenderFails(p) \/ ResultFails(p)
      BY <1>2, <2>1 DEF PageFails, SourceMissing, OcrFails, RenderFails, ResultFails
    <2> QED
      BY <1>2, <1>3, <1>4, <1>5, <1>7, <1>8, <1>9, <1>11, <2>1 DEF TaskStep
  <1>12. ASSUME NEW p \in Pages, Finalize(p) \/ SyncPage(p) \/ Withdraw(p)
         PROVE  UNCHANGED <<chunks, version, task>>
    BY <1>12 DEF Finalize, FinalizeManual, SyncPage, SyncPageRag, Withdraw, DeleteManual, BeginReprocessing
  <1>13. (\/ OcrNext /\ UNCHANGED pageVars
          \/ \E ids \in purges : DeleteChunksFromRag(ids)
          \/ \E u \in Users, words \in Questions : AskGame(u, words)
          \/ RetrieveChunks \/ GenerateGameAnswer \/ Answer) => UNCHANGED <<chunks, version, task>>
    BY DEF DeleteChunksFromRag, AskGame, RetrieveChunks, GenerateGameAnswer, Answer, pageVars
  <1>14. ASSUME NEW p \in Pages, EditStep(p) PROVE UNCHANGED <<chunks, version, task>> \/ EditPageText(p)
    BY <1>14 DEF EditStep, CheckEdit, EditFails, LoadPage, DeleteChunks
  <1> QED
    BY <1>1, <1>10, <1>11, <1>12, <1>13, <1>14 DEF Next, vars, pageVars

IndexHolds == DOMAIN chroma = Pages /\ \A p \in Pages : Rows(chroma[p])

LEMMA FewerRows ==
    ASSUME NEW rows, Rows(rows), NEW kept \in SUBSET rows
    PROVE  Rows(kept)
  BY FS_Subset DEF Rows

LEMMA IndexNext ==
    ASSUME RowsHold, IndexHolds, [Next]_vars
    PROVE  IndexHolds'
  <1>1. CASE UNCHANGED chroma
    BY <1>1 DEF IndexHolds
  <1>2. ASSUME NEW p \in Pages, Finalize(p)
        PROVE  IndexHolds'
    <2>1. UNCHANGED chroma \/ chroma' = [chroma EXCEPT ![p] = chunks[p]]
      BY <1>2 DEF Finalize
    <2>2. Rows(chunks[p])
      BY ReadRows DEF RowsHold
    <2> QED
      BY <2>1, <2>2 DEF IndexHolds
  <1>3. ASSUME NEW p \in Pages, SyncPage(p)
        PROVE  IndexHolds'
    <2>1. PICK held \in {chroma[p], chunks[p], {}} : chroma' = [chroma EXCEPT ![p] = held]
      BY <1>3 DEF SyncPage
    <2>2. Rows({})
      BY FS_EmptySet DEF Rows
    <2>3. Rows(held)
      BY <2>2, ReadRows DEF IndexHolds, RowsHold
    <2> QED
      BY <2>1, <2>3 DEF IndexHolds
  <1>4. ASSUME NEW ids, DeleteChunksFromRag(ids)
        PROVE  IndexHolds'
    <2>1. CASE chroma' = [p \in Pages |-> {c \in chroma[p] : c.id \notin ids}]
      <3>1. DOMAIN chroma' = Pages /\ \A p \in Pages : chroma'[p] \in SUBSET chroma[p]
        BY <2>1
      <3> QED
        BY <3>1, FewerRows DEF IndexHolds
    <2> QED
      BY <1>1, <1>4, <2>1 DEF DeleteChunksFromRag
  <1>5. ASSUME NEW p \in Pages, Withdraw(p) PROVE UNCHANGED chroma
    BY <1>5 DEF Withdraw
  <1>6. ASSUME NEW user, NEW words, AskGame(user, words) PROVE UNCHANGED chroma
    BY <1>6 DEF AskGame
  <1>7. CASE RetrieveChunks \/ GenerateGameAnswer \/ Answer
    BY <1>1, <1>7 DEF RetrieveChunks, GenerateGameAnswer, Answer
  <1> QED
    BY <1>1, <1>2, <1>3, <1>4, <1>5, <1>6, <1>7 DEF Next, vars

(* What a search in the index may find.                                    *)
LEMMA HitsAreTexts ==
    ASSUME IndexHolds, NEW ps \in SUBSET Pages
    PROVE  /\ IsFiniteSet(HitsOf(chroma, ps))
           /\ \A hit \in HitsOf(chroma, ps) : hit.page \in ps /\ hit.content_hash \in Seq(Units)
  <1> DEFINE found(p) == {Hit(p, c) : c \in chroma[p]}
             all == {found(p) : p \in ps}
  <1>1. ASSUME NEW p \in ps PROVE IsFiniteSet(found(p))
    <2> DEFINE f == [c \in chroma[p] |-> Hit(p, c)]
    <2>1. f \in Surjection(chroma[p], found(p))
      BY DEF Surjection
    <2>2. IsFiniteSet(chroma[p])
      BY DEF IndexHolds, Rows
    <2> HIDE DEF f, found
    <2> QED
      BY <2>1, <2>2, FS_Surjection
  <1>2. ASSUME NEW p \in ps, NEW hit \in found(p)
        PROVE  hit.page = p /\ hit.content_hash \in Seq(Units)
    <2>1. PICK c \in chroma[p] : hit = Hit(p, c)
      OBVIOUS
    <2>2. hit.page = p /\ hit.content_hash = c.text.text
      BY <2>1 DEF Hit
    <2> QED
      BY <2>2 DEF IndexHolds, Rows
  <1>3. HitsOf(chroma, ps) = UNION all
    BY DEF HitsOf
  <1> HIDE DEF found
  <1>4. IsFiniteSet(all)
    <2> DEFINE f == [p \in ps |-> found(p)]
    <2>1. f \in Surjection(ps, all)
      BY DEF Surjection
    <2>2. IsFiniteSet(ps)
      BY FS_Subset
    <2> HIDE DEF f, all
    <2> QED
      BY <2>1, <2>2, FS_Surjection
  <1>5. \A T \in all : IsFiniteSet(T)
    BY <1>1
  <1>6. IsFiniteSet(UNION all)
    <2> HIDE DEF all
    <2> QED
      BY <1>4, <1>5, FS_UNION
  <1> QED
    BY <1>2, <1>3, <1>6

LEMMA SequencesAreLists ==
    ASSUME NEW X, NEW list \in Seq(X)
    PROVE  IsList(list)
  BY DEF IsList, ToSet

(* The ranking by words of a question, whatever the index holds.           *)
LEMMA QuestionsAreRanked ==
    ASSUME IndexHolds, question.allowed \subseteq Pages, question.words \in Seq(Seq(Fragments)),
           NEW query, query = Tokenize(question.words), NEW lexical \in LexicalRankings(query)
    PROVE  /\ IsList(Hashes(lexical))
           /\ Len(Hashes(lexical)) < FusionCandidates =>
                 \A hit \in HitsOf(chroma, question.allowed) :
                     Says(hit, query) => hit.content_hash \in ToSet(Hashes(lexical))
  <1> DEFINE hits == HitsOf(chroma, Pages)
             allowed == question.allowed
  <1>1. PICK corpus \in SetToSeqs(hits) : lexical = RankAuthorizedLexicalChunks(corpus, query, allowed)
    BY DEF LexicalRankings
  <1>2. IsFiniteSet(hits) /\ \A hit \in hits : hit.content_hash \in Seq(Units)
    BY HitsAreTexts
  <1>3. \A hit \in HitsOf(chroma, allowed) : hit \in hits /\ hit.page \in allowed
    <2>1. \A hit \in HitsOf(chroma, allowed) : hit.page \in allowed
      BY HitsAreTexts
    <2> QED
      BY <2>1 DEF HitsOf
  <1> HIDE DEF hits
  <1> DEFINE n == Cardinality(hits)
  <1>4. n \in Nat /\ corpus \in [1 .. n -> hits] /\ ToSet(corpus) = hits
    BY <1>1, <1>2, OrdersAreLists
  <1> HIDE DEF n
  <1>5. DOMAIN corpus = 1 .. n /\ \A i \in 1 .. n : corpus[i].content_hash \in Seq(Units)
    BY <1>2, <1>4
  <1>6. IsList(query)
    BY TokensAreLists, SequencesAreLists
  <1>7. Space \in Units
    BY DEF Units, Blanks
  <1>8. /\ IsList(Lexical(corpus, query, allowed))
        /\ Len(Lexical(corpus, query, allowed)) < FusionCandidates =>
              \A i \in 1 .. n : corpus[i].page \in allowed /\ Says(corpus[i], query) =>
                  corpus[i].content_hash \in ToSet(Lexical(corpus, query, allowed))
    <2> HIDE DEF allowed
    <2> QED
      BY <1>4, <1>5, <1>6, <1>7, WordsAreRanked
  <1>9. Hashes(lexical) = Lexical(corpus, query, allowed)
    BY <1>1 DEF Lexical
  <1>10. ASSUME Len(Hashes(lexical)) < FusionCandidates, NEW hit \in HitsOf(chroma, allowed),
                Says(hit, query)
         PROVE  hit.content_hash \in ToSet(Hashes(lexical))
    <2>1. PICK i \in 1 .. n : corpus[i] = hit
      BY <1>3, <1>4 DEF ToSet
    <2> QED
      BY <1>3, <1>8, <1>9, <1>10, <2>1
  <1> QED
    BY <1>8, <1>9, <1>10

-----------------------------------------------------------------------------
(* The rankings along the questions.                                       *)

(* Nothing is fused before RAG is asked, and then along its rankings.      *)
RanksHold ==
    /\ question.at = "allowed" => question.words \in Seq(Seq(Fragments))
    /\ question.at \in {"idle", "allowed"} => ~question.hybrid
    /\ FusionRespectsRanks

LEMMA NothingFused ==
    ASSUME NEW asked, question' = NoQuestion(asked)
    PROVE  RanksHold'
  <1>1. ~question'.hybrid /\ question'.at = "idle"
    BY DEF NoQuestion
  <1> QED
    BY <1>1 DEF RanksHold, FusionRespectsRanks

(* What RAG answers: nothing, the nearest chunks, or both rankings fused.  *)
LEMMA RetrievedBy ==
    ASSUME QuestionHolds, RanksHold, IndexHolds, RetrieveChunks
    PROVE  \/ question' = NoQuestion(question.asked)
           \/ question'.at = "ranked" /\ ~question'.hybrid
           \/ \E nearest : \E lexical \in LexicalRankings(Tokenize(question.words)) :
                 LET dense == Deduplicate(FirstOf(nearest, FusionCandidates))
                 IN /\ question'.at = "ranked" /\ question'.dense = Hashes(dense)
                    /\ question'.lexical = Hashes(lexical)
                    /\ question'.hits = FuseHybridChunks(dense, lexical, TopK)
  <1>1. question.at = "allowed" /\ ~question.hybrid
    BY DEF RetrieveChunks, RanksHold
  <1>2. \/ question' = NoQuestion(question.asked)
        \/ \E hits : question' = [question EXCEPT !.at = "ranked", !.hits = hits]
        \/ \E nearest : \E lexical \in LexicalRankings(Tokenize(question.words)) :
              LET dense == Deduplicate(FirstOf(nearest, FusionCandidates))
              IN question' = [question EXCEPT !.at = "ranked", !.hybrid = TRUE,
                                  !.dense = Hashes(dense), !.lexical = Hashes(lexical),
                                  !.hits = FuseHybridChunks(dense, lexical, TopK)]
    BY Zenon DEF RetrieveChunks
  <1>3. ASSUME NEW hits, question' = [question EXCEPT !.at = "ranked", !.hits = hits]
        PROVE  question'.at = "ranked" /\ ~question'.hybrid
    BY <1>1, <1>3 DEF QuestionHolds, QuestionFields
  <1>4. ASSUME NEW nearest, NEW lexical, NEW dense,
               question' = [question EXCEPT !.at = "ranked", !.hybrid = TRUE,
                                !.dense = Hashes(dense), !.lexical = Hashes(lexical),
                                !.hits = FuseHybridChunks(dense, lexical, TopK)]
        PROVE  /\ question'.at = "ranked" /\ question'.dense = Hashes(dense)
               /\ question'.lexical = Hashes(lexical)
               /\ question'.hits = FuseHybridChunks(dense, lexical, TopK)
    BY <1>4 DEF QuestionHolds, QuestionFields
  <1> QED
    BY <1>2, <1>3, <1>4, Zenon

LEMMA RetrieveFuses ==
    ASSUME QuestionHolds, RanksHold, IndexHolds, RetrieveChunks
    PROVE  RanksHold'
  <1>1. CASE question' = NoQuestion(question.asked)
    BY <1>1, NothingFused
  <1>2. CASE question'.at = "ranked" /\ ~question'.hybrid
    BY <1>2 DEF RanksHold, FusionRespectsRanks
  <1>3. ASSUME NEW nearest, NEW lexical \in LexicalRankings(Tokenize(question.words)), NEW dense,
               dense = Deduplicate(FirstOf(nearest, FusionCandidates)),
               question'.at = "ranked", question'.dense = Hashes(dense),
               question'.lexical = Hashes(lexical),
               question'.hits = FuseHybridChunks(dense, lexical, TopK)
        PROVE  RanksHold'
    <2>1. question.allowed \subseteq Pages /\ question.words \in Seq(Seq(Fragments))
      BY DEF QuestionHolds, RanksHold, RetrieveChunks
    <2>2. IsList(Hashes(lexical))
      BY <2>1, QuestionsAreRanked
    <2>3. IsList(Hashes(dense))
      BY <1>3, RankingAssumption, DenseIsList
    <2>4. RespectsRanks(Hashes(dense), Hashes(lexical), Hashes(FuseHybridChunks(dense, lexical, TopK)))
      BY <2>2, <2>3, ListsAreFused
    <2> QED
      BY <1>3, <2>4 DEF RanksHold, FusionRespectsRanks
  <1> QED
    BY <1>1, <1>2, <1>3, RetrievedBy

LEMMA RanksNext ==
    ASSUME QuestionHolds, RanksHold, IndexHolds, [Next]_vars
    PROVE  RanksHold'
  <1>1. CASE UNCHANGED question
    BY <1>1 DEF RanksHold, FusionRespectsRanks
  <1>2. ASSUME NEW user, NEW words \in Questions, AskGame(user, words) PROVE RanksHold'
    <2>1. /\ question'.words = words /\ question'.hybrid = question.hybrid
          /\ ~question.hybrid
      BY <1>2 DEF AskGame, RanksHold, QuestionHolds, QuestionFields
    <2> QED
      BY <2>1, AskedAssumption DEF RanksHold, FusionRespectsRanks
  <1>3. CASE GenerateGameAnswer
    <2>1. CASE question' = NoQuestion(question.asked)
      BY <2>1, NothingFused
    <2>2. ASSUME NEW context,
                 question' = [question EXCEPT !.at = "answering", !.context = context]
          PROVE  RanksHold'
      <3>1. /\ question'.at = "answering"
            /\ question'.hybrid = question.hybrid /\ question'.dense = question.dense
            /\ question'.lexical = question.lexical /\ question'.hits = question.hits
        BY <2>2 DEF QuestionHolds, QuestionFields
      <3> QED
        BY <3>1 DEF RanksHold, FusionRespectsRanks
    <2> QED
      BY <1>3, <2>1, <2>2 DEF GenerateGameAnswer
  <1>4. CASE Answer
    BY <1>4, NothingFused DEF Answer
  <1> QED
    BY <1>1, <1>2, <1>3, <1>4, RetrieveFuses
       DEF Next, vars, Finalize, SyncPage, Withdraw, DeleteChunksFromRag

(* Only RAG fuses, and what it fuses has the texts with a word asked for.  *)
LEMMA FoundWhenAsked ==
    ASSUME QuestionHolds, RanksHold, IndexHolds, [Next]_vars,
           question.at = "allowed", question'.hybrid,
           NEW hit \in HitsOf(chroma, question.allowed),
           Says(hit, Tokenize(question.words)), Len(question'.lexical) < FusionCandidates
    PROVE  hit.content_hash \in ToSet(question'.lexical)
  <1>1. RetrieveChunks
    <2>1. ~question.hybrid
      BY DEF RanksHold
    <2>2. question' # question
      BY <2>1
    <2> QED
      BY <2>2 DEF Next, vars, Finalize, SyncPage, Withdraw, DeleteChunksFromRag, AskGame,
                  GenerateGameAnswer, Answer
  <1>2. question' # NoQuestion(question.asked)
    BY DEF NoQuestion
  <1>3. PICK lexical \in LexicalRankings(Tokenize(question.words)) : question'.lexical = Hashes(lexical)
    BY <1>1, <1>2, RetrievedBy
  <1>4. question.allowed \subseteq Pages /\ question.words \in Seq(Seq(Fragments))
    BY DEF QuestionHolds, RanksHold
  <1> QED
    BY <1>3, <1>4, QuestionsAreRanked

TextsHold == TextInv /\ OcrInv /\ WordsHold /\ RowsHold /\ IndexHolds /\ RanksHold

LEMMA TextsHoldAlways == Spec => []TextsHold
  <1>1. Init => WordsHold
    BY NoTextIsWords DEF Init, PageTextInit, NewPage, WordsHold
  <1>2. Init => RowsHold /\ IndexHolds
    <2>1. Listed(<<>>) /\ \A p : RowsOf(p, 0, <<>>) = {}
      BY DEF Listed, RowsOf
    <2>2. Init => RowsHold
      BY <2>1 DEF Init, PageTextInit, RowsHold, Numbered, Idle
    <2>3. Init => IndexHolds
      BY FS_EmptySet DEF Init, IndexHolds, Rows
    <2> QED
      BY <2>2, <2>3
  <1>3. Init => RanksHold
    <2>1. Init => ~question.hybrid /\ question.at = "idle"
      BY DEF Init, NoQuestion
    <2> QED
      BY <2>1 DEF RanksHold, FusionRespectsRanks
  <1>4. TextInv /\ OcrInv /\ WordsHold /\ [Next]_vars => WordsHold'
    BY WordsNext DEF TextInv, PageInv
  <1>5. TextInv /\ OcrInv /\ WordsHold /\ RowsHold /\ [Next]_vars => RowsHold'
    BY RowsNext DEF TextInv, PageInv
  <1>6. RowsHold /\ IndexHolds /\ [Next]_vars => IndexHolds'
    BY IndexNext
  <1>7. TextInv /\ IndexHolds /\ RanksHold /\ [Next]_vars => RanksHold'
    BY RanksNext DEF TextInv
  <1> QED
    BY <1>1, <1>2, <1>3, <1>4, <1>5, <1>6, <1>7, TextInvAlways, OcrInvAlways, PTL DEF Spec, TextsHold

(* Whatever is indexed, asked, copied and edited meanwhile, the chunks RAG *)
(* answers with keep the order of its two rankings.                        *)
THEOREM AnswersKeepRanks == Spec => []FusionRespectsRanks
  <1>1. TextsHold => FusionRespectsRanks
    BY DEF TextsHold, RanksHold
  <1> QED
    BY <1>1, TextsHoldAlways, PTL

(* rank_bm25 leaves out no text with a word of the question, and           *)
(* _rank_authorized_lexical_chunks none that some manual the user may      *)
(* consult says, whoever else says it first.                               *)
THEOREM SharedTextsAreFound == Spec => SharedWordsAreFound
  <1> DEFINE Fair == question.at = "allowed" /\ question'.hybrid =>
         \A hit \in HitsOf(chroma, question.allowed) :
            LET tokens == ToSet(Tokenize(WordsOf(hit.content_hash)))
            IN tokens \cap ToSet(Tokenize(question.words)) # {}
                 /\ Len(question'.lexical) < FusionCandidates =>
                     hit.content_hash \in ToSet(question'.lexical)
  <1>1. TextsHold /\ [Next]_vars => [Fair]_vars
    BY FoundWhenAsked DEF TextsHold, TextInv, Says
  <1> QED
    BY <1>1, TextsHoldAlways, PTL DEF Spec, SharedWordsAreFound

-----------------------------------------------------------------------------
(* The types.                                                              *)

Statuses == {"pending", "processing", "completed", "failed"}
Sources == {"none", "ocr", "pdf_text", "user_edit"}
Qualities == {"none", "ok", "empty", "low_confidence"}
ManualStatuses == {"indexing", "active", "pending_review", "failed", "hidden"}

CursorHolds ==
    ocr.stage \in {"idle", "correcting", "done"} /\ ocr.at \in 0 .. Len(ocr.lines) + 1

PageTypes(p) ==
    /\ pages[p].ocr_status \in Statuses /\ pages[p].text_source \in Sources
    /\ pages[p].text_quality \in Qualities
    /\ pages[p].reused_from \in (Pages \ {p}) \cup {NoPage}
TaskTypes(p) ==
    task[p].at \in {"found", "copying"} =>
        /\ task[p].from \in Pages \ {p} /\ task[p].quality \in Qualities
        /\ task[p].source \in Sources
ManualsHold ==
    /\ manuals \in [Pages -> ManualStatuses]
    /\ crossed \subseteq Pages /\ unsynced \subseteq Pages
    /\ edits \in 0 .. MaxEdits /\ reprocesses \in 0 .. MaxReprocess

(* The index and the messages to it name chunks that were written.         *)
IdsHold ==
    /\ \A p \in Pages : \A c \in chroma[p] : c.id[1] = p /\ c.id[2] \in 1 .. version[p]
    /\ \A ids \in purges : \A id \in ids : id[1] \in Pages /\ id[2] \in 1 .. version[id[1]]

AskerHolds ==
    /\ question.at \in {"idle", "allowed", "ranked", "answering"}
    /\ question.user \in Users \cup {Nobody} /\ question.asked \in 0 .. MaxQuestions

LEMMA CursorNext ==
    ASSUME OcrInv, CursorHolds, [Next]_vars
    PROVE  CursorHolds'
  <1>1. CASE UNCHANGED ocr
    BY <1>1 DEF CursorHolds
  <1>2. CASE OcrNext
    <2>1. ocr.stage = "correcting" /\ ocr.lines \in Seq(Lines) /\ ocr.at \in Nat
      BY <1>2 DEF OcrNext, KeepLine, CorrectionFails, AnnotateLines, Correcting, OcrInv, RulesHold
    <2>2. Len(ocr.lines) \in Nat
      BY <2>1
    <2>3. CASE KeepLine \/ CorrectionFails
      <3>1. ocr'.stage = ocr.stage /\ ocr'.at = ocr.at + 1 /\ ocr'.lines = ocr.lines /\ ocr.at <= Len(ocr.lines)
        BY <2>3 DEF KeepLine, CorrectionFails, Correcting, OcrInv, OcrFields
      <3> QED
        BY <2>1, <2>2, <3>1 DEF CursorHolds
    <2>4. CASE AnnotateLines
      <3>1. ocr'.stage = "done" /\ ocr'.at = ocr.at /\ ocr'.lines = ocr.lines
        BY <2>4 DEF AnnotateLines, OcrInv, OcrFields
      <3> QED
        BY <3>1 DEF CursorHolds
    <2>5. ASSUME NEW answers, CorrectLine(answers) PROVE CursorHolds'
      <3>1. /\ ocr'.stage = ocr.stage /\ ocr'.at = ocr.at + 1 /\ ocr.at <= Len(ocr.lines)
            /\ \E text : ocr'.lines = [ocr.lines EXCEPT ![ocr.at].text = text]
        BY <2>5 DEF CorrectLine, Correcting, OcrInv, OcrFields
      <3>2. Len(ocr'.lines) = Len(ocr.lines)
        BY <2>1, <3>1
      <3> QED
        BY <2>1, <2>2, <3>1, <3>2 DEF CursorHolds
    <2> QED
      BY <1>2, <2>3, <2>4, <2>5 DEF OcrNext
  <1>3. ASSUME NEW p \in Pages, StartOcr(p) PROVE CursorHolds'
    <2>1. PICK raw \in OcrReadings[Image[p]], configured \in BOOLEAN : RunOcr(raw, configured)
      BY <1>3 DEF StartOcr
    <2>2. ocr'.stage = "correcting" /\ ocr'.at = 1
      BY <2>1 DEF RunOcr, NoPageRead
    <2>3. OcrInv'
      BY <1>3, OcrInvNext DEF Next, TaskStep
    <2>4. Len(ocr'.lines) \in Nat
      BY <2>2, <2>3 DEF OcrInv, RulesHold
    <2> QED
      BY <2>2, <2>4 DEF CursorHolds
  <1>4. ASSUME NEW p \in Pages, StoreOcr(p) \/ ResultFails(p) PROVE CursorHolds'
    <2>1. ocr'.stage = "idle" /\ ocr'.at = 0 /\ ocr'.lines = <<>>
      BY <1>4 DEF StoreOcr, ResultFails, NoPageRead
    <2> QED
      BY <2>1 DEF CursorHolds
  <1> QED
    BY <1>1, <1>2, <1>3, <1>4, OcrSteps

PagesTyped == \A p \in Pages : PageTypes(p) /\ TaskTypes(p)

(* The row of p and its task move; a task that copies has what it needs.   *)
LEMMA TypesMove ==
    ASSUME PagesTyped, NEW p \in Pages, PageTypes(p)', TaskTypes(p)',
           \A q \in Pages \ {p} : pages'[q] = pages[q] /\ task'[q] = task[q]
    PROVE  PagesTyped'
  BY DEF PagesTyped, PageTypes, TaskTypes

LEMMA TypesWritten ==
    ASSUME Shape, PagesTyped, NEW p \in Pages, NEW own, NEW result,
           result.source \in Sources, result.quality \in Qualities,
           result.from \in (Pages \ {p}) \cup {NoPage},
           ReplacePageResult(p, own, result),
           task'[p] \in {Idle, task[p]}, \A q \in Pages \ {p} : task'[q] = task[q]
    PROVE  PagesTyped'
  <1>1. /\ pages'[p].ocr_status = Column(p, own, "ocr_status", "completed")
        /\ pages'[p].text_source = Column(p, own, "text_source", result.source)
        /\ pages'[p].text_quality = Column(p, own, "text_quality", result.quality)
        /\ pages'[p].reused_from = Column(p, own, "reused_from", result.from)
        /\ \A q \in Pages \ {p} : pages'[q] = pages[q]
    BY DEF ReplacePageResult, Shape, PageFields
  <1>2. PageTypes(p)'
    <2>1. /\ pages'[p].ocr_status \in {"completed", pages[p].ocr_status}
          /\ pages'[p].text_source \in {result.source, pages[p].text_source}
          /\ pages'[p].text_quality \in {result.quality, pages[p].text_quality}
          /\ pages'[p].reused_from \in {result.from, pages[p].reused_from}
      BY <1>1 DEF Column
    <2> QED
      BY <2>1 DEF PagesTyped, PageTypes, Statuses
  <1>3. TaskTypes(p)'
    BY DEF PagesTyped, TaskTypes, Idle
  <1> QED
    BY <1>1, <1>2, <1>3, TypesMove

(* A task that takes or leaves a page, or goes on without a copy.          *)
LEMMA TypesStep ==
    ASSUME Shape, PagesTyped, NEW p \in Pages,
           \/ MarkPageFailed(p) \/ ClaimPage(p) \/ PersistPdfPageImage(p) \/ RenderForViewerFails(p)
           \/ StartOcr(p) \/ ExtractPdfPageText(p)
    PROVE  PagesTyped'
  <1>1. CASE MarkPageFailed(p)
    <2>1. /\ pages'[p] = [pages[p] EXCEPT !.ocr_status = "failed"] /\ task'[p] = Idle
          /\ \A q \in Pages \ {p} : pages'[q] = pages[q] /\ task'[q] = task[q]
      BY <1>1 DEF MarkPageFailed, Shape
    <2>2. PageTypes(p)' /\ TaskTypes(p)'
      BY <2>1 DEF Shape, PageFields, PagesTyped, PageTypes, TaskTypes, Statuses, Idle
    <2> QED
      BY <2>1, <2>2, TypesMove
  <1>2. CASE ClaimPage(p)
    <2>1. /\ pages'[p] = [pages[p] EXCEPT !.ocr_status = "processing"]
          /\ task'[p].at \in {"pdf", "looking"}
          /\ \A q \in Pages \ {p} : pages'[q] = pages[q] /\ task'[q] = task[q]
      BY <1>2 DEF ClaimPage, Move, Shape, TaskFields
    <2>2. PageTypes(p)' /\ TaskTypes(p)'
      BY <2>1 DEF Shape, PageFields, PagesTyped, PageTypes, TaskTypes, Statuses
    <2> QED
      BY <2>1, <2>2, TypesMove
  <1>3. CASE PersistPdfPageImage(p)
    <2>1. /\ pages'[p] = [pages[p] EXCEPT !.image = TRUE, !.source_fingerprint = TRUE]
          /\ task'[p].at \in {"layer", "looking"}
          /\ \A q \in Pages \ {p} : pages'[q] = pages[q] /\ task'[q] = task[q]
      BY <1>3 DEF PersistPdfPageImage, Move, Shape, TaskFields
    <2>2. PageTypes(p)' /\ TaskTypes(p)'
      BY <2>1 DEF Shape, PageFields, PagesTyped, PageTypes, TaskTypes
    <2> QED
      BY <2>1, <2>2, TypesMove
  <1>4. CASE RenderForViewerFails(p) \/ StartOcr(p) \/ ExtractPdfPageText(p)
    <2>1. UNCHANGED pages /\ \A q \in Pages \ {p} : task'[q] = task[q]
      BY <1>4 DEF RenderForViewerFails, StartOcr, ExtractPdfPageText, Move, Shape
    <2>2. task'[p].at \in {"layer", "reading", "rendering", "looking"}
      BY <1>4 DEF RenderForViewerFails, StartOcr, ExtractPdfPageText, Move, Shape, TaskFields
    <2>3. PageTypes(p)' /\ TaskTypes(p)'
      BY <2>1, <2>2 DEF PagesTyped, PageTypes, TaskTypes
    <2> QED
      BY <2>1, <2>3, TypesMove
  <1> QED
    BY <1>1, <1>2, <1>3, <1>4

LEMMA OwnTypes ==
    ASSUME NEW text, NEW source \in Sources, NEW low
    PROVE  LET result == Result(text, source, low)
           IN result.source \in Sources /\ result.quality \in Qualities /\ result.from = NoPage
  BY DEF Result, Sources, Qualities

LEMMA TypesNext ==
    ASSUME Shape, PagesTyped, [Next]_vars
    PROVE  PagesTyped'
  <1>1. CASE UNCHANGED <<pages, task>>
    BY <1>1 DEF PagesTyped, PageTypes, TaskTypes
  <1>2. ASSUME NEW p \in Pages, FindReusablePage(p)
        PROVE  PagesTyped'
    <2>1. UNCHANGED pages
      BY <1>2 DEF FindReusablePage
    <2>2. CASE Move(p, "ocr")
      <3>1. task'[p].at = "ocr" /\ \A q \in Pages \ {p} : task'[q] = task[q]
        BY <2>2 DEF Move, Shape, TaskFields
      <3> QED
        BY <2>1, <3>1, TypesMove DEF PagesTyped, PageTypes, TaskTypes
    <2>3. CASE ~Move(p, "ocr")
      <3>1. PICK q \in Reusable(p) :
                task' = [task EXCEPT ![p] = [Idle EXCEPT !.at = "found", !.from = q,
                                                !.seen = version[q], !.lines = pages[q].lines,
                                                !.quality = pages[q].text_quality,
                                                !.source = pages[q].text_source]]
        BY <1>2, <2>3 DEF FindReusablePage
      <3>2. q \in Pages \ {p} /\ PageTypes(q)
        BY DEF Reusable, PagesTyped
      <3>3. /\ task'[p].from = q /\ task'[p].quality = pages[q].text_quality
            /\ task'[p].source = pages[q].text_source
            /\ \A r \in Pages \ {p} : task'[r] = task[r]
        BY <3>1 DEF Shape, Idle
      <3>4. TaskTypes(p)'
        BY <3>2, <3>3 DEF TaskTypes, PageTypes
      <3>5. PageTypes(p)'
        BY <2>1 DEF PagesTyped, PageTypes
      <3> QED
        BY <2>1, <3>3, <3>4, <3>5, TypesMove
    <2> QED
      BY <2>2, <2>3
  <1>3. ASSUME NEW p \in Pages, ReadReusableChunks(p)
        PROVE  PagesTyped'
    <2>1. /\ task[p].at = "found"
          /\ task'[p].from = task[p].from /\ task'[p].quality = task[p].quality
          /\ task'[p].source = task[p].source
          /\ UNCHANGED pages /\ \A q \in Pages \ {p} : task'[q] = task[q]
      BY <1>3 DEF ReadReusableChunks, Shape, TaskFields
    <2>2. PageTypes(p)' /\ TaskTypes(p)'
      BY <2>1 DEF PagesTyped, PageTypes, TaskTypes
    <2> QED
      BY <2>1, <2>2, TypesMove
  <1>4. ASSUME NEW p \in Pages, StoreCopy(p)
        PROVE  PagesTyped'
    <2>1. /\ task[p].from \in Pages \ {p} /\ task[p].quality \in Qualities /\ task[p].source \in Sources
      BY <1>4 DEF StoreCopy, PagesTyped, TaskTypes
    <2>2. ReplacePageResult(p, storing[p], task[p])
      BY <1>4 DEF StoreCopy, StoreResult
    <2>3. task'[p] = Idle /\ \A q \in Pages \ {p} : task'[q] = task[q]
      BY <1>4 DEF StoreCopy, StoreResult, Shape
    <2> QED
      BY <2>1, <2>2, <2>3, TypesWritten
  <1>5. ASSUME NEW p \in Pages, StorePdfText(p) \/ StoreOcr(p) \/ EditPageText(p)
        PROVE  PagesTyped'
    <2>1. \E source \in Sources : \E own, text, low : ReplacePageResult(p, own, Result(text, source, low))
      BY <1>5, Zenon DEF StorePdfText, StoreOcr, EditPageText, StoreResult, Sources
    <2>2. task'[p] \in {Idle, task[p]} /\ \A q \in Pages \ {p} : task'[q] = task[q]
      BY <1>5 DEF StorePdfText, StoreOcr, EditPageText, StoreResult, Shape
    <2>3. \E own, result : /\ result.source \in Sources /\ result.quality \in Qualities
                           /\ result.from = NoPage /\ ReplacePageResult(p, own, result)
      BY <2>1, OwnTypes
    <2> QED
      BY <2>2, <2>3, TypesWritten
  <1>6. ASSUME NEW p \in Pages, TaskStep(p) PROVE PagesTyped'
    <2>1. CASE PageFails(p) \/ SourceMissing(p) \/ OcrFails(p) \/ RenderFails(p) \/ ResultFails(p)
      BY <2>1, TypesStep DEF PageFails, SourceMissing, OcrFails, RenderFails, ResultFails
    <2> QED
      BY <1>2, <1>3, <1>4, <1>5, <1>6, <2>1, TypesStep DEF TaskStep
  <1>7. ASSUME NEW p \in Pages, BeginReprocessing(p)
        PROVE  PagesTyped'
    <2>1. /\ pages'[p] = [pages[p] EXCEPT !.ocr_status = "pending", !.reused_from = NoPage]
          /\ UNCHANGED task /\ \A q \in Pages \ {p} : pages'[q] = pages[q]
      BY <1>7 DEF BeginReprocessing, Shape
    <2>2. PageTypes(p)' /\ TaskTypes(p)'
      BY <2>1 DEF Shape, PageFields, PagesTyped, PageTypes, TaskTypes, Statuses
    <2> QED
      BY <2>1, <2>2, TypesMove
  <1>8. ASSUME NEW p \in Pages, Finalize(p) \/ SyncPage(p) \/ Withdraw(p)
        PROVE  UNCHANGED <<pages, task>> \/ BeginReprocessing(p)
    BY <1>8 DEF Finalize, FinalizeManual, SyncPage, SyncPageRag, Withdraw, DeleteManual
  <1>9. (\/ OcrNext /\ UNCHANGED pageVars
         \/ \E ids \in purges : DeleteChunksFromRag(ids)
         \/ \E u \in Users, words \in Questions : AskGame(u, words)
         \/ RetrieveChunks \/ GenerateGameAnswer \/ Answer) => UNCHANGED <<pages, task>>
    BY DEF DeleteChunksFromRag, AskGame, RetrieveChunks, GenerateGameAnswer, Answer, pageVars
  <1>10. ASSUME NEW p \in Pages, EditStep(p) PROVE UNCHANGED <<pages, task>> \/ EditPageText(p)
    BY <1>10 DEF EditStep, CheckEdit, EditFails, LoadPage, DeleteChunks
  <1> QED
    BY <1>1, <1>5, <1>6, <1>7, <1>8, <1>9, <1>10 DEF Next, vars, pageVars

LEMMA ManualsNext ==
    ASSUME ManualsHold, [Next]_vars
    PROVE  ManualsHold'
  <1>0. \A p : ResolvedStatus(p) \in ManualStatuses
    BY DEF ResolvedStatus, ManualStatuses
  <1> DEFINE Marked(p) == crossed' \in {crossed \cup {p}, crossed \ {p}}
  <1>9. \A p, own, result : ReplacePageResult(p, own, result) => Marked(p)
    BY DEF ReplacePageResult
  <1>1. CASE UNCHANGED <<manuals, crossed, unsynced, edits, reprocesses>>
    BY <1>1 DEF ManualsHold
  <1>2. ASSUME NEW p \in Pages, TaskStep(p)
        PROVE  /\ UNCHANGED <<manuals, unsynced, edits, reprocesses>>
               /\ crossed' \in {crossed, crossed \cup {p}, crossed \ {p}}
    <2>1. CASE PageFails(p) \/ SourceMissing(p) \/ OcrFails(p) \/ RenderFails(p) \/ ResultFails(p) \/ ClaimPage(p)
      BY <2>1 DEF PageFails, SourceMissing, OcrFails, RenderFails, ResultFails, ClaimPage, MarkPageFailed
    <2>2. CASE ExtractPdfPageText(p) \/ PersistPdfPageImage(p) \/ RenderForViewerFails(p)
      BY <2>2 DEF ExtractPdfPageText, PersistPdfPageImage, RenderForViewerFails
    <2>3. CASE FindReusablePage(p) \/ ReadReusableChunks(p) \/ StartOcr(p)
      BY <2>3 DEF FindReusablePage, ReadReusableChunks, StartOcr
    <2>4. CASE StorePdfText(p) \/ StoreCopy(p) \/ StoreOcr(p)
      BY <1>9, <2>4 DEF StorePdfText, StoreCopy, StoreOcr, StoreResult
    <2> QED
      BY <1>2, <2>1, <2>2, <2>3, <2>4 DEF TaskStep
  <1>3. ASSUME NEW p \in Pages, EditPageText(p) PROVE ManualsHold'
    <2>1. Marked(p) /\ unsynced' = unsynced \cup {p} /\ UNCHANGED <<manuals, edits, reprocesses>>
      BY <1>3, <1>9 DEF EditPageText
    <2> QED
      BY <2>1 DEF ManualsHold
  <1>11. ASSUME NEW p \in Pages, EditStep(p) PROVE ManualsHold'
    <2>1. CASE CheckEdit(p)
      <3>1. edits < MaxEdits /\ edits' = edits + 1 /\ UNCHANGED <<manuals, crossed, unsynced, reprocesses>>
        BY <2>1 DEF CheckEdit
      <3> QED
        BY <3>1 DEF ManualsHold
    <2>2. CASE EditFails(p) \/ LoadPage(p) \/ DeleteChunks(p)
      BY <1>1, <2>2 DEF EditFails, LoadPage, DeleteChunks
    <2> QED
      BY <1>3, <1>11, <2>1, <2>2 DEF EditStep
  <1>4. ASSUME NEW p \in Pages, Finalize(p) PROVE ManualsHold'
    <2>1. /\ manuals' = [manuals EXCEPT ![p] = ResolvedStatus(p)]
          /\ UNCHANGED <<crossed, unsynced, edits, reprocesses>>
      BY <1>4 DEF Finalize, FinalizeManual
    <2> QED
      BY <1>0, <2>1 DEF ManualsHold
  <1>5. ASSUME NEW p \in Pages, SyncPage(p) PROVE ManualsHold'
    <2>1. /\ manuals' = manuals \/ manuals' = [manuals EXCEPT ![p] = ResolvedStatus(p)]
          /\ unsynced' = unsynced \ {p} /\ UNCHANGED <<crossed, edits, reprocesses>>
      BY <1>5 DEF SyncPage, SyncPageRag
    <2> QED
      BY <1>0, <2>1 DEF ManualsHold
  <1>6. ASSUME NEW p \in Pages, DeleteManual(p) PROVE ManualsHold'
    BY <1>6 DEF DeleteManual, ManualsHold, ManualStatuses
  <1>7. ASSUME NEW p \in Pages, BeginReprocessing(p) PROVE ManualsHold'
    BY <1>7 DEF BeginReprocessing, ManualsHold, ManualStatuses
  <1>8. (\/ OcrNext /\ UNCHANGED pageVars
         \/ \E ids \in purges : DeleteChunksFromRag(ids)
         \/ \E u \in Users, words \in Questions : AskGame(u, words)
         \/ RetrieveChunks \/ GenerateGameAnswer \/ Answer)
            => UNCHANGED <<manuals, crossed, unsynced, edits, reprocesses>>
    BY DEF DeleteChunksFromRag, AskGame, RetrieveChunks, GenerateGameAnswer, Answer, pageVars
  <1>10. ASSUME NEW p \in Pages, TaskStep(p) PROVE ManualsHold'
    BY <1>2, <1>10 DEF ManualsHold
  <1> QED
    BY <1>1, <1>4, <1>5, <1>6, <1>7, <1>8, <1>10, <1>11 DEF Next, vars, pageVars, Withdraw

LEMMA VersionsGrow ==
    ASSUME Shape, [Next]_vars
    PROVE  \A p \in Pages : version'[p] \in Nat /\ version[p] <= version'[p]
  <1>0. \A p \in Pages : version[p] \in Nat
    BY DEF Shape
  <1>1. CASE UNCHANGED version
    BY <1>0, <1>1
  <1>2. ASSUME NEW p \in Pages, version' = [version EXCEPT ![p] = @ + 1]
        PROVE  \A q \in Pages : version'[q] \in Nat /\ version[q] <= version'[q]
    BY <1>0, <1>2 DEF Shape
  <1>3. ASSUME NEW p \in Pages, TaskStep(p)
        PROVE  version' = version \/ version' = [version EXCEPT ![p] = @ + 1]
    <2>1. CASE PageFails(p) \/ SourceMissing(p) \/ OcrFails(p) \/ RenderFails(p) \/ ResultFails(p) \/ ClaimPage(p)
      BY <2>1 DEF PageFails, SourceMissing, OcrFails, RenderFails, ResultFails, ClaimPage, MarkPageFailed
    <2>2. CASE ExtractPdfPageText(p) \/ PersistPdfPageImage(p) \/ RenderForViewerFails(p)
      BY <2>2 DEF ExtractPdfPageText, PersistPdfPageImage, RenderForViewerFails
    <2>3. CASE FindReusablePage(p) \/ ReadReusableChunks(p) \/ StartOcr(p)
      BY <2>3 DEF FindReusablePage, ReadReusableChunks, StartOcr
    <2>4. CASE StorePdfText(p) \/ StoreCopy(p) \/ StoreOcr(p)
      BY <2>4 DEF StorePdfText, StoreCopy, StoreOcr, StoreResult, ReplacePageResult
    <2> QED
      BY <1>3, <2>1, <2>2, <2>3, <2>4 DEF TaskStep
  <1>4. ASSUME NEW p \in Pages, EditStep(p)
        PROVE  version' = version \/ version' = [version EXCEPT ![p] = @ + 1]
    BY <1>4 DEF EditStep, CheckEdit, EditFails, LoadPage, DeleteChunks, EditPageText, ReplacePageResult
  <1>5. ASSUME NEW p \in Pages, Finalize(p) \/ SyncPage(p) \/ Withdraw(p) PROVE UNCHANGED version
    BY <1>5 DEF Finalize, FinalizeManual, SyncPage, SyncPageRag, Withdraw, DeleteManual, BeginReprocessing
  <1>6. (\/ OcrNext /\ UNCHANGED pageVars
         \/ \E ids \in purges : DeleteChunksFromRag(ids)
         \/ \E u \in Users, words \in Questions : AskGame(u, words)
         \/ RetrieveChunks \/ GenerateGameAnswer \/ Answer) => UNCHANGED version
    BY DEF DeleteChunksFromRag, AskGame, RetrieveChunks, GenerateGameAnswer, Answer, pageVars
  <1> QED
    BY <1>1, <1>2, <1>3, <1>4, <1>5, <1>6 DEF Next, vars, pageVars

(* The chunks of a page are named by it and by its version.                *)
LEMMA NumberedIds ==
    ASSUME Shape, NEW p \in Pages, Numbered(p)
    PROVE  \A c \in chunks[p] : /\ c.id[1] = p /\ c.id[2] \in 1 .. version[p]
                                /\ c.id[3] \in 1 .. Cardinality(chunks[p])
  <1> SUFFICES ASSUME chunks[p] # {}
               PROVE  \A c \in chunks[p] : /\ c.id[1] = p /\ c.id[2] \in 1 .. version[p]
                                           /\ c.id[3] \in 1 .. Cardinality(chunks[p])
    OBVIOUS
  <1>1. PICK v \in 1 .. version[p] : \E texts : Listed(texts) /\ chunks[p] = RowsOf(p, v, texts)
    BY DEF Numbered
  <1>2. PICK texts : Listed(texts) /\ chunks[p] = RowsOf(p, v, texts)
    BY <1>1
  <1>3. /\ DOMAIN texts = 1 .. Cardinality(chunks[p])
        /\ \A c \in chunks[p] : c.id[1] = p /\ c.id[2] = v /\ c.id[3] \in DOMAIN texts
    BY <1>2, RowsAreNumbered
  <1> QED
    BY <1>3

LEMMA IdsNext ==
    ASSUME Shape, RowsHold, IndexHolds, IdsHold, [Next]_vars
    PROVE  IdsHold'
  <1> DEFINE Own(p, rows) == \A c \in rows : c.id[1] = p /\ c.id[2] \in 1 .. version[p]
             Known(ids) == \A id \in ids : id[1] \in Pages /\ id[2] \in 1 .. version[id[1]]
  <1>0. /\ \A p \in Pages : Own(p, chunks[p]) /\ Own(p, chroma[p]) /\ Own(p, {})
        /\ \A ids \in purges : Known(ids)
    BY NumberedIds DEF RowsHold, IdsHold
  <1>1. SUFFICES /\ \A p \in Pages : Own(p, chroma'[p])
                 /\ \A ids \in purges' : Known(ids)
    <2>1. \A p \in Pages : version[p] \in Nat /\ version'[p] \in Nat /\ version[p] <= version'[p]
      BY VersionsGrow DEF Shape
    <2>2. \A p \in Pages : \A v \in 1 .. version[p] : v \in 1 .. version'[p]
      BY <2>1
    <2>3. ASSUME NEW p \in Pages, Own(p, chroma'[p])
          PROVE  \A c \in chroma'[p] : c.id[1] = p /\ c.id[2] \in 1 .. version'[p]
      BY <2>2, <2>3
    <2>4. ASSUME NEW ids, Known(ids)
          PROVE  \A id \in ids : id[1] \in Pages /\ id[2] \in 1 .. version'[id[1]]
      BY <2>2, <2>4
    <2> HIDE DEF Own, Known
    <2> QED
      BY <2>3, <2>4, Zenon DEF IdsHold
  <1>2. CASE UNCHANGED <<chroma, purges>>
    BY <1>0, <1>2
  <1>3. ASSUME NEW p \in Pages, NEW held \in {chroma[p], chunks[p], {}},
               chroma' = [chroma EXCEPT ![p] = held], UNCHANGED purges
        PROVE  /\ \A q \in Pages : Own(q, chroma'[q])
               /\ \A ids \in purges' : Known(ids)
    <2> HIDE DEF Own, Known
    <2>1. \A q \in Pages : chroma'[q] = IF q = p THEN held ELSE chroma[q]
      BY <1>3 DEF IndexHolds
    <2> QED
      BY <1>0, <1>3, <2>1
  <1>4. ASSUME NEW p \in Pages, Finalize(p) \/ SyncPage(p)
        PROVE  /\ \A q \in Pages : Own(q, chroma'[q])
               /\ \A ids \in purges' : Known(ids)
    <2>1. CASE UNCHANGED <<chroma, purges>>
      BY <1>2, <2>1
    <2>2. CASE ~UNCHANGED <<chroma, purges>>
      <3> HIDE DEF Own, Known
      <3>1. /\ \E held \in {chroma[p], chunks[p], {}} : chroma' = [chroma EXCEPT ![p] = held]
            /\ UNCHANGED purges
        BY <1>4, <2>2 DEF Finalize, SyncPage
      <3> QED
        BY <1>3, <3>1
    <2> QED
      BY <2>1, <2>2
  <1>5. ASSUME NEW p \in Pages, Withdraw(p)
        PROVE  /\ \A q \in Pages : Own(q, chroma'[q])
               /\ \A ids \in purges' : Known(ids)
    <2>1. UNCHANGED chroma /\ purges' \in {purges, purges \cup {{c.id : c \in chunks[p]}}}
      BY <1>5 DEF Withdraw
    <2>2. Known({c.id : c \in chunks[p]})
      BY <1>0
    <2> HIDE DEF Own, Known
    <2> QED
      BY <1>0, <2>1, <2>2
  <1>6. ASSUME NEW ids, DeleteChunksFromRag(ids)
        PROVE  /\ \A q \in Pages : Own(q, chroma'[q])
               /\ \A other \in purges' : Known(other)
    <2>1. /\ purges' \subseteq purges
          /\ \A p \in Pages : chroma'[p] \subseteq chroma[p]
      BY <1>6 DEF DeleteChunksFromRag
    <2>2. \A p \in Pages : Own(p, chroma'[p])
      BY <1>0, <2>1
    <2> HIDE DEF Own, Known
    <2> QED
      BY <1>0, <2>1, <2>2
  <1>7. (\/ \E u \in Users, words \in Questions : AskGame(u, words)
         \/ RetrieveChunks \/ GenerateGameAnswer \/ Answer) => UNCHANGED <<chroma, purges>>
    BY DEF AskGame, RetrieveChunks, GenerateGameAnswer, Answer
  <1> HIDE DEF Own, Known
  <1> QED
    BY <1>2, <1>4, <1>5, <1>6, <1>7, Zenon DEF Next, vars

LEMMA AskerNext ==
    ASSUME QuestionHolds, AskerHolds, [Next]_vars
    PROVE  AskerHolds'
  <1>0. question.asked \in 0 .. MaxQuestions
    BY DEF AskerHolds
  <1>1. CASE UNCHANGED question
    BY <1>1 DEF AskerHolds
  <1>2. CASE question' = NoQuestion(question.asked)
    BY <1>0, <1>2 DEF AskerHolds, NoQuestion
  <1>3. ASSUME NEW user \in Users, NEW words, AskGame(user, words) PROVE AskerHolds'
    <2>1. /\ question'.at = "allowed" /\ question'.user = user
          /\ question'.asked = question.asked + 1 /\ question.asked < MaxQuestions
      BY <1>3 DEF AskGame, QuestionHolds, QuestionFields
    <2> QED
      BY <1>0, <2>1 DEF AskerHolds
  <1>4. ASSUME question' # NoQuestion(question.asked), RetrieveChunks \/ GenerateGameAnswer \/ Answer
        PROVE  /\ question'.at \in {"ranked", "answering"} /\ question'.user = question.user
               /\ question'.asked = question.asked
    <2>1. CASE RetrieveChunks
      <3>1. \/ \E hits : question' = [question EXCEPT !.at = "ranked", !.hits = hits]
            \/ \E hits, d, l : question' = [question EXCEPT !.at = "ranked", !.hybrid = TRUE,
                                                            !.dense = d, !.lexical = l, !.hits = hits]
        BY <1>4, <2>1, Zenon DEF RetrieveChunks
      <3> QED
        BY <3>1 DEF QuestionHolds, QuestionFields
    <2>2. CASE GenerateGameAnswer
      <3>1. \E context : question' = [question EXCEPT !.at = "answering", !.context = context]
        BY <1>4, <2>2, Zenon DEF GenerateGameAnswer
      <3> QED
        BY <3>1 DEF QuestionHolds, QuestionFields
    <2> QED
      BY <1>4, <2>1, <2>2 DEF Answer
  <1>5. CASE RetrieveChunks \/ GenerateGameAnswer \/ Answer
    BY <1>2, <1>4, <1>5 DEF AskerHolds
  <1> QED
    BY <1>1, <1>3, <1>5 DEF Next, vars, Finalize, SyncPage, Withdraw, DeleteChunksFromRag

TypesHold ==
    TextsHold /\ CursorHolds /\ PagesTyped /\ ManualsHold /\ IdsHold /\ AskerHolds

(* Every row, every chunk of Postgres and of the index, every message and  *)
(* question is of its type: the ids of chunks name a page and a result it  *)
(* has had, and the chunks of a page are numbered without gaps.            *)
THEOREM TypeCorrect == Spec => []TypeOK
  <1>1. Init => CursorHolds /\ PagesTyped /\ ManualsHold /\ IdsHold /\ AskerHolds
    <2> SUFFICES ASSUME Init PROVE CursorHolds /\ PagesTyped /\ ManualsHold /\ IdsHold /\ AskerHolds
      OBVIOUS
    <2>1. CursorHolds
      BY DEF Init, PageTextInit, OcrInit, NoPageRead, CursorHolds
    <2>2. PagesTyped
      BY DEF Init, PageTextInit, NewPage, Idle, PagesTyped, PageTypes, TaskTypes, Statuses, Sources,
             Qualities
    <2>3. ManualsHold /\ IdsHold
      BY DEF Init, PageTextInit, ManualsHold, ManualStatuses, IdsHold
    <2>4. AskerHolds
      BY DEF Init, NoQuestion, AskerHolds
    <2> QED
      BY <2>1, <2>2, <2>3, <2>4
  <1>2. TextsHold /\ CursorHolds /\ PagesTyped /\ ManualsHold /\ IdsHold /\ AskerHolds /\ [Next]_vars
            => CursorHolds' /\ PagesTyped' /\ ManualsHold' /\ IdsHold' /\ AskerHolds'
    BY CursorNext, TypesNext, ManualsNext, IdsNext, AskerNext DEF TextsHold, TextInv, PageInv
  <1>3. TypesHold => TypeOK
    <2> SUFFICES ASSUME TypesHold PROVE TypeOK
      OBVIOUS
    <2>1. Shape /\ RowsHold /\ QuestionHolds
      BY DEF TypesHold, TextsHold, TextInv, PageInv
    <2>2. \A p \in Pages : version[p] \in Nat
      BY <2>1 DEF Shape
    <2>3. \A p \in Pages : \A c \in chunks[p] :
             c.id[1] = p /\ c.id[2] \in 1 .. version[p] /\ c.id[3] \in 1 .. Cardinality(chunks[p])
      BY <2>1, NumberedIds DEF RowsHold
    <2>4. PageTextTypeOK
      BY <2>2, <2>3 DEF TypesHold, PagesTyped, PageTypes, ManualsHold, PageTextTypeOK, Statuses, Sources,
                        Qualities, ManualStatuses
    <2>5. \A p \in Pages : \A c \in chroma[p] : c.id[1] = p /\ c.id[2] <= version[p]
      BY <2>2 DEF TypesHold, IdsHold
    <2>6. \A ids \in purges : \A id \in ids : id[2] \in 1 .. version[id[1]]
      BY DEF TypesHold, IdsHold
    <2> QED
      BY <2>1, <2>4, <2>5, <2>6 DEF TypesHold, CursorHolds, AskerHolds, QuestionHolds, TypeOK
  <1> QED
    BY <1>1, <1>2, <1>3, TextsHoldAlways, PTL DEF Spec, TypesHold
=============================================================================
