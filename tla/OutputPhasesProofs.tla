-------------------------- MODULE OutputPhasesProofs --------------------------
(***************************************************************************)
(* PhaseSplitter and the chunks deliver what the reference makes of the    *)
(* text, for any length of the text and of the tokens, any way of cutting  *)
(* it and any max_bytes.  The definitions are recursive, so the proof      *)
(* begins with induction and with what a recursive function computes.      *)
(***************************************************************************)
EXTENDS OutputPhases, SequenceTheorems, WellFoundedInduction, TLAPS

(***************************************************************************)
(* Induction and recursion over data: the least number principle of the    *)
(* library gives induction over sets of numbers, and with it what a        *)
(* recursive function computes.                                            *)
(***************************************************************************)

\* The order of the natural numbers as a relation.
LessNat == {ss \in Nat \X Nat : ss[1] < ss[2]}

\* Every set of natural numbers that is not empty has a least element.
LEMMA Least ==
    ASSUME NEW T \in SUBSET Nat, T # {}
    PROVE  \E x \in T : \A y \in T : x <= y
  <1>1. LessNat = OpToRel(<, Nat)
    BY DEF OpToRel, LessNat
  <1>2. IsWellFoundedOn(LessNat, Nat)
    BY <1>1, NatLessThanWellFounded
  <1>3. \E x \in T : \A y \in T : ~(<<y, x>> \in LessNat)
    BY <1>2, WFMin
  <1>4. PICK x \in T : \A y \in T : ~(<<y, x>> \in LessNat)
    BY <1>3
  <1>5. ASSUME NEW y \in T PROVE x <= y
    <2>1. x \in Nat /\ y \in Nat
      OBVIOUS
    <2>2. ~(<<y, x>> \in LessNat)
      BY <1>4
    <2> QED BY <2>1, <2>2 DEF LessNat
  <1> QED BY <1>5

\* Induction over the natural numbers, for sets.
LEMMA Induct ==
    ASSUME NEW S, 0 \in S, \A n \in Nat : n \in S => n + 1 \in S
    PROVE  \A n \in Nat : n \in S
  <1> DEFINE T == {n \in Nat : n \notin S}
  <1> SUFFICES ASSUME T # {} PROVE FALSE
    OBVIOUS
  <1>1. PICK x \in T : \A y \in T : x <= y
    BY Least
  <1>2. x # 0 /\ x - 1 \in Nat
    OBVIOUS
  <1>3. x - 1 \notin T
    BY <1>1, <1>2
  <1> QED BY <1>2, <1>3

\* The measure m gets smaller on the way from d to nx[d].
Descends(D, Stop, nx, m) == \A d \in D \ Stop : m[nx[d]] < m[d]

\* g satisfies the equations of the recursion at every d.
Solves(g, D, R, Stop, b, nx, st) ==
  \A d \in D : /\ d \in Stop => g[d] = b[d]
               /\ d \notin Stop /\ g[nx[d]] \in R => g[d] = st[<<d, g[nx[d]]>>]

\* A recursion that descends has a solution: from d it goes to nx[d] until it comes
\* to Stop, where it gives b.
LEMMA RecursionExists ==
    ASSUME NEW D, NEW R, NEW N \in Nat, NEW m \in [D -> 0..N], NEW Stop,
           NEW b \in [D -> R], NEW nx \in [D -> D], NEW st \in [D \X R -> R],
           Descends(D, Stop, nx, m)
    PROVE  \E g \in [D -> R] : Solves(g, D, R, Stop, b, nx, st)
  <1> DEFINE Step(g) == [d \in D |-> IF d \in Stop THEN b[d] ELSE st[<<d, g[nx[d]]>>]]
             Good(g, n) == \A d \in D : m[d] < n => g[d] = Step(g)[d]
             S == {n \in Nat : \E g \in [D -> R] : Good(g, n)}
  <1>1. 0 \in S
    <2>1. Good(b, 0)
      OBVIOUS
    <2> QED BY <2>1
  <1>2. ASSUME NEW n \in Nat, n \in S PROVE n + 1 \in S
    <2>1. PICK g \in [D -> R] : Good(g, n)
      BY <1>2
    <2>2. Step(g) \in [D -> R]
      OBVIOUS
    <2>3. ASSUME NEW d \in D, m[d] < n + 1 PROVE Step(g)[d] = Step(Step(g))[d]
      <3>1. CASE d \in Stop
        BY <3>1
      <3>2. CASE d \notin Stop
        <4>1. m[nx[d]] < n /\ nx[d] \in D
          BY <2>3, <3>2 DEF Descends
        <4>2. g[nx[d]] = Step(g)[nx[d]]
          BY <2>1, <4>1
        <4> QED BY <3>2, <4>2, <2>2
      <3> QED BY <3>1, <3>2
    <2>4. Good(Step(g), n + 1)
      BY <2>3
    <2> HIDE DEF Step, Good
    <2> QED BY <2>2, <2>4
  <1>3. N + 1 \in S
    <2>1. \A n \in Nat : n \in S => n + 1 \in S
      BY <1>2
    <2> HIDE DEF S
    <2>2. \A n \in Nat : n \in S
      BY <1>1, <2>1, Induct, Zenon
    <2> QED BY <2>2
  <1>4. PICK g \in [D -> R] : Good(g, N + 1)
    BY <1>3
  <1>5. \A d \in D : g[d] = Step(g)[d]
    BY <1>4
  <1>6. Solves(g, D, R, Stop, b, nx, st)
    BY <1>5 DEF Solves
  <1> QED BY <1>6

\* Whatever solves such a recursion has values in R, also a solution that CHOOSE
\* made and of which nothing else is known.
LEMMA RecursionTyped ==
    ASSUME NEW D, NEW R, NEW N \in Nat, NEW m \in [D -> 0..N], NEW Stop,
           NEW b \in [D -> R], NEW nx \in [D -> D], NEW st \in [D \X R -> R],
           Descends(D, Stop, nx, m),
           NEW h, Solves(h, D, R, Stop, b, nx, st)
    PROVE  \A d \in D : h[d] \in R
  <1> DEFINE S == {n \in Nat : \A d \in D : m[d] < n => h[d] \in R}
  <1>1. 0 \in S
    OBVIOUS
  <1>2. ASSUME NEW n \in Nat, n \in S PROVE n + 1 \in S
    <2> SUFFICES ASSUME NEW d \in D, m[d] < n + 1 PROVE h[d] \in R
      OBVIOUS
    <2>1. CASE d \in Stop
      BY <2>1 DEF Solves
    <2>2. CASE d \notin Stop
      <3>1. m[nx[d]] < n /\ nx[d] \in D
        BY <2>2 DEF Descends
      <3>2. h[nx[d]] \in R
        BY <1>2, <3>1
      <3>3. h[d] = st[<<d, h[nx[d]]>>]
        BY <2>2, <3>2 DEF Solves
      <3> QED BY <3>2, <3>3
    <2> QED BY <2>1, <2>2
  <1>3. N + 1 \in S
    <2>1. \A n \in Nat : n \in S => n + 1 \in S
      BY <1>2
    <2> HIDE DEF S
    <2>2. \A n \in Nat : n \in S
      BY <1>1, <2>1, Induct, Zenon
    <2> QED BY <2>2
  <1> QED BY <1>3

\* FlattenSeq as the function that it computes.
LEMMA FlattenAt ==
    ASSUME NEW X, NEW seqs \in Seq(Seq(X)), Len(seqs) > 0
    PROVE  \E g \in [1..Len(seqs) -> Seq(X)] :
              /\ \A i \in 1..Len(seqs) : g[i] = IF i = 1 THEN seqs[i] ELSE g[i-1] \o seqs[i]
              /\ FlattenSeq(seqs) = g[Len(seqs)]
  <1> DEFINE n == Len(seqs)
             D == 1..n
             R == Seq(X)
             m == [i \in D |-> i]
             b == [i \in D |-> seqs[i]]
             nx == [i \in D |-> IF i = 1 THEN 1 ELSE i - 1]
             st == [p \in D \X R |-> p[2] \o seqs[p[1]]]
             f == CHOOSE flatten : flatten =
                  [i \in 1..Len(seqs) |-> IF i = 1 THEN seqs[i] ELSE flatten[i-1] \o seqs[i]]
  <1>1. n \in Nat /\ m \in [D -> 0..n] /\ b \in [D -> R] /\ nx \in [D -> D]
    OBVIOUS
  <1>2. st \in [D \X R -> R]
    <2>1. ASSUME NEW p \in D \X R PROVE p[2] \o seqs[p[1]] \in R
      <3>1. p[2] \in Seq(X) /\ seqs[p[1]] \in Seq(X)
        OBVIOUS
      <3> QED BY <3>1
    <2> QED BY <2>1
  <1>3. Descends(D, {1}, nx, m)
    BY DEF Descends
  <1>4. \E g \in [D -> R] : Solves(g, D, R, {1}, b, nx, st)
    <2> HIDE DEF n, D, R, m, b, nx, st
    <2> QED BY <1>1, <1>2, <1>3, RecursionExists, Zenon
  <1>5. PICK g \in [D -> R] : Solves(g, D, R, {1}, b, nx, st)
    BY <1>4
  <1>6. ASSUME NEW d \in D PROVE g[d] = IF d = 1 THEN seqs[d] ELSE g[d-1] \o seqs[d]
    <2>1. CASE d = 1
      BY <1>5, <2>1 DEF Solves
    <2>2. CASE d # 1
      <3>0. nx[d] = d - 1 /\ d - 1 \in D
        BY <2>2
      <3>1. g[d] = st[<<d, g[d - 1]>>]
        <4> HIDE DEF st, D, R
        <4> QED BY <1>5, <2>2, <3>0 DEF Solves
      <3>2. <<d, g[d-1]>> \in D \X R
        BY <3>0
      <3>3. st[<<d, g[d-1]>>] = g[d-1] \o seqs[d]
        BY <3>2
      <3> QED BY <3>1, <3>3, <2>2
    <2> QED BY <2>1, <2>2
  <1>7. g = [i \in 1..Len(seqs) |-> IF i = 1 THEN seqs[i] ELSE g[i-1] \o seqs[i]]
    BY <1>6
  <1>8. f = [i \in 1..Len(seqs) |-> IF i = 1 THEN seqs[i] ELSE f[i-1] \o seqs[i]]
    BY <1>7
  <1>9. FlattenSeq(seqs) = f[Len(seqs)]
    BY DEF FlattenSeq
  <1>10. f \in [1..Len(seqs) -> Seq(X)]
    <2>1. Solves(f, D, R, {1}, b, nx, st)
      <3> HIDE DEF f
      <3> SUFFICES ASSUME NEW d \in D
                   PROVE  /\ d \in {1} => f[d] = b[d]
                          /\ d \notin {1} /\ f[nx[d]] \in R => f[d] = st[<<d, f[nx[d]]>>]
        BY DEF Solves
      <3>1. CASE d = 1
        BY <1>8, <3>1
      <3>2. CASE d # 1
        <4>1. nx[d] = d - 1 /\ d - 1 \in D
          BY <3>2
        <4>2. f[d] = f[d-1] \o seqs[d]
          BY <1>8, <3>2, <4>1
        <4>3. ASSUME f[d-1] \in R PROVE st[<<d, f[d-1]>>] = f[d-1] \o seqs[d]
          BY <4>3
        <4> HIDE DEF st, D, R
        <4> QED BY <3>2, <4>1, <4>2, <4>3
      <3> QED BY <3>1, <3>2
    <2>2. \A d \in D : f[d] \in R
      <3> HIDE DEF n, D, R, m, b, nx, st, f
      <3> QED BY <1>1, <1>2, <1>3, <2>1, RecursionTyped, Zenon
    <2>3. f[1] = f[1] /\ f = [i \in D |-> f[i]]
      <3> HIDE DEF f
      <3> QED BY <1>8
    <2> HIDE DEF f
    <2> QED BY <2>2, <2>3
  <1> HIDE DEF f
  <1> QED BY <1>8, <1>9, <1>10

(***************************************************************************)
(* The reference: what one symbol, one tag and a stretch of text add to    *)
(* it.                                                                     *)
(***************************************************************************)

\* The reference's recursion: from position i of w, in each phase.
RefStep(w, g) ==
    [i \in 1..(Len(w) + 2) |->
            [ph \in Phases |->
             IF i > Len(w) THEN <<>>
             ELSE IF TagAt(w, i, "A>") THEN g[i + 2]["Analysis"]
             ELSE IF TagAt(w, i, "F>") THEN g[i + 2]["Final"]
             ELSE IF LineAt(w, i) THEN g[i + 1]["Analysis"]
             ELSE <<<<ph, w[i]>>>> \o g[i + 1][ph]]]

\* The function that Reference defines.
RefF(w) == CHOOSE g : g = RefStep(w, g)

\* Reference is the value of that function at the first symbol.
LEMMA RefTop == ASSUME NEW w PROVE Reference(w) = RefF(w)[1]["Final"]
  BY DEF Reference, RefF, RefStep

\* Symbols with their phases.
Labelled == Phases \X Symbols

\* The recursion of the reference descends, so that its function is what it says.
LEMMA RefBody ==
    ASSUME NEW w \in Seq(Symbols)
    PROVE  /\ RefF(w) \in [1..(Len(w) + 2) -> [Phases -> Seq(Labelled)]]
           /\ RefF(w) = RefStep(w, RefF(w))
  <1> DEFINE n == Len(w)
             D == 1..(n + 2)
             R == [Phases -> Seq(Labelled)]
             Stop == {n + 1, n + 2}
             m == [i \in D |-> n + 2 - i]
             b == [i \in D |-> [ph \in Phases |-> <<>>]]
             Tagged(i) == TagAt(w, i, "A>") \/ TagAt(w, i, "F>")
             nx == [i \in D |-> IF i \in Stop THEN i ELSE IF Tagged(i) THEN i + 2 ELSE i + 1]
             st == [p \in D \X R |->
                     IF p[1] \in Stop THEN p[2] ELSE
                     [ph \in Phases |->
                       IF TagAt(w, p[1], "A>") THEN p[2]["Analysis"]
                       ELSE IF TagAt(w, p[1], "F>") THEN p[2]["Final"]
                       ELSE IF LineAt(w, p[1]) THEN p[2]["Analysis"]
                       ELSE <<<<ph, w[p[1]]>>>> \o p[2][ph]]]
  <1>1. n \in Nat /\ n + 2 \in Nat /\ m \in [D -> 0..(n + 2)] /\ b \in [D -> R]
    OBVIOUS
  <1>2. nx \in [D -> D]
    OBVIOUS
  <1>3. Descends(D, Stop, nx, m)
    BY DEF Descends
  <1>4. ASSUME NEW i \in D, NEW r \in R, i \notin Stop, NEW ph \in Phases
        PROVE  <<<<ph, w[i]>>>> \o r[ph] \in Seq(Labelled)
    <2>1. w[i] \in Symbols
      BY <1>4
    <2>2. <<ph, w[i]>> \in Labelled /\ r[ph] \in Seq(Labelled)
      BY <2>1 DEF Labelled
    <2> QED BY <2>2
  <1>5. st \in [D \X R -> R]
    <2>1. ASSUME NEW p \in D \X R PROVE st[p] \in R
      <3>1. p[1] \in D /\ p[2] \in R
        OBVIOUS
      <3>2. CASE p[1] \in Stop
        BY <3>1, <3>2
      <3>3. CASE p[1] \notin Stop
        BY <3>1, <3>3, <1>4 DEF Phases
      <3> QED BY <3>2, <3>3
    <2> QED BY <2>1
  <1>6. \E g \in [D -> R] : Solves(g, D, R, Stop, b, nx, st)
    <2> HIDE DEF n, D, R, m, b, nx, st, Stop
    <2> QED BY <1>1, <1>2, <1>3, <1>5, RecursionExists, Zenon
  <1>7. PICK g \in [D -> R] : Solves(g, D, R, Stop, b, nx, st)
    BY <1>6
  <1>8. ASSUME NEW h, NEW i \in D, NEW ph \in Phases, h[nx[i]] \in R
        PROVE  RefStep(w, h)[i][ph] = IF i \in Stop THEN b[i][ph] ELSE st[<<i, h[nx[i]]>>][ph]
    <2>1. CASE i \in Stop
      BY <2>1 DEF RefStep
    <2>2. CASE i \notin Stop
      <3>1. <<i, h[nx[i]]>> \in D \X R
        BY <1>8
      <3>2. st[<<i, h[nx[i]]>>][ph] = IF TagAt(w, i, "A>") THEN h[nx[i]]["Analysis"]
                       ELSE IF TagAt(w, i, "F>") THEN h[nx[i]]["Final"]
                       ELSE IF LineAt(w, i) THEN h[nx[i]]["Analysis"]
                       ELSE <<<<ph, w[i]>>>> \o h[nx[i]][ph]
        BY <2>2, <3>1
      <3>3. ~(i > Len(w))
        BY <2>2
      <3>4. RefStep(w, h)[i][ph] = IF TagAt(w, i, "A>") THEN h[i+2]["Analysis"]
                       ELSE IF TagAt(w, i, "F>") THEN h[i+2]["Final"]
                       ELSE IF LineAt(w, i) THEN h[i+1]["Analysis"]
                       ELSE <<<<ph, w[i]>>>> \o h[i+1][ph]
        BY <3>3 DEF RefStep
      <3>5. nx[i] = IF Tagged(i) THEN i + 2 ELSE i + 1
        BY <2>2
      <3> HIDE DEF st, nx, D, R, Stop
      <3> QED BY <2>2, <3>2, <3>4, <3>5
    <2> QED BY <2>1, <2>2
  <1>9. g = RefStep(w, g)
    <2>1. ASSUME NEW i \in D PROVE g[i] = RefStep(w, g)[i]
      <3>1. g[nx[i]] \in R /\ g[i] \in R
        BY <1>2
      <3>2. g[i] = IF i \in Stop THEN b[i] ELSE st[<<i, g[nx[i]]>>]
        BY <1>7, <3>1 DEF Solves
      <3>3. \A ph \in Phases : g[i][ph] = RefStep(w, g)[i][ph]
        <4> HIDE DEF st, nx, b, D, R, Stop
        <4> QED BY <3>1, <3>2, <1>8
      <3>4. RefStep(w, g)[i] = [ph \in Phases |-> RefStep(w, g)[i][ph]]
        BY DEF RefStep
      <3> QED BY <3>1, <3>3, <3>4
    <2>2. RefStep(w, g) = [i \in D |-> RefStep(w, g)[i]]
      BY DEF RefStep
    <2> QED BY <2>1, <2>2
  <1>10. RefF(w) = RefStep(w, RefF(w))
    BY <1>9, Zenon DEF RefF
  <1> DEFINE f == RefF(w)
  <1>11. Solves(f, D, R, Stop, b, nx, st)
    <2> SUFFICES ASSUME NEW i \in D
                 PROVE  /\ i \in Stop => f[i] = b[i]
                        /\ i \notin Stop /\ f[nx[i]] \in R => f[i] = st[<<i, f[nx[i]]>>]
      BY DEF Solves
    <2>1. f[i] = [ph \in Phases |-> RefStep(w, f)[i][ph]]
      <3>1. f[i] = RefStep(w, f)[i]
        BY <1>10
      <3>2. RefStep(w, f)[i] = [ph \in Phases |-> RefStep(w, f)[i][ph]]
        BY DEF RefStep
      <3> QED BY <3>1, <3>2
    <2>2. CASE i \in Stop
      <3>1. \A ph \in Phases : RefStep(w, f)[i][ph] = <<>>
        BY <2>2 DEF RefStep
      <3> QED BY <2>1, <2>2, <3>1
    <2>3. CASE i \notin Stop /\ f[nx[i]] \in R
      <3>1. st[<<i, f[nx[i]]>>] \in R
        <4> HIDE DEF st, nx, D, R, Stop
        <4> QED BY <2>3, <1>5
      <3>2. \A ph \in Phases : RefStep(w, f)[i][ph] = st[<<i, f[nx[i]]>>][ph]
        <4> HIDE DEF st, nx, b, D, R, Stop, f
        <4> QED BY <2>3, <1>8
      <3> HIDE DEF st, nx, b, D, Stop, f
      <3> QED BY <2>1, <2>3, <3>1, <3>2
    <2> HIDE DEF st, nx, b, D, R, Stop, f
    <2> QED BY <2>2, <2>3
  <1>12. \A d \in D : f[d] \in R
    <2> HIDE DEF n, D, R, m, b, nx, st, f, Stop
    <2> QED BY <1>1, <1>2, <1>3, <1>5, <1>11, RecursionTyped, Zenon
  <1>13. f = [i \in D |-> f[i]]
    <2>1. RefStep(w, f) = [i \in D |-> RefStep(w, f)[i]]
      BY DEF RefStep
    <2> QED BY <1>10, <2>1
  <1>14. f \in [D -> R]
    <2> HIDE DEF f
    <2> QED BY <1>12, <1>13
  <1> QED BY <1>10, <1>14

\* A tag begins at position j, and switches to a phase.
Tag(t, j) == TagAt(t, j, "A>") \/ TagAt(t, j, "F>")
Turn(t, j) == IF TagAt(t, j, "A>") THEN "Analysis" ELSE "Final"
Prefix(t, k) == SubSeq(t, 1, k)

\* e is the phase after the first k symbols of t, read from position i in phase ph.
EndFrom(t, k, i, ph, e) ==
  \/ e = ph /\ \A j \in i..(k - 1) : ~Tag(t, j)
  \/ \E j \in i..(k - 1) : /\ Tag(t, j) /\ e = Turn(t, j)
                           /\ \A l \in (j + 1)..(k - 1) : ~Tag(t, l)

\* A text without line markers.
NoLine(t) == \A i \in 1..Len(t) : t[i] # "M"

\* What one symbol adds to the reference from position i on.
OneAt(w, i, ph) ==
  /\ RefF(w)[i][ph] \in Seq(Labelled)
  /\ i > Len(w) => RefF(w)[i][ph] = <<>>
  /\ i <= Len(w) /\ Tag(w, i) => RefF(w)[i][ph] = RefF(w)[i + 2][Turn(w, i)]
  /\ i <= Len(w) /\ ~Tag(w, i) => RefF(w)[i][ph] = <<<<ph, w[i]>>>> \o RefF(w)[i + 1][ph]

\* Every position of a text without line markers is as OneAt says.
LEMMA RefOne ==
    ASSUME NEW w \in Seq(Symbols), NoLine(w)
    PROVE  \A i \in 1..(Len(w) + 2), ph \in Phases : OneAt(w, i, ph)
  <1> SUFFICES ASSUME NEW i \in 1..(Len(w) + 2), NEW ph \in Phases PROVE OneAt(w, i, ph)
    OBVIOUS
  <1>1. RefF(w)[i][ph] = RefStep(w, RefF(w))[i][ph]
    BY RefBody
  <1>2. RefF(w)[i][ph] \in Seq(Labelled)
    BY RefBody
  <1>3. i <= Len(w) => ~LineAt(w, i)
    BY DEF NoLine, LineAt
  <1>4. RefStep(w, RefF(w))[i][ph] =
           IF i > Len(w) THEN <<>>
           ELSE IF TagAt(w, i, "A>") THEN RefF(w)[i + 2]["Analysis"]
           ELSE IF TagAt(w, i, "F>") THEN RefF(w)[i + 2]["Final"]
           ELSE IF LineAt(w, i) THEN RefF(w)[i + 1]["Analysis"]
           ELSE <<<<ph, w[i]>>>> \o RefF(w)[i + 1][ph]
    BY DEF RefStep
  <1> QED BY <1>1, <1>2, <1>3, <1>4 DEF OneAt, Tag, Turn

\* An element in front and one behind.
LEMMA PairAppend ==
    ASSUME NEW S, NEW s \in Seq(S), NEW a \in S, NEW c \in S
    PROVE  <<a>> \o Append(s, c) = Append(<<a>> \o s, c)
  OBVIOUS

\* Phased labels each symbol and keeps the length.
LEMMA PhasedFacts ==
    ASSUME NEW P, NEW X, NEW e \in P, NEW s \in Seq(X)
    PROVE  Phased(e, s) \in Seq(P \X X) /\ Len(Phased(e, s)) = Len(s)
  BY DEF Phased

\* The first k elements of a sequence.
LEMMA PrefixFacts ==
    ASSUME NEW S, NEW t \in Seq(S), NEW k \in 0..Len(t)
    PROVE  /\ Prefix(t, k) \in Seq(S) /\ Len(Prefix(t, k)) = k
           /\ \A i \in 1..k : Prefix(t, k)[i] = t[i]
  BY DEF Prefix

\* A prefix has the tags that end in it.
LEMMA PrefixTag ==
    ASSUME NEW t \in Seq(Symbols), NEW k \in 0..Len(t), NEW i \in 1..k
    PROVE  /\ Tag(Prefix(t, k), i) <=> i < k /\ Tag(t, i)
           /\ i < k => Turn(Prefix(t, k), i) = Turn(t, i)
  <1>1. Len(Prefix(t, k)) = k /\ \A j \in 1..k : Prefix(t, k)[j] = t[j]
    BY PrefixFacts
  <1> QED BY <1>1 DEF Tag, Turn, TagAt

\* A prefix of a text without line markers has none.
LEMMA PrefixNoLine ==
    ASSUME NEW t \in Seq(Symbols), NoLine(t), NEW k \in 0..Len(t)
    PROVE  NoLine(Prefix(t, k))
  BY PrefixFacts DEF NoLine

\* One more symbol that does not end a tag.
LEMMA RefAppend ==
    ASSUME NEW t \in Seq(Symbols), NoLine(t), NEW k \in 0..(Len(t) - 1),
           k >= 1 => ~Tag(t, k)
    PROVE  \A i \in 1..(k + 1), ph \in Phases, e \in Phases :
             EndFrom(t, k, i, ph, e) =>
               RefF(Prefix(t, k + 1))[i][ph] =
                   Append(RefF(Prefix(t, k))[i][ph], <<e, t[k + 1]>>)
  <1> DEFINE u == Prefix(t, k)
             v == Prefix(t, k + 1)
             Claim(i) == \A ph \in Phases, e \in Phases :
                           EndFrom(t, k, i, ph, e) => RefF(v)[i][ph] =
                               Append(RefF(u)[i][ph], <<e, t[k + 1]>>)
             S == {n \in Nat : \A i \in 1..(k + 1) : k + 1 - i < n => Claim(i)}
  <1>1. /\ u \in Seq(Symbols) /\ Len(u) = k /\ NoLine(u)
        /\ v \in Seq(Symbols) /\ Len(v) = k + 1 /\ NoLine(v)
    BY PrefixFacts, PrefixNoLine
  <1>2. \A i \in 1..k : u[i] = t[i]
    BY PrefixFacts
  <1>3. \A i \in 1..(k + 1) : v[i] = t[i]
    BY PrefixFacts
  <1>4. \A i \in 1..k : Tag(v, i) <=> Tag(u, i)
    BY PrefixTag
  <1>5. \A i \in 1..k : Tag(u, i) => i < k /\ Turn(v, i) = Turn(u, i) /\ Turn(u, i) = Turn(t, i)
    BY PrefixTag
  <1>6. ~Tag(v, k + 1)
    BY PrefixTag
  <1>a. \A i \in 1..(k + 2), ph \in Phases : OneAt(u, i, ph)
    <2>1. \A i \in 1..(Len(u) + 2), ph \in Phases : OneAt(u, i, ph)
      <3> HIDE DEF u
      <3> QED BY <1>1, RefOne
    <2> QED BY <2>1, <1>1
  <1>b. \A i \in 1..(k + 3), ph \in Phases : OneAt(v, i, ph)
    <2>1. \A i \in 1..(Len(v) + 2), ph \in Phases : OneAt(v, i, ph)
      <3> HIDE DEF v
      <3> QED BY <1>1, RefOne
    <2> QED BY <2>1, <1>1
  <1> HIDE DEF u, v
  <1>7. 0 \in S
    OBVIOUS
  <1>8. ASSUME NEW n \in Nat, n \in S PROVE n + 1 \in S
    <2> SUFFICES ASSUME NEW i \in 1..(k + 1), k + 1 - i < n + 1, NEW ph \in Phases,
                 NEW e \in Phases,
                        EndFrom(t, k, i, ph, e)
                 PROVE  RefF(v)[i][ph] = Append(RefF(u)[i][ph], <<e, t[k + 1]>>)
      OBVIOUS
    <2>a. OneAt(u, i, ph) /\ OneAt(v, i, ph) /\ OneAt(u, i + 1, ph) /\ OneAt(v, i + 1, ph)
      BY <1>a, <1>b
    <2>1. CASE i = k + 1
      <3>1. e = ph
        BY <2>1 DEF EndFrom
      <3>2. RefF(u)[i][ph] = <<>>
        BY <1>1, <2>1, <2>a DEF OneAt
      <3>3. RefF(v)[i][ph] = <<<<ph, v[i]>>>> \o RefF(v)[i + 1][ph]
        BY <1>1, <1>6, <2>1, <2>a DEF OneAt
      <3>4. RefF(v)[i + 1][ph] = <<>>
        BY <1>1, <2>1, <2>a DEF OneAt
      <3> QED BY <3>1, <3>2, <3>3, <3>4, <1>3, <2>1
    <2>2. CASE i <= k /\ Tag(u, i)
      <3>1. RefF(u)[i][ph] = RefF(u)[i + 2][Turn(u, i)]
        BY <1>1, <2>2, <2>a DEF OneAt
      <3>2. RefF(v)[i][ph] = RefF(v)[i + 2][Turn(u, i)]
        BY <1>1, <1>4, <1>5, <2>2, <2>a DEF OneAt
      <3>3. i + 2 \in 1..(k + 1) /\ Turn(u, i) \in Phases
        BY <1>5, <2>2 DEF Turn, Phases
      <3>4. EndFrom(t, k, i + 2, Turn(u, i), e)
        <4>1. Tag(t, i) /\ i < k /\ ~Tag(t, i + 1) /\ Turn(u, i) = Turn(t, i)
          <5>1. i \in 1..k
            BY <2>2
          <5>2. Tag(t, i) /\ i < k /\ Turn(u, i) = Turn(t, i)
            BY <2>2, <5>1, <1>5, PrefixTag DEF u
          <5> QED BY <5>2 DEF Tag, TagAt
        <4>2. PICK j \in i..(k - 1) : /\ Tag(t, j) /\ e = Turn(t, j)
                                      /\ \A l \in (j + 1)..(k - 1) : ~Tag(t, l)
          BY <4>1 DEF EndFrom
        <4>3. CASE j = i
          BY <4>1, <4>2, <4>3 DEF EndFrom
        <4>4. CASE j # i
          <5>1. j \in (i + 2)..(k - 1)
            BY <4>1, <4>2, <4>4
          <5> QED BY <4>2, <5>1 DEF EndFrom
        <4> QED BY <4>3, <4>4
      <3>5. Claim(i + 2)
        BY <1>8, <3>3
      <3> QED BY <3>1, <3>2, <3>3, <3>4, <3>5
    <2>3. CASE i <= k /\ ~Tag(u, i)
      <3>1. RefF(u)[i][ph] = <<<<ph, u[i]>>>> \o RefF(u)[i + 1][ph]
        BY <1>1, <2>3, <2>a DEF OneAt
      <3>2. RefF(v)[i][ph] = <<<<ph, u[i]>>>> \o RefF(v)[i + 1][ph]
        <4>1. i \in 1..k /\ i <= Len(v) /\ ~Tag(v, i)
          BY <1>1, <1>4, <2>3
        <4>2. RefF(v)[i][ph] = <<<<ph, v[i]>>>> \o RefF(v)[i + 1][ph]
          BY <4>1, <2>a DEF OneAt
        <4>3. v[i] = u[i]
          BY <4>1, <1>2, <1>3
        <4> QED BY <4>2, <4>3
      <3>3. EndFrom(t, k, i + 1, ph, e)
        <4>1. i <= k - 1 => ~Tag(t, i)
          BY <2>3, PrefixTag DEF u
        <4> QED BY <4>1, <2>3 DEF EndFrom
      <3>4. Claim(i + 1)
        BY <1>8, <2>3
      <3>5. RefF(v)[i + 1][ph] = Append(RefF(u)[i + 1][ph], <<e, t[k + 1]>>)
        BY <3>3, <3>4
      <3>6. RefF(u)[i + 1][ph] \in Seq(Labelled) /\ <<ph, u[i]>> \in Labelled /\
            <<e, t[k + 1]>> \in Labelled
        BY <1>1, <2>3, <2>a DEF OneAt, Labelled
      <3>7. <<<<ph, u[i]>>>> \o Append(RefF(u)[i + 1][ph], <<e, t[k + 1]>>)
              = Append(<<<<ph, u[i]>>>> \o RefF(u)[i + 1][ph], <<e, t[k + 1]>>)
        BY <3>6, PairAppend
      <3> QED BY <3>1, <3>2, <3>5, <3>7
    <2> QED BY <2>1, <2>2, <2>3
  <1>9. \A n \in Nat : n \in S
    <2>1. \A n \in Nat : n \in S => n + 1 \in S
      BY <1>8
    <2> HIDE DEF S
    <2> QED BY <1>7, <2>1, Induct, Zenon
  <1>10. \A i \in 1..(k + 1) : Claim(i)
    <2>1. k + 2 \in S
      <3> HIDE DEF S
      <3> QED BY <1>9
    <2> QED BY <2>1
  <1> QED BY <1>10 DEF u, v

\* Two more symbols that are a tag.
LEMMA RefTag ==
    ASSUME NEW t \in Seq(Symbols), NoLine(t), NEW k \in 0..(Len(t) - 2), Tag(t, k + 1)
    PROVE  \A i \in 1..(k + 1), ph \in Phases :
             RefF(Prefix(t, k + 2))[i][ph] = RefF(Prefix(t, k))[i][ph]
  <1> DEFINE u == Prefix(t, k)
             v == Prefix(t, k + 2)
             Claim(i) == \A ph \in Phases : RefF(v)[i][ph] = RefF(u)[i][ph]
             S == {n \in Nat : \A i \in 1..(k + 1) : k + 1 - i < n => Claim(i)}
  <1>1. /\ u \in Seq(Symbols) /\ Len(u) = k /\ NoLine(u)
        /\ v \in Seq(Symbols) /\ Len(v) = k + 2 /\ NoLine(v)
    BY PrefixFacts, PrefixNoLine
  <1>2. \A i \in 1..k : u[i] = t[i]
    BY PrefixFacts
  <1>3. \A i \in 1..(k + 2) : v[i] = t[i]
    BY PrefixFacts
  <1>4. \A i \in 1..k : Tag(v, i) <=> Tag(u, i)
    <2>1. k >= 1 => ~Tag(t, k)
      BY DEF Tag, TagAt
    <2> QED BY <2>1, PrefixTag
  <1>5. \A i \in 1..k : Tag(u, i) => i < k /\ Turn(v, i) = Turn(u, i)
    BY PrefixTag
  <1>6. Tag(v, k + 1)
    BY PrefixTag
  <1>a. \A i \in 1..(k + 2), ph \in Phases : OneAt(u, i, ph)
    <2>1. \A i \in 1..(Len(u) + 2), ph \in Phases : OneAt(u, i, ph)
      <3> HIDE DEF u
      <3> QED BY <1>1, RefOne
    <2> QED BY <2>1, <1>1
  <1>b. \A i \in 1..(k + 4), ph \in Phases : OneAt(v, i, ph)
    <2>1. \A i \in 1..(Len(v) + 2), ph \in Phases : OneAt(v, i, ph)
      <3> HIDE DEF v
      <3> QED BY <1>1, RefOne
    <2> QED BY <2>1, <1>1
  <1> HIDE DEF u, v
  <1>7. 0 \in S
    OBVIOUS
  <1>8. ASSUME NEW n \in Nat, n \in S PROVE n + 1 \in S
    <2> SUFFICES ASSUME NEW i \in 1..(k + 1), k + 1 - i < n + 1, NEW ph \in Phases
                 PROVE  RefF(v)[i][ph] = RefF(u)[i][ph]
      OBVIOUS
    <2>a. OneAt(u, i, ph) /\ OneAt(v, i, ph)
      BY <1>a, <1>b
    <2>1. CASE i = k + 1
      <3>1. Turn(v, i) \in Phases
        BY DEF Turn, Phases
      <3>2. RefF(u)[i][ph] = <<>>
        BY <1>1, <2>1, <2>a DEF OneAt
      <3>3. RefF(v)[i][ph] = RefF(v)[i + 2][Turn(v, i)]
        BY <1>1, <1>6, <2>1, <2>a DEF OneAt
      <3>4. OneAt(v, i + 2, Turn(v, i))
        BY <1>b, <3>1, <2>1
      <3>5. RefF(v)[i + 2][Turn(v, i)] = <<>>
        BY <1>1, <2>1, <3>4 DEF OneAt
      <3> QED BY <3>2, <3>3, <3>5
    <2>2. CASE i <= k /\ Tag(u, i)
      <3>1. RefF(u)[i][ph] = RefF(u)[i + 2][Turn(u, i)]
        BY <1>1, <2>2, <2>a DEF OneAt
      <3>2. RefF(v)[i][ph] = RefF(v)[i + 2][Turn(u, i)]
        <4>1. i \in 1..k /\ i <= Len(v)
          BY <2>2, <1>1
        <4>2. Tag(v, i) /\ Turn(v, i) = Turn(u, i)
          BY <1>4, <1>5, <2>2, <4>1
        <4> QED BY <4>1, <4>2, <2>a DEF OneAt
      <3>3. i + 2 \in 1..(k + 1) /\ Turn(u, i) \in Phases
        BY <1>5, <2>2 DEF Turn, Phases
      <3>5. Claim(i + 2)
        BY <1>8, <3>3
      <3> QED BY <3>1, <3>2, <3>3, <3>5
    <2>3. CASE i <= k /\ ~Tag(u, i)
      <3>1. RefF(u)[i][ph] = <<<<ph, u[i]>>>> \o RefF(u)[i + 1][ph]
        BY <1>1, <2>3, <2>a DEF OneAt
      <3>2. RefF(v)[i][ph] = <<<<ph, u[i]>>>> \o RefF(v)[i + 1][ph]
        <4>1. i \in 1..k /\ i <= Len(v) /\ ~Tag(v, i)
          BY <1>1, <1>4, <2>3
        <4>2. RefF(v)[i][ph] = <<<<ph, v[i]>>>> \o RefF(v)[i + 1][ph]
          BY <4>1, <2>a DEF OneAt
        <4>3. v[i] = u[i]
          BY <4>1, <1>2, <1>3
        <4> QED BY <4>2, <4>3
      <3>4. Claim(i + 1)
        BY <1>8, <2>3
      <3> QED BY <3>1, <3>2, <3>4
    <2> QED BY <2>1, <2>2, <2>3
  <1>9. \A n \in Nat : n \in S
    <2>1. \A n \in Nat : n \in S => n + 1 \in S
      BY <1>8
    <2> HIDE DEF S
    <2> QED BY <1>7, <2>1, Induct, Zenon
  <1>10. \A i \in 1..(k + 1) : Claim(i)
    <2>1. k + 2 \in S
      <3> HIDE DEF S
      <3> QED BY <1>9
    <2> QED BY <2>1
  <1> QED BY <1>10 DEF u, v

\* The phase after the first k symbols.
EndIs(t, k, e) == EndFrom(t, k, 1, "Final", e)

\* A symbol that does not end a tag leaves the phase as it is.
LEMMA EndAppend ==
    ASSUME NEW t \in Seq(Symbols), NEW k \in 0..(Len(t) - 1), k >= 1 => ~Tag(t, k),
           NEW e \in Phases, EndIs(t, k, e)
    PROVE  EndIs(t, k + 1, e)
  <1>1. CASE e = "Final" /\ \A j \in 1..(k - 1) : ~Tag(t, j)
    <2>1. \A j \in 1..k : ~Tag(t, j)
      BY <1>1
    <2> QED BY <1>1, <2>1 DEF EndIs, EndFrom
  <1>2. CASE \E j \in 1..(k - 1) : /\ Tag(t, j) /\ e = Turn(t, j)
                                    /\ \A l \in (j + 1)..(k - 1) : ~Tag(t, l)
    <2>1. PICK j \in 1..(k - 1) : /\ Tag(t, j) /\ e = Turn(t, j)
                                    /\ \A l \in (j + 1)..(k - 1) : ~Tag(t, l)
      BY <1>2
    <2>2. \A l \in (j + 1)..((k + 1) - 1) : ~Tag(t, l)
      BY <2>1
    <2>3. j \in 1..((k + 1) - 1)
      OBVIOUS
    <2> QED BY <2>1, <2>2, <2>3 DEF EndIs, EndFrom
  <1> QED BY <1>1, <1>2 DEF EndIs, EndFrom

\* A tag switches the phase.
LEMMA EndTag ==
    ASSUME NEW t \in Seq(Symbols), NEW k \in 0..(Len(t) - 2), Tag(t, k + 1)
    PROVE  EndIs(t, k + 2, Turn(t, k + 1))
  <1>1. k + 1 \in 1..((k + 2) - 1)
    OBVIOUS
  <1>2. \A l \in ((k + 1) + 1)..((k + 2) - 1) : ~Tag(t, l)
    OBVIOUS
  <1> QED BY <1>1, <1>2 DEF EndIs, EndFrom

\* The reference of the first k symbols of t.
RefAt(t, k) == Reference(Prefix(t, k))

\* What has no tag in it is delivered as it is, in the phase that holds.
LEMMA Stretch ==
    ASSUME NEW t \in Seq(Symbols), NoLine(t), NEW a \in 0..Len(t), NEW z \in a..Len(t),
           NEW e \in Phases, EndIs(t, a, e),
           \A j \in a..(z - 1) : j >= 1 => ~Tag(t, j)
    PROVE  RefAt(t, z) = RefAt(t, a) \o Phased(e, SubSeq(t, a + 1, z)) /\ EndIs(t, z, e)
  <1> DEFINE Claim(k) == RefAt(t, k) = RefAt(t, a) \o Phased(e, SubSeq(t, a + 1, k)) /\
      EndIs(t, k, e)
             S == {n \in Nat : a + n <= z => Claim(a + n)}
  <1>0. \A k \in 0..Len(t) : RefAt(t, k) \in Seq(Labelled)
    <2> SUFFICES ASSUME NEW k \in 0..Len(t) PROVE RefAt(t, k) \in Seq(Labelled)
      OBVIOUS
    <2>1. Prefix(t, k) \in Seq(Symbols)
      BY PrefixFacts
    <2>2. RefF(Prefix(t, k)) \in [1..(Len(Prefix(t, k)) + 2) -> [Phases -> Seq(Labelled)]]
      BY <2>1, RefBody
    <2>3. Len(Prefix(t, k)) \in Nat
      BY <2>1
    <2> QED BY <2>2, <2>3, RefTop DEF RefAt, Phases
  <1>1. 0 \in S
    <2>1. Phased(e, SubSeq(t, a + 1, a)) = <<>>
      BY DEF Phased
    <2>2. RefAt(t, a) \in Seq(Labelled)
      BY <1>0
    <2>3. RefAt(t, a) \o <<>> = RefAt(t, a)
      BY <2>2
    <2>4. a + 0 = a
      OBVIOUS
    <2> QED BY <2>1, <2>3, <2>4
  <1>2. ASSUME NEW n \in Nat, n \in S PROVE n + 1 \in S
    <2> SUFFICES ASSUME a + (n + 1) <= z PROVE Claim(a + (n + 1))
      OBVIOUS
    <2> DEFINE k == a + n
    <2>1. k \in 0..(Len(t) - 1) /\ k + 1 = a + (n + 1) /\ k \in a..(z - 1)
      OBVIOUS
    <2>2. Claim(k)
      BY <1>2
    <2> HIDE DEF k
    <2>3. EndIs(t, k + 1, e)
      BY <2>1, <2>2, EndAppend
    <2>4. RefAt(t, k + 1) = Append(RefAt(t, k), <<e, t[k + 1]>>)
      <3>1. 1 \in 1..(k + 1) /\ "Final" \in Phases
        BY <2>1 DEF Phases
      <3>2. EndFrom(t, k, 1, "Final", e)
        BY <2>2 DEF EndIs
      <3>3. k >= 1 => ~Tag(t, k)
        BY <2>1
      <3>4. RefF(Prefix(t, k + 1))[1]["Final"] =
            Append(RefF(Prefix(t, k))[1]["Final"], <<e, t[k + 1]>>)
        BY <2>1, <3>1, <3>2, <3>3, RefAppend
      <3> QED BY <3>4, RefTop DEF RefAt
    <2>5. Phased(e, SubSeq(t, a + 1, k + 1)) =
          Append(Phased(e, SubSeq(t, a + 1, k)), <<e, t[k + 1]>>)
      BY <2>1 DEF Phased
    <2>6. Phased(e, SubSeq(t, a + 1, k)) \in Seq(Labelled) /\ <<e, t[k + 1]>> \in Labelled
      <3>1. SubSeq(t, a + 1, k) \in Seq(Symbols)
        BY <2>1
      <3>2. Phased(e, SubSeq(t, a + 1, k)) \in Seq(Phases \X Symbols)
        BY <3>1, PhasedFacts, Zenon
      <3>3. t[k + 1] \in Symbols
        BY <2>1
      <3> QED BY <3>2, <3>3 DEF Labelled
    <2>7. RefAt(t, a) \in Seq(Labelled)
      BY <1>0
    <2>8. Append(RefAt(t, a) \o Phased(e, SubSeq(t, a + 1, k)), <<e, t[k + 1]>>)
           = RefAt(t, a) \o Append(Phased(e, SubSeq(t, a + 1, k)), <<e, t[k + 1]>>)
      <3>1. \A s, r \in Seq(Labelled), c \in Labelled : Append(s \o r, c) = s \o Append(r, c)
        OBVIOUS
      <3> QED BY <2>6, <2>7, <3>1
    <2> QED BY <2>1, <2>2, <2>3, <2>4, <2>5, <2>8
  <1>3. \A n \in Nat : n \in S
    <2>1. \A n \in Nat : n \in S => n + 1 \in S
      BY <1>2
    <2> HIDE DEF S
    <2> QED BY <1>1, <2>1, Induct, Zenon
  <1>4. z - a \in S
    <2> HIDE DEF S
    <2> QED BY <1>3
  <1> QED BY <1>4

(***************************************************************************)
(* Segments and chunks as labelled text.                                   *)
(***************************************************************************)

\* What FlattenSeq returns is a sequence of the elements.
LEMMA FlattenType ==
    ASSUME NEW X, NEW ss \in Seq(Seq(X))
    PROVE  FlattenSeq(ss) \in Seq(X) /\ (ss = <<>> => FlattenSeq(ss) = <<>>)
  <1>1. CASE Len(ss) = 0
    <2>1. ss = <<>>
      BY <1>1
    <2> QED BY <2>1 DEF FlattenSeq
  <1>2. CASE Len(ss) > 0
    <2>1. PICK g \in [1..Len(ss) -> Seq(X)] : FlattenSeq(ss) = g[Len(ss)]
      BY <1>2, FlattenAt
    <2>2. Len(ss) \in 1..Len(ss) /\ ss # <<>>
      BY <1>2
    <2> QED BY <2>1, <2>2
  <1> QED BY <1>1, <1>2

\* One sequence more at the end.
LEMMA FlattenAppend ==
    ASSUME NEW X, NEW ss \in Seq(Seq(X)), NEW x \in Seq(X)
    PROVE  FlattenSeq(Append(ss, x)) = FlattenSeq(ss) \o x
  <1> DEFINE n == Len(ss)
             tt == Append(ss, x)
  <1>1. tt \in Seq(Seq(X)) /\ Len(tt) = n + 1 /\ n \in Nat /\ tt[n + 1] = x /\
        \A i \in 1..n : tt[i] = ss[i]
    OBVIOUS
  <1> HIDE DEF tt, n
  <1>2. Len(tt) > 0
    BY <1>1
  <1>3. PICK h \in [1..Len(tt) -> Seq(X)] :
              /\ \A i \in 1..Len(tt) : h[i] = IF i = 1 THEN tt[i] ELSE h[i-1] \o tt[i]
              /\ FlattenSeq(tt) = h[Len(tt)]
    BY <1>1, <1>2, FlattenAt
  <1>4. \A i \in 1..(n + 1) : h[i] = IF i = 1 THEN tt[i] ELSE h[i-1] \o tt[i]
    BY <1>1, <1>3
  <1>5. CASE n = 0
    <2>1. ss = <<>> /\ FlattenSeq(tt) = x
      BY <1>1, <1>3, <1>4, <1>5 DEF n
    <2>2. FlattenSeq(ss) = <<>>
      BY <2>1, FlattenType
    <2>3. <<>> \o x = x
      OBVIOUS
    <2> QED BY <2>1, <2>2, <2>3 DEF tt
  <1>6. CASE n > 0
    <2>1. PICK g \in [1..n -> Seq(X)] :
              /\ \A i \in 1..n : g[i] = IF i = 1 THEN ss[i] ELSE g[i-1] \o ss[i]
              /\ FlattenSeq(ss) = g[n]
      BY <1>6, FlattenAt DEF n
    <2> DEFINE S == {k \in Nat : k \in 1..n => g[k] = h[k]}
    <2>2. 0 \in S
      OBVIOUS
    <2>3. ASSUME NEW k \in Nat, k \in S PROVE k + 1 \in S
      <3> SUFFICES ASSUME k + 1 \in 1..n PROVE g[k + 1] = h[k + 1]
        OBVIOUS
      <3>1. CASE k = 0
        <4>1. 1 \in 1..n /\ 1 \in 1..(n + 1)
          BY <1>1, <1>6
        <4>2. g[1] = ss[1]
          BY <2>1, <4>1
        <4>3. h[1] = tt[1]
          BY <1>4, <4>1
        <4>4. tt[1] = ss[1]
          BY <1>1, <4>1
        <4>5. k + 1 = 1
          BY <3>1
        <4> QED BY <4>2, <4>3, <4>4, <4>5
      <3>2. CASE k # 0
        <4>0. n \in Nat
          BY <1>1
        <4>1. k \in 1..n /\ (k + 1) - 1 = k /\ k + 1 # 1 /\ k + 1 \in 1..(n + 1)
          BY <3>2, <4>0
        <4>2. g[k] = h[k]
          BY <2>3, <4>1
        <4>3. g[k + 1] = g[k] \o ss[k + 1]
          BY <4>1, <2>1
        <4>4. h[k + 1] = h[k] \o tt[k + 1]
          BY <4>1, <1>4
        <4> QED BY <4>2, <4>3, <4>4, <1>1
      <3> QED BY <3>1, <3>2
    <2>4. \A k \in Nat : k \in S
      <3>1. \A k \in Nat : k \in S => k + 1 \in S
        BY <2>3
      <3> HIDE DEF S
      <3> QED BY <2>2, <3>1, Induct, Zenon
    <2>5. n \in S
      <3> HIDE DEF S
      <3> QED BY <2>4, <1>1
    <2>6. g[n] = h[n]
      BY <2>5, <1>6, <1>1
    <2>7. h[n + 1] = h[n] \o x
      <3>1. n + 1 \in 1..(n + 1) /\ n + 1 # 1 /\ (n + 1) - 1 = n
        BY <1>1, <1>6
      <3>2. h[n + 1] = h[n] \o tt[n + 1]
        BY <1>4, <3>1
      <3> QED BY <3>2, <1>1
    <2> QED BY <1>1, <1>3, <2>1, <2>6, <2>7 DEF tt
  <1>7. n = 0 \/ n > 0
    <2>1. n \in Nat
      BY <1>1
    <2> QED BY <2>1
  <1> QED BY <1>5, <1>6, <1>7, Zenon

\* One sequence more in front.
LEMMA FlattenCons ==
    ASSUME NEW X, NEW ss \in Seq(Seq(X)), NEW x \in Seq(X)
    PROVE  FlattenSeq(<<x>> \o ss) = x \o FlattenSeq(ss)
  <1> DEFINE n == Len(ss)
             tt == <<x>> \o ss
  <1>1. tt \in Seq(Seq(X)) /\ Len(tt) = n + 1 /\ n \in Nat /\ tt[1] = x /\ \A i \in 1..n :
        tt[i + 1] = ss[i]
    OBVIOUS
  <1> HIDE DEF tt, n
  <1>2. Len(tt) > 0
    BY <1>1
  <1>3. PICK h \in [1..Len(tt) -> Seq(X)] :
              /\ \A i \in 1..Len(tt) : h[i] = IF i = 1 THEN tt[i] ELSE h[i-1] \o tt[i]
              /\ FlattenSeq(tt) = h[Len(tt)]
    BY <1>1, <1>2, FlattenAt
  <1>4. \A i \in 1..(n + 1) : h[i] = IF i = 1 THEN tt[i] ELSE h[i-1] \o tt[i]
    BY <1>1, <1>3
  <1>5. CASE n = 0
    <2>1. ss = <<>> /\ FlattenSeq(tt) = x
      BY <1>1, <1>3, <1>4, <1>5 DEF n
    <2>2. FlattenSeq(ss) = <<>>
      BY <2>1, FlattenType
    <2>3. x \o <<>> = x
      OBVIOUS
    <2> QED BY <2>1, <2>2, <2>3 DEF tt
  <1>6. CASE n > 0
    <2>1. PICK g \in [1..n -> Seq(X)] :
              /\ \A i \in 1..n : g[i] = IF i = 1 THEN ss[i] ELSE g[i-1] \o ss[i]
              /\ FlattenSeq(ss) = g[n]
      BY <1>6, FlattenAt DEF n
    <2> DEFINE S == {k \in Nat : k \in 1..n => h[k + 1] = x \o g[k]}
    <2>2. 0 \in S
      OBVIOUS
    <2>3. ASSUME NEW k \in Nat, k \in S PROVE k + 1 \in S
      <3> SUFFICES ASSUME k + 1 \in 1..n PROVE h[k + 2] = x \o g[k + 1]
        OBVIOUS
      <3>0. h[k + 2] = h[k + 1] \o ss[k + 1]
        <4>1. k + 2 \in 1..(n + 1) /\ (k + 2) - 1 = k + 1 /\ k + 2 # 1 /\ tt[k + 2] = ss[k + 1]
          BY <1>1
        <4> QED BY <4>1, <1>4
      <3>1. CASE k = 0
        <4>1. h[1] = x /\ g[1] = ss[1]
          <5>1. 1 \in 1..n /\ 1 \in 1..(n + 1)
            BY <1>1, <1>6
          <5>2. g[1] = ss[1]
            BY <2>1, <5>1
          <5>3. h[1] = tt[1]
            BY <1>4, <5>1
          <5> QED BY <5>2, <5>3, <1>1
        <4>2. k + 1 = 1 /\ k + 2 = 2
          BY <3>1
        <4>3. h[2] = h[1] \o ss[1]
          BY <3>0, <4>2
        <4> QED BY <4>1, <4>2, <4>3
      <3>2. CASE k # 0
        <4>1. k \in 1..n /\ (k + 1) - 1 = k /\ k + 1 # 1
          <5>1. n \in Nat
            BY <1>1
          <5> QED BY <3>2, <5>1
        <4>2. h[k + 1] = x \o g[k]
          BY <2>3, <4>1
        <4>3. g[k + 1] = g[k] \o ss[k + 1]
          BY <4>1, <2>1
        <4>4. g[k] \in Seq(X) /\ ss[k + 1] \in Seq(X)
          <5>1. g[k] \in Seq(X)
            BY <4>1, <2>1
          <5>2. \A i \in 1..Len(ss) : ss[i] \in Seq(X)
            BY ElementOfSeq
          <5> QED BY <5>1, <5>2 DEF n
        <4>5. \A p, q, r \in Seq(X) : (p \o q) \o r = p \o (q \o r)
          OBVIOUS
        <4>6. (x \o g[k]) \o ss[k + 1] = x \o (g[k] \o ss[k + 1])
          BY <4>4, <4>5, Zenon
        <4> QED BY <3>0, <4>2, <4>3, <4>6, Zenon
      <3> QED BY <3>1, <3>2
    <2>4. \A k \in Nat : k \in S
      <3>1. \A k \in Nat : k \in S => k + 1 \in S
        BY <2>3
      <3> HIDE DEF S
      <3> QED BY <2>2, <3>1, Induct, Zenon
    <2>5. n \in S
      <3> HIDE DEF S
      <3> QED BY <2>4, <1>1
    <2>6. h[n + 1] = x \o g[n]
      BY <2>5, <1>6, <1>1
    <2> QED BY <1>1, <1>3, <2>1, <2>6 DEF tt
  <1>7. n = 0 \/ n > 0
    <2>1. n \in Nat
      BY <1>1
    <2> QED BY <2>1
  <1> QED BY <1>5, <1>6, <1>7, Zenon

\* The labelled symbols of a sequence of segments or of chunks.
Flat(ss) == FlattenSeq([i \in DOMAIN ss |-> Phased(ss[i][1], ss[i][2])])
Labels == {"Unknown", "Analysis", "Final"}
Marked == Labels \X Symbols
SegmentSet == Phases \X Seq(Symbols)
Chunks == Labels \X Seq(Symbols) \X BOOLEAN

\* Flat of one segment or chunk more, at either end.
LEMMA FlatFacts ==
    ASSUME NEW Y, NEW ss \in Seq(Y), NEW y \in Y,
           \A z \in Y : z[1] \in Labels /\ z[2] \in Seq(Symbols)
    PROVE  /\ Flat(ss) \in Seq(Marked)
           /\ Flat(<<>>) = <<>>
           /\ Flat(Append(ss, y)) = Flat(ss) \o Phased(y[1], y[2])
           /\ Flat(<<y>> \o ss) = Phased(y[1], y[2]) \o Flat(ss)
  <1> DEFINE L(qq) == [i \in DOMAIN qq |-> Phased(qq[i][1], qq[i][2])]
  <1>1. \A z \in Y : Phased(z[1], z[2]) \in Seq(Marked)
    <2> SUFFICES ASSUME NEW z \in Y PROVE Phased(z[1], z[2]) \in Seq(Marked)
      OBVIOUS
    <2>1. z[1] \in Labels /\ z[2] \in Seq(Symbols)
      OBVIOUS
    <2> QED BY <2>1, PhasedFacts, Zenon DEF Marked
  <1>2. \A qq \in Seq(Y) : L(qq) \in Seq(Seq(Marked)) /\ Len(L(qq)) = Len(qq)
    <2> DEFINE T == Seq(Marked)
               P(z) == Phased(z[1], z[2])
    <2>1. \A z \in Y : P(z) \in T
      BY <1>1
    <2> HIDE DEF T, P
    <2>2. \A qq \in Seq(Y) : [i \in DOMAIN qq |-> P(qq[i])] \in Seq(T) /\
          Len([i \in DOMAIN qq |-> P(qq[i])]) = Len(qq)
      BY <2>1
    <2> QED BY <2>2 DEF T, P
  <1>3. L(Append(ss, y)) = Append(L(ss), Phased(y[1], y[2]))
    <2> DEFINE P(z) == Phased(z[1], z[2])
    <2> HIDE DEF P
    <2>1. [i \in DOMAIN Append(ss, y) |-> P(Append(ss, y)[i])] =
          Append([i \in DOMAIN ss |-> P(ss[i])], P(y))
      OBVIOUS
    <2> QED BY <2>1 DEF P
  <1>4. L(<<y>> \o ss) = <<Phased(y[1], y[2])>> \o L(ss)
    <2> DEFINE P(z) == Phased(z[1], z[2])
    <2> HIDE DEF P
    <2>1. [i \in DOMAIN (<<y>> \o ss) |-> P((<<y>> \o ss)[i])] = <<P(y)>> \o
          [i \in DOMAIN ss |-> P(ss[i])]
      OBVIOUS
    <2> QED BY <2>1 DEF P
  <1>5. L(<<>>) = <<>>
    OBVIOUS
  <1>6. L(ss) \in Seq(Seq(Marked)) /\ Phased(y[1], y[2]) \in Seq(Marked) /\
        <<>> \in Seq(Seq(Marked))
    BY <1>1, <1>2
  <1>7. \A qq : Flat(qq) = FlattenSeq(L(qq))
    BY DEF Flat
  <1> HIDE DEF L
  <1>8. FlattenSeq(L(ss)) \in Seq(Marked) /\ FlattenSeq(<<>>) = <<>>
    BY <1>6, FlattenType
  <1>9. FlattenSeq(Append(L(ss), Phased(y[1], y[2]))) = FlattenSeq(L(ss)) \o Phased(y[1], y[2])
    BY <1>6, FlattenAppend
  <1>10. FlattenSeq(<<Phased(y[1], y[2])>> \o L(ss)) = Phased(y[1], y[2]) \o FlattenSeq(L(ss))
    BY <1>6, FlattenCons
  <1> QED BY <1>3, <1>4, <1>5, <1>7, <1>8, <1>9, <1>10

(***************************************************************************)
(* The loop of push: its markers, its carry and its recursion.             *)
(***************************************************************************)

\* Max of a set that has a greatest element.
LEMMA MaxIs ==
    ASSUME NEW T \in SUBSET Int, NEW x \in T, \A y \in T : x >= y
    PROVE  Max(T) \in T /\ \A y \in T : Max(T) >= y
  <1>1. \E z \in T : \A y \in T : z >= y
    OBVIOUS
  <1> QED BY <1>1 DEF Max

\* NextMarker is a marker, and no marker begins before it.
LEMMA MarkerMin ==
    ASSUME NEW rest \in Seq(Symbols), Markers(rest) # {}
    PROVE  /\ NextMarker(rest) \in Markers(rest)
           /\ \A o \in Markers(rest) : NextMarker(rest)[1] <= o[1]
  <1> DEFINE T == {o[1] : o \in Markers(rest)}
  <1>1. \A o \in Markers(rest) : o[1] \in 1..Len(rest)
    BY DEF Markers
  <1>2. T \in SUBSET Nat /\ T # {}
    BY <1>1
  <1>3. PICK x \in T : \A y \in T : x <= y
    BY <1>2, Least
  <1>4. \E m \in Markers(rest) : \A o \in Markers(rest) : m[1] <= o[1]
    BY <1>3
  <1> HIDE DEF T
  <1> QED BY <1>4 DEF NextMarker

\* A marker lies in the text, and without line markers it is a tag and switches to
\* the tag's phase.
LEMMA MarkerIs ==
    ASSUME NEW rest \in Seq(Symbols), NEW m \in Markers(rest)
    PROVE  /\ m[1] \in 1..Len(rest) /\ m[2] \in Phases /\ m[3] \in {1, 2}
           /\ m[1] + m[3] <= Len(rest) + 1
           /\ (\A i \in 1..Len(rest) : rest[i] # "M")
                 => m[3] = 2 /\ Tag(rest, m[1]) /\ m[2] = Turn(rest, m[1])
  <1>1. CASE \E i \in DOMAIN rest : TagAt(rest, i, "A>") /\ m = <<i, "Analysis", 2>>
    BY <1>1 DEF TagAt, Tag, Turn, Phases
  <1>2. CASE \E i \in DOMAIN rest : TagAt(rest, i, "F>") /\ m = <<i, "Final", 2>>
    BY <1>2 DEF TagAt, Tag, Turn, Phases
  <1>3. CASE \E i \in DOMAIN rest : LineAt(rest, i) /\ m = <<i, "Analysis", 1>>
    BY <1>3 DEF LineAt, Phases
  <1> QED BY <1>1, <1>2, <1>3 DEF Markers

\* Every tag is a marker.
LEMMA MarkerAll ==
    ASSUME NEW rest \in Seq(Symbols), NEW i \in 1..Len(rest), Tag(rest, i)
    PROVE  \E m \in Markers(rest) : m[1] = i
  <1>1. CASE TagAt(rest, i, "A>")
    <2>1. <<i, "Analysis", 2>> \in Markers(rest)
      BY <1>1 DEF Markers
    <2> QED BY <2>1
  <1>2. CASE TagAt(rest, i, "F>")
    <2>1. <<i, "Final", 2>> \in Markers(rest)
      BY <1>2 DEF Markers
    <2> QED BY <2>1
  <1> QED BY <1>1, <1>2 DEF Tag

\* What split_tail_for_carry holds back is at most two symbols, is the beginning of a
\* marker, and is not empty when the tail ends in the first half of a tag.
LEMMA CarryFacts ==
    ASSUME NEW tail \in Seq(Symbols)
    PROVE  /\ CarryLen(tail) \in 0..2 /\ CarryLen(tail) <= Len(tail)
           /\ CarryLen(tail) # 0 =>
                SubSeq(tail, Len(tail) - CarryLen(tail) + 1, Len(tail)) \in MarkerStarts
           /\ Len(tail) > 0 /\ tail[Len(tail)] = "<" => CarryLen(tail) # 0
  <1> DEFINE End(l) == SubSeq(tail, Len(tail) - l + 1, Len(tail))
             B == Min({2, Len(tail)})
             T == {0} \cup {l \in 1..B : End(l) \in MarkerStarts}
  <1>1. Len(tail) \in Nat
    OBVIOUS
  <1>2. B \in 0..2 /\ B <= Len(tail) /\ (Len(tail) > 0 => B >= 1)
    <2>1. CASE Len(tail) <= 2
      <3>1. Min({2, Len(tail)}) = Len(tail)
        BY <1>1, <2>1 DEF Min
      <3> QED BY <3>1, <2>1, <1>1
    <2>2. CASE Len(tail) > 2
      <3>1. Min({2, Len(tail)}) = 2
        BY <1>1, <2>2 DEF Min
      <3> QED BY <3>1, <2>2, <1>1
    <2> QED BY <1>1, <2>1, <2>2
  <1>3. CarryLen(tail) = Max(T)
    BY DEF CarryLen
  <1> HIDE DEF B
  <1>4. T \in SUBSET (0..2) /\ T \in SUBSET Int
    BY <1>2
  <1>5. Max(T) \in T /\ \A y \in T : Max(T) >= y
    <2> HIDE DEF T
    <2>1. \E x \in T : \A y \in T : x >= y
      <3>1. CASE 2 \in T
        BY <3>1, <1>4
      <3>2. CASE 2 \notin T /\ 1 \in T
        BY <3>2, <1>4
      <3>3. CASE 2 \notin T /\ 1 \notin T
        <4>1. 0 \in T
          BY DEF T
        <4> QED BY <3>3, <4>1, <1>4
      <3> QED BY <3>1, <3>2, <3>3
    <2> QED BY <2>1, <1>4, MaxIs
  <1>6. CarryLen(tail) \in T /\ \A y \in T : CarryLen(tail) >= y
    BY <1>3, <1>5
  <1>7. CarryLen(tail) \in 0..2 /\ CarryLen(tail) <= Len(tail)
    BY <1>6, <1>2, <1>1
  <1>8. CarryLen(tail) # 0 => End(CarryLen(tail)) \in MarkerStarts
    <2>1. \A l \in T : l # 0 => End(l) \in MarkerStarts
      OBVIOUS
    <2> HIDE DEF T, End
    <2> QED BY <2>1, <1>6
  <1>9. ASSUME Len(tail) > 0, tail[Len(tail)] = "<" PROVE CarryLen(tail) # 0
    <2>1. End(1) = <<"<">>
      <3>1. Len(tail) - 1 + 1 = Len(tail)
        BY <1>1
      <3>2. SubSeq(tail, Len(tail), Len(tail)) = <<tail[Len(tail)]>>
        <4>1. \A x \in Seq(Symbols) : \A k \in 1..Len(x) :
                 SubSeq(x, k, k) \in Seq(Symbols) /\ Len(SubSeq(x, k, k)) = 1 /\
                     SubSeq(x, k, k)[1] = x[k]
          OBVIOUS
        <4>a. Len(tail) \in 1..Len(tail)
          BY <1>1, <1>9
        <4>2. PICK q \in Seq(Symbols) : /\ q = SubSeq(tail, Len(tail), Len(tail))
                                        /\ Len(q) = 1 /\ q[1] = tail[Len(tail)]
          BY <4>1, <4>a
        <4>b. \A y \in Seq(Symbols) : Len(y) = 1 => y = <<y[1]>>
          OBVIOUS
        <4>3. q = <<q[1]>>
          BY <4>2, <4>b, Zenon
        <4> QED BY <4>2, <4>3
      <3> QED BY <1>9, <3>1, <3>2
    <2>2. 1 \in T
      BY <2>1, <1>2, <1>9 DEF MarkerStarts
    <2> HIDE DEF T
    <2> QED BY <2>2, <1>6, <1>7
  <1> QED BY <1>7, <1>8, <1>9

\* What is left of c from position p on, and a segment of it.
RestOf(c, p) == SubSeq(c, p, Len(c))
SegOf(ph, s) == IF s = <<>> THEN <<>> ELSE <<<<ph, s>>>>

\* The last segment, and the segment in front of a marker.
LastPart(c, p, ph) ==
  IF p > Len(c) THEN [out |-> <<>>, phase |-> ph, carry |-> <<>>]
  ELSE [out |-> SegOf(ph, SubSeq(c, p, Len(c) - CarryLen(RestOf(c, p)))), phase |-> ph,
        carry |-> SubSeq(c, Len(c) - CarryLen(RestOf(c, p)) + 1, Len(c))]
MarkAt(c, p) == p + NextMarker(RestOf(c, p))[1] - 1
PastMark(c, p) == MarkAt(c, p) + NextMarker(RestOf(c, p))[3]
BeforeMark(c, p, ph, r) ==
  [r EXCEPT !.out = SegOf(ph, SubSeq(c, p, MarkAt(c, p) - 1)) \o @]
Ends(c, p) == p > Len(c) \/ Markers(RestOf(c, p)) = {}

\* One turn of the loop of push, from position p in each phase.
SegStep(c, g) ==
  [p \in 1..(Len(c) + 1) |->
    [ph \in Phases |->
      IF Ends(c, p) THEN LastPart(c, p, ph)
      ELSE BeforeMark(c, p, ph, g[PastMark(c, p)][NextMarker(RestOf(c, p))[2]])]]

\* The recursion of Segments.
SegBody(combined, from) ==
    LET Rest(p) == SubSeq(combined, p, Len(combined))
        Seg(ph, s) == IF s = <<>> THEN <<>> ELSE <<<<ph, s>>>>
    IN
        [p \in 1..(Len(combined) + 1) |->
            [ph \in Phases |->
             IF p > Len(combined) THEN [out |-> <<>>, phase |-> ph, carry |-> <<>>]
             ELSE IF Markers(Rest(p)) = {}
             THEN LET n == CarryLen(Rest(p)) IN
                  [out |-> Seg(ph, SubSeq(combined, p, Len(combined) - n)), phase |-> ph,
                   carry |-> SubSeq(combined, Len(combined) - n + 1, Len(combined))]
             ELSE LET m == NextMarker(Rest(p))
                      at == p + m[1] - 1
                      next == from[at + m[3]][m[2]]
                  IN  [next EXCEPT !.out = Seg(ph, SubSeq(combined, p, at - 1)) \o @]]]

\* The function that Segments defines.
SegF(c) == CHOOSE g : g = SegBody(c, g)

\* Segments is the value of that function at the first symbol.
LEMMA SegTop == ASSUME NEW c, NEW ph PROVE Segments(c, ph) = SegF(c)[1][ph]
  BY DEF Segments, SegF, SegBody

\* The body of the loop in the words of the definitions above.
LEMMA SegSame == ASSUME NEW c, NEW g PROVE SegBody(c, g) = SegStep(c, g)
  BY DEF SegBody, SegStep, Ends, LastPart, BeforeMark, PastMark, MarkAt, SegOf, RestOf

\* What push returns.
SegRec == [out : Seq(SegmentSet), phase : Phases, carry : Seq(Symbols)]

\* The symbols of the rest.
LEMMA RestFacts ==
    ASSUME NEW c \in Seq(Symbols), NEW p \in 1..Len(c)
    PROVE  /\ RestOf(c, p) \in Seq(Symbols) /\ Len(RestOf(c, p)) = Len(c) - p + 1
           /\ \A i \in 1..(Len(c) - p + 1) : RestOf(c, p)[i] = c[p + i - 1]
  BY DEF RestOf

\* A segment, or none when there is no text.
LEMMA SegOfType ==
    ASSUME NEW ph \in Phases, NEW s \in Seq(Symbols)
    PROVE  SegOf(ph, s) \in Seq(SegmentSet)
  <1>1. <<ph, s>> \in SegmentSet
    BY DEF SegmentSet
  <1>2. <<<<ph, s>>>> \in Seq(SegmentSet)
    BY <1>1
  <1> QED BY <1>2 DEF SegOf

\* What push returns at the end of the loop is a result.
LEMMA LastPartType ==
    ASSUME NEW c \in Seq(Symbols), NEW p \in 1..(Len(c) + 1), NEW ph \in Phases
    PROVE  LastPart(c, p, ph) \in SegRec
  <1>1. CASE p > Len(c)
    BY <1>1 DEF LastPart, SegRec
  <1>2. CASE p <= Len(c)
    <2>1. RestOf(c, p) \in Seq(Symbols) /\ Len(RestOf(c, p)) = Len(c) - p + 1
      BY <1>2, RestFacts
    <2>2. PICK n \in 0..2 : n = CarryLen(RestOf(c, p)) /\ n <= Len(c) - p + 1
      BY <2>1, CarryFacts
    <2>3. SubSeq(c, p, Len(c) - n) \in Seq(Symbols) /\
          SubSeq(c, Len(c) - n + 1, Len(c)) \in Seq(Symbols)
      BY <1>2, <2>2
    <2>4. \A s \in Seq(Symbols) : SegOf(ph, s) \in Seq(SegmentSet)
      BY SegOfType
    <2>5. SegOf(ph, SubSeq(c, p, Len(c) - n)) \in Seq(SegmentSet)
      BY <2>3, <2>4
    <2>6. LastPart(c, p, ph) = [out |-> SegOf(ph, SubSeq(c, p, Len(c) - n)), phase |-> ph,
                                carry |-> SubSeq(c, Len(c) - n + 1, Len(c))]
      BY <1>2, <2>2 DEF LastPart
    <2> QED BY <2>3, <2>5, <2>6 DEF SegRec
  <1> QED BY <1>1, <1>2

\* The loop goes on behind the marker, in the text and further than it was.
LEMMA MarkFacts ==
    ASSUME NEW c \in Seq(Symbols), NEW p \in 1..(Len(c) + 1), ~Ends(c, p)
    PROVE  /\ p <= Len(c) /\ MarkAt(c, p) \in p..Len(c)
           /\ PastMark(c, p) \in (p + 1)..(Len(c) + 1)
           /\ NextMarker(RestOf(c, p))[2] \in Phases
  <1>1. p \in 1..Len(c) /\ Markers(RestOf(c, p)) # {}
    BY DEF Ends
  <1>2. RestOf(c, p) \in Seq(Symbols) /\ Len(RestOf(c, p)) = Len(c) - p + 1
    BY <1>1, RestFacts
  <1>3. NextMarker(RestOf(c, p)) \in Markers(RestOf(c, p))
    BY <1>1, <1>2, MarkerMin
  <1>4. PICK m : m = NextMarker(RestOf(c, p))
    OBVIOUS
  <1>5. m[1] \in 1..Len(RestOf(c, p)) /\ m[2] \in Phases /\ m[3] \in {1, 2}
        /\ m[1] + m[3] <= Len(RestOf(c, p)) + 1
    BY <1>2, <1>3, <1>4, MarkerIs
  <1>6. m[1] \in 1..(Len(c) - p + 1) /\ m[1] + m[3] <= Len(c) - p + 2
    BY <1>2, <1>5
  <1>7. MarkAt(c, p) = p + m[1] - 1 /\ PastMark(c, p) = p + m[1] - 1 + m[3]
    BY <1>4 DEF MarkAt, PastMark
  <1>8. m[1] \in Nat /\ m[3] \in Nat /\ Len(c) \in Nat /\ p <= Len(c) /\ m[3] >= 1 /\ m[1] >= 1
    <2>1. Len(c) \in Nat /\ p \in Nat /\ p <= Len(c)
      BY <1>1
    <2>2. m[3] \in Nat /\ m[3] >= 1
      BY <1>5
    <2>3. m[1] \in Nat /\ m[1] >= 1
      BY <1>6, <2>1
    <2> QED BY <2>1, <2>2, <2>3
  <1>9. p + m[1] - 1 \in p..Len(c) /\ p + m[1] - 1 + m[3] \in (p + 1)..(Len(c) + 1)
    <2>1. \A x, y, l, q \in Nat : x >= 1 /\ y >= 1 /\ x <= l - q + 1 /\ x + y <= l - q + 2 =>
             q + x - 1 \in q..l /\ q + x - 1 + y \in (q + 1)..(l + 1)
      OBVIOUS
    <2>2. m[1] <= Len(c) - p + 1 /\ p \in Nat
      BY <1>6, <1>8
    <2> QED BY <1>6, <1>8, <2>1, <2>2
  <1> QED BY <1>4, <1>5, <1>7, <1>8, <1>9

\* The segment before a marker comes first, the rest of the result is the loop's.
LEMMA BeforeMarkType ==
    ASSUME NEW c \in Seq(Symbols), NEW p \in 1..(Len(c) + 1), ~Ends(c, p),
           NEW ph \in Phases, NEW r \in SegRec
    PROVE  /\ BeforeMark(c, p, ph, r) \in SegRec
           /\ BeforeMark(c, p, ph, r).out = SegOf(ph, SubSeq(c, p, MarkAt(c, p) - 1)) \o r.out
           /\ BeforeMark(c, p, ph, r).phase = r.phase
           /\ BeforeMark(c, p, ph, r).carry = r.carry
  <1>1. MarkAt(c, p) \in p..Len(c)
    BY MarkFacts
  <1>2. SubSeq(c, p, MarkAt(c, p) - 1) \in Seq(Symbols)
    BY <1>1
  <1>3. \A s \in Seq(Symbols) : SegOf(ph, s) \in Seq(SegmentSet)
    BY SegOfType
  <1>4. PICK q \in Seq(SegmentSet) : q = SegOf(ph, SubSeq(c, p, MarkAt(c, p) - 1))
    BY <1>2, <1>3
  <1>5. BeforeMark(c, p, ph, r) = [r EXCEPT !.out = q \o @]
    BY <1>4 DEF BeforeMark
  <1>6. r.out \in Seq(SegmentSet)
    BY DEF SegRec
  <1>7. q \o r.out \in Seq(SegmentSet)
    BY <1>6
  <1> QED BY <1>4, <1>5, <1>7 DEF SegRec

\* The loop of push descends, so that its function is what it says.
LEMMA SegBodyFacts ==
    ASSUME NEW c \in Seq(Symbols)
    PROVE  /\ SegF(c) \in [1..(Len(c) + 1) -> [Phases -> SegRec]]
           /\ SegF(c) = SegStep(c, SegF(c))
  <1> DEFINE n == Len(c)
             D == 1..(n + 1)
             R == [Phases -> SegRec]
             Stop == {p \in D : Ends(c, p)}
             m == [p \in D |-> n + 1 - p]
             b == [p \in D |-> [ph \in Phases |-> LastPart(c, p, ph)]]
             nx == [p \in D |-> IF p \in Stop THEN p ELSE PastMark(c, p)]
             To(p) == NextMarker(RestOf(c, p))[2]
             st == [q \in D \X R |-> IF q[1] \in Stop THEN q[2]
                                     ELSE [ph \in Phases |-> BeforeMark(c, q[1], ph,
                                         q[2][To(q[1])])]]
  <1>0. n \in Nat
    OBVIOUS
  <1>1. n + 1 \in Nat /\ m \in [D -> 0..(n + 1)]
    BY <1>0
  <1>2. b \in [D -> R]
    BY LastPartType
  <1>3. \A p \in D \ Stop : PastMark(c, p) \in D /\ PastMark(c, p) > p /\ To(p) \in Phases
    BY MarkFacts
  <1>4. nx \in [D -> D]
    BY <1>3
  <1>5. Descends(D, Stop, nx, m)
    BY <1>3 DEF Descends
  <1>6. ASSUME NEW q \in D \X R PROVE st[q] \in R
    <2>1. q[1] \in D /\ q[2] \in R
      OBVIOUS
    <2>2. CASE q[1] \in Stop
      BY <2>1, <2>2
    <2>3. CASE q[1] \notin Stop
      <3>1. ~Ends(c, q[1]) /\ q[2][To(q[1])] \in SegRec
        BY <2>1, <2>3, <1>3
      <3>2. \A ph \in Phases : BeforeMark(c, q[1], ph, q[2][To(q[1])]) \in SegRec
        BY <2>1, <3>1, BeforeMarkType
      <3>3. st[q] = [ph \in Phases |-> BeforeMark(c, q[1], ph, q[2][To(q[1])])]
        BY <2>3
      <3> QED BY <3>2, <3>3
    <2> QED BY <2>2, <2>3
  <1>7. st \in [D \X R -> R]
    BY <1>6
  <1>8. \E g \in [D -> R] : Solves(g, D, R, Stop, b, nx, st)
    <2> HIDE DEF n, D, R, m, b, nx, st, Stop
    <2> QED BY <1>1, <1>2, <1>4, <1>5, <1>7, RecursionExists, Zenon
  <1>9. PICK g \in [D -> R] : Solves(g, D, R, Stop, b, nx, st)
    BY <1>8
  <1>10. \A h : \A p \in D : h[nx[p]] \in R =>
           SegStep(c, h)[p] = IF p \in Stop THEN b[p] ELSE st[<<p, h[nx[p]]>>]
    <2> SUFFICES ASSUME NEW h, NEW p \in D, h[nx[p]] \in R
                 PROVE  SegStep(c, h)[p] = IF p \in Stop THEN b[p] ELSE st[<<p, h[nx[p]]>>]
      OBVIOUS
    <2>1. CASE p \in Stop
      BY <2>1 DEF SegStep
    <2>2. CASE p \notin Stop
      <3>1. <<p, h[nx[p]]>> \in D \X R
        OBVIOUS
      <3>2. st[<<p, h[nx[p]]>>] = [ph \in Phases |-> BeforeMark(c, p, ph, h[nx[p]][To(p)])]
        BY <2>2, <3>1
      <3>3. SegStep(c, h)[p] = [ph \in Phases |-> BeforeMark(c, p, ph,
            h[PastMark(c, p)][To(p)])]
        BY <2>2 DEF SegStep
      <3>4. nx[p] = PastMark(c, p)
        BY <2>2
      <3> HIDE DEF st, nx, D, R, Stop, To
      <3> QED BY <2>2, <3>2, <3>3, <3>4
    <2> QED BY <2>1, <2>2
  <1>11. \A h : SegStep(c, h) = [p \in D |-> SegStep(c, h)[p]]
    BY DEF SegStep
  <1>12. g = SegStep(c, g)
    <2>1. ASSUME NEW p \in D PROVE g[p] = SegStep(c, g)[p]
      <3>1. g[nx[p]] \in R
        BY <1>4
      <3>2. g[p] = IF p \in Stop THEN b[p] ELSE st[<<p, g[nx[p]]>>]
        BY <1>9, <3>1 DEF Solves
      <3> HIDE DEF st, nx, b, D, R, Stop
      <3> QED BY <3>1, <3>2, <1>10
    <2> HIDE DEF D, R
    <2> QED BY <2>1, <1>11
  <1>13. SegF(c) = SegStep(c, SegF(c))
    <2>1. g = SegBody(c, g)
      BY <1>12, SegSame
    <2>2. SegF(c) = SegBody(c, SegF(c))
      BY <2>1, Zenon DEF SegF
    <2> QED BY <2>2, SegSame
  <1> DEFINE f == SegF(c)
  <1>14. Solves(f, D, R, Stop, b, nx, st)
    <2> HIDE DEF st, nx, b, D, R, Stop, f
    <2> SUFFICES ASSUME NEW p \in D
                 PROVE  /\ p \in Stop => f[p] = b[p]
                        /\ p \notin Stop /\ f[nx[p]] \in R => f[p] = st[<<p, f[nx[p]]>>]
      BY DEF Solves
    <2>1. f[p] = SegStep(c, f)[p]
      BY <1>13 DEF f
    <2>2. CASE p \in Stop
      <3>1. SegStep(c, f)[p] = b[p]
        BY <2>2 DEF SegStep, b, Stop, D
      <3> QED BY <2>1, <2>2, <3>1
    <2>3. CASE p \notin Stop
      BY <2>1, <2>3, <1>10
    <2> QED BY <2>2, <2>3
  <1>15. \A d \in D : f[d] \in R
    <2> HIDE DEF n, D, R, m, b, nx, st, f, Stop
    <2> QED BY <1>1, <1>2, <1>4, <1>5, <1>7, <1>14, RecursionTyped, Zenon
  <1>16. f = [p \in D |-> f[p]]
    BY <1>11, <1>13
  <1>17. f \in [D -> R]
    <2> HIDE DEF f
    <2> QED BY <1>15, <1>16
  <1> QED BY <1>13, <1>17

\* The reference returns labelled symbols.
LEMMA RefAtType ==
    ASSUME NEW t \in Seq(Symbols), NEW k \in 0..Len(t)
    PROVE  RefAt(t, k) \in Seq(Marked)
  <1>1. Prefix(t, k) \in Seq(Symbols)
    BY PrefixFacts
  <1>2. RefF(Prefix(t, k)) \in [1..(Len(Prefix(t, k)) + 2) -> [Phases -> Seq(Labelled)]]
    BY <1>1, RefBody
  <1>3. Len(Prefix(t, k)) \in Nat
    BY <1>1
  <1>4. RefAt(t, k) \in Seq(Labelled)
    BY <1>2, <1>3, RefTop DEF RefAt, Phases
  <1>5. Labelled \subseteq Marked
    BY DEF Labelled, Marked, Phases, Labels
  <1> QED BY <1>4, <1>5, SeqMonotonic

\* Segments carry a phase and a text.
LEMMA SegmentsLabelled == \A z \in SegmentSet : z[1] \in Labels /\ z[2] \in Seq(Symbols)
  BY DEF SegmentSet, Labels, Phases

\* A segment in front of others.
LEMMA FlatSeg ==
    ASSUME NEW ph \in Phases, NEW s \in Seq(Symbols), NEW out \in Seq(SegmentSet)
    PROVE  /\ SegOf(ph, s) \o out \in Seq(SegmentSet)
           /\ Flat(SegOf(ph, s) \o out) = Phased(ph, s) \o Flat(out)
           /\ Flat(SegOf(ph, s)) = Phased(ph, s)
           /\ Phased(ph, s) \in Seq(Marked) /\ Flat(out) \in Seq(Marked)
  <1>0. ph \in Labels
    BY DEF Phases, Labels
  <1>1. Phased(ph, s) \in Seq(Marked)
    BY <1>0, PhasedFacts, Zenon DEF Marked
  <1> DEFINE y == <<ph, s>>
  <1>2. y \in SegmentSet /\ y[1] = ph /\ y[2] = s
    BY DEF SegmentSet
  <1>3. /\ Flat(out) \in Seq(Marked)
        /\ Flat(<<>>) = <<>>
        /\ Flat(<<y>> \o out) = Phased(y[1], y[2]) \o Flat(out)
    <2> HIDE DEF y
    <2> QED BY <1>2, SegmentsLabelled, FlatFacts
  <1>4. Flat(<<y>> \o <<>>) = Phased(y[1], y[2]) \o Flat(<<>>)
    <2>1. <<>> \in Seq(SegmentSet)
      OBVIOUS
    <2> HIDE DEF y
    <2> QED BY <1>2, <2>1, SegmentsLabelled, FlatFacts
  <1>5. \A q \in Seq(Marked) : q \o <<>> = q /\ <<>> \o q = q
    OBVIOUS
  <1>6. \A q \in Seq(SegmentSet) : <<>> \o q = q
    OBVIOUS
  <1>7. CASE s = <<>>
    <2>1. SegOf(ph, s) = <<>> /\ Phased(ph, s) = <<>>
      BY <1>7 DEF SegOf, Phased
    <2> QED BY <2>1, <1>1, <1>3, <1>5, <1>6
  <1>8. CASE s # <<>>
    <2>1. SegOf(ph, s) = <<y>>
      BY <1>8 DEF SegOf
    <2>2. \A q \in SegmentSet : <<q>> \o <<>> = <<q>> /\ \A x \in Seq(SegmentSet) :
          <<q>> \o x \in Seq(SegmentSet)
      OBVIOUS
    <2>3. <<y>> \o <<>> = <<y>> /\ <<y>> \o out \in Seq(SegmentSet)
      BY <1>2, <2>2
    <2>4. Flat(<<y>>) = Phased(ph, s)
      BY <1>1, <1>2, <1>3, <1>4, <1>5, <2>3
    <2> HIDE DEF y
    <2> QED BY <1>1, <1>2, <1>3, <2>1, <2>3, <2>4
  <1> QED BY <1>7, <1>8

\* No segment and no chunk has text.
LEMMA FlatNone == Flat(<<>>) = <<>>
  <1>1. <<>> \in Seq(Symbols) /\ <<>> \in Seq(SegmentSet)
    OBVIOUS
  <1> DEFINE y == <<"Final", <<>>>>
  <1>2. y \in SegmentSet
    BY <1>1 DEF SegmentSet, Phases
  <1> HIDE DEF y
  <1> QED BY <1>1, <1>2, SegmentsLabelled, FlatFacts

(***************************************************************************)
(* The loop against the reference: c is the end of the text t that push    *)
(* works on.                                                               *)
(***************************************************************************)

\* c is what follows the first o symbols of t.
EndOf(t, o, c) ==
  /\ Len(c) = Len(t) - o
  /\ \A i \in 1..Len(c) : c[i] = t[o + i]

\* The rest of c has the symbols, tags and phases of t where c lies.
LEMMA RestTags ==
    ASSUME NEW t \in Seq(Symbols), NoLine(t), NEW o \in 0..Len(t), NEW c \in Seq(Symbols),
           EndOf(t, o, c), NEW p \in 1..Len(c)
    PROVE  /\ RestOf(c, p) \in Seq(Symbols) /\ Len(RestOf(c, p)) = Len(c) - p + 1
           /\ NoLine(RestOf(c, p))
           /\ \A i \in 1..(Len(c) - p + 1) :
                /\ RestOf(c, p)[i] = t[o + p - 1 + i]
                /\ Tag(RestOf(c, p), i) <=> Tag(t, o + p - 1 + i)
                /\ Turn(RestOf(c, p), i) = Turn(t, o + p - 1 + i)
  <1> DEFINE k == o + p - 1
             n == Len(c) - p + 1
  <1>1. PICK r \in Seq(Symbols) : r = RestOf(c, p) /\ Len(r) = n /\ \A i \in 1..n :
             r[i] = c[p + i - 1]
    BY RestFacts
  <1>2. k \in Nat /\ n \in Nat /\ k + n = Len(t)
    BY DEF EndOf
  <1>3. \A i \in 1..n : r[i] = t[k + i]
    <2> SUFFICES ASSUME NEW i \in 1..n PROVE r[i] = t[k + i]
      OBVIOUS
    <2>1. p + i - 1 \in 1..Len(c) /\ o + (p + i - 1) = k + i
      OBVIOUS
    <2>2. c[p + i - 1] = t[o + (p + i - 1)]
      BY <2>1 DEF EndOf
    <2> QED BY <1>1, <2>1, <2>2
  <1> HIDE DEF k, n
  <1>4. \A i \in 1..n : k + i \in 1..Len(t)
    BY <1>2
  <1>5. NoLine(r)
    BY <1>1, <1>3, <1>4 DEF NoLine
  <1>6. ASSUME NEW i \in 1..n, NEW half PROVE TagAt(r, i, half) <=> TagAt(t, k + i, half)
    <2>1. CASE i = n
      <3>1. ~(i < Len(r)) /\ ~(k + i < Len(t))
        BY <1>1, <1>2, <2>1
      <3> QED BY <3>1 DEF TagAt
    <2>2. CASE i # n
      <3>1. i < Len(r) /\ k + i < Len(t) /\ i + 1 \in 1..n /\ k + i + 1 = k + (i + 1)
        BY <1>1, <1>2, <2>2
      <3>2. r[i] = t[k + i] /\ r[i + 1] = t[k + i + 1]
        BY <1>3, <3>1
      <3> QED BY <3>1, <3>2 DEF TagAt
    <2> QED BY <2>1, <2>2
  <1>7. \A i \in 1..n : (Tag(r, i) <=> Tag(t, k + i)) /\ Turn(r, i) = Turn(t, k + i)
    BY <1>6 DEF Tag, Turn
  <1> QED BY <1>1, <1>3, <1>5, <1>7 DEF k, n

\* A stretch of c is a stretch of t.
LEMMA SubSeqEnd ==
    ASSUME NEW t \in Seq(Symbols), NEW o \in 0..Len(t), NEW c \in Seq(Symbols),
           EndOf(t, o, c), NEW p \in 1..(Len(c) + 1), NEW q \in (p - 1)..Len(c)
    PROVE  /\ SubSeq(c, p, q) \in Seq(Symbols) /\ Len(SubSeq(c, p, q)) = q - p + 1
           /\ SubSeq(c, p, q) = SubSeq(t, o + p, o + q)
  <1>0. Len(c) \in Nat /\ Len(t) \in Nat /\ o + Len(c) = Len(t)
    BY DEF EndOf
  <1>1. PICK a \in Seq(Symbols) : a = SubSeq(c, p, q) /\ Len(a) = q - p + 1
          /\ \A i \in 1..(q - p + 1) : a[i] = c[p + i - 1]
    <2>1. \A x \in Seq(Symbols) : \A i \in 1..(Len(x) + 1) : \A j \in (i - 1)..Len(x) :
            /\ SubSeq(x, i, j) \in Seq(Symbols) /\ Len(SubSeq(x, i, j)) = j - i + 1
            /\ \A l \in 1..(j - i + 1) : SubSeq(x, i, j)[l] = x[i + l - 1]
      OBVIOUS
    <2> QED BY <2>1
  <1>2. PICK b \in Seq(Symbols) : b = SubSeq(t, o + p, o + q) /\ Len(b) = q - p + 1
          /\ \A i \in 1..(q - p + 1) : b[i] = t[o + p + i - 1]
    <2>1. \A x \in Seq(Symbols) : \A i \in 1..(Len(x) + 1) : \A j \in (i - 1)..Len(x) :
            /\ SubSeq(x, i, j) \in Seq(Symbols) /\ Len(SubSeq(x, i, j)) = j - i + 1
            /\ \A l \in 1..(j - i + 1) : SubSeq(x, i, j)[l] = x[i + l - 1]
      OBVIOUS
    <2>2. o + p \in 1..(Len(t) + 1) /\ o + q \in (o + p - 1)..Len(t) /\
          o + q - (o + p) + 1 = q - p + 1
      BY <1>0
    <2>a. PICK i \in 1..(Len(t) + 1) : i = o + p
      BY <2>2
    <2>b. PICK j \in (i - 1)..Len(t) : j = o + q
      BY <2>2, <2>a
    <2>c. /\ SubSeq(t, i, j) \in Seq(Symbols) /\ Len(SubSeq(t, i, j)) = j - i + 1
          /\ \A l \in 1..(j - i + 1) : SubSeq(t, i, j)[l] = t[i + l - 1]
      BY <2>1, <2>a, <2>b, Zenon
    <2>3. /\ SubSeq(t, o + p, o + q) \in Seq(Symbols)
          /\ Len(SubSeq(t, o + p, o + q)) = o + q - (o + p) + 1
          /\ \A l \in 1..(o + q - (o + p) + 1) : SubSeq(t, o + p, o + q)[l] = t[o + p + l - 1]
      BY <2>a, <2>b, <2>c
    <2> QED BY <2>2, <2>3
  <1>3. ASSUME NEW i \in 1..(q - p + 1) PROVE a[i] = b[i]
    <2>1. p + i - 1 \in 1..Len(c) /\ o + (p + i - 1) = o + p + i - 1
      BY <1>0
    <2>2. c[p + i - 1] = t[o + (p + i - 1)]
      BY <2>1 DEF EndOf
    <2> QED BY <1>1, <1>2, <2>1, <2>2
  <1>4. \A x, y \in Seq(Symbols) : Len(x) = Len(y) /\ (\A i \in 1..Len(x) : x[i] = y[i]) =>
        x = y
    BY SeqEqual
  <1>5. a = b
    BY <1>1, <1>2, <1>3, <1>4
  <1> QED BY <1>1, <1>2, <1>5

\* r is what push makes of t after its first k symbols.
Right(t, c, k, r) ==
  /\ Len(r.carry) <= Len(t) - k
  /\ r.carry = SubSeq(c, Len(c) - Len(r.carry) + 1, Len(c))
  /\ RefAt(t, Len(t) - Len(r.carry)) = RefAt(t, k) \o Flat(r.out)
  /\ EndIs(t, Len(t) - Len(r.carry), r.phase)
  /\ r.carry # <<>> => r.carry \in MarkerStarts
  /\ r.carry = <<>> => t[Len(t)] # "<"

\* The end of the loop: what is not held back is delivered in the phase that holds.
LEMMA LastRight ==
    ASSUME NEW t \in Seq(Symbols), NoLine(t), NEW o \in 0..Len(t), NEW c \in Seq(Symbols),
           EndOf(t, o, c), o >= 1 => ~Tag(t, o), Len(c) > 0,
           NEW p \in 1..(Len(c) + 1), NEW ph \in Phases, EndIs(t, o + p - 1, ph),
           p > 1 => t[o + p - 1] \in {"A>", "F>"},
           Ends(c, p)
    PROVE  Right(t, c, o + p - 1, LastPart(c, p, ph))
  <1> DEFINE k == o + p - 1
  <1>0. Len(t) \in Nat /\ Len(c) \in Nat /\ o + Len(c) = Len(t) /\ o \in Nat
    BY DEF EndOf
  <1>1. k \in 0..Len(t) /\ Len(t) \in Nat /\ Len(c) \in Nat
    BY <1>0
  <1>2. CASE p > Len(c)
    <2>1. p = Len(c) + 1 /\ k = Len(t) /\ p > 1
      BY <1>2, <1>0
    <2>2. t[Len(t)] # "<"
      BY <2>1
    <2>3. PICK r : r = LastPart(c, p, ph)
      OBVIOUS
    <2>4. r.out = <<>> /\ r.phase = ph /\ r.carry = <<>>
      BY <2>3, <1>2 DEF LastPart
    <2>5. Flat(<<>>) = <<>>
      BY FlatNone
    <2>6. RefAt(t, Len(t)) \o <<>> = RefAt(t, Len(t))
      <3>1. RefAt(t, Len(t)) \in Seq(Marked)
        BY <1>1, RefAtType
      <3> QED BY <3>1
    <2>7. SubSeq(c, Len(c) + 1, Len(c)) = <<>>
      BY <1>1
    <2>8. Len(r.carry) = 0
      BY <2>4
    <2>9. Len(t) - 0 = Len(t) /\ Len(c) - 0 + 1 = Len(c) + 1 /\ 0 <= Len(t) - k
      BY <1>1
    <2> QED BY <2>1, <2>2, <2>3, <2>4, <2>5, <2>6, <2>7, <2>8, <2>9 DEF Right
  <1>3. CASE p <= Len(c)
    <2>0. p \in 1..Len(c)
      BY <1>3
    <2>1. /\ RestOf(c, p) \in Seq(Symbols) /\ Len(RestOf(c, p)) = Len(c) - p + 1
          /\ \A i \in 1..(Len(c) - p + 1) :
                /\ RestOf(c, p)[i] = t[k + i]
                /\ Tag(RestOf(c, p), i) <=> Tag(t, k + i)
      BY <2>0, RestTags
    <2>2. PICK n \in 0..2 :
            /\ n = CarryLen(RestOf(c, p)) /\ n <= Len(c) - p + 1
            /\ n # 0 => SubSeq(RestOf(c, p), Len(RestOf(c, p)) - n + 1,
                Len(RestOf(c, p))) \in MarkerStarts
            /\ Len(RestOf(c, p)) > 0 /\ RestOf(c, p)[Len(RestOf(c, p))] = "<" => n # 0
      BY <2>1, CarryFacts
    <2>3. Len(t) - k = Len(c) - p + 1
      BY <1>0
    <2>4. \A j \in (k + 1)..Len(t) : ~Tag(t, j)
      <3> SUFFICES ASSUME NEW j \in (k + 1)..Len(t), Tag(t, j) PROVE FALSE
        OBVIOUS
      <3>1. j - k \in 1..(Len(c) - p + 1) /\ k + (j - k) = j
        BY <1>1, <2>3
      <3>2. Tag(RestOf(c, p), j - k)
        BY <2>1, <3>1
      <3>3. Markers(RestOf(c, p)) # {}
        <4>1. j - k \in 1..Len(RestOf(c, p))
          BY <2>1, <3>1
        <4> QED BY <2>1, <3>2, <4>1, MarkerAll
      <3> QED BY <3>3, <1>3 DEF Ends
    <2>5. k >= 1 => ~Tag(t, k)
      BY DEF Tag, TagAt
    <2> DEFINE z == Len(t) - n
    <2>6. z \in k..Len(t)
      BY <1>1, <2>2, <2>3
    <2>7. \A j \in k..(z - 1) : j >= 1 => ~Tag(t, j)
      BY <1>1, <2>4, <2>5
    <2>8. RefAt(t, z) = RefAt(t, k) \o Phased(ph, SubSeq(t, k + 1, z)) /\ EndIs(t, z, ph)
      <3> HIDE DEF z, k
      <3> QED BY <1>1, <2>6, <2>7, Stretch DEF k
    <2>9. PICK r : r = LastPart(c, p, ph)
      OBVIOUS
    <2>10. r.out = SegOf(ph, SubSeq(c, p, Len(c) - n)) /\ r.phase = ph
           /\ r.carry = SubSeq(c, Len(c) - n + 1, Len(c))
      <3>1. ~(p > Len(c))
        BY <1>0, <1>3
      <3>2. r = [out |-> SegOf(ph, SubSeq(c, p, Len(c) - n)), phase |-> ph,
                 carry |-> SubSeq(c, Len(c) - n + 1, Len(c))]
        BY <2>9, <2>2, <3>1 DEF LastPart
      <3> QED BY <3>2
    <2>11. SubSeq(c, p, Len(c) - n) \in Seq(Symbols) /\
           SubSeq(c, p, Len(c) - n) = SubSeq(t, k + 1, z)
      <3>a. n \in Nat /\ p \in Nat /\ n <= Len(c) - p + 1
        BY <2>0, <2>2
      <3>1. Len(c) - n \in (p - 1)..Len(c) /\ o + p = k + 1 /\ o + (Len(c) - n) = z
        BY <1>0, <3>a
      <3>2. SubSeq(c, p, Len(c) - n) \in Seq(Symbols)
            /\ SubSeq(c, p, Len(c) - n) = SubSeq(t, o + p, o + (Len(c) - n))
        BY <3>1, SubSeqEnd
      <3> QED BY <3>1, <3>2
    <2>12. SubSeq(c, p, Len(c) - n) \in Seq(Symbols)
      BY <2>11
    <2>13. Flat(r.out) = Phased(ph, SubSeq(t, k + 1, z))
      <3>1. <<>> \in Seq(SegmentSet)
        OBVIOUS
      <3> QED BY <2>10, <2>11, <2>12, <3>1, FlatSeg
    <2>14. Len(r.carry) = n /\ r.carry \in Seq(Symbols)
      <3>1. \A x \in Seq(Symbols) : \A i \in 0..Len(x) :
            SubSeq(x, Len(x) - i + 1, Len(x)) \in Seq(Symbols) /\
                Len(SubSeq(x, Len(x) - i + 1, Len(x))) = i
        OBVIOUS
      <3>2. n \in 0..Len(c)
        BY <1>0, <2>0, <2>2
      <3> QED BY <3>1, <3>2, <2>10
    <2>15. ASSUME n # 0 PROVE r.carry \in MarkerStarts
      <3>1. SubSeq(RestOf(c, p), Len(RestOf(c, p)) - n + 1, Len(RestOf(c, p))) =
            SubSeq(c, Len(c) - n + 1, Len(c))
        <4> DEFINE m == Len(c) - p + 1
        <4>0. m \in Nat /\ p \in Nat /\ n \in Nat /\ n <= m /\ m >= 1 /\ Len(RestOf(c, p)) = m
          BY <1>0, <2>0, <2>1, <2>2
        <4>1. p \in 1..Len(c) /\ Len(c) \in 1..Len(c)
          BY <1>0, <2>0
        <4>2. m - n + 1 \in 1..m /\ m \in 1..m
          BY <2>15, <4>0
        <4>3. Len(c) - p + 1 = m
          OBVIOUS
        <4>4. SubSeq(SubSeq(c, p, Len(c)), m - n + 1, m) =
              SubSeq(c, p + (m - n + 1) - 1, p + m - 1)
          <5>1. EndOf(c, p - 1, RestOf(c, p))
            <6>1. \A i \in 1..(Len(c) - p + 1) : RestOf(c, p)[i] = c[p + i - 1]
              BY <4>1, RestFacts
            <6>2. \A i \in 1..m : p + i - 1 = (p - 1) + i
              BY <4>0
            <6>3. m = Len(c) - (p - 1)
              BY <1>0, <4>0
            <6> QED BY <6>1, <6>2, <6>3, <4>0 DEF EndOf
          <5>2. p - 1 \in 0..Len(c) /\ m - n + 1 \in 1..(m + 1) /\ m \in (m - n + 1 - 1)..m
            BY <4>0, <1>0
          <5> HIDE DEF m
          <5>3. SubSeq(RestOf(c, p), m - n + 1, m) =
                SubSeq(c, (p - 1) + (m - n + 1), (p - 1) + m)
            <6>1. PICK y \in Seq(Symbols) : y = RestOf(c, p)
              BY <2>1
            <6>2. PICK a \in 0..Len(c) : a = p - 1
              BY <5>2
            <6>3. EndOf(c, a, y) /\ Len(y) = m
              BY <4>0, <5>1, <6>1, <6>2
            <6>4. m - n + 1 \in 1..(Len(y) + 1) /\ m \in ((m - n + 1) - 1)..Len(y)
              BY <5>2, <6>3
            <6>5. SubSeq(y, m - n + 1, m) = SubSeq(c, a + (m - n + 1), a + m)
              BY <6>3, <6>4, SubSeqEnd
            <6> QED BY <6>1, <6>2, <6>5
          <5>4. (p - 1) + (m - n + 1) = p + (m - n + 1) - 1 /\ (p - 1) + m = p + m - 1
            BY <4>0
          <5> QED BY <5>3, <5>4 DEF RestOf
        <4>5. p + (m - n + 1) - 1 = Len(c) - n + 1 /\ p + m - 1 = Len(c)
          BY <1>0, <4>0
        <4> QED BY <4>0, <4>4, <4>5 DEF RestOf
      <3> QED BY <2>2, <2>10, <2>15, <3>1
    <2>16. n = 0 => t[Len(t)] # "<"
      <3>1. Len(c) - p + 1 \in 1..(Len(c) - p + 1) /\ k + (Len(c) - p + 1) = Len(t)
        BY <1>1, <2>0, <2>3
      <3>2. RestOf(c, p)[Len(c) - p + 1] = t[Len(t)]
        BY <2>1, <3>1
      <3>3. Len(RestOf(c, p)) > 0
        BY <2>1, <3>1
      <3> QED BY <2>1, <2>2, <3>2, <3>3
    <2>17. (r.carry = <<>> => n = 0) /\ (r.carry # <<>> => n # 0) /\ n <= Len(t) - k
      BY <2>14, <2>2, <2>3
    <2> QED BY <2>8, <2>9, <2>10, <2>13, <2>14, <2>15, <2>16, <2>17 DEF Right
  <1> QED BY <1>1, <1>2, <1>3

\* Labelled text one after the other.
LEMMA MarkedAssociative ==
    \A x, y, w \in Seq(Marked) : (x \o y) \o w = x \o (y \o w)
  OBVIOUS

\* The text in front of the next marker, and the marker.
LEMMA MarkTags ==
    ASSUME NEW t \in Seq(Symbols), NoLine(t), NEW o \in 0..Len(t), NEW c \in Seq(Symbols),
           EndOf(t, o, c), NEW p \in 1..(Len(c) + 1), ~Ends(c, p)
    PROVE  /\ PastMark(c, p) = MarkAt(c, p) + 2
           /\ MarkAt(c, p) + 1 <= Len(c)
           /\ Tag(t, o + MarkAt(c, p))
           /\ NextMarker(RestOf(c, p))[2] = Turn(t, o + MarkAt(c, p))
           /\ \A j \in (o + p)..(o + MarkAt(c, p) - 1) : ~Tag(t, j)
  <1>0. Len(t) \in Nat /\ Len(c) \in Nat /\ o + Len(c) = Len(t) /\ o \in Nat /\ p \in Nat
    BY DEF EndOf
  <1>1. p \in 1..Len(c) /\ Markers(RestOf(c, p)) # {}
    BY <1>0 DEF Ends
  <1>2. PICK y \in Seq(Symbols) : y = RestOf(c, p) /\ Len(y) = Len(c) - p + 1 /\ NoLine(y)
           /\ \A i \in 1..(Len(c) - p + 1) :
                /\ Tag(y, i) <=> Tag(t, o + p - 1 + i)
                /\ Turn(y, i) = Turn(t, o + p - 1 + i)
    BY <1>1, RestTags
  <1>3. NextMarker(y) \in Markers(y) /\ \A w \in Markers(y) : NextMarker(y)[1] <= w[1]
    BY <1>1, <1>2, MarkerMin
  <1>4. PICK m \in Markers(y) : m = NextMarker(y)
    BY <1>3
  <1>5. m[1] \in 1..Len(y) /\ m[1] + m[3] <= Len(y) + 1
        /\ m[3] = 2 /\ Tag(y, m[1]) /\ m[2] = Turn(y, m[1])
    <2>1. \A i \in 1..Len(y) : y[i] # "M"
      BY <1>2 DEF NoLine
    <2> QED BY <2>1, MarkerIs
  <1>6. PICK a \in 1..(Len(c) - p + 1) : a = m[1]
    BY <1>2, <1>5
  <1>7. MarkAt(c, p) = p + a - 1 /\ PastMark(c, p) = p + a - 1 + 2
    BY <1>2, <1>4, <1>5, <1>6 DEF MarkAt, PastMark
  <1>8. o + p - 1 + a = o + (p + a - 1)
    BY <1>0
  <1>9. Tag(t, o + MarkAt(c, p)) /\ m[2] = Turn(t, o + MarkAt(c, p))
    <2>1. Tag(y, a) /\ m[2] = Turn(y, a)
      BY <1>5, <1>6
    <2>2. Tag(t, o + p - 1 + a) /\ m[2] = Turn(t, o + p - 1 + a)
      BY <1>2, <2>1
    <2> QED BY <2>2, <1>7, <1>8
  <1>10. MarkAt(c, p) + 1 <= Len(c)
    <2>1. a + 2 <= Len(c) - p + 2
      BY <1>2, <1>5, <1>6, <1>0
    <2> QED BY <2>1, <1>0, <1>7
  <1>11. ASSUME NEW j \in (o + p)..(o + MarkAt(c, p) - 1), Tag(t, j) PROVE FALSE
    <2>1. j \in (o + p)..(o + p + a - 2)
      BY <1>0, <1>7
    <2>2. PICK i \in 1..(Len(c) - p + 1) : i = j - (o + p - 1) /\ i < a /\ o + p - 1 + i = j
      BY <1>0, <2>1
    <2>3. Tag(y, i)
      BY <1>2, <1>11, <2>2
    <2>4. PICK w \in Markers(y) : w[1] = i
      BY <1>2, <2>3, MarkerAll
    <2>5. a <= i
      BY <1>3, <1>4, <1>6, <2>4
    <2> QED BY <2>2, <2>5
  <1> QED BY <1>2, <1>4, <1>7, <1>9, <1>10, <1>11

\* What push makes of the text from position p of c on.
LEMMA SegmentsRight ==
    ASSUME NEW t \in Seq(Symbols), NoLine(t), NEW o \in 0..Len(t), NEW c \in Seq(Symbols),
           EndOf(t, o, c), o >= 1 => ~Tag(t, o), Len(c) > 0
    PROVE  \A p \in 1..(Len(c) + 1), ph \in Phases :
             EndIs(t, o + p - 1, ph) /\ (p > 1 => t[o + p - 1] \in {"A>", "F>"}) =>
               Right(t, c, o + p - 1, SegF(c)[p][ph])
  <1> DEFINE Claim(p) == \A ph \in Phases :
                           EndIs(t, o + p - 1, ph) /\ (p > 1 =>
                               t[o + p - 1] \in {"A>", "F>"}) =>
                             Right(t, c, o + p - 1, SegF(c)[p][ph])
             S == {n \in Nat : \A p \in 1..(Len(c) + 1) : Len(c) + 1 - p < n => Claim(p)}
  <1>0. Len(t) \in Nat /\ Len(c) \in Nat /\ o + Len(c) = Len(t) /\ o \in Nat
    BY DEF EndOf
  <1>1. 0 \in S
    BY <1>0
  <1>a. SegF(c) \in [1..(Len(c) + 1) -> [Phases -> SegRec]] /\ SegF(c) = SegStep(c, SegF(c))
    BY SegBodyFacts
  <1>2. ASSUME NEW n \in Nat, n \in S PROVE n + 1 \in S
    <2> SUFFICES ASSUME NEW p \in 1..(Len(c) + 1), Len(c) + 1 - p < n + 1, NEW ph \in Phases,
                        EndIs(t, o + p - 1, ph), p > 1 => t[o + p - 1] \in {"A>", "F>"}
                 PROVE  Right(t, c, o + p - 1, SegF(c)[p][ph])
      OBVIOUS
    <2>0. SegF(c)[p][ph] = SegStep(c, SegF(c))[p][ph]
      BY <1>a
    <2>1. CASE Ends(c, p)
      <3>1. SegF(c)[p][ph] = LastPart(c, p, ph)
        BY <2>0, <2>1 DEF SegStep
      <3> QED BY <2>1, <3>1, LastRight
    <2>2. CASE ~Ends(c, p)
      <3>1. /\ PastMark(c, p) = MarkAt(c, p) + 2
            /\ MarkAt(c, p) + 1 <= Len(c)
            /\ Tag(t, o + MarkAt(c, p))
            /\ NextMarker(RestOf(c, p))[2] = Turn(t, o + MarkAt(c, p))
            /\ \A j \in (o + p)..(o + MarkAt(c, p) - 1) : ~Tag(t, j)
        BY <2>2, MarkTags
      <3>2. PICK at \in p..Len(c) : at = MarkAt(c, p)
        BY <2>2, MarkFacts
      <3>3. PICK z \in 0..Len(t) : z = o + at - 1
        BY <1>0, <3>2
      <3>4. PICK k \in 0..Len(t) : k = o + p - 1
        BY <1>0
      <3>5. p \in Nat /\ at \in Nat /\ z \in Nat /\ k \in Nat /\ z + 1 = o + at /\ k + 1 = o + p
            /\ at + 1 <= Len(c) /\ p <= at
        <4>1. at + 1 <= Len(c)
          BY <3>1, <3>2
        <4>2. p \in Nat /\ at \in Nat /\ p <= at
          BY <3>2, <1>0
        <4>3. z \in Nat /\ k \in Nat /\ z = o + at - 1 /\ k = o + p - 1
          BY <1>0, <3>3, <3>4
        <4> QED BY <1>0, <4>1, <4>2, <4>3
      <3>6. z \in k..Len(t) /\ z \in 0..(Len(t) - 2) /\ at + 2 \in 1..(Len(c) + 1)
            /\ o + (at + 2) - 1 = z + 2 /\ Len(c) + 1 - (at + 2) < n
        <4>1. Len(c) + 1 - p < n + 1 /\ z + 1 = o + at /\ k + 1 = o + p
          BY <3>5
        <4>2. \A u, l, y, b, g, h \in Nat : /\ y + l = u /\ g + 1 <= l /\ h + 1 = y + g /\
                                               b <= g
                                           /\ l + 1 - b < n + 1 =>
                /\ h \in 0..(u - 2) /\ h \in (y + b - 1)..u /\ g + 2 \in 1..(l + 1)
                /\ y + (g + 2) - 1 = h + 2 /\ l + 1 - (g + 2) < n
          OBVIOUS
        <4>3. /\ z \in 0..(Len(t) - 2) /\ z \in (o + p - 1)..Len(t) /\
                 at + 2 \in 1..(Len(c) + 1)
              /\ o + (at + 2) - 1 = z + 2 /\ Len(c) + 1 - (at + 2) < n
          <5> HIDE DEF S
          <5> QED BY <1>0, <3>5, <4>1, <4>2
        <4> QED BY <3>4, <4>3
      <3>7. Tag(t, z + 1) /\ \A j \in (k + 1)..z : ~Tag(t, j)
        <4>1. z = o + at - 1
          BY <3>3
        <4> QED BY <3>1, <3>2, <3>5, <4>1
      <3>8. \A j \in k..(z - 1) : j >= 1 => ~Tag(t, j)
        <4>1. k >= 1 => ~Tag(t, k)
          BY <3>4, <1>0 DEF Tag, TagAt
        <4> QED BY <4>1, <3>7, <3>5
      <3>9. RefAt(t, z) = RefAt(t, k) \o Phased(ph, SubSeq(t, k + 1, z))
        BY <3>4, <3>6, <3>8, Stretch
      <3>10. RefAt(t, z + 2) = RefAt(t, z)
        <4>1. 1 \in 1..(z + 1) /\ "Final" \in Phases
          BY <3>5 DEF Phases
        <4>2. RefF(Prefix(t, z + 2))[1]["Final"] = RefF(Prefix(t, z))[1]["Final"]
          BY <3>6, <3>7, <4>1, RefTag
        <4> QED BY <4>2, RefTop DEF RefAt
      <3>11. EndIs(t, z + 2, Turn(t, z + 1))
        BY <3>6, <3>7, EndTag
      <3>12. PICK e \in Phases : e = Turn(t, z + 1)
        BY DEF Turn, Phases
      <3>13. t[z + 2] \in {"A>", "F>"}
        <4>1. z + 1 + 1 = z + 2
          BY <3>5
        <4> QED BY <3>7, <4>1 DEF Tag, TagAt
      <3>14. Right(t, c, z + 2, SegF(c)[at + 2][e])
        <4>1. Claim(at + 2)
          BY <1>2, <3>6
        <4>2. EndIs(t, o + (at + 2) - 1, e) /\ t[o + (at + 2) - 1] \in {"A>", "F>"}
          BY <3>6, <3>11, <3>12, <3>13
        <4>3. Right(t, c, o + (at + 2) - 1, SegF(c)[at + 2][e])
          BY <4>1, <4>2
        <4> QED BY <4>3, <3>6
      <3>15. PICK q \in SegRec : q = SegF(c)[at + 2][e]
        BY <1>a, <3>6
      <3>16. SegF(c)[p][ph] = BeforeMark(c, p, ph, q)
        <4>1. SegStep(c, SegF(c))[p][ph] =
                BeforeMark(c, p, ph, SegF(c)[PastMark(c, p)][NextMarker(RestOf(c, p))[2]])
          BY <2>2 DEF SegStep
        <4>2. PastMark(c, p) = at + 2 /\ NextMarker(RestOf(c, p))[2] = e
          BY <3>1, <3>2, <3>5, <3>12
        <4> QED BY <2>0, <4>1, <4>2, <3>15
      <3>17. PICK r : r = BeforeMark(c, p, ph, q)
        OBVIOUS
      <3>18. r.out = SegOf(ph, SubSeq(c, p, at - 1)) \o q.out /\ r.phase = q.phase /\
             r.carry = q.carry
        BY <2>2, <3>2, <3>17, BeforeMarkType
      <3>19. SubSeq(c, p, at - 1) \in Seq(Symbols) /\ SubSeq(c, p, at - 1) = SubSeq(t, k + 1, z)
        <4>1. at - 1 \in (p - 1)..Len(c) /\ o + p = k + 1 /\ o + (at - 1) = z
          BY <1>0, <3>3, <3>5
        <4>2. SubSeq(c, p, at - 1) \in Seq(Symbols) /\
              SubSeq(c, p, at - 1) = SubSeq(t, o + p, o + (at - 1))
          BY <4>1, SubSeqEnd
        <4> QED BY <4>1, <4>2
      <3>20. q.out \in Seq(SegmentSet)
        BY <3>15 DEF SegRec
      <3>21. /\ Flat(r.out) = Phased(ph, SubSeq(t, k + 1, z)) \o Flat(q.out)
             /\ Phased(ph, SubSeq(t, k + 1, z)) \in Seq(Marked) /\ Flat(q.out) \in Seq(Marked)
        <4>1. PICK s \in Seq(Symbols) : s = SubSeq(c, p, at - 1)
          BY <3>19
        <4>2. PICK out \in Seq(SegmentSet) : out = q.out
          BY <3>20
        <4>3. /\ Flat(SegOf(ph, s) \o out) = Phased(ph, s) \o Flat(out)
              /\ Phased(ph, s) \in Seq(Marked) /\ Flat(out) \in Seq(Marked)
          BY FlatSeg
        <4> QED BY <3>18, <3>19, <4>1, <4>2, <4>3
      <3>22. RefAt(t, k) \in Seq(Marked)
        BY <3>4, RefAtType
      <3>23. RefAt(t, z) \o Flat(q.out) = RefAt(t, k) \o Flat(r.out)
        <4>1. PICK x \in Seq(Marked) : x = RefAt(t, k)
          BY <3>22
        <4>2. PICK y \in Seq(Marked) : y = Phased(ph, SubSeq(t, k + 1, z))
          BY <3>21
        <4>3. PICK w \in Seq(Marked) : w = Flat(q.out)
          BY <3>21
        <4>4. (x \o y) \o w = x \o (y \o w)
          BY MarkedAssociative, Zenon
        <4> QED BY <3>9, <3>21, <4>1, <4>2, <4>3, <4>4
      <3>24. Right(t, c, k, r)
        <4>1. Right(t, c, z + 2, q)
          BY <3>14, <3>15
        <4>2. Len(q.carry) <= Len(t) - k
          <5>1. q.carry \in Seq(Symbols)
            BY <3>15 DEF SegRec
          <5>2. PICK l \in Nat : l = Len(q.carry)
            BY <5>1
          <5>3. l <= Len(t) - (z + 2)
            BY <4>1, <5>2 DEF Right
          <5>4. k <= z
            BY <3>6
          <5> QED BY <1>0, <3>5, <5>4, <5>2, <5>3
        <4> QED BY <4>1, <4>2, <3>10, <3>18, <3>23 DEF Right
      <3> QED BY <3>4, <3>16, <3>17, <3>24
    <2> QED BY <2>1, <2>2
  <1>3. \A n \in Nat : n \in S
    <2>1. \A n \in Nat : n \in S => n + 1 \in S
      BY <1>2
    <2> HIDE DEF S
    <2> QED BY <1>1, <2>1, Induct, Zenon
  <1>4. Len(c) + 2 \in S
    <2> HIDE DEF S
    <2> QED BY <1>0, <1>3
  <1> QED BY <1>0, <1>4

(***************************************************************************)
(* Folds from the first element of a sequence to the last.                 *)
(***************************************************************************)

\* A bounded set of numbers has a greatest element.
LEMMA MaxOf ==
    ASSUME NEW n \in Nat, NEW s \in SUBSET (0..n), s # {}
    PROVE  Max(s) \in s /\ Max(s) \in 0..n /\ \A y \in s : Max(s) >= y
  <1> DEFINE T == {n - x : x \in s}
  <1>1. T \in SUBSET Nat /\ T # {}
    <2>1. PICK x : x \in s
      OBVIOUS
    <2>2. n - x \in T
      BY <2>1
    <2>3. \A y \in s : n - y \in Nat
      OBVIOUS
    <2> QED BY <2>2, <2>3
  <1>a. \E u \in T : \A v \in T : u <= v
    <2> HIDE DEF T
    <2> QED BY <1>1, Least, Zenon
  <1>2. PICK u \in T : \A v \in T : u <= v
    BY <1>a
  <1>3. PICK x \in s : u = n - x
    BY <1>2
  <1>4. ASSUME NEW y \in s PROVE x >= y
    <2>1. n - y \in T
      OBVIOUS
    <2>2. n - x <= n - y
      BY <1>2, <1>3, <2>1
    <2>3. x \in 0..n /\ y \in 0..n
      OBVIOUS
    <2> QED BY <2>2, <2>3
  <1>5. s \in SUBSET Int
    OBVIOUS
  <1> QED BY <1>4, <1>5, MaxIs

\* The greatest of the first k positions.
LEMMA MaxTop ==
    ASSUME NEW k \in Nat \ {0}
    PROVE  Max(1..k) = k /\ (1..k) \ {Max(1..k)} = 1..(k - 1)
  <1>1. 1..k \in SUBSET (0..k) /\ k \in 1..k
    OBVIOUS
  <1>2. Max(1..k) \in 1..k /\ \A y \in 1..k : Max(1..k) >= y
    BY <1>1, MaxOf
  <1>3. Max(1..k) = k
    BY <1>1, <1>2
  <1> QED BY <1>3

\* h is what a fold computes for the subsets of the positions of seq.
Folded(h, op, R, base, seq) ==
  /\ h[{}] = base
  /\ \A s \in SUBSET (1..Len(seq)) : s # {} /\ h[s \ {Max(s)}] \in R =>
       h[s] = op[<<h[s \ {Max(s)}], seq[Max(s)]>>]

\* The next subset of a fold, and its measure.
FoldNext(n) == [s \in SUBSET (1..n) |-> IF s = {} THEN {} ELSE s \ {Max(s)}]
FoldSize(n) == [s \in SUBSET (1..n) |-> IF s = {} THEN 0 ELSE Max(s)]

\* Leaving out the greatest position descends.
LEMMA FoldShape ==
    ASSUME NEW n \in Nat
    PROVE  /\ FoldNext(n) \in [SUBSET (1..n) -> SUBSET (1..n)]
           /\ FoldSize(n) \in [SUBSET (1..n) -> 0..n]
           /\ Descends(SUBSET (1..n), {{}}, FoldNext(n), FoldSize(n))
  <1>1. \A s \in SUBSET (1..n) : s # {} => Max(s) \in s /\ Max(s) \in 1..n /\ \A y \in s :
        Max(s) >= y
    <2> SUFFICES ASSUME NEW s \in SUBSET (1..n), s # {}
                 PROVE  Max(s) \in s /\ Max(s) \in 1..n /\ \A y \in s : Max(s) >= y
      OBVIOUS
    <2>1. s \in SUBSET (0..n)
      OBVIOUS
    <2>2. Max(s) \in s /\ \A y \in s : Max(s) >= y
      BY <2>1, MaxOf
    <2> QED BY <2>2
  <1>2. FoldNext(n) \in [SUBSET (1..n) -> SUBSET (1..n)]
    BY DEF FoldNext
  <1>3. FoldSize(n) \in [SUBSET (1..n) -> 0..n]
    BY <1>1 DEF FoldSize
  <1>4. ASSUME NEW s \in SUBSET (1..n), s # {}
               PROVE FoldSize(n)[FoldNext(n)[s]] < FoldSize(n)[s]
    <2>1. Max(s) \in s /\ Max(s) \in 1..n /\ \A y \in s : Max(s) >= y
      BY <1>1, <1>4
    <2> DEFINE r == s \ {Max(s)}
    <2>2. r \in SUBSET (1..n) /\ FoldNext(n)[s] = r /\ FoldSize(n)[s] = Max(s)
      BY <1>4 DEF FoldNext, FoldSize
    <2>3. CASE r = {}
      <3>1. FoldSize(n)[r] = 0
        BY <2>2, <2>3 DEF FoldSize
      <3> QED BY <2>1, <2>2, <3>1
    <2>4. CASE r # {}
      <3>1. Max(r) \in r
        BY <2>2, <2>4, <1>1
      <3>2. FoldSize(n)[r] = Max(r)
        BY <2>2, <2>4 DEF FoldSize
      <3>3. Max(r) \in 1..n /\ Max(r) # Max(s) /\ Max(s) >= Max(r)
        BY <3>1, <2>1
      <3> HIDE DEF r
      <3> QED BY <2>1, <2>2, <3>2, <3>3
    <2> QED BY <2>3, <2>4
  <1>5. Descends(SUBSET (1..n), {{}}, FoldNext(n), FoldSize(n))
    BY <1>4 DEF Descends
  <1> QED BY <1>2, <1>3, <1>5

\* What a fold computes exists, and has values in R.
LEMMA FoldExists ==
    ASSUME NEW Y, NEW R, NEW base \in R, NEW seq \in Seq(Y), NEW op \in [R \X Y -> R]
    PROVE  /\ \E g \in [SUBSET (1..Len(seq)) -> R] : Folded(g, op, R, base, seq)
           /\ \A h : Folded(h, op, R, base, seq) => \A s \in SUBSET (1..Len(seq)) : h[s] \in R
  <1> DEFINE n == Len(seq)
             D == SUBSET (1..n)
             b == [s \in D |-> base]
             nx == FoldNext(n)
             m == FoldSize(n)
             st == [q \in D \X R |-> IF q[1] = {} THEN base ELSE op[<<q[2], seq[Max(q[1])]>>]]
  <1>0. n \in Nat
    OBVIOUS
  <1>1. nx \in [D -> D] /\ m \in [D -> 0..n] /\ Descends(D, {{}}, nx, m)
    BY <1>0, FoldShape
  <1>2. b \in [D -> R]
    OBVIOUS
  <1>3. \A s \in D : s # {} => seq[Max(s)] \in Y
    <2> SUFFICES ASSUME NEW s \in D, s # {} PROVE seq[Max(s)] \in Y
      OBVIOUS
    <2>1. s \in SUBSET (0..n)
      BY <1>0
    <2>2. Max(s) \in s
      BY <1>0, <2>1, MaxOf
    <2>3. Max(s) \in 1..Len(seq)
      BY <2>2
    <2> QED BY <2>3, ElementOfSeq
  <1>4. st \in [D \X R -> R]
    <2>1. ASSUME NEW q \in D \X R PROVE st[q] \in R
      <3>1. q[1] \in D /\ q[2] \in R
        OBVIOUS
      <3>2. CASE q[1] = {}
        BY <3>2
      <3>3. CASE q[1] # {}
        <4>1. seq[Max(q[1])] \in Y
          BY <3>1, <3>3, <1>3
        <4>2. st[q] = op[<<q[2], seq[Max(q[1])]>>]
          BY <3>3
        <4> QED BY <3>1, <4>1, <4>2
      <3> QED BY <3>2, <3>3
    <2> QED BY <2>1
  <1>5. \A h : Folded(h, op, R, base, seq) <=> Solves(h, D, R, {{}}, b, nx, st)
    <2> SUFFICES ASSUME NEW h
                 PROVE Folded(h, op, R, base, seq) <=> Solves(h, D, R, {{}}, b, nx, st)
      OBVIOUS
    <2>1. {} \in D /\ b[{}] = base
      OBVIOUS
    <2>2. \A s \in D : s # {} => nx[s] = s \ {Max(s)}
      BY DEF FoldNext
    <2>3. \A s \in D : s # {} /\ h[s \ {Max(s)}] \in R =>
             st[<<s, h[s \ {Max(s)}]>>] = op[<<h[s \ {Max(s)}], seq[Max(s)]>>]
      OBVIOUS
    <2>4. Folded(h, op, R, base, seq) <=>
            /\ h[{}] = base
            /\ \A s \in D : s # {} /\ h[s \ {Max(s)}] \in R => h[s] = st[<<s, h[s \ {Max(s)}]>>]
      <3> HIDE DEF st
      <3> QED BY <2>3 DEF Folded
    <2>5. Solves(h, D, R, {{}}, b, nx, st) <=>
            /\ h[{}] = base
            /\ \A s \in D : s # {} /\ h[s \ {Max(s)}] \in R => h[s] = st[<<s, h[s \ {Max(s)}]>>]
      <3> HIDE DEF st, nx, D, b
      <3> QED BY <2>1, <2>2 DEF Solves
    <2> QED BY <2>4, <2>5
  <1>6. \E g \in [D -> R] : Solves(g, D, R, {{}}, b, nx, st)
    <2> HIDE DEF n, D, m, b, nx, st
    <2> QED BY <1>0, <1>1, <1>2, <1>4, RecursionExists, Zenon
  <1>7. \A h : Solves(h, D, R, {{}}, b, nx, st) => \A s \in D : h[s] \in R
    <2> HIDE DEF n, D, m, b, nx, st
    <2> QED BY <1>0, <1>1, <1>2, <1>4, RecursionTyped, Zenon
  <1> HIDE DEF st, nx, b
  <1> QED BY <1>5, <1>6, <1>7

\* g is the fold after each element of seq.
Runs(g, op, R, base, seq, result) ==
  /\ g \in [0..Len(seq) -> R] /\ g[0] = base
  /\ \A i \in 1..Len(seq) : g[i] = op[<<g[i - 1], seq[i]>>]
  /\ result = g[Len(seq)]

\* A fold goes through the sequence from the first element to the last.
LEMMA FoldRuns ==
    ASSUME NEW Y, NEW R, NEW base \in R, NEW seq \in Seq(Y), NEW op \in [R \X Y -> R]
    PROVE  \A h : Folded(h, op, R, base, seq) =>
             \E g : Runs(g, op, R, base, seq, h[1..Len(seq)])
  <1> SUFFICES ASSUME NEW h, Folded(h, op, R, base, seq)
               PROVE  \E g : Runs(g, op, R, base, seq, h[1..Len(seq)])
    OBVIOUS
  <1> DEFINE n == Len(seq)
             g == [i \in 0..n |-> h[1..i]]
  <1>0. n \in Nat
    OBVIOUS
  <1>1. \A s \in SUBSET (1..n) : h[s] \in R
    <2>1. \A f : Folded(f, op, R, base, seq) => \A s \in SUBSET (1..Len(seq)) : f[s] \in R
      BY FoldExists
    <2> QED BY <2>1
  <1>2. g \in [0..n -> R]
    <2>1. \A i \in 0..n : 1..i \in SUBSET (1..n)
      BY <1>0
    <2> QED BY <1>1, <2>1
  <1>3. g[0] = base
    <2>1. 1..0 = {} /\ 0 \in 0..n
      BY <1>0
    <2> QED BY <2>1 DEF Folded
  <1>4. ASSUME NEW i \in 1..n PROVE g[i] = op[<<g[i - 1], seq[i]>>]
    <2>1. Max(1..i) = i /\ (1..i) \ {Max(1..i)} = 1..(i - 1)
      BY <1>0, MaxTop
    <2>2. 1..i \in SUBSET (1..n) /\ 1..i # {} /\ 1..(i - 1) \in SUBSET (1..n)
      <3>1. i \in 1..i
        OBVIOUS
      <3>2. \A j \in 1..i : j \in 1..n
        BY <1>0
      <3>3. \A j \in 1..(i - 1) : j \in 1..n
        BY <1>0
      <3> HIDE DEF n
      <3> QED BY <3>1, <3>2, <3>3, Zenon
    <2>3. h[1..i] = op[<<h[1..(i - 1)], seq[i]>>]
      BY <1>1, <2>1, <2>2 DEF Folded
    <2>4. i \in 0..n /\ i - 1 \in 0..n
      BY <1>0
    <2> QED BY <2>3, <2>4
  <1>5. g[n] = h[1..n]
    BY <1>0
  <1> HIDE DEF g
  <1> QED BY <1>2, <1>3, <1>4, <1>5 DEF Runs

(***************************************************************************)
(* The chunks and the filters.                                             *)
(***************************************************************************)

\* What a token's text is made of.
Letters == Symbols \cup {"c"}

\* The functions that the folds over segments and over a piece define.
AddIter(base, seq) ==
  CHOOSE iter : iter = [s \in SUBSET (DOMAIN seq) |->
    IF s = {} THEN base ELSE AddSegment(iter[s \ {Max(s)}], seq[Max(s)])]
SendIter(base, seq) ==
  CHOOSE iter : iter = [s \in SUBSET (DOMAIN seq) |->
    IF s = {} THEN base ELSE FlushIfFull(AddSegment(iter[s \ {Max(s)}], seq[Max(s)]))]
KeepIter(seq) ==
  CHOOSE iter : iter = [s \in SUBSET (DOMAIN seq) |->
    IF s = {} THEN <<>> ELSE IF seq[Max(s)] = "c" THEN iter[s \ {Max(s)}]
                             ELSE Append(iter[s \ {Max(s)}], seq[Max(s)])]

\* The fold over the segments on Android.
LEMMA AddFold ==
    ASSUME NEW base, NEW seq
    PROVE  FoldLeft(AddSegment, base, seq) = AddIter(base, seq)[DOMAIN seq]
  BY DEF FoldLeft, MapThenFoldSet, AddIter

\* The fold over the segments on the desktop and on iOS.
LEMMA SendFold ==
    ASSUME NEW base, NEW seq
    PROVE  FoldLeft(LAMBDA b, seg : FlushIfFull(AddSegment(b, seg)), base, seq)
             = SendIter(base, seq)[DOMAIN seq]
  BY DEF FoldLeft, MapThenFoldSet, SendIter

\* The fold over the piece in the filter of iOS.
LEMMA KeepFold ==
    ASSUME NEW seq
    PROVE  IosFilterControlTokens(seq) = KeepIter(seq)[DOMAIN seq]
  BY DEF IosFilterControlTokens, FoldLeft, MapThenFoldSet, KeepIter

\* The records that Flush and AddSegment work on, and the text that one delivers: what
\* is in its chunks and in its buffer.
BufRec == [buf : Seq(Symbols), phase : Labels, sent : Seq(Chunks)]
DeliveredBy(b) == Flat(b.sent) \o Phased(b.phase, b.buf)

\* Chunks carry a phase and a text.
LEMMA ChunksLabelled == \A z \in Chunks : z[1] \in Labels /\ z[2] \in Seq(Symbols)
  BY DEF Chunks

\* A chunk more.
LEMMA FlatChunks ==
    ASSUME NEW ss \in Seq(Chunks), NEW y \in Chunks
    PROVE  /\ Flat(ss) \in Seq(Marked)
           /\ Append(ss, y) \in Seq(Chunks)
           /\ Flat(Append(ss, y)) = Flat(ss) \o Phased(y[1], y[2])
  <1>1. Append(ss, y) \in Seq(Chunks)
    OBVIOUS
  <1>2. Flat(ss) \in Seq(Marked) /\ Flat(Append(ss, y)) = Flat(ss) \o Phased(y[1], y[2])
    BY ChunksLabelled, FlatFacts
  <1> QED BY <1>1, <1>2

\* The length of labelled text.
LEMMA MarkedConcat ==
    \A x, y \in Seq(Marked) : x \o y \in Seq(Marked) /\ Len(x \o y) = Len(x) + Len(y)
  OBVIOUS

\* Phased of a text in two parts.
LEMMA PhasedMarked ==
    ASSUME NEW e \in Labels, NEW s \in Seq(Symbols)
    PROVE  /\ Phased(e, s) \in Seq(Marked)
           /\ \A r \in Seq(Symbols) : Phased(e, s \o r) = Phased(e, s) \o Phased(e, r)
  <1>1. Phased(e, s) \in Seq(Marked)
    BY PhasedFacts, Zenon DEF Marked
  <1>2. ASSUME NEW r \in Seq(Symbols) PROVE Phased(e, s \o r) = Phased(e, s) \o Phased(e, r)
    <2>1. PICK a \in Seq(Marked) : a = Phased(e, s) /\ Len(a) = Len(s) /\
               \A i \in 1..Len(s) : a[i] = <<e, s[i]>>
      <3>1. Len(Phased(e, s)) = Len(s) /\ \A i \in 1..Len(s) : Phased(e, s)[i] = <<e, s[i]>>
        BY DEF Phased
      <3> QED BY <1>1, <3>1
    <2>2. PICK b \in Seq(Marked) : b = Phased(e, r) /\ Len(b) = Len(r) /\
               \A i \in 1..Len(r) : b[i] = <<e, r[i]>>
      <3>1. Len(Phased(e, r)) = Len(r) /\ \A i \in 1..Len(r) : Phased(e, r)[i] = <<e, r[i]>>
        BY DEF Phased
      <3>2. Phased(e, r) \in Seq(Marked)
        BY PhasedFacts, Zenon DEF Marked
      <3> QED BY <3>1, <3>2
    <2>3. s \o r \in Seq(Symbols) /\ Len(s \o r) = Len(s) + Len(r)
      OBVIOUS
    <2>4. PICK u \in Seq(Symbols) : u = s \o r
      BY <2>3
    <2>5. PICK d \in Seq(Marked) : d = Phased(e, u) /\ Len(d) = Len(u) /\
               \A i \in 1..Len(u) : d[i] = <<e, u[i]>>
      <3>1. Len(Phased(e, u)) = Len(u) /\ \A i \in 1..Len(u) : Phased(e, u)[i] = <<e, u[i]>>
        BY DEF Phased
      <3>2. Phased(e, u) \in Seq(Marked)
        BY PhasedFacts, Zenon DEF Marked
      <3> QED BY <3>1, <3>2
    <2>6. a \o b \in Seq(Marked) /\ Len(a \o b) = Len(s) + Len(r)
      <3>1. a \o b \in Seq(Marked) /\ Len(a \o b) = Len(a) + Len(b)
        BY MarkedConcat, Zenon
      <3> QED BY <2>1, <2>2, <3>1
    <2>7. ASSUME NEW i \in 1..(Len(s) + Len(r)) PROVE d[i] = (a \o b)[i]
      <3>0. Len(s) \in Nat /\ Len(r) \in Nat /\ i \in 1..Len(u) /\ d[i] = <<e, u[i]>>
        BY <2>3, <2>4, <2>5
      <3>1. CASE i <= Len(s)
        <4>1. i \in 1..Len(s) /\ u[i] = s[i] /\ (a \o b)[i] = a[i]
          BY <2>1, <2>4, <3>0, <3>1
        <4> QED BY <2>1, <3>0, <4>1
      <3>2. CASE i > Len(s)
        <4>1. i - Len(s) \in 1..Len(r) /\ u[i] = r[i - Len(s)] /\ (a \o b)[i] = b[i - Len(s)]
          <5>1. \A X : \A p, q \in Seq(X) : \A j \in 1..(Len(p) + Len(q)) :
                  j > Len(p) => (p \o q)[j] = q[j - Len(p)]
            OBVIOUS
          <5>2. u[i] = r[i - Len(s)]
            BY <2>4, <3>2, <5>1
          <5>3. (a \o b)[i] = b[i - Len(s)]
            BY <2>1, <2>2, <3>2, <5>1
          <5> QED BY <3>0, <3>2, <5>2, <5>3
        <4> QED BY <2>2, <3>0, <4>1
      <3>3. i <= Len(s) \/ i > Len(s)
        <4>1. i \in Nat /\ Len(s) \in Nat
          BY <3>0
        <4> QED BY <4>1
      <3> QED BY <3>1, <3>2, <3>3, Zenon
    <2>8. d = a \o b
      <3>1. \A x, y \in Seq(Marked) : Len(x) = Len(y) /\
            (\A i \in 1..Len(x) : x[i] = y[i]) => x = y
        BY SeqEqual
      <3>2. Len(d) = Len(s) + Len(r)
        BY <2>3, <2>4, <2>5
      <3> QED BY <2>6, <2>7, <3>1, <3>2
    <2> QED BY <2>1, <2>2, <2>4, <2>5, <2>8
  <1> QED BY <1>1, <1>2

\* No text on either side changes nothing.
LEMMA MarkedEmpty == \A x \in Seq(Marked) : x \o <<>> = x /\ <<>> \o x = x
  OBVIOUS

\* The parts of a chunk record, and what it delivers.
LEMMA DeliveredMarked ==
    ASSUME NEW b \in BufRec
    PROVE  /\ b.buf \in Seq(Symbols) /\ b.phase \in Labels /\ b.sent \in Seq(Chunks)
           /\ Flat(b.sent) \in Seq(Marked) /\ Phased(b.phase, b.buf) \in Seq(Marked)
           /\ DeliveredBy(b) \in Seq(Marked)
  <1>1. b.buf \in Seq(Symbols) /\ b.phase \in Labels /\ b.sent \in Seq(Chunks)
    BY DEF BufRec
  <1> DEFINE y == <<b.phase, b.buf, FALSE>>
  <1>2. y \in Chunks
    BY <1>1 DEF Chunks
  <1>3. Flat(b.sent) \in Seq(Marked)
    <2> HIDE DEF y
    <2> QED BY <1>1, <1>2, FlatChunks
  <1>4. Phased(b.phase, b.buf) \in Seq(Marked)
    BY <1>1, PhasedMarked
  <1>5. DeliveredBy(b) \in Seq(Marked)
    BY <1>3, <1>4 DEF DeliveredBy
  <1> QED BY <1>1, <1>3, <1>4, <1>5

\* A chunk that is sent takes what is in the buffer with it.
LEMMA FlushFacts ==
    ASSUME NEW b \in BufRec
    PROVE  /\ Flush(b) \in BufRec /\ DeliveredBy(Flush(b)) = DeliveredBy(b)
           /\ Flush(b).buf = <<>> /\ Flush(b).phase = b.phase /\
               Flat(Flush(b).sent) = DeliveredBy(b)
  <1>1. /\ b.buf \in Seq(Symbols) /\ b.phase \in Labels /\ b.sent \in Seq(Chunks)
        /\ DeliveredBy(b) \in Seq(Marked)
    BY DeliveredMarked
  <1> DEFINE y == <<b.phase, b.buf, FALSE>>
  <1>2. y \in Chunks /\ y[1] = b.phase /\ y[2] = b.buf
    BY <1>1 DEF Chunks
  <1>3. Flush(b) = [b EXCEPT !.buf = <<>>, !.sent = Append(b.sent, y)]
    BY DEF Flush
  <1> HIDE DEF y
  <1>4. Append(b.sent, y) \in Seq(Chunks) /\
        Flat(Append(b.sent, y)) = Flat(b.sent) \o Phased(b.phase, b.buf)
    BY <1>1, <1>2, FlatChunks
  <1>5. Flush(b) \in BufRec /\ Flush(b).buf = <<>> /\ Flush(b).phase = b.phase /\
        Flush(b).sent = Append(b.sent, y)
    <2>1. PICK q \in Seq(Chunks) : q = Append(b.sent, y)
      BY <1>4
    <2>2. Flush(b) = [b EXCEPT !.buf = <<>>, !.sent = q]
      BY <1>3, <2>1
    <2>3. <<>> \in Seq(Symbols)
      OBVIOUS
    <2> QED BY <2>1, <2>2, <2>3 DEF BufRec
  <1>6. Phased(b.phase, <<>>) = <<>>
    BY DEF Phased
  <1>7. DeliveredBy(b) \o <<>> = DeliveredBy(b)
    BY <1>1, MarkedEmpty
  <1> QED BY <1>4, <1>5, <1>6, <1>7 DEF DeliveredBy

\* Sending a full buffer changes nothing of what is delivered.
LEMMA FullFacts ==
    ASSUME NEW b \in BufRec
    PROVE  FlushIfFull(b) \in BufRec /\ DeliveredBy(FlushIfFull(b)) = DeliveredBy(b)
  <1>1. Flush(b) \in BufRec /\ DeliveredBy(Flush(b)) = DeliveredBy(b)
    BY FlushFacts
  <1> QED BY <1>1 DEF FlushIfFull

\* A segment is added behind what is delivered, with its own phase.
LEMMA AddFacts ==
    ASSUME NEW b \in BufRec, NEW seg \in SegmentSet
    PROVE  /\ AddSegment(b, seg) \in BufRec
           /\ DeliveredBy(AddSegment(b, seg)) = DeliveredBy(b) \o Phased(seg[1], seg[2])
  <1>1. PICK e \in Phases, s \in Seq(Symbols) : seg[1] = e /\ seg[2] = s
    BY DEF SegmentSet
  <1>2. e \in Labels
    BY DEF Phases, Labels
  <1> DEFINE f == IF b.buf # <<>> /\ b.phase # e THEN Flush(b) ELSE b
  <1>3. f \in BufRec /\ DeliveredBy(f) = DeliveredBy(b) /\ (f.buf = <<>> \/ f.phase = e)
    BY FlushFacts
  <1>4. AddSegment(b, seg) = [f EXCEPT !.buf = @ \o s, !.phase = e]
    BY <1>1 DEF AddSegment
  <1> HIDE DEF f
  <1>5. /\ f.buf \in Seq(Symbols) /\ f.phase \in Labels /\ f.sent \in Seq(Chunks)
        /\ Flat(f.sent) \in Seq(Marked) /\ Phased(f.phase, f.buf) \in Seq(Marked)
    BY <1>3, DeliveredMarked
  <1>6. f.buf \o s \in Seq(Symbols)
    BY <1>5
  <1>7. PICK a : a = AddSegment(b, seg)
    OBVIOUS
  <1>8. a \in BufRec /\ a.buf = f.buf \o s /\ a.phase = e /\ a.sent = f.sent
    BY <1>2, <1>3, <1>4, <1>6, <1>7 DEF BufRec
  <1>9. Phased(e, f.buf \o s) = Phased(e, f.buf) \o Phased(e, s) /\
        Phased(e, f.buf) \in Seq(Marked)
    BY <1>2, <1>5, PhasedMarked
  <1>10. Phased(e, s) \in Seq(Marked)
    BY <1>2, PhasedMarked
  <1>11. Phased(e, f.buf) = Phased(f.phase, f.buf)
    BY <1>3 DEF Phased
  <1>12. Flat(f.sent) \o (Phased(e, f.buf) \o Phased(e, s)) =
         (Flat(f.sent) \o Phased(e, f.buf)) \o Phased(e, s)
    <2>1. PICK x \in Seq(Marked) : x = Flat(f.sent)
      BY <1>5
    <2>2. PICK y \in Seq(Marked) : y = Phased(e, f.buf)
      BY <1>9
    <2>3. PICK w \in Seq(Marked) : w = Phased(e, s)
      BY <1>10
    <2>4. (x \o y) \o w = x \o (y \o w)
      BY MarkedAssociative, Zenon
    <2> QED BY <2>1, <2>2, <2>3, <2>4
  <1>13. DeliveredBy(a) = Flat(f.sent) \o (Phased(e, f.buf) \o Phased(e, s))
    BY <1>8, <1>9 DEF DeliveredBy
  <1>14. DeliveredBy(f) = Flat(f.sent) \o Phased(e, f.buf)
    BY <1>11 DEF DeliveredBy
  <1> QED BY <1>1, <1>3, <1>7, <1>8, <1>12, <1>13, <1>14

\* One element more of a sequence.
LEMMA PrefixGrows ==
    ASSUME NEW X, NEW s \in Seq(X), NEW i \in 0..(Len(s) - 1)
    PROVE  /\ Prefix(s, i) \in Seq(X) /\ s[i + 1] \in X
           /\ Prefix(s, i + 1) = Append(Prefix(s, i), s[i + 1])
  BY DEF Prefix

\* None and all elements of a sequence.
LEMMA PrefixEnds ==
    ASSUME NEW X, NEW s \in Seq(X)
    PROVE  Prefix(s, 0) = <<>> /\ Prefix(s, Len(s)) = s
  BY DEF Prefix

\* Segments added one after the other are delivered one after the other.
LEMMA FoldDelivers ==
    ASSUME NEW base \in BufRec, NEW out \in Seq(SegmentSet),
           NEW op \in [BufRec \X SegmentSet -> BufRec],
           \A b \in BufRec, seg \in SegmentSet :
               DeliveredBy(op[<<b, seg>>]) = DeliveredBy(b) \o Phased(seg[1], seg[2]),
           NEW h, Folded(h, op, BufRec, base, out)
    PROVE  /\ h[1..Len(out)] \in BufRec
           /\ DeliveredBy(h[1..Len(out)]) = DeliveredBy(base) \o Flat(out)
  <1>1. PICK g : Runs(g, op, BufRec, base, out, h[1..Len(out)])
    BY FoldRuns, Zenon
  <1>2. /\ g \in [0..Len(out) -> BufRec] /\ g[0] = base
        /\ \A i \in 1..Len(out) : g[i] = op[<<g[i - 1], out[i]>>]
        /\ h[1..Len(out)] = g[Len(out)]
    BY <1>1 DEF Runs
  <1>3. PICK n \in Nat : n = Len(out)
    OBVIOUS
  <1> DEFINE S == {i \in Nat : i <= n =>
      DeliveredBy(g[i]) = DeliveredBy(base) \o Flat(Prefix(out, i))}
  <1>4. 0 \in S
    <2>1. DeliveredBy(base) \in Seq(Marked)
      BY DeliveredMarked
    <2>2. Flat(Prefix(out, 0)) = <<>>
      <3>1. Prefix(out, 0) = <<>>
        BY PrefixEnds
      <3> QED BY <3>1, FlatNone
    <2>3. DeliveredBy(base) \o <<>> = DeliveredBy(base)
      BY <2>1, MarkedEmpty
    <2> QED BY <1>2, <2>2, <2>3
  <1>5. ASSUME NEW i \in Nat, i \in S PROVE i + 1 \in S
    <2> SUFFICES ASSUME i + 1 <= n
                 PROVE DeliveredBy(g[i + 1]) = DeliveredBy(base) \o Flat(Prefix(out, i + 1))
      OBVIOUS
    <2>1. i \in 0..Len(out) /\ i + 1 \in 1..Len(out) /\ (i + 1) - 1 = i /\
          i \in 0..(Len(out) - 1)
      BY <1>3
    <2>2. g[i] \in BufRec /\ DeliveredBy(g[i]) = DeliveredBy(base) \o Flat(Prefix(out, i))
      <3>1. i <= n
        BY <1>5
      <3> QED BY <1>2, <1>3, <1>5, <2>1, <3>1
    <2>3. /\ Prefix(out, i) \in Seq(SegmentSet) /\ out[i + 1] \in SegmentSet
          /\ Prefix(out, i + 1) = Append(Prefix(out, i), out[i + 1])
      BY <2>1, PrefixGrows
    <2>4. PICK y \in SegmentSet : y = out[i + 1]
      BY <2>3
    <2>5. PICK w \in Seq(SegmentSet) : w = Prefix(out, i)
      BY <2>3
    <2>6. Flat(w) \in Seq(Marked) /\ Flat(Append(w, y)) = Flat(w) \o Phased(y[1], y[2])
      BY SegmentsLabelled, FlatFacts
    <2>7. Phased(y[1], y[2]) \in Seq(Marked)
      <3>1. y[1] \in Labels /\ y[2] \in Seq(Symbols)
        BY SegmentsLabelled
      <3> QED BY <3>1, PhasedMarked
    <2>8. DeliveredBy(g[i + 1]) = DeliveredBy(g[i]) \o Phased(y[1], y[2])
      <3>1. g[i + 1] = op[<<g[i], y>>]
        BY <1>2, <2>1, <2>4
      <3> QED BY <2>2, <3>1
    <2>9. (DeliveredBy(base) \o Flat(w)) \o Phased(y[1], y[2]) = DeliveredBy(base) \o
          (Flat(w) \o Phased(y[1], y[2]))
      <3>1. PICK a \in Seq(Marked) : a = DeliveredBy(base)
        BY DeliveredMarked
      <3>2. PICK b \in Seq(Marked) : b = Flat(w)
        BY <2>6
      <3>3. PICK d \in Seq(Marked) : d = Phased(y[1], y[2])
        BY <2>7
      <3>4. (a \o b) \o d = a \o (b \o d)
        BY MarkedAssociative, Zenon
      <3> QED BY <3>1, <3>2, <3>3, <3>4
    <2> QED BY <2>2, <2>3, <2>4, <2>5, <2>6, <2>8, <2>9
  <1>6. \A i \in Nat : i \in S
    <2>1. \A i \in Nat : i \in S => i + 1 \in S
      BY <1>5
    <2> HIDE DEF S
    <2> QED BY <1>4, <2>1, Induct, Zenon
  <1>7. n \in S
    <2> HIDE DEF S
    <2> QED BY <1>6
  <1>8. Prefix(out, Len(out)) = out
    BY PrefixEnds
  <1>9. DeliveredBy(g[n]) = DeliveredBy(base) \o Flat(out)
    BY <1>3, <1>7, <1>8
  <1>10. g[n] \in BufRec
    <2>1. n \in 0..Len(out)
      BY <1>3
    <2> QED BY <1>2, <2>1
  <1> QED BY <1>2, <1>3, <1>9, <1>10

\* On Android the segments of a piece are delivered behind what there was.
LEMMA AddIterFolded ==
    ASSUME NEW base \in BufRec, NEW out \in Seq(SegmentSet)
    PROVE  /\ AddIter(base, out)[DOMAIN out] \in BufRec
           /\ DeliveredBy(AddIter(base, out)[DOMAIN out]) = DeliveredBy(base) \o Flat(out)
  <1> DEFINE op == [q \in BufRec \X SegmentSet |-> AddSegment(q[1], q[2])]
             D == SUBSET (1..Len(out))
             h == AddIter(base, out)
  <1>1. \A b \in BufRec, seg \in SegmentSet : /\ op[<<b, seg>>] = AddSegment(b, seg)
                                        /\ AddSegment(b, seg) \in BufRec
                                        /\ DeliveredBy(AddSegment(b, seg)) =
                                            DeliveredBy(b) \o Phased(seg[1], seg[2])
    BY AddFacts
  <1>2. op \in [BufRec \X SegmentSet -> BufRec]
    BY <1>1
  <1>3. \A b \in BufRec, seg \in SegmentSet :
        DeliveredBy(op[<<b, seg>>]) = DeliveredBy(b) \o Phased(seg[1], seg[2])
    BY <1>1
  <1> HIDE DEF op
  <1>4. \A s \in D : s # {} => out[Max(s)] \in SegmentSet
    <2> SUFFICES ASSUME NEW s \in D, s # {} PROVE out[Max(s)] \in SegmentSet
      OBVIOUS
    <2>0. PICK n \in Nat : n = Len(out)
      OBVIOUS
    <2>1. s \in SUBSET (0..n) /\ s \in SUBSET (1..n)
      BY <2>0
    <2>2. Max(s) \in s
      BY <2>1, MaxOf
    <2>3. Max(s) \in 1..Len(out)
      BY <2>0, <2>1, <2>2
    <2> QED BY <2>3, ElementOfSeq
  <1>5. \E g \in [D -> BufRec] : Folded(g, op, BufRec, base, out)
    BY <1>2, FoldExists
  <1>6. PICK g \in [D -> BufRec] : Folded(g, op, BufRec, base, out)
    BY <1>5
  <1>7. DOMAIN out = 1..Len(out)
    OBVIOUS
  <1>8. g = [s \in SUBSET (DOMAIN out) |->
               IF s = {} THEN base ELSE AddSegment(g[s \ {Max(s)}], out[Max(s)])]
    <2>1. ASSUME NEW s \in D
                 PROVE g[s] = IF s = {} THEN base ELSE AddSegment(g[s \ {Max(s)}], out[Max(s)])
      <3>1. CASE s = {}
        BY <1>6, <3>1 DEF Folded
      <3>2. CASE s # {}
        <4>1. g[s \ {Max(s)}] \in BufRec /\ out[Max(s)] \in SegmentSet
          BY <1>4, <3>2
        <4>2. g[s] = op[<<g[s \ {Max(s)}], out[Max(s)]>>]
          BY <1>6, <3>2, <4>1 DEF Folded
        <4> QED BY <1>1, <3>2, <4>1, <4>2
      <3> QED BY <3>1, <3>2
    <2> HIDE DEF D
    <2> QED BY <2>1, <1>7 DEF D
  <1>9. h = [s \in SUBSET (DOMAIN out) |->
               IF s = {} THEN base ELSE AddSegment(h[s \ {Max(s)}], out[Max(s)])]
    BY <1>8, Zenon DEF AddIter
  <1> HIDE DEF h
  <1>10. Folded(h, op, BufRec, base, out)
    <2>1. h[{}] = base
      BY <1>9
    <2>2. ASSUME NEW s \in D, s # {}, h[s \ {Max(s)}] \in BufRec
          PROVE  h[s] = op[<<h[s \ {Max(s)}], out[Max(s)]>>]
      <3>1. h[s] = AddSegment(h[s \ {Max(s)}], out[Max(s)])
        BY <1>7, <1>9, <2>2
      <3> QED BY <1>1, <1>4, <2>2, <3>1
    <2> QED BY <2>1, <2>2 DEF Folded
  <1>11. h[1..Len(out)] \in BufRec /\
         DeliveredBy(h[1..Len(out)]) = DeliveredBy(base) \o Flat(out)
    BY <1>2, <1>3, <1>10, FoldDelivers
  <1> QED BY <1>7, <1>11 DEF h

\* On the desktop and on iOS the segments of a piece are delivered behind what there
\* was, whichever chunks are sent on the way.
LEMMA SendIterFolded ==
    ASSUME NEW base \in BufRec, NEW out \in Seq(SegmentSet)
    PROVE  /\ SendIter(base, out)[DOMAIN out] \in BufRec
           /\ DeliveredBy(SendIter(base, out)[DOMAIN out]) = DeliveredBy(base) \o Flat(out)
  <1> DEFINE op == [q \in BufRec \X SegmentSet |-> FlushIfFull(AddSegment(q[1], q[2]))]
             D == SUBSET (1..Len(out))
             h == SendIter(base, out)
  <1>1. \A b \in BufRec, seg \in SegmentSet :
        /\ op[<<b, seg>>] = FlushIfFull(AddSegment(b, seg))
        /\ FlushIfFull(AddSegment(b, seg)) \in BufRec
        /\ DeliveredBy(FlushIfFull(AddSegment(b, seg))) =
             DeliveredBy(b) \o Phased(seg[1], seg[2])
    BY AddFacts, FullFacts
  <1>2. op \in [BufRec \X SegmentSet -> BufRec]
    BY <1>1
  <1>3. \A b \in BufRec, seg \in SegmentSet :
        DeliveredBy(op[<<b, seg>>]) = DeliveredBy(b) \o Phased(seg[1], seg[2])
    BY <1>1
  <1> HIDE DEF op
  <1>4. \A s \in D : s # {} => out[Max(s)] \in SegmentSet
    <2> SUFFICES ASSUME NEW s \in D, s # {} PROVE out[Max(s)] \in SegmentSet
      OBVIOUS
    <2>0. PICK n \in Nat : n = Len(out)
      OBVIOUS
    <2>1. s \in SUBSET (0..n) /\ s \in SUBSET (1..n)
      BY <2>0
    <2>2. Max(s) \in s
      BY <2>1, MaxOf
    <2>3. Max(s) \in 1..Len(out)
      BY <2>0, <2>1, <2>2
    <2> QED BY <2>3, ElementOfSeq
  <1>5. \E g \in [D -> BufRec] : Folded(g, op, BufRec, base, out)
    BY <1>2, FoldExists
  <1>6. PICK g \in [D -> BufRec] : Folded(g, op, BufRec, base, out)
    BY <1>5
  <1>7. DOMAIN out = 1..Len(out)
    OBVIOUS
  <1>8. g = [s \in SUBSET (DOMAIN out) |->
               IF s = {} THEN base ELSE FlushIfFull(AddSegment(g[s \ {Max(s)}], out[Max(s)]))]
    <2>1. ASSUME NEW s \in D
                 PROVE g[s] = IF s = {} THEN base
                     ELSE FlushIfFull(AddSegment(g[s \ {Max(s)}], out[Max(s)]))
      <3>1. CASE s = {}
        BY <1>6, <3>1 DEF Folded
      <3>2. CASE s # {}
        <4>1. g[s \ {Max(s)}] \in BufRec /\ out[Max(s)] \in SegmentSet
          BY <1>4, <3>2
        <4>2. g[s] = op[<<g[s \ {Max(s)}], out[Max(s)]>>]
          BY <1>6, <3>2, <4>1 DEF Folded
        <4> QED BY <1>1, <3>2, <4>1, <4>2
      <3> QED BY <3>1, <3>2
    <2> HIDE DEF D
    <2> QED BY <2>1, <1>7 DEF D
  <1>9. h = [s \in SUBSET (DOMAIN out) |->
               IF s = {} THEN base ELSE FlushIfFull(AddSegment(h[s \ {Max(s)}], out[Max(s)]))]
    BY <1>8, Zenon DEF SendIter
  <1> HIDE DEF h
  <1>10. Folded(h, op, BufRec, base, out)
    <2>1. h[{}] = base
      BY <1>9
    <2>2. ASSUME NEW s \in D, s # {}, h[s \ {Max(s)}] \in BufRec
          PROVE  h[s] = op[<<h[s \ {Max(s)}], out[Max(s)]>>]
      <3>1. h[s] = FlushIfFull(AddSegment(h[s \ {Max(s)}], out[Max(s)]))
        BY <1>7, <1>9, <2>2
      <3> QED BY <1>1, <1>4, <2>2, <3>1
    <2> QED BY <2>1, <2>2 DEF Folded
  <1>11. h[1..Len(out)] \in BufRec /\
         DeliveredBy(h[1..Len(out)]) = DeliveredBy(base) \o Flat(out)
    BY <1>2, <1>3, <1>10, FoldDelivers
  <1> QED BY <1>7, <1>11 DEF h

\* The filter of iOS keeps every symbol that is not a control token.
LEMMA KeepType ==
    ASSUME NEW piece \in Seq(Letters)
    PROVE  IosFilterControlTokens(piece) \in Seq(Symbols)
  <1> DEFINE R == Seq(Symbols)
             op == [q \in R \X Letters |-> IF q[2] = "c" THEN q[1] ELSE Append(q[1], q[2])]
             D == SUBSET (1..Len(piece))
             h == KeepIter(piece)
             Keep(r, l) == IF l = "c" THEN r ELSE Append(r, l)
  <1>0. <<>> \in R
    OBVIOUS
  <1>1. \A r \in R, l \in Letters : op[<<r, l>>] = Keep(r, l)
    OBVIOUS
  <1>2. op \in [R \X Letters -> R]
    <2>1. \A r \in R, l \in Letters : Keep(r, l) \in R
      BY DEF Letters
    <2> QED BY <2>1
  <1> HIDE DEF op, R
  <1>4. \A s \in D : s # {} => piece[Max(s)] \in Letters
    <2> SUFFICES ASSUME NEW s \in D, s # {} PROVE piece[Max(s)] \in Letters
      OBVIOUS
    <2>0. PICK n \in Nat : n = Len(piece)
      OBVIOUS
    <2>1. s \in SUBSET (0..n) /\ s \in SUBSET (1..n)
      BY <2>0
    <2>2. Max(s) \in s
      BY <2>1, MaxOf
    <2>3. Max(s) \in 1..Len(piece)
      BY <2>0, <2>1, <2>2
    <2> QED BY <2>3, ElementOfSeq
  <1>5. \E g \in [D -> R] : Folded(g, op, R, <<>>, piece)
    BY <1>0, <1>2, FoldExists
  <1>6. PICK g \in [D -> R] : Folded(g, op, R, <<>>, piece)
    BY <1>5
  <1>7. DOMAIN piece = 1..Len(piece)
    OBVIOUS
  <1>8. g = [s \in SUBSET (DOMAIN piece) |->
               IF s = {} THEN <<>> ELSE Keep(g[s \ {Max(s)}], piece[Max(s)])]
    <2> HIDE DEF Keep
    <2>1. ASSUME NEW s \in D
                 PROVE g[s] = IF s = {} THEN <<>> ELSE Keep(g[s \ {Max(s)}], piece[Max(s)])
      <3>1. CASE s = {}
        BY <1>6, <3>1 DEF Folded
      <3>2. CASE s # {}
        <4>1. g[s \ {Max(s)}] \in R /\ piece[Max(s)] \in Letters
          BY <1>4, <3>2
        <4>2. g[s] = op[<<g[s \ {Max(s)}], piece[Max(s)]>>]
          BY <1>6, <3>2, <4>1 DEF Folded
        <4> QED BY <1>1, <3>2, <4>1, <4>2
      <3> QED BY <3>1, <3>2
    <2> HIDE DEF D
    <2> QED BY <2>1, <1>7 DEF D
  <1>9. h = [s \in SUBSET (DOMAIN piece) |->
               IF s = {} THEN <<>> ELSE Keep(h[s \ {Max(s)}], piece[Max(s)])]
    BY <1>8, Zenon DEF KeepIter
  <1> HIDE DEF h, Keep
  <1>10. Folded(h, op, R, <<>>, piece)
    <2>1. h[{}] = <<>>
      BY <1>9
    <2>2. ASSUME NEW s \in D, s # {}, h[s \ {Max(s)}] \in R
          PROVE  h[s] = op[<<h[s \ {Max(s)}], piece[Max(s)]>>]
      <3>1. h[s] = Keep(h[s \ {Max(s)}], piece[Max(s)])
        BY <1>7, <1>9, <2>2
      <3> QED BY <1>1, <1>4, <2>2, <3>1
    <2> QED BY <2>1, <2>2 DEF Folded
  <1>11. \A s \in D : h[s] \in R
    BY <1>0, <1>2, <1>10, FoldExists
  <1>12. h[DOMAIN piece] \in R
    BY <1>7, <1>11
  <1> QED BY <1>12, KeepFold DEF h, R

\* The filter of the desktop worker leaves the end of the piece.
LEMMA FilterType ==
    ASSUME NEW piece \in Seq(Letters)
    PROVE  FilterControlTokens(piece) \in Seq(Symbols)
  <1> DEFINE T == {0} \cup {i \in DOMAIN piece : piece[i] = "c"}
  <1>0. PICK n \in Nat : n = Len(piece) /\ DOMAIN piece = 1..n
    OBVIOUS
  <1>1. T \in SUBSET (0..n) /\ T # {}
    BY <1>0
  <1>2. Max(T) \in 0..n /\ \A y \in T : Max(T) >= y
    <2> HIDE DEF T
    <2> QED BY <1>1, MaxOf
  <1>3. PICK m \in 0..n : m = Max(T)
    BY <1>2
  <1>4. \A i \in (1 + m)..n : piece[i] \in Symbols
    <2> SUFFICES ASSUME NEW i \in (1 + m)..n PROVE piece[i] \in Symbols
      OBVIOUS
    <2>1. i \in 1..n /\ ~(m >= i)
      OBVIOUS
    <2>2. piece[i] \in Letters
      BY <1>0, <2>1
    <2>3. i \notin T
      BY <1>2, <1>3, <2>1
    <2>4. piece[i] # "c"
      BY <1>0, <2>1, <2>3
    <2> QED BY <2>2, <2>4 DEF Letters
  <1>5. SubSeq(piece, 1 + m, n) \in Seq(Symbols)
    BY <1>4, SubSeqProperties
  <1> QED BY <1>0, <1>3, <1>5 DEF FilterControlTokens

(***************************************************************************)
(* One piece, and the invariant.                                           *)
(***************************************************************************)

\* c is held back at the end of t, and e is the phase in front of it.
Held(t, c, e) ==
  /\ Len(c) <= Len(t) /\ EndOf(t, Len(t) - Len(c), c)
  /\ EndIs(t, Len(t) - Len(c), e)
  /\ c # <<>> => c \in MarkerStarts
  /\ c = <<>> /\ t # <<>> => t[Len(t)] # "<"

\* What the reference makes of a text depends on what comes before only.
LEMMA Extends ==
    ASSUME NEW t \in Seq(Symbols), NEW s \in Seq(Symbols), NEW k \in 0..Len(t), NEW e \in Phases
    PROVE  /\ t \o s \in Seq(Symbols) /\ Len(t \o s) = Len(t) + Len(s)
           /\ \A i \in 1..Len(t) : (t \o s)[i] = t[i]
           /\ \A i \in 1..Len(s) : (t \o s)[Len(t) + i] = s[i]
           /\ RefAt(t \o s, k) = RefAt(t, k)
           /\ EndIs(t, k, e) => EndIs(t \o s, k, e)
           /\ NoLine(t \o s) => NoLine(t)
  <1>1. PICK u \in Seq(Symbols) : u = t \o s
    BY ConcatProperties
  <1>2. Len(u) = Len(t) + Len(s) /\ Len(t) \in Nat /\ Len(s) \in Nat /\ \A i \in 1..Len(t) :
        u[i] = t[i]
    BY <1>1
  <1>3. \A i \in 1..Len(s) : u[Len(t) + i] = s[i]
    BY <1>1
  <1>4. Prefix(u, k) = Prefix(t, k)
    <2>0. k \in 0..Len(u) /\ k \in Nat
      BY <1>2
    <2>1. PICK a \in Seq(Symbols) : a = Prefix(u, k) /\ Len(a) = k /\ \A i \in 1..k :
               a[i] = u[i]
      BY <2>0, PrefixFacts
    <2>2. PICK b \in Seq(Symbols) : b = Prefix(t, k) /\ Len(b) = k /\ \A i \in 1..k :
               b[i] = t[i]
      BY PrefixFacts
    <2>3. \A i \in 1..k : i \in 1..Len(t)
      BY <1>2
    <2>4. \A i \in 1..k : a[i] = b[i]
      BY <1>2, <2>1, <2>2, <2>3
    <2>5. \A x, y \in Seq(Symbols) : Len(x) = Len(y) /\ (\A i \in 1..Len(x) : x[i] = y[i]) =>
          x = y
      BY SeqEqual
    <2> QED BY <2>1, <2>2, <2>4, <2>5
  <1>5. RefAt(u, k) = RefAt(t, k)
    BY <1>4 DEF RefAt
  <1>6. ASSUME EndIs(t, k, e) PROVE EndIs(u, k, e)
    <2>1. \A j \in 1..(k - 1) : (Tag(u, j) <=> Tag(t, j)) /\ Turn(u, j) = Turn(t, j)
      <3> SUFFICES ASSUME NEW j \in 1..(k - 1), NEW half
                   PROVE TagAt(u, j, half) <=> TagAt(t, j, half)
        BY DEF Tag, Turn
      <3>1. j \in 1..Len(t) /\ j + 1 \in 1..Len(t) /\ j < Len(t) /\ j < Len(u)
        BY <1>2
      <3>2. u[j] = t[j] /\ u[j + 1] = t[j + 1]
        BY <1>2, <3>1
      <3> QED BY <3>1, <3>2 DEF TagAt
    <2>2. CASE e = "Final" /\ \A j \in 1..(k - 1) : ~Tag(t, j)
      BY <2>1, <2>2 DEF EndIs, EndFrom
    <2>3. CASE \E j \in 1..(k - 1) : /\ Tag(t, j) /\ e = Turn(t, j)
                                     /\ \A l \in (j + 1)..(k - 1) : ~Tag(t, l)
      <3>1. PICK j \in 1..(k - 1) : /\ Tag(t, j) /\ e = Turn(t, j)
                                    /\ \A l \in (j + 1)..(k - 1) : ~Tag(t, l)
        BY <2>3
      <3>2. \A l \in (j + 1)..(k - 1) : l \in 1..(k - 1)
        OBVIOUS
      <3>3. /\ Tag(u, j) /\ e = Turn(u, j)
            /\ \A l \in (j + 1)..(k - 1) : ~Tag(u, l)
        BY <2>1, <3>1, <3>2
      <3> QED BY <3>3 DEF EndIs, EndFrom
    <2> QED BY <1>6, <2>2, <2>3 DEF EndIs, EndFrom
  <1>7. NoLine(u) => NoLine(t)
    <2>1. \A i \in 1..Len(t) : i \in 1..Len(u)
      BY <1>2
    <2> QED BY <1>2, <2>1 DEF NoLine
  <1> QED BY <1>1, <1>2, <1>3, <1>5, <1>6, <1>7

\* What push returns.
LEMMA PushType ==
    ASSUME carry \in Seq(Symbols), phase \in Phases, NEW piece \in Seq(Symbols)
    PROVE  Push(piece) \in SegRec
  <1>1. CASE piece = <<>>
    BY <1>1 DEF Push, SegRec
  <1>2. CASE piece # <<>>
    <2>1. PICK c \in Seq(Symbols) : c = carry \o piece
      BY ConcatProperties
    <2>2. SegF(c) \in [1..(Len(c) + 1) -> [Phases -> SegRec]]
      BY SegBodyFacts
    <2>3. 1 \in 1..(Len(c) + 1)
      OBVIOUS
    <2>4. SegF(c)[1][phase] \in SegRec
      BY <2>2, <2>3
    <2>5. Push(piece) = SegF(c)[1][phase]
      BY <1>2, <2>1, SegTop DEF Push
    <2> QED BY <2>4, <2>5
  <1> QED BY <1>1, <1>2

\* One piece: the text grows, and what push returns is what the reference adds.
LEMMA PushRight ==
    ASSUME text \in Seq(Symbols), carry \in Seq(Symbols), phase \in Phases,
           NEW piece \in Seq(Symbols),
           NoLine(text \o piece), Held(text, carry, phase)
    PROVE  /\ Held(text \o piece, Push(piece).carry, Push(piece).phase)
           /\ RefAt(text \o piece, Len(text \o piece) - Len(Push(piece).carry))
                = RefAt(text, Len(text) - Len(carry)) \o Flat(Push(piece).out)
  <1>1. CASE piece = <<>>
    <2>1. text \o piece = text
      BY <1>1
    <2>2. Push(piece).carry = carry /\ Push(piece).phase = phase /\ Push(piece).out = <<>>
      BY <1>1 DEF Push
    <2>3. Len(text) - Len(carry) \in 0..Len(text)
      BY DEF Held
    <2>4. RefAt(text, Len(text) - Len(carry)) \in Seq(Marked)
      BY <2>3, RefAtType
    <2>5. RefAt(text, Len(text) - Len(carry)) \o <<>> = RefAt(text, Len(text) - Len(carry))
      BY <2>4, MarkedEmpty
    <2> QED BY <2>1, <2>2, <2>5, FlatNone
  <1>2. CASE piece # <<>>
    <2>1. PICK t \in Seq(Symbols) : t = text \o piece
      BY ConcatProperties
    <2>2. PICK c \in Seq(Symbols) : c = carry \o piece
      BY ConcatProperties
    <2>3. PICK o \in 0..Len(text) : o = Len(text) - Len(carry)
      BY DEF Held
    <2>4. /\ Len(t) = Len(text) + Len(piece)
          /\ \A i \in 1..Len(text) : t[i] = text[i]
          /\ \A i \in 1..Len(piece) : t[Len(text) + i] = piece[i]
          /\ RefAt(t, o) = RefAt(text, o)
          /\ EndIs(text, o, phase) => EndIs(t, o, phase)
      <3>1. PICK w \in Seq(Symbols) : w = text
        OBVIOUS
      <3>2. PICK e \in Phases : e = phase
        OBVIOUS
      <3>3. o \in 0..Len(w)
        BY <3>1
      <3>4. /\ Len(w \o piece) = Len(w) + Len(piece)
            /\ \A i \in 1..Len(w) : (w \o piece)[i] = w[i]
            /\ \A i \in 1..Len(piece) : (w \o piece)[Len(w) + i] = piece[i]
            /\ RefAt(w \o piece, o) = RefAt(w, o)
            /\ EndIs(w, o, e) => EndIs(w \o piece, o, e)
        BY <3>3, Extends
      <3> QED BY <2>1, <3>1, <3>2, <3>4
    <2>5. /\ Len(c) = Len(carry) + Len(piece) /\ Len(piece) > 0
          /\ \A i \in 1..Len(carry) : c[i] = carry[i]
          /\ \A i \in 1..Len(piece) : c[Len(carry) + i] = piece[i]
      BY <1>2, <2>2
    <2>6. Len(text) \in Nat /\ Len(carry) \in Nat /\ Len(piece) \in Nat /\
          Len(text) = o + Len(carry)
          /\ o \in Nat /\ Len(carry) <= Len(text)
      BY <2>3
    <2>7. \A i \in 1..Len(carry) : carry[i] = text[o + i]
      BY <2>3 DEF Held, EndOf
    <2>8. EndOf(t, o, c)
      <3>1. Len(c) = Len(t) - o
        BY <2>4, <2>5, <2>6
      <3>2. ASSUME NEW i \in 1..Len(c) PROVE c[i] = t[o + i]
        <4>1. CASE i <= Len(carry)
          <5>1. i \in 1..Len(carry) /\ o + i \in 1..Len(text)
            BY <2>6, <4>1
          <5> QED BY <2>4, <2>5, <2>7, <5>1
        <4>2. CASE i > Len(carry)
          <5>1. PICK j \in 1..Len(piece) : j = i - Len(carry)
            <6>1. i \in Nat /\ i <= Len(carry) + Len(piece)
              BY <2>5, <2>6
            <6>2. \A a, b, d \in Nat : d <= a + b /\ d > a => d - a \in 1..b
              OBVIOUS
            <6>3. i - Len(carry) \in 1..Len(piece)
              BY <2>6, <4>2, <6>1, <6>2
            <6> QED BY <6>3
          <5>2. Len(carry) + j = i /\ Len(text) + j = o + i
            BY <2>6, <5>1
          <5>3. c[Len(carry) + j] = piece[j] /\ t[Len(text) + j] = piece[j]
            BY <2>4, <2>5
          <5> QED BY <5>2, <5>3
        <4> QED BY <2>6, <4>1, <4>2
      <3> QED BY <3>1, <3>2 DEF EndOf
    <2>9. EndIs(t, o, phase)
      BY <2>3, <2>4 DEF Held
    <2>10. o \in 0..Len(t) /\ Len(c) > 0 /\ Len(t) \in Nat /\ Len(c) \in Nat
      BY <2>4, <2>5, <2>6
    <2>11. ASSUME o >= 1, Tag(t, o) PROVE FALSE
      <3>1. t[o] = "<" /\ t[o + 1] \in {"A>", "F>"}
        BY <2>11 DEF Tag, TagAt
      <3>2. CASE carry = <<>>
        <4>1. o = Len(text) /\ o \in 1..Len(text)
          BY <2>6, <2>11, <3>2
        <4>2. text # <<>> /\ t[o] = text[Len(text)]
          BY <2>4, <4>1
        <4> QED BY <3>1, <3>2, <4>2 DEF Held
      <3>3. CASE carry # <<>>
        <4>1. carry \in MarkerStarts
          BY <3>3 DEF Held
        <4>2. carry[1] \notin {"A>", "F>"}
          BY <4>1 DEF MarkerStarts
        <4>3. 1 \in 1..Len(carry)
          BY <3>3, <2>6
        <4>4. o + 1 \in 1..Len(text)
          BY <2>6, <4>3
        <4>5. t[o + 1] = carry[1]
          BY <2>4, <2>7, <4>3, <4>4
        <4> QED BY <3>1, <4>2, <4>5
      <3> QED BY <3>2, <3>3
    <2>12. Right(t, c, o, SegF(c)[1][phase])
      <3>1. 1 \in 1..(Len(c) + 1) /\ o + 1 - 1 = o /\ ~(1 > 1)
        BY <2>6, <2>10
      <3>2. \A p \in 1..(Len(c) + 1), ph \in Phases :
             EndIs(t, o + p - 1, ph) /\ (p > 1 => t[o + p - 1] \in {"A>", "F>"}) =>
               Right(t, c, o + p - 1, SegF(c)[p][ph])
        BY <2>1, <2>8, <2>10, <2>11, SegmentsRight
      <3>3. EndIs(t, o + 1 - 1, phase)
        BY <3>1, <2>9
      <3>4. Right(t, c, o + 1 - 1, SegF(c)[1][phase])
        BY <3>1, <3>2, <3>3
      <3> QED BY <3>1, <3>4
    <2>13. Push(piece) = SegF(c)[1][phase]
      BY <1>2, <2>2, SegTop DEF Push
    <2>14. PICK r \in SegRec : r = Push(piece)
      BY PushType
    <2>15. Right(t, c, o, r)
      BY <2>12, <2>13, <2>14
    <2>16. r.carry \in Seq(Symbols)
      BY <2>14 DEF SegRec
    <2>17. PICK l \in Nat : l = Len(r.carry)
      BY <2>16
    <2>18. l <= Len(t) - o /\ r.carry = SubSeq(c, Len(c) - l + 1, Len(c))
      BY <2>15, <2>17 DEF Right
    <2>19. l <= Len(c) /\ l <= Len(t) /\ Len(c) = Len(t) - o
      BY <2>8, <2>10, <2>18 DEF EndOf
    <2>20. EndOf(t, Len(t) - l, r.carry)
      <3>1. ASSUME NEW i \in 1..l PROVE r.carry[i] = t[Len(t) - l + i]
        <4>1. r.carry[i] = c[Len(c) - l + i]
          <5>1. \A x \in Seq(Symbols) : \A m \in 0..Len(x) : \A j \in 1..m :
                  SubSeq(x, Len(x) - m + 1, Len(x))[j] = x[Len(x) - m + j]
            OBVIOUS
          <5>2. l \in 0..Len(c)
            BY <2>10, <2>19
          <5> QED BY <2>18, <5>1, <5>2
        <4>2. Len(c) - l + i \in 1..Len(c) /\ o + (Len(c) - l + i) = Len(t) - l + i
          BY <2>10, <2>19
        <4>3. c[Len(c) - l + i] = t[o + (Len(c) - l + i)]
          BY <2>8, <4>2 DEF EndOf
        <4> QED BY <4>1, <4>2, <4>3
      <3>2. l = Len(t) - (Len(t) - l)
        BY <2>10
      <3> QED BY <2>17, <3>1, <3>2 DEF EndOf
    <2>21. Held(t, r.carry, r.phase)
      <3>1. EndIs(t, Len(t) - l, r.phase) /\ (r.carry # <<>> => r.carry \in MarkerStarts)
            /\ (r.carry = <<>> => t[Len(t)] # "<")
        BY <2>15, <2>17 DEF Right
      <3> QED BY <2>17, <2>19, <2>20, <3>1 DEF Held
    <2>22. RefAt(t, Len(t) - Len(r.carry)) = RefAt(text, o) \o Flat(r.out)
      BY <2>4, <2>15 DEF Right
    <2> QED BY <2>1, <2>3, <2>14, <2>21, <2>22
  <1> QED BY <1>1, <1>2

\* The types of the variables.
OutTypeOK ==
  /\ outBuild \in {"desktop", "ios", "android", "android_chat"}
  /\ text \in Seq(Symbols) /\ carry \in Seq(Symbols) /\ phase \in Phases
  /\ buf \in Seq(Symbols) /\ bufPhase \in Labels /\ sent \in Seq(Chunks)
  /\ suppress \in BOOLEAN /\ cleared \in BOOLEAN

\* What has been sent or is in the buffer is what the reference makes of the text, and
\* the splitter is where the reference is.  Line markers are left out, as in the
\* property.
AsDelivered ==
  IF outBuild = "android_chat" THEN DeliveredBy(Chunk) = Phased("Unknown", text)
  ELSE NoLine(text) => /\ Held(text, carry, phase)
                       /\ DeliveredBy(Chunk) = RefAt(text, Len(text) - Len(carry))

\* The inductive invariant: the splitter's carry and phase have to be in it, because
\* the text alone says nothing of the next piece.
OutInv ==
  /\ OutTypeOK
  /\ outBuild = "android_chat" => bufPhase = "Unknown"
  /\ ~cleared => AsDelivered

\* The chunk variables as a record.
LEMMA ChunkType == ASSUME OutTypeOK PROVE Chunk \in BufRec
  BY DEF OutTypeOK, Chunk, BufRec

\* Apply stores a chunk record.
LEMMA ApplyFacts ==
    ASSUME NEW b \in BufRec, Apply(b)
    PROVE  /\ Chunk' = b
           /\ buf' \in Seq(Symbols) /\ bufPhase' \in Labels /\ sent' \in Seq(Chunks)
           /\ buf' = b.buf /\ bufPhase' = b.phase /\ sent' = b.sent
  BY DEF Apply, Chunk, BufRec

\* A token's text, with and without control tokens.
LEMMA PieceType ==
    ASSUME NEW piece \in Pieces
    PROVE  /\ piece \in Seq(Letters)
           /\ (\A i \in DOMAIN piece : piece[i] # "c") => piece \in Seq(Symbols)
  <1>1. piece \in Seq(Letters)
    <2>1. CASE piece \in {<<"c">>, <<"t", "c">>}
      <3>1. "c" \in Letters /\ "t" \in Letters
        BY DEF Letters, Symbols
      <3>2. \A x, y \in Letters : <<x>> \in Seq(Letters) /\ <<x, y>> \in Seq(Letters)
        OBVIOUS
      <3>3. <<"c">> \in Seq(Letters) /\ <<"t", "c">> \in Seq(Letters)
        BY <3>1, <3>2
      <3> QED BY <2>1, <3>3
    <2>2. CASE \E n \in 1..MaxToken : piece \in [1..n -> Symbols]
      <3>1. PICK n \in 1..MaxToken : piece \in [1..n -> Symbols]
        BY <2>2
      <3>2. n \in Nat /\ piece \in [1..n -> Letters]
        BY <3>1, OutputAssumption DEF Letters
      <3> QED BY <3>2, SeqDef
    <2>3. piece \in {<<"c">>, <<"t", "c">>} \/ \E n \in 1..MaxToken :
          piece \in [1..n -> Symbols]
      <3> DEFINE Texts(n) == [1..n -> Symbols]
                 Short == {<<"c">>, <<"t", "c">>}
      <3>1. piece \in (UNION {Texts(n) : n \in 1..MaxToken}) \cup Short
        <4>1. (UNION {Texts(n) : n \in 1..MaxToken}) \cup Short = Pieces
          BY Zenon DEF Pieces
        <4> QED BY <4>1, Zenon
      <3> HIDE DEF Texts, Short
      <3>2. piece \in Short \/ \E n \in 1..MaxToken : piece \in Texts(n)
        BY <3>1, Zenon
      <3> QED BY <3>2 DEF Texts, Short
    <2> QED BY <2>1, <2>2, <2>3, Zenon
  <1>2. ASSUME \A i \in DOMAIN piece : piece[i] # "c" PROVE piece \in Seq(Symbols)
    <2>1. \A i \in 1..Len(piece) : piece[i] \in Symbols
      <3>1. \A i \in 1..Len(piece) : piece[i] \in Letters /\ i \in DOMAIN piece
        BY <1>1
      <3> QED BY <1>2, <3>1 DEF Letters
    <2> QED BY <1>1, <2>1
  <1> QED BY <1>1, <1>2

\* A piece through the splitter, with what it adds to the chunks.
LEMMA SplitsKeeps ==
    ASSUME OutInv, NEW piece \in Seq(Symbols), Splits(piece), outBuild # "android_chat",
           NEW b \in BufRec, Apply(b), DeliveredBy(b) = DeliveredBy(Chunk) \o
               Flat(Push(piece).out),
           UNCHANGED <<outBuild, suppress, cleared>>
    PROVE  OutInv'
  <1>1. /\ OutTypeOK /\ text \in Seq(Symbols) /\ carry \in Seq(Symbols) /\ phase \in Phases
    BY DEF OutInv, OutTypeOK
  <1>2. Push(piece) \in SegRec
    BY <1>1, PushType
  <1>3. text' = text \o piece /\ carry' = Push(piece).carry /\ phase' = Push(piece).phase
    BY DEF Splits
  <1>4. text' \in Seq(Symbols)
    BY <1>1, <1>3, ConcatProperties
  <1>5. carry' \in Seq(Symbols) /\ phase' \in Phases
    BY <1>2, <1>3 DEF SegRec
  <1>6. /\ Chunk' = b /\ buf' \in Seq(Symbols) /\ bufPhase' \in Labels /\ sent' \in Seq(Chunks)
    BY ApplyFacts
  <1>7. OutTypeOK'
    BY <1>1, <1>4, <1>5, <1>6 DEF OutTypeOK
  <1>8. ASSUME ~cleared, NoLine(text \o piece)
        PROVE  Held(text \o piece, carry', phase')
               /\ DeliveredBy(b) = RefAt(text \o piece, Len(text \o piece) - Len(carry'))
    <2>1. NoLine(text)
      <3>1. PICK w \in Seq(Symbols) : w = text
        BY <1>1
      <3>2. 0 \in 0..Len(w) /\ "Final" \in Phases
        BY DEF Phases
      <3>3. NoLine(w \o piece) => NoLine(w)
        BY <3>2, Extends
      <3> QED BY <1>8, <3>1, <3>3
    <2>2. Held(text, carry, phase) /\ DeliveredBy(Chunk) = RefAt(text, Len(text) - Len(carry))
      BY <1>8, <2>1 DEF OutInv, AsDelivered
    <2>3. /\ Held(text \o piece, Push(piece).carry, Push(piece).phase)
          /\ RefAt(text \o piece, Len(text \o piece) - Len(Push(piece).carry))
                = RefAt(text, Len(text) - Len(carry)) \o Flat(Push(piece).out)
      BY <1>1, <1>8, <2>2, PushRight
    <2> QED BY <1>3, <2>2, <2>3
  <1>9. (~cleared => AsDelivered)'
    <2>1. AsDelivered' <=> (NoLine(text') => /\ Held(text', carry', phase')
                                             /\ DeliveredBy(Chunk') = RefAt(text',
                                                 Len(text') - Len(carry')))
      BY DEF AsDelivered
    <2> QED BY <1>3, <1>6, <1>8, <2>1
  <1> QED BY <1>7, <1>9 DEF OutInv

\* The fold of DesktopToken and IosToken.
LEMMA SendDelivers ==
    ASSUME NEW b \in BufRec, NEW out \in Seq(SegmentSet)
    PROVE  /\ FoldLeft(LAMBDA d, seg : FlushIfFull(AddSegment(d, seg)), b, out) \in BufRec
           /\ DeliveredBy(FoldLeft(LAMBDA d, seg : FlushIfFull(AddSegment(d, seg)), b,
               out)) = DeliveredBy(b) \o Flat(out)
  BY SendIterFolded, SendFold

\* The fold of SplitToken.
LEMMA AddDelivers ==
    ASSUME NEW b \in BufRec, NEW out \in Seq(SegmentSet)
    PROVE  /\ FoldLeft(AddSegment, b, out) \in BufRec
           /\ DeliveredBy(FoldLeft(AddSegment, b, out)) = DeliveredBy(b) \o Flat(out)
  BY AddIterFolded, AddFold

\* The segments that push returns.
LEMMA PushOut ==
    ASSUME OutTypeOK, NEW piece \in Seq(Symbols)
    PROVE  Push(piece).out \in Seq(SegmentSet)
  <1>1. Push(piece) \in SegRec
    BY PushType DEF OutTypeOK
  <1> QED BY <1>1 DEF SegRec

\* The desktop worker's token keeps the invariant.
LEMMA DesktopTokenStep ==
    ASSUME OutInv, NEW piece \in Pieces, DesktopToken(piece)
    PROVE  OutInv'
  <1>1. PICK kept \in Seq(Symbols) : kept = FilterControlTokens(piece)
    BY PieceType, FilterType
  <1>2. PICK c \in BufRec : c = Chunk
    BY ChunkType DEF OutInv
  <1>3. PICK out \in Seq(SegmentSet) : out = Push(kept).out
    BY PushOut DEF OutInv
  <1>4. PICK b : b = FoldLeft(LAMBDA d, seg : FlushIfFull(AddSegment(d, seg)), c, out)
    OBVIOUS
  <1>5. b \in BufRec /\ DeliveredBy(b) = DeliveredBy(c) \o Flat(out)
    BY <1>4, SendDelivers
  <1>6. Splits(kept) /\ Apply(b) /\ outBuild # "android_chat" /\
        UNCHANGED <<outBuild, suppress, cleared>>
    BY <1>1, <1>2, <1>3, <1>4 DEF DesktopToken
  <1> QED BY <1>2, <1>3, <1>5, <1>6, SplitsKeeps

\* So does a token on iOS.
LEMMA IosTokenStep ==
    ASSUME OutInv, NEW piece \in Pieces, IosToken(piece)
    PROVE  OutInv'
  <1>1. PICK kept \in Seq(Symbols) : kept = IosFilterControlTokens(piece)
    BY PieceType, KeepType
  <1>2. PICK c \in BufRec : c = Chunk
    BY ChunkType DEF OutInv
  <1>3. PICK out \in Seq(SegmentSet) : out = Push(kept).out
    BY PushOut DEF OutInv
  <1>4. PICK b : b = FoldLeft(LAMBDA d, seg : FlushIfFull(AddSegment(d, seg)), c, out)
    OBVIOUS
  <1>5. b \in BufRec /\ DeliveredBy(b) = DeliveredBy(c) \o Flat(out)
    BY <1>4, SendDelivers
  <1>6. Splits(kept) /\ Apply(b) /\ outBuild # "android_chat" /\
        UNCHANGED <<outBuild, suppress, cleared>>
    BY <1>1, <1>2, <1>3, <1>4 DEF IosToken
  <1> QED BY <1>2, <1>3, <1>5, <1>6, SplitsKeeps

\* So does a token on Android.
LEMMA SplitTokenStep ==
    ASSUME OutInv, NEW piece \in Pieces, SplitToken(piece)
    PROVE  OutInv'
  <1>1. piece \in Seq(Symbols)
    BY PieceType DEF SplitToken
  <1>2. PICK c \in BufRec : c = Chunk
    BY ChunkType DEF OutInv
  <1>3. PICK out \in Seq(SegmentSet) : out = Push(piece).out
    BY <1>1, PushOut DEF OutInv
  <1>4. PICK b : b = FoldLeft(AddSegment, c, out)
    OBVIOUS
  <1>5. b \in BufRec /\ DeliveredBy(b) = DeliveredBy(c) \o Flat(out)
    BY <1>4, AddDelivers
  <1>6. FlushIfFull(b) \in BufRec /\ DeliveredBy(FlushIfFull(b)) = DeliveredBy(b)
    BY <1>5, FullFacts
  <1>7. Splits(piece) /\ Apply(FlushIfFull(b)) /\ outBuild # "android_chat"
        /\ UNCHANGED <<outBuild, suppress, cleared>>
    BY <1>2, <1>3, <1>4 DEF SplitToken
  <1> QED BY <1>1, <1>2, <1>3, <1>5, <1>6, <1>7, SplitsKeeps

\* So does a token of a chat without a callback.
LEMMA ChatTokenStep ==
    ASSUME OutInv, NEW piece \in Pieces, AndroidChatToken(piece)
    PROVE  OutInv'
  <1>1. piece \in Seq(Symbols)
    BY PieceType DEF AndroidChatToken
  <1>2. PICK c \in BufRec : c = Chunk
    BY ChunkType DEF OutInv
  <1>3. OutTypeOK /\ text \in Seq(Symbols) /\ outBuild = "android_chat" /\ bufPhase = "Unknown"
        /\ "Unknown" \in Labels
    BY DEF OutInv, OutTypeOK, AndroidChatToken, Labels
  <1>4. c.buf \in Seq(Symbols) /\ c.phase = "Unknown" /\ c.sent \in Seq(Chunks)
    BY <1>2, <1>3 DEF BufRec, Chunk
  <1>5. c.buf \o piece \in Seq(Symbols)
    BY <1>1, <1>4, ConcatProperties
  <1>6. PICK b : b = [c EXCEPT !.buf = @ \o piece]
    OBVIOUS
  <1>7. b \in BufRec /\ b.buf = c.buf \o piece /\ b.phase = "Unknown" /\ b.sent = c.sent
    BY <1>4, <1>5, <1>6 DEF BufRec
  <1>8. DeliveredBy(b) = DeliveredBy(c) \o Phased("Unknown", piece)
    <2>1. Phased("Unknown", c.buf \o piece) = Phased("Unknown", c.buf) \o
          Phased("Unknown", piece)
      BY <1>1, <1>3, <1>4, PhasedMarked
    <2>2. PICK x \in Seq(Marked) : x = Flat(c.sent)
      BY DeliveredMarked
    <2>3. PICK y \in Seq(Marked) : y = Phased("Unknown", c.buf)
      BY <1>3, <1>4, PhasedMarked
    <2>4. PICK w \in Seq(Marked) : w = Phased("Unknown", piece)
      BY <1>1, <1>3, PhasedMarked
    <2>5. (x \o y) \o w = x \o (y \o w)
      BY MarkedAssociative, Zenon
    <2> QED BY <1>4, <1>7, <2>1, <2>2, <2>3, <2>4, <2>5 DEF DeliveredBy
  <1>9. PICK f : f = FlushIfFull(b)
    OBVIOUS
  <1>10. f \in BufRec /\ DeliveredBy(f) = DeliveredBy(b)
    BY <1>7, <1>9, FullFacts
  <1>11. f.phase = "Unknown"
    <2>1. Flush(b).phase = b.phase
      BY <1>7, FlushFacts
    <2> QED BY <1>7, <1>9, <2>1 DEF FlushIfFull
  <1>12. Apply(f) /\ text' = text \o piece /\
         UNCHANGED <<outBuild, carry, phase, suppress, cleared>>
    BY <1>2, <1>6, <1>9 DEF AndroidChatToken
  <1>13. /\ Chunk' = f /\ buf' \in Seq(Symbols) /\ bufPhase' \in Labels /\ sent' \in Seq(Chunks)
         /\ bufPhase' = f.phase
    BY <1>10, <1>12, ApplyFacts
  <1>14. text' \in Seq(Symbols)
    BY <1>1, <1>3, <1>12, ConcatProperties
  <1>15. OutTypeOK'
    BY <1>3, <1>12, <1>13, <1>14 DEF OutTypeOK
  <1>16. Phased("Unknown", text \o piece) = Phased("Unknown", text) \o Phased("Unknown", piece)
    BY <1>1, <1>3, PhasedMarked
  <1>17. ASSUME ~cleared PROVE DeliveredBy(Chunk') = Phased("Unknown", text')
    <2>1. DeliveredBy(c) = Phased("Unknown", text)
      BY <1>2, <1>3, <1>17 DEF OutInv, AsDelivered
    <2> QED BY <1>8, <1>10, <1>12, <1>13, <1>16, <2>1
  <1>18. (~cleared => AsDelivered)'
    BY <1>3, <1>12, <1>17 DEF AsDelivered
  <1> QED BY <1>11, <1>13, <1>15, <1>18 DEF OutInv

\* A step that delivers the same text and leaves the splitter alone.
LEMMA SameText ==
    ASSUME OutInv, NEW b \in BufRec, Apply(b), b.phase = bufPhase,
           UNCHANGED <<outBuild, text, carry, phase>>, suppress' \in BOOLEAN,
               cleared' \in BOOLEAN,
           ~cleared' => ~cleared /\ DeliveredBy(b) = DeliveredBy(Chunk)
    PROVE  OutInv'
  <1>1. /\ Chunk' = b /\ buf' \in Seq(Symbols) /\ bufPhase' \in Labels /\ sent' \in Seq(Chunks)
        /\ bufPhase' = bufPhase
    BY ApplyFacts
  <1>2. OutTypeOK'
    BY <1>1 DEF OutInv, OutTypeOK
  <1>3. ASSUME ~cleared' PROVE AsDelivered'
    <2>1. AsDelivered /\ DeliveredBy(Chunk') = DeliveredBy(Chunk)
      BY <1>1, <1>3 DEF OutInv
    <2>2. AsDelivered' <=> IF outBuild' = "android_chat" THEN DeliveredBy(Chunk') =
          Phased("Unknown", text')
                           ELSE NoLine(text') => /\ Held(text', carry', phase')
                                                 /\ DeliveredBy(Chunk') = RefAt(text',
                                                     Len(text') - Len(carry'))
      BY DEF AsDelivered
    <2> QED BY <2>1, <2>2 DEF AsDelivered
  <1> QED BY <1>1, <1>2, <1>3 DEF OutInv

\* Suppression drops what is in the buffer and says so.
LEMMA SuppressStep ==
    ASSUME OutInv, AndroidSuppress
    PROVE  OutInv'
  <1>1. PICK b : b = [buf |-> buf', phase |-> bufPhase, sent |-> sent]
    OBVIOUS
  <1>2. b \in BufRec /\ b.phase = bufPhase /\ b.buf = buf' /\ b.sent = sent
    BY <1>1 DEF OutInv, OutTypeOK, AndroidSuppress, BufRec
  <1>3. Apply(b)
    BY <1>2 DEF Apply, AndroidSuppress
  <1>4. UNCHANGED <<outBuild, text, carry, phase>> /\ suppress' \in BOOLEAN /\
        cleared' \in BOOLEAN
    BY DEF AndroidSuppress, OutInv, OutTypeOK
  <1>5. ASSUME ~cleared' PROVE ~cleared /\ DeliveredBy(b) = DeliveredBy(Chunk)
    <2>1. ~cleared /\ buf = <<>>
      BY <1>5 DEF AndroidSuppress
    <2>2. buf' = buf
      BY <2>1 DEF AndroidSuppress
    <2> QED BY <1>1, <2>1, <2>2 DEF Chunk
  <1> QED BY <1>2, <1>3, <1>4, <1>5, SameText

\* The done chunk has no text.
LEMMA DoneFacts ==
    ASSUME NEW b \in BufRec, NEW e \in Labels
    PROVE  /\ [b EXCEPT !.sent = Append(@, <<e, <<>>, TRUE>>)] \in BufRec
           /\ [b EXCEPT !.sent = Append(@, <<e, <<>>, TRUE>>)].phase = b.phase
           /\ DeliveredBy([b EXCEPT !.sent = Append(@, <<e, <<>>, TRUE>>)]) = DeliveredBy(b)
  <1>1. /\ b.buf \in Seq(Symbols) /\ b.phase \in Labels /\ b.sent \in Seq(Chunks)
        /\ Flat(b.sent) \in Seq(Marked)
    BY DeliveredMarked
  <1>2. PICK y : y = <<e, <<>>, TRUE>>
    OBVIOUS
  <1>3. y \in Chunks /\ y[1] = e /\ y[2] = <<>>
    <2>1. <<>> \in Seq(Symbols)
      OBVIOUS
    <2> QED BY <1>2, <2>1 DEF Chunks
  <1>4. Append(b.sent, y) \in Seq(Chunks) /\
        Flat(Append(b.sent, y)) = Flat(b.sent) \o Phased(e, <<>>)
    BY <1>1, <1>3, FlatChunks
  <1>5. Phased(e, <<>>) = <<>>
    BY DEF Phased
  <1>6. Flat(b.sent) \o <<>> = Flat(b.sent)
    BY <1>1, MarkedEmpty
  <1>7. PICK q \in Seq(Chunks) : q = Append(b.sent, y)
    BY <1>4
  <1>8. PICK d : d = [b EXCEPT !.sent = q]
    OBVIOUS
  <1>9. d \in BufRec /\ d.buf = b.buf /\ d.phase = b.phase /\ d.sent = q
    BY <1>8 DEF BufRec
  <1>10. d = [b EXCEPT !.sent = Append(@, <<e, <<>>, TRUE>>)]
    BY <1>2, <1>7, <1>8
  <1>11. DeliveredBy(d) = DeliveredBy(b)
    BY <1>4, <1>5, <1>6, <1>7, <1>9 DEF DeliveredBy
  <1> QED BY <1>9, <1>10, <1>11

\* The end of a generation sends the rest and the done chunk.
LEMMA EndStep ==
    ASSUME OutInv, NEW e \in Labels, EndOutput(e)
    PROVE  OutInv'
  <1>1. PICK c \in BufRec : c = Chunk
    BY ChunkType DEF OutInv
  <1>2. c.phase = bufPhase
    BY <1>1 DEF Chunk
  <1>3. PICK b : b = IF buf = <<>> THEN c ELSE Flush(c)
    OBVIOUS
  <1>4. b \in BufRec /\ b.phase = bufPhase /\ DeliveredBy(b) = DeliveredBy(c)
    <2>1. Flush(c) \in BufRec /\ Flush(c).phase = c.phase /\
          DeliveredBy(Flush(c)) = DeliveredBy(c)
      BY FlushFacts
    <2> QED BY <1>2, <1>3, <2>1
  <1>5. PICK d : d = [b EXCEPT !.sent = Append(@, <<e, <<>>, TRUE>>)]
    OBVIOUS
  <1>6. d \in BufRec /\ d.phase = b.phase /\ DeliveredBy(d) = DeliveredBy(b)
    BY <1>4, <1>5, DoneFacts
  <1>7. Apply(d) /\ UNCHANGED <<outBuild, text, carry, phase, suppress, cleared>>
    BY <1>1, <1>3, <1>5 DEF EndOutput
  <1>8. suppress' \in BOOLEAN /\ cleared' \in BOOLEAN
    BY <1>7 DEF OutInv, OutTypeOK
  <1> QED BY <1>1, <1>4, <1>6, <1>7, <1>8, SameText

\* A failure drops what is in the buffer and says so.
LEMMA FailStep ==
    ASSUME OutInv, NEW e \in Labels, FailOutput(e)
    PROVE  OutInv'
  <1>1. PICK b : b = [buf |-> <<>>, phase |-> bufPhase, sent |-> sent]
    OBVIOUS
  <1>2. b \in BufRec /\ b.phase = bufPhase
    BY <1>1 DEF OutInv, OutTypeOK, BufRec
  <1>3. PICK d : d = [b EXCEPT !.sent = Append(@, <<e, <<>>, TRUE>>)]
    OBVIOUS
  <1>4. d \in BufRec /\ d.phase = b.phase /\ DeliveredBy(d) = DeliveredBy(b)
    BY <1>2, <1>3, DoneFacts
  <1>5. d = [buf |-> <<>>, phase |-> bufPhase, sent |-> Append(sent, <<e, <<>>, TRUE>>)]
    BY <1>1, <1>3
  <1>6. Apply(d) /\ UNCHANGED <<outBuild, text, carry, phase, suppress>>
        /\ cleared' = (cleared \/ buf # <<>>)
    BY <1>5 DEF FailOutput
  <1>7. suppress' \in BOOLEAN /\ cleared' \in BOOLEAN
    BY <1>6 DEF OutInv, OutTypeOK
  <1>8. ASSUME ~cleared' PROVE ~cleared /\ DeliveredBy(d) = DeliveredBy(Chunk)
    <2>1. ~cleared /\ buf = <<>>
      BY <1>6, <1>8
    <2> QED BY <1>1, <1>4, <2>1 DEF Chunk
  <1> QED BY <1>2, <1>4, <1>6, <1>7, <1>8, SameText

\* The invariant holds before the first token.
LEMMA OutStart == OutInit => OutInv
  <1> SUFFICES ASSUME OutInit PROVE OutInv
    OBVIOUS
  <1>1. <<>> \in Seq(Symbols) /\ <<>> \in Seq(Chunks)
    OBVIOUS
  <1>2. OutTypeOK
    BY <1>1 DEF OutInit, OutTypeOK, Phases, Labels
  <1>3. DeliveredBy(Chunk) = <<>> /\ \A e : Phased(e, <<>>) = <<>>
    <2>1. \A e : Phased(e, <<>>) = <<>>
      BY DEF Phased
    <2>2. Chunk.buf = <<>> /\ Chunk.sent = <<>>
      BY DEF OutInit, Chunk
    <2> QED BY <2>1, <2>2, FlatNone DEF DeliveredBy
  <1>4. RefAt(<<>>, 0) = <<>>
    <2>0. PICK w \in Seq(Symbols) : w = <<>> /\ Len(w) = 0
      BY <1>1
    <2>1. w = <<>> /\ Len(w) = 0 /\ NoLine(w)
      BY <2>0 DEF NoLine
    <2>2. \A i \in 1..(Len(w) + 2), ph \in Phases : OneAt(w, i, ph)
      BY <2>1, RefOne
    <2>3. OneAt(w, 1, "Final")
      BY <2>1, <2>2 DEF Phases
    <2>4. RefF(w)[1]["Final"] = <<>>
      BY <2>1, <2>3 DEF OneAt
    <2>5. Prefix(w, 0) = w
      BY <2>1, PrefixEnds
    <2> QED BY <2>1, <2>4, <2>5, RefTop DEF RefAt
  <1>5. Held(<<>>, <<>>, "Final")
    BY DEF Held, EndOf, EndIs, EndFrom
  <1>6. AsDelivered
    <2>1. Len(<<>>) - Len(<<>>) = 0
      OBVIOUS
    <2> QED BY <1>3, <1>4, <1>5, <2>1 DEF AsDelivered, OutInit
  <1> QED BY <1>2, <1>6 DEF OutInv, OutInit

\* Every step keeps the invariant.
LEMMA OutStep == OutInv /\ [OutNext]_outVars => OutInv'
  <1> SUFFICES ASSUME OutInv, [OutNext]_outVars PROVE OutInv'
    OBVIOUS
  <1>0. phase \in Labels /\ bufPhase \in Labels /\ "Unknown" \in Labels /\ "Final" \in Labels
    BY DEF OutInv, OutTypeOK, Phases, Labels
  <1>1. CASE AndroidSuppress
    BY <1>1, SuppressStep
  <1>2. CASE DesktopEnd \/ IosEnd \/ AndroidEnd \/ AndroidChatEnd
    BY <1>0, <1>2, EndStep DEF DesktopEnd, IosEnd, AndroidEnd, AndroidChatEnd
  <1>3. CASE DesktopFails \/ IosFails
    BY <1>0, <1>3, FailStep DEF DesktopFails, IosFails
  <1>4. ASSUME NEW piece \in Pieces, DesktopToken(piece) PROVE OutInv'
    BY <1>4, DesktopTokenStep
  <1>5. ASSUME NEW piece \in Pieces, IosToken(piece) PROVE OutInv'
    BY <1>5, IosTokenStep
  <1>6. ASSUME NEW piece \in Pieces,
               AndroidToken(piece) \/ CallbackToken(piece) \/ CallbackChatToken(piece)
        PROVE  OutInv'
    BY <1>6, SplitTokenStep DEF AndroidToken, CallbackToken, CallbackChatToken
  <1>7. ASSUME NEW piece \in Pieces, AndroidChatToken(piece) PROVE OutInv'
    BY <1>7, ChatTokenStep
  <1>8. CASE UNCHANGED outVars
    BY <1>8 DEF outVars, OutInv, OutTypeOK, AsDelivered, Chunk
  <1> QED BY <1>1, <1>2, <1>3, <1>4, <1>5, <1>6, <1>7, <1>8 DEF OutNext

\* The invariant holds in every generation of every worker, for any length of the text
\* and of the tokens and any max_bytes.
THEOREM OutInvariant == OutSpec => []OutInv
  BY OutStart, OutStep, PTL DEF OutSpec

\* The invariant says what CutsDoNotMatter says.
LEMMA OutInvImplies == OutInv => CutsDoNotMatter
  <1> SUFFICES ASSUME OutInv, ~cleared, ~Contains(text, "M") PROVE SplitIsReference
    BY DEF CutsDoNotMatter
  <1>1. NoLine(text)
    BY DEF Contains, NoLine
  <1>2. Delivered \o Phased(bufPhase, buf) = DeliveredBy(Chunk)
    BY DEF Delivered, DeliveredBy, Flat, Chunk
  <1>3. AsDelivered
    BY DEF OutInv
  <1> QED BY <1>1, <1>2, <1>3 DEF AsDelivered, SplitIsReference, RefAt, Prefix

\* PhaseSplitter and the chunks lose, repeat or mislabel nothing of a text with tags
\* and newlines, wherever the pieces are cut and the chunks are sent, for any length of
\* the text and of the tokens and any max_bytes.
THEOREM SplitterIsRight == OutSpec => []CutsDoNotMatter
  BY OutInvariant, OutInvImplies, PTL
===============================================================================
