--------------------------- MODULE Editor_proofs ---------------------------
(* Proofs about the transcript editor, for texts, words and transcripts of    *)
(* any length: every variable has its type, what the preview marks is what is *)
(* replaced, and the comparison of two versions is exact.  The second relates *)
(* two ways of reading a text, one that searches it and one that splits it,   *)
(* the third is about a table and a walk through it, and all of these are     *)
(* recursive functions.                                                       *)
EXTENDS TranscriptEditor, SequenceTheorems, FiniteSetTheorems, WellFoundedInduction, TLAPS

----------------------------------------------------------------------------
(* Recursion from the end.  Every recursive function of the editor gives its  *)
(* value at a place by that at one later place.                               *)

(* If a property holds at the end, and at a place whenever it holds at all    *)
(* later ones, it holds everywhere: else there is a last place without it.    *)
LEMMA InductionFromEnd ==
  ASSUME NEW N \in Nat, NEW S, N + 1 \in S,
         \A i \in 1..N : (\A j \in (i + 1)..(N + 1) : j \in S) => i \in S
  PROVE  \A i \in 1..(N + 1) : i \in S
<1>. DEFINE Bad == {m \in Nat : m <= N /\ N + 1 - m \notin S}
            Below == {ss \in Nat \X Nat : ss[1] < ss[2]}
<1>1. SUFFICES ASSUME Bad # {} PROVE FALSE
  <2>1. ASSUME NEW i \in 1..(N + 1), i \notin S PROVE FALSE
    <3>1. N + 1 - i \in Bad
      BY <2>1
    <3>. QED
      BY <3>1, <1>1
  <2>. QED
    BY <2>1
<1>2. PICK m \in Bad : \A o \in Bad : ~(o < m)
  <2>1. IsWellFoundedOn(Below, Nat)
    BY NatLessThanWellFounded DEF OpToRel
  <2>2. PICK m \in Bad : \A o \in Bad : <<o, m>> \notin Below
    BY <1>1, <2>1, WFMin
  <2>. QED
    BY <2>2
<1>3. m \in 1..N
  BY <1>2
<1>4. ASSUME NEW j \in (N + 1 - m + 1)..(N + 1) PROVE j \in S
  <2>1. N + 1 - j \in Nat /\ N + 1 - j < m /\ N + 1 - (N + 1 - j) = j
    BY <1>3
  <2>. QED
    BY <2>1, <1>2
<1>. QED
  BY <1>2, <1>3, <1>4

(* A recursion over the places 1 to N + 1: at the end it has a value of V, at *)
(* every other place it makes one of that at a later place.                   *)
Recursion(N, V, base, step, nxt) ==
  /\ N \in Nat /\ base \in V /\ step \in [1..N -> [V -> V]]
  /\ nxt \in [1..N -> Nat] /\ \A i \in 1..N : nxt[i] \in (i + 1)..(N + 1)

(* A function that obeys the recursion.                                       *)
Solves(f, N, V, base, step, nxt) ==
  /\ f \in [1..(N + 1) -> V] /\ f[N + 1] = base
  /\ \A i \in 1..N : f[i] = step[i][f[nxt[i]]]

(* Every such recursion has a solution: one from the next place on is         *)
(* extended by one place.                                                     *)
LEMMA RecursionFromEnd ==
  ASSUME NEW N, NEW V, NEW base, NEW step, NEW nxt, Recursion(N, V, base, step, nxt)
  PROVE  \E f : Solves(f, N, V, base, step, nxt)
<1>. USE DEF Recursion
<1>. DEFINE Fits(g, i) == /\ g \in [i..(N + 1) -> V] /\ g[N + 1] = base
                          /\ \A j \in i..N : g[j] = step[j][g[nxt[j]]]
            S == {i \in 1..(N + 1) : \E g : Fits(g, i)}
<1>1. N + 1 \in S
  <2>1. Fits([j \in (N + 1)..(N + 1) |-> base], N + 1)
    <3>1. (N + 1)..N = {} /\ N + 1 \in (N + 1)..(N + 1)
      OBVIOUS
    <3>. QED
      BY <3>1
  <2>2. N + 1 \in 1..(N + 1)
    OBVIOUS
  <2>. HIDE DEF Fits
  <2>. QED
    BY <2>1, <2>2, Zenon
<1>2. ASSUME NEW i \in 1..N, \A j \in (i + 1)..(N + 1) : j \in S PROVE i \in S
  <2>1. PICK g : Fits(g, i + 1)
    <3>1. i + 1 \in (i + 1)..(N + 1)
      OBVIOUS
    <3>. HIDE DEF Fits
    <3>. QED
      BY <3>1, <1>2, Zenon
  <2>. DEFINE h == [j \in i..(N + 1) |-> IF j = i THEN step[i][g[nxt[i]]] ELSE g[j]]
  <2>2. Fits(h, i)
    <3>1. g[nxt[i]] \in V /\ step[i][g[nxt[i]]] \in V
      BY <2>1
    <3>2. h \in [i..(N + 1) -> V] /\ h[N + 1] = base
      BY <2>1, <3>1
    <3>3. ASSUME NEW j \in i..N PROVE h[j] = step[j][h[nxt[j]]]
      <4>1. nxt[j] \in (i + 1)..(N + 1) /\ h[nxt[j]] = g[nxt[j]]
        OBVIOUS
      <4>2. CASE j = i
        BY <4>1, <4>2
      <4>3. CASE j # i
        BY <4>1, <4>3, <2>1
      <4>. QED
        BY <4>2, <4>3
    <3>. QED
      BY <3>2, <3>3
  <2>3. i \in 1..(N + 1)
    OBVIOUS
  <2>. HIDE DEF Fits, h
  <2>. QED
    BY <2>2, <2>3, Zenon
<1>3. 1 \in S
  <2>1. \A i \in 1..(N + 1) : i \in S
    <3>. HIDE DEF S
    <3>. QED
      BY <1>1, <1>2, InductionFromEnd
  <2>2. 1 \in 1..(N + 1)
    OBVIOUS
  <2>. QED
    BY <2>1, <2>2, Zenon
<1>. QED
  BY <1>3 DEF Solves

(* What the definition of a recursive function gives once it is known that    *)
(* some function obeys it.                                                    *)
Unfolds(h, N, V, base, step, nxt) ==
  /\ h = [i \in 1..(N + 1) |-> h[i]] /\ h[N + 1] = base
  /\ \A i \in 1..N : h[nxt[i]] \in V => h[i] = step[i][h[nxt[i]]]

(* Such a function has values of V everywhere and obeys the recursion.        *)
LEMMA UnfoldedIsSolved ==
  ASSUME NEW N, NEW V, NEW base, NEW step, NEW nxt, NEW h,
         Recursion(N, V, base, step, nxt), Unfolds(h, N, V, base, step, nxt)
  PROVE  Solves(h, N, V, base, step, nxt)
<1>. USE DEF Recursion, Unfolds
<1>. DEFINE S == {i \in 1..(N + 1) : h[i] \in V}
<1>1. N \in Nat /\ N + 1 \in S
  OBVIOUS
<1>2. ASSUME NEW i \in 1..N, \A j \in (i + 1)..(N + 1) : j \in S PROVE i \in S
  <2>1. h[nxt[i]] \in V
    BY <1>2
  <2>2. h[i] = step[i][h[nxt[i]]]
    BY <2>1
  <2>3. step[i] \in [V -> V] /\ i \in 1..(N + 1)
    OBVIOUS
  <2>. QED
    BY <2>1, <2>2, <2>3
<1>3. \A i \in 1..(N + 1) : i \in S
  <2>. HIDE DEF S, Unfolds, Recursion
  <2>. QED
    BY <1>1, <1>2, InductionFromEnd
<1>4. ASSUME NEW i \in 1..N PROVE h[i] = step[i][h[nxt[i]]]
  <2>1. nxt[i] \in 1..(N + 1)
    OBVIOUS
  <2>. QED
    BY <2>1, <1>3
<1>. QED
  BY <1>3, <1>4 DEF Solves

(* The function by which Offsets is defined: the matches from each place on.  *)
Finds(f, text, word) ==
  /\ f \in [1..(Len(text) + 1) -> Seq(Nat)]
  /\ Offsets(text, word) = f[1] /\ f[Len(text) + 1] = <<>>
  /\ \A i \in 1..Len(text) :
       f[i] = IF MatchAt(text, word, i) THEN <<i>> \o f[i + Len(word)]
              ELSE f[i + 1]

(* There is such a function: Offsets means what it says.                      *)
LEMMA OffsetsAre ==
  ASSUME NEW T, NEW text \in Seq(T), NEW word \in Seq(T), word # <<>>
  PROVE  \E f : Finds(f, text, word)
<1>. DEFINE n == Len(text)
            V == Seq(Nat)
            Rhs(g, i) == IF MatchAt(text, word, i) THEN <<i>> \o g[i + Len(word)]
                         ELSE g[i + 1]
            Body(g) == [i \in 1..(n + 1) |->
                          IF i > n THEN <<>>
                          ELSE IF MatchAt(text, word, i) THEN <<i>> \o g[i + Len(word)]
                          ELSE g[i + 1]]
            h == CHOOSE g : g = Body(g)
            nxt == [i \in 1..n |-> IF MatchAt(text, word, i) THEN i + Len(word) ELSE i + 1]
            step == [i \in 1..n |-> [v \in V |->
                       IF MatchAt(text, word, i) THEN <<i>> \o v ELSE v]]
<1>1. n \in Nat /\ Len(word) \in Nat /\ Len(word) > 0
  OBVIOUS
<1>2. Recursion(n, V, <<>>, step, nxt)
  <2>1. <<>> \in V
    OBVIOUS
  <2>a. ASSUME NEW i \in 1..n PROVE nxt[i] \in (i + 1)..(n + 1)
    <3>1. MatchAt(text, word, i) => i + Len(word) \in (i + 1)..(n + 1)
      BY <1>1 DEF MatchAt
    <3>2. i + 1 \in (i + 1)..(n + 1)
      BY <1>1
    <3>. QED
      BY <3>1, <3>2, Zenon
  <2>b. nxt = [i \in 1..n |-> nxt[i]]
    OBVIOUS
  <2>2. nxt \in [1..n -> Nat] /\ \A i \in 1..n : nxt[i] \in (i + 1)..(n + 1)
    <3>. HIDE DEF nxt
    <3>. QED
      BY <1>1, <2>a, <2>b
  <2>3. ASSUME NEW i \in 1..n, NEW v \in V
        PROVE  (IF MatchAt(text, word, i) THEN <<i>> \o v ELSE v) \in V
    OBVIOUS
  <2>4. step \in [1..n -> [V -> V]]
    <3>. HIDE DEF V
    <3>. QED
      BY <2>3, Zenon
  <2>. HIDE DEF n, nxt, step, V
  <2>. QED
    BY <1>1, <2>1, <2>2, <2>4 DEF Recursion
<1>3. ASSUME NEW g, NEW i \in 1..n, g[nxt[i]] \in V PROVE step[i][g[nxt[i]]] = Rhs(g, i)
  <2>1. CASE MatchAt(text, word, i)
    <3>1. nxt[i] = i + Len(word)
      BY <2>1
    <3>. HIDE DEF V, nxt
    <3>. QED
      BY <1>3, <2>1, <3>1
  <2>2. CASE ~MatchAt(text, word, i)
    <3>1. nxt[i] = i + 1
      BY <2>2
    <3>. HIDE DEF V, nxt
    <3>. QED
      BY <1>3, <2>2, <3>1
  <2>. QED
    BY <2>1, <2>2
<1>4. PICK f : Solves(f, n, V, <<>>, step, nxt)
  <2>. HIDE DEF n, V, nxt, step
  <2>. QED
    BY <1>2, RecursionFromEnd
<1>5. ASSUME NEW i \in 1..n PROVE i \in 1..(n + 1) /\ ~(i > n)
  BY <1>1
<1>6. n + 1 \in 1..(n + 1) /\ n + 1 > n
  BY <1>1
<1>7. f = Body(f)
  <2>. HIDE DEF nxt, step, V
  <2>1. f = [i \in 1..(n + 1) |-> f[i]]
    BY <1>4 DEF Solves
  <2>2. ASSUME NEW i \in 1..(n + 1) PROVE f[i] = Body(f)[i]
    <3>1. CASE i = n + 1
      BY <1>4, <1>6, <3>1 DEF Solves
    <3>2. CASE i # n + 1
      <4>1. i \in 1..n
        BY <1>1, <3>2
      <4>2. nxt[i] \in 1..(n + 1)
        BY <1>1, <1>2, <4>1 DEF Recursion
      <4>3. f[i] = Rhs(f, i)
        BY <1>3, <1>4, <4>1, <4>2, Zenon DEF Solves
      <4>. QED
        BY <4>1, <4>3, <1>5, Zenon
    <3>. QED
      BY <3>1, <3>2
  <2>. QED
    BY <2>1, <2>2, Zenon
<1>8. h = Body(h)
  <2>. HIDE DEF Body
  <2>. QED
    BY <1>7, Zenon
<1>9. h = [i \in 1..(n + 1) |-> h[i]] /\ h[n + 1] = <<>> /\ \A i \in 1..n : h[i] = Rhs(h, i)
  <2>1. \A i \in 1..(n + 1) : h[i] = Body(h)[i]
    BY <1>8, Zenon
  <2>2. h = [i \in 1..(n + 1) |-> h[i]]
    BY <1>8, Zenon
  <2>. HIDE DEF h, n
  <2>. QED
    BY <2>1, <2>2, <1>5, <1>6, Zenon
<1>10. Solves(h, n, V, <<>>, step, nxt)
  <2>1. Unfolds(h, n, V, <<>>, step, nxt)
    <3>. HIDE DEF h, n, nxt, step, V, Rhs
    <3>. QED
      BY <1>3, <1>9, Zenon DEF Unfolds
  <2>. HIDE DEF h, n, nxt, step, V
  <2>. QED
    BY <1>2, <2>1, UnfoldedIsSolved
<1>11. Offsets(text, word) = h[1]
  BY DEF Offsets
<1>. HIDE DEF h
<1>. QED
  BY <1>9, <1>10, <1>11, Zenon DEF Solves, Finds

(* The function by which Split is defined: the pieces from each place on.     *)
Splits(f, T, text, word) ==
  /\ f \in [1..(Len(text) + 1) -> Seq(Seq(T)) \ {<<>>}]
  /\ Split(text, word) = f[1] /\ f[Len(text) + 1] = << <<>> >>
  /\ \A i \in 1..Len(text) :
       f[i] = IF MatchAt(text, word, i) THEN << <<>> >> \o f[i + Len(word)]
              ELSE << <<text[i]>> \o Head(f[i + 1]) >> \o Tail(f[i + 1])

(* There is such a function, and there is always a piece.                     *)
LEMMA SplitIs ==
  ASSUME NEW T, NEW text \in Seq(T), NEW word \in Seq(T), word # <<>>
  PROVE  \E f : Splits(f, T, text, word)
<1>. DEFINE n == Len(text)
            V == Seq(Seq(T)) \ {<<>>}
            Rhs(g, i) == IF MatchAt(text, word, i) THEN << <<>> >> \o g[i + Len(word)]
                         ELSE << <<text[i]>> \o Head(g[i + 1]) >> \o Tail(g[i + 1])
            Body(g) == [i \in 1..(n + 1) |->
                          IF i > n THEN << <<>> >>
                          ELSE IF MatchAt(text, word, i) THEN << <<>> >> \o g[i + Len(word)]
                          ELSE << <<text[i]>> \o Head(g[i + 1]) >> \o Tail(g[i + 1])]
            h == CHOOSE g : g = Body(g)
            nxt == [i \in 1..n |-> IF MatchAt(text, word, i) THEN i + Len(word) ELSE i + 1]
            step == [i \in 1..n |-> [v \in V |->
                       IF MatchAt(text, word, i) THEN << <<>> >> \o v
                       ELSE << <<text[i]>> \o Head(v) >> \o Tail(v)]]
<1>1. n \in Nat /\ Len(word) \in Nat /\ Len(word) > 0
  OBVIOUS
<1>2. Recursion(n, V, << <<>> >>, step, nxt)
  <2>1. << <<>> >> \in V
    OBVIOUS
  <2>a. ASSUME NEW i \in 1..n PROVE nxt[i] \in (i + 1)..(n + 1)
    <3>1. MatchAt(text, word, i) => i + Len(word) \in (i + 1)..(n + 1)
      BY <1>1 DEF MatchAt
    <3>2. i + 1 \in (i + 1)..(n + 1)
      BY <1>1
    <3>. QED
      BY <3>1, <3>2, Zenon
  <2>b. nxt = [i \in 1..n |-> nxt[i]]
    OBVIOUS
  <2>2. nxt \in [1..n -> Nat] /\ \A i \in 1..n : nxt[i] \in (i + 1)..(n + 1)
    <3>. HIDE DEF nxt
    <3>. QED
      BY <1>1, <2>a, <2>b
  <2>3. ASSUME NEW i \in 1..n, NEW v \in V
        PROVE  (IF MatchAt(text, word, i) THEN << <<>> >> \o v
                ELSE << <<text[i]>> \o Head(v) >> \o Tail(v)) \in V
    OBVIOUS
  <2>4. step \in [1..n -> [V -> V]]
    <3>. HIDE DEF V
    <3>. QED
      BY <2>3, Zenon
  <2>. HIDE DEF n, nxt, step, V
  <2>. QED
    BY <1>1, <2>1, <2>2, <2>4 DEF Recursion
<1>3. ASSUME NEW g, NEW i \in 1..n, g[nxt[i]] \in V PROVE step[i][g[nxt[i]]] = Rhs(g, i)
  <2>1. CASE MatchAt(text, word, i)
    <3>1. nxt[i] = i + Len(word)
      BY <2>1
    <3>. HIDE DEF V, nxt
    <3>. QED
      BY <1>3, <2>1, <3>1
  <2>2. CASE ~MatchAt(text, word, i)
    <3>1. nxt[i] = i + 1
      BY <2>2
    <3>. HIDE DEF V, nxt
    <3>. QED
      BY <1>3, <2>2, <3>1
  <2>. QED
    BY <2>1, <2>2
<1>4. PICK f : Solves(f, n, V, << <<>> >>, step, nxt)
  <2>. HIDE DEF n, V, nxt, step
  <2>. QED
    BY <1>2, RecursionFromEnd
<1>5. ASSUME NEW i \in 1..n PROVE i \in 1..(n + 1) /\ ~(i > n)
  BY <1>1
<1>6. n + 1 \in 1..(n + 1) /\ n + 1 > n
  BY <1>1
<1>7. f = Body(f)
  <2>. HIDE DEF nxt, step, V
  <2>1. f = [i \in 1..(n + 1) |-> f[i]]
    BY <1>4 DEF Solves
  <2>2. ASSUME NEW i \in 1..(n + 1) PROVE f[i] = Body(f)[i]
    <3>1. CASE i = n + 1
      BY <1>4, <1>6, <3>1 DEF Solves
    <3>2. CASE i # n + 1
      <4>1. i \in 1..n
        BY <1>1, <3>2
      <4>2. nxt[i] \in 1..(n + 1)
        BY <1>1, <1>2, <4>1 DEF Recursion
      <4>3. f[i] = Rhs(f, i)
        BY <1>3, <1>4, <4>1, <4>2, Zenon DEF Solves
      <4>. QED
        BY <4>1, <4>3, <1>5, Zenon
    <3>. QED
      BY <3>1, <3>2
  <2>. QED
    BY <2>1, <2>2, Zenon
<1>8. h = Body(h)
  <2>. HIDE DEF Body
  <2>. QED
    BY <1>7, Zenon
<1>9. h = [i \in 1..(n + 1) |-> h[i]] /\ h[n + 1] = << <<>> >> /\ \A i \in 1..n : h[i] = Rhs(h, i)
  <2>1. \A i \in 1..(n + 1) : h[i] = Body(h)[i]
    BY <1>8, Zenon
  <2>2. h = [i \in 1..(n + 1) |-> h[i]]
    BY <1>8, Zenon
  <2>. HIDE DEF h, n
  <2>. QED
    BY <2>1, <2>2, <1>5, <1>6, Zenon
<1>10. Solves(h, n, V, << <<>> >>, step, nxt)
  <2>1. Unfolds(h, n, V, << <<>> >>, step, nxt)
    <3>. HIDE DEF h, n, nxt, step, V, Rhs
    <3>. QED
      BY <1>3, <1>9, Zenon DEF Unfolds
  <2>. HIDE DEF h, n, nxt, step, V
  <2>. QED
    BY <1>2, <2>1, UnfoldedIsSolved
<1>11. Split(text, word) = h[1]
  BY DEF Split
<1>. HIDE DEF h
<1>. QED
  BY <1>9, <1>10, <1>11, Zenon DEF Solves, Splits

(* The function by which Join is defined: the pieces from each on, joined.    *)
Joins(f, T, pieces, by) ==
  /\ f \in [1..Len(pieces) -> Seq(T)]
  /\ Join(pieces, by) = f[1] /\ f[Len(pieces)] = pieces[Len(pieces)]
  /\ \A k \in 1..(Len(pieces) - 1) : f[k] = pieces[k] \o by \o f[k + 1]

(* There is such a function.                                                  *)
LEMMA JoinIs ==
  ASSUME NEW T, NEW pieces \in Seq(Seq(T)), pieces # <<>>, NEW by \in Seq(T)
  PROVE  \E f : Joins(f, T, pieces, by)
<1>. DEFINE n == Len(pieces) - 1
            Body(g) == [k \in 1..Len(pieces) |->
                          IF k = Len(pieces) THEN pieces[k] ELSE pieces[k] \o by \o g[k + 1]]
            h == CHOOSE g : g = Body(g)
            nxt == [k \in 1..n |-> k + 1]
            step == [k \in 1..n |-> [v \in Seq(T) |-> pieces[k] \o by \o v]]
<1>1. n \in Nat /\ n + 1 = Len(pieces) /\ pieces[n + 1] \in Seq(T)
  OBVIOUS
<1>2. ASSUME NEW k \in 1..n
      PROVE  /\ k \in 1..Len(pieces) /\ k # Len(pieces) /\ pieces[k] \in Seq(T)
             /\ k + 1 \in (k + 1)..(n + 1)
  <2>. HIDE DEF n
  <2>1. k \in 1..Len(pieces) /\ k # Len(pieces) /\ k + 1 \in (k + 1)..(n + 1)
    BY <1>1
  <2>. QED
    BY <2>1
<1>3. Recursion(n, Seq(T), pieces[n + 1], step, nxt)
  <2>1. nxt \in [1..n -> Nat] /\ \A i \in 1..n : nxt[i] \in (i + 1)..(n + 1)
    <3>. HIDE DEF n
    <3>. QED
      BY <1>1, <1>2
  <2>2. step \in [1..n -> [Seq(T) -> Seq(T)]]
    <3>. HIDE DEF n
    <3>. QED
      BY <1>2
  <2>. HIDE DEF n, nxt, step
  <2>. QED
    BY <1>1, <2>1, <2>2 DEF Recursion
<1>4. ASSUME NEW g, NEW k \in 1..n, g[nxt[k]] \in Seq(T)
      PROVE  step[k][g[nxt[k]]] = pieces[k] \o by \o g[k + 1]
  <2>. HIDE DEF n
  <2>. QED
    BY <1>4
<1>5. PICK f : Solves(f, n, Seq(T), pieces[n + 1], step, nxt)
  <2>. HIDE DEF n, nxt, step
  <2>. QED
    BY <1>3, RecursionFromEnd
<1>6. f = Body(f)
  <2>. HIDE DEF nxt, step
  <2>1. f = [i \in 1..(n + 1) |-> f[i]]
    BY <1>5 DEF Solves
  <2>2. ASSUME NEW i \in 1..(n + 1) PROVE f[i] = Body(f)[i]
    <3>1. CASE i = n + 1
      BY <1>1, <1>5, <3>1 DEF Solves
    <3>2. CASE i # n + 1
      <4>1. i \in 1..n
        <5>. HIDE DEF n
        <5>. QED
          BY <1>1, <3>2
      <4>2. nxt[i] \in 1..(n + 1)
        <5>1. nxt[i] = i + 1 /\ i + 1 \in 1..(n + 1)
          BY <1>1, <4>1 DEF nxt
        <5>. QED
          BY <5>1, Zenon
      <4>3. f[i] = pieces[i] \o by \o f[i + 1]
        BY <1>4, <1>5, <4>1, <4>2, Zenon DEF Solves
      <4>. QED
        BY <4>1, <4>3, <1>2, Zenon
    <3>. QED
      BY <3>1, <3>2
  <2>. HIDE DEF n
  <2>. QED
    BY <1>1, <2>1, <2>2, Zenon
<1>7. h = Body(h)
  <2>. HIDE DEF Body
  <2>. QED
    BY <1>6, Zenon
<1>8. /\ h = [k \in 1..(n + 1) |-> h[k]] /\ h[n + 1] = pieces[n + 1]
      /\ \A k \in 1..n : h[k] = pieces[k] \o by \o h[k + 1]
  <2>1. \A i \in 1..Len(pieces) : h[i] = Body(h)[i]
    BY <1>7, Zenon
  <2>2. h = [i \in 1..Len(pieces) |-> h[i]]
    BY <1>7, Zenon
  <2>3. Len(pieces) \in 1..Len(pieces)
    BY <1>1
  <2>. HIDE DEF h, n
  <2>. QED
    BY <2>1, <2>2, <2>3, <1>1, <1>2, Zenon
<1>9. Solves(h, n, Seq(T), pieces[n + 1], step, nxt)
  <2>1. Unfolds(h, n, Seq(T), pieces[n + 1], step, nxt)
    <3>. HIDE DEF h, n, nxt, step
    <3>. QED
      BY <1>4, <1>8, Zenon DEF Unfolds
  <2>. HIDE DEF h, n, nxt, step
  <2>. QED
    BY <1>3, <2>1, UnfoldedIsSolved
<1>10. Join(pieces, by) = h[1]
  BY DEF Join
<1>. HIDE DEF h, n
<1>. QED
  <2>1. h \in [1..Len(pieces) -> Seq(T)]
    BY <1>1, <1>9, Zenon DEF Solves
  <2>2. Len(pieces) - 1 = n
    BY DEF n
  <2>. QED
    BY <2>1, <2>2, <1>1, <1>8, <1>10, Zenon DEF Joins

(* A single piece joined is the piece.                                        *)
LEMMA JoinOne ==
  ASSUME NEW T, NEW piece \in Seq(T), NEW by \in Seq(T)
  PROVE  Join(<<piece>>, by) = piece
<1>. DEFINE pieces == <<piece>>
<1>1. pieces \in Seq(Seq(T)) /\ pieces # <<>> /\ Len(pieces) = 1 /\ pieces[1] = piece
  OBVIOUS
<1>. HIDE DEF pieces
<1>2. PICK f : Joins(f, T, pieces, by)
  BY <1>1, JoinIs
<1>. QED
  BY <1>1, <1>2 DEF pieces, Joins

(* Joined texts are a text.                                                   *)
LEMMA JoinTyped ==
  ASSUME NEW T, NEW pieces \in Seq(Seq(T)), pieces # <<>>, NEW by \in Seq(T)
  PROVE  Join(pieces, by) \in Seq(T)
<1>1. 1 \in 1..Len(pieces)
  OBVIOUS
<1>2. PICK f : Joins(f, T, pieces, by)
  BY JoinIs
<1>. QED
  BY <1>1, <1>2 DEF Joins

(* Three texts one behind the other.                                          *)
Between(a, b, c) == a \o b \o c

(* A piece in front of others.                                                *)
Joinable(T, piece, pieces, by) ==
  piece \in Seq(T) /\ pieces \in Seq(Seq(T)) /\ pieces # <<>> /\ by \in Seq(T)

(* Joining with one more piece in front puts it and the word before the rest. *)
LEMMA JoinMore ==
  ASSUME NEW T, NEW piece, NEW pieces, NEW by, Joinable(T, piece, pieces, by)
  PROVE  Join(Cons(piece, pieces), by) = Between(piece, by, Join(pieces, by))
<1>. USE DEF Joinable, Cons, Between
<1>. DEFINE n == Len(pieces)
            more == <<piece>> \o pieces
<1>1. /\ n \in Nat \ {0} /\ more \in Seq(Seq(T)) /\ more # <<>> /\ Len(more) = n + 1
      /\ more[1] = piece /\ \A k \in 1..n : more[k + 1] = pieces[k]
  <2>1. n \in Nat \ {0} /\ <<piece>> \in Seq(Seq(T)) /\ Len(<<piece>>) = 1
    OBVIOUS
  <2>2. more \in Seq(Seq(T)) /\ Len(more) = n + 1 /\ more[1] = piece
    BY <2>1
  <2>3. ASSUME NEW k \in 1..n PROVE more[k + 1] = pieces[k]
    BY <2>1
  <2>. QED
    BY <2>1, <2>2, <2>3
<1>2. PICK f : Joins(f, T, pieces, by)
  BY JoinIs
<1>3. PICK g : Joins(g, T, more, by)
  <2>. HIDE DEF more
  <2>. QED
    BY <1>1, JoinIs
<1>a. Len(more) - 1 = n
  BY <1>1
<1>. DEFINE S == {k \in 1..n : g[k + 1] = f[k]}
<1>. HIDE DEF more, n
<1>b. /\ Join(more, by) = g[1] /\ g[n + 1] = more[n + 1]
      /\ \A k \in 1..n : g[k] = more[k] \o by \o g[k + 1]
  BY <1>1, <1>3, <1>a DEF Joins
<1>c. /\ Join(pieces, by) = f[1] /\ f[n] = pieces[n]
      /\ \A k \in 1..(n - 1) : f[k] = pieces[k] \o by \o f[k + 1]
  BY <1>2 DEF Joins, n
<1>4. n \in S
  BY <1>1, <1>b, <1>c
<1>5. ASSUME NEW k \in 1..(n - 1), \A j \in (k + 1)..n : j \in S PROVE k \in S
  <2>1. k + 1 \in S /\ k \in 1..n /\ k + 1 \in 1..n
    BY <1>1, <1>5
  <2>2. g[k + 1] = pieces[k] \o by \o g[k + 1 + 1] /\ f[k] = pieces[k] \o by \o f[k + 1]
    BY <1>1, <1>b, <1>c, <2>1
  <2>. QED
    BY <2>1, <2>2
<1>6. \A k \in 1..n : k \in S
  <2>1. n - 1 \in Nat /\ n - 1 + 1 = n
    BY <1>1
  <2>. HIDE DEF S
  <2>. QED
    BY <1>4, <1>5, <2>1, InductionFromEnd
<1>7. 1 \in 1..n
  BY <1>1
<1>8. g[1 + 1] = f[1] /\ g[1] = more[1] \o by \o g[1 + 1]
  BY <1>b, <1>6, <1>7
<1>. QED
  BY <1>1, <1>b, <1>c, <1>8 DEF more

(* The function by which ReplacedBackwards is defined: the text in which the  *)
(* matches from the k-th on are replaced.                                     *)
Backwards(f, text, at, word, by) ==
  /\ ReplacedBackwards(text, at, word, by) = f[1] /\ f[Len(at) + 1] = text
  /\ \A k \in 1..Len(at) : f[k] = ReplaceAt1(f[k + 1], at[k], word, by)

(* There is such a function.                                                  *)
LEMMA BackwardsIs ==
  ASSUME NEW text, NEW at \in Seq(Nat), NEW word, NEW by
  PROVE  \E f : Backwards(f, text, at, word, by)
<1>. DEFINE n == Len(at)
            Part(g, i) == [k \in i..(n + 1) |->
                             IF k > n THEN text ELSE ReplaceAt1(g[k + 1], at[k], word, by)]
            h == CHOOSE g : g = Part(g, 1)
            S == {i \in 1..(n + 1) : \E g : g = Part(g, i)}
<1>1. n \in Nat /\ n + 1 \in 1..(n + 1)
  OBVIOUS
<1>2. n + 1 \in S
  <2>. DEFINE g == [k \in (n + 1)..(n + 1) |-> text]
  <2>1. g = Part(g, n + 1)
    <3>1. ASSUME NEW k \in (n + 1)..(n + 1) PROVE k > n
      BY <1>1
    <3>. HIDE DEF n
    <3>. QED
      BY <3>1, Zenon
  <2>. HIDE DEF Part, g
  <2>. QED
    BY <1>1, <2>1, Zenon
<1>3. ASSUME NEW i \in 1..n, \A j \in (i + 1)..(n + 1) : j \in S PROVE i \in S
  <2>1. i + 1 \in (i + 1)..(n + 1) /\ i \in 1..(n + 1) /\ ~(i > n) /\ i # n + 1
    BY <1>1
  <2>2. PICK g : g = Part(g, i + 1)
    <3>. HIDE DEF Part
    <3>. QED
      BY <2>1, <1>3, Zenon
  <2>. DEFINE more == [k \in i..(n + 1) |->
                         IF k = i THEN ReplaceAt1(g[i + 1], at[i], word, by) ELSE g[k]]
  <2>3. ASSUME NEW k \in i..(n + 1) PROVE more[k] = Part(more, i)[k]
    <3>1. CASE k = i
      <4>1. i + 1 \in i..(n + 1) /\ i + 1 # i
        BY <1>1
      <4>2. more[i + 1] = g[i + 1]
        BY <4>1, Zenon
      <4>. HIDE DEF n, more
      <4>3. Part(more, i)[k] = ReplaceAt1(more[k + 1], at[k], word, by)
        BY <2>1, <3>1, Zenon
      <4>4. more[k] = ReplaceAt1(g[i + 1], at[i], word, by)
        BY <3>1, Zenon DEF more
      <4>. QED
        BY <3>1, <4>2, <4>3, <4>4, Zenon
    <3>2. CASE k # i
      <4>1. k \in (i + 1)..(n + 1) /\ (k > n \/ (k + 1 \in i..(n + 1) /\ k + 1 # i))
        BY <1>1, <3>2
      <4>2. g[k] = IF k > n THEN text ELSE ReplaceAt1(g[k + 1], at[k], word, by)
        BY <2>2, <4>1, Zenon
      <4>3. more[k] = g[k] /\ (~(k > n) => more[k + 1] = g[k + 1])
        BY <3>2, <4>1, Zenon
      <4>. HIDE DEF n, more
      <4>. QED
        BY <4>2, <4>3, Zenon
    <3>. QED
      BY <3>1, <3>2
  <2>4. more = Part(more, i)
    <3>. HIDE DEF n
    <3>. QED
      BY <2>3, Zenon
  <2>. HIDE DEF Part, more
  <2>. QED
    BY <2>1, <2>4, Zenon
<1>4. 1 \in S
  <2>1. \A i \in 1..(n + 1) : i \in S
    <3>. HIDE DEF S, n
    <3>. QED
      BY <1>1, <1>2, <1>3, InductionFromEnd
  <2>2. 1 \in 1..(n + 1)
    BY <1>1
  <2>. QED
    BY <2>1, <2>2, Zenon
<1>5. h = Part(h, 1)
  <2>. HIDE DEF Part
  <2>. QED
    BY <1>4, Zenon
<1>6. \A k \in 1..(n + 1) : h[k] = IF k > n THEN text ELSE ReplaceAt1(h[k + 1], at[k], word, by)
  <2>1. \A k \in 1..(n + 1) : h[k] = Part(h, 1)[k]
    BY <1>5, Zenon
  <2>. HIDE DEF h, n
  <2>. QED
    BY <2>1, Zenon
<1>7. ASSUME NEW k \in 1..n PROVE k \in 1..(n + 1) /\ ~(k > n)
  BY <1>1
<1>8. n + 1 > n
  BY <1>1
<1>9. ReplacedBackwards(text, at, word, by) = h[1]
  BY DEF ReplacedBackwards
<1>. HIDE DEF h
<1>. QED
  BY <1>1, <1>6, <1>7, <1>8, <1>9, Zenon DEF Backwards

(* Without a match the text stays.                                            *)
LEMMA BackwardsNone ==
  ASSUME NEW text, NEW word, NEW by
  PROVE  ReplacedBackwards(text, <<>>, word, by) = text
<1>. DEFINE none == <<>>
<1>1. none \in Seq(Nat) /\ Len(none) + 1 = 1
  OBVIOUS
<1>. HIDE DEF none
<1>2. PICK f : Backwards(f, text, none, word, by)
  BY <1>1, BackwardsIs
<1>3. ReplacedBackwards(text, none, word, by) = text
  BY <1>1, <1>2, Zenon DEF Backwards
<1>. QED
  BY <1>3 DEF none

(* A match in front of others is replaced last.                               *)
LEMMA BackwardsMore ==
  ASSUME NEW text, NEW first \in Nat, NEW at \in Seq(Nat), NEW word, NEW by
  PROVE  ReplacedBackwards(text, <<first>> \o at, word, by) =
           ReplaceAt1(ReplacedBackwards(text, at, word, by), first, word, by)
<1>. DEFINE n == Len(at)
            more == <<first>> \o at
<1>1. /\ n \in Nat /\ more \in Seq(Nat) /\ Len(more) = n + 1
      /\ more[1] = first /\ \A k \in 1..n : more[k + 1] = at[k]
  <2>1. n \in Nat /\ <<first>> \in Seq(Nat) /\ Len(<<first>>) = 1
    OBVIOUS
  <2>2. more \in Seq(Nat) /\ Len(more) = n + 1 /\ more[1] = first
    BY <2>1
  <2>3. ASSUME NEW k \in 1..n PROVE more[k + 1] = at[k]
    BY <2>1
  <2>. QED
    BY <2>1, <2>2, <2>3
<1>2. PICK f : Backwards(f, text, at, word, by)
  BY BackwardsIs
<1>3. PICK g : Backwards(g, text, more, word, by)
  <2>. HIDE DEF more
  <2>. QED
    BY <1>1, BackwardsIs
<1>4. /\ ReplacedBackwards(text, more, word, by) = g[1] /\ g[n + 1 + 1] = text
      /\ \A k \in 1..(n + 1) : g[k] = ReplaceAt1(g[k + 1], more[k], word, by)
  <2>. HIDE DEF more, n
  <2>. QED
    BY <1>1, <1>3, Zenon DEF Backwards
<1>5. /\ ReplacedBackwards(text, at, word, by) = f[1] /\ f[n + 1] = text
      /\ \A k \in 1..n : f[k] = ReplaceAt1(f[k + 1], at[k], word, by)
  BY <1>2, Zenon DEF Backwards
<1>. DEFINE S == {k \in 1..(n + 1) : g[k + 1] = f[k]}
<1>. HIDE DEF more, n
<1>6. n + 1 \in S
  BY <1>1, <1>4, <1>5
<1>7. ASSUME NEW k \in 1..n, \A j \in (k + 1)..(n + 1) : j \in S PROVE k \in S
  <2>1. k + 1 \in (k + 1)..(n + 1) /\ k \in 1..(n + 1) /\ k + 1 \in 1..(n + 1)
    BY <1>1
  <2>2. g[k + 1 + 1] = f[k + 1]
    BY <1>7, <2>1, Zenon
  <2>3. g[k + 1] = ReplaceAt1(g[k + 1 + 1], more[k + 1], word, by)
    BY <1>4, <2>1, Zenon
  <2>4. f[k] = ReplaceAt1(f[k + 1], at[k], word, by) /\ more[k + 1] = at[k]
    BY <1>1, <1>5, Zenon
  <2>. QED
    BY <2>1, <2>2, <2>3, <2>4, Zenon
<1>8. \A k \in 1..(n + 1) : k \in S
  <2>. HIDE DEF S
  <2>. QED
    BY <1>1, <1>6, <1>7, InductionFromEnd
<1>9. 1 \in 1..(n + 1)
  BY <1>1
<1>10. g[1 + 1] = f[1] /\ g[1] = ReplaceAt1(g[1 + 1], more[1], word, by)
  BY <1>4, <1>8, <1>9, Zenon
<1>. QED
  BY <1>1, <1>4, <1>5, <1>10, Zenon DEF more

----------------------------------------------------------------------------
(* Sequences.                                                                 *)

(* A sequence that is not empty is its head before its tail.                  *)
LEMMA HeadAndTail ==
  ASSUME NEW X, NEW q \in Seq(X), q # <<>>
  PROVE  /\ Head(q) \in X /\ Tail(q) \in Seq(X) /\ Head(q) = q[1]
         /\ q = <<Head(q)>> \o Tail(q) /\ Len(Tail(q)) = Len(q) - 1
<1>1. Head(q) \in X /\ Tail(q) \in Seq(X) /\ Head(q) = q[1] /\ Len(Tail(q)) = Len(q) - 1
  OBVIOUS
<1>2. Len(<<Head(q)>>) = 1 /\ <<Head(q)>> \in Seq(X)
  BY <1>1
<1>3. q = <<Head(q)>> \o Tail(q)
  <2>1. <<Head(q)>> \o Tail(q) \in Seq(X) /\ Len(<<Head(q)>> \o Tail(q)) = Len(q)
    BY <1>1, <1>2
  <2>2. ASSUME NEW k \in 1..Len(q) PROVE (<<Head(q)>> \o Tail(q))[k] = q[k]
    <3>1. CASE k = 1
      BY <3>1, <1>1
    <3>2. CASE k # 1
      BY <3>2, <1>1
    <3>. QED
      BY <3>1, <3>2
  <2>. QED
    BY <2>1, <2>2, SeqEqual
<1>. QED
  BY <1>1, <1>3

(* One element before a sequence: the length and the places.                  *)
LEMMA FirstOfMore ==
  ASSUME NEW X, NEW x \in X, NEW q \in Seq(X)
  PROVE  /\ <<x>> \o q \in Seq(X) /\ <<x>> \o q # <<>> /\ Len(<<x>> \o q) = Len(q) + 1
         /\ Head(<<x>> \o q) = x /\ (<<x>> \o q)[1] = x
         /\ \A k \in 1..Len(q) : (<<x>> \o q)[k + 1] = q[k]
<1>1. <<x>> \in Seq(X) /\ Len(<<x>>) = 1 /\ Len(q) \in Nat
  OBVIOUS
<1>2. <<x>> \o q \in Seq(X) /\ Len(<<x>> \o q) = Len(q) + 1 /\ (<<x>> \o q)[1] = x
  BY <1>1
<1>3. \A k \in 1..Len(q) : (<<x>> \o q)[k + 1] = q[k]
  BY <1>1
<1>. QED
  BY <1>1, <1>2, <1>3

(* A prefix of a sequence with one more element in front.                     *)
LEMMA PrefixOfMore ==
  ASSUME NEW X, NEW x \in X, NEW q \in Seq(X), NEW k \in 1..Len(q)
  PROVE  SubSeq(<<x>> \o q, 1, k + 1) = <<x>> \o SubSeq(q, 1, k)
<1>. DEFINE a == SubSeq(<<x>> \o q, 1, k + 1)
            b == <<x>> \o SubSeq(q, 1, k)
<1>1. <<x>> \o q \in Seq(X) /\ Len(<<x>> \o q) = Len(q) + 1 /\ (<<x>> \o q)[1] = x
      /\ \A m \in 1..Len(q) : (<<x>> \o q)[m + 1] = q[m]
  BY FirstOfMore
<1>2. SubSeq(q, 1, k) \in Seq(X) /\ Len(SubSeq(q, 1, k)) = k
      /\ \A m \in 1..k : SubSeq(q, 1, k)[m] = q[m]
  OBVIOUS
<1>3. b \in Seq(X) /\ Len(b) = k + 1 /\ b[1] = x /\ \A m \in 1..k : b[m + 1] = SubSeq(q, 1, k)[m]
  BY <1>2, FirstOfMore
<1>4. a \in Seq(X) /\ Len(a) = k + 1 /\ \A m \in 1..(k + 1) : a[m] = (<<x>> \o q)[m]
  <2>. DEFINE p == <<x>> \o q
  <2>1. p \in Seq(X) /\ k + 1 \in 1..Len(p)
    BY <1>1
  <2>. HIDE DEF p
  <2>. QED
    BY <2>1
<1>5. ASSUME NEW m \in 1..(k + 1) PROVE a[m] = b[m]
  <2>1. CASE m = 1
    BY <2>1, <1>1, <1>3, <1>4
  <2>2. CASE m # 1
    <3>1. m - 1 \in 1..k /\ m - 1 \in 1..Len(q) /\ m - 1 + 1 = m
      BY <2>2
    <3>. HIDE DEF a, b
    <3>2. b[m] = q[m - 1]
      BY <3>1, <1>2, <1>3
    <3>3. a[m] = q[m - 1]
      BY <3>1, <1>1, <1>4
    <3>. QED
      BY <3>2, <3>3
  <2>. QED
    BY <2>1, <2>2
<1>. HIDE DEF a, b
<1>6. a = b
  BY <1>3, <1>4, <1>5, SeqEqual
<1>. QED
  BY <1>6 DEF a, b

(* The concatenation as an operator of two arguments.                         *)
Cat(a, b) == a \o b

(* It is associative, and of texts a text.                                    *)
LEMMA CatAssociative ==
  ASSUME NEW T, NEW a \in Seq(T), NEW b \in Seq(T), NEW c \in Seq(T)
  PROVE  Cat(Cat(a, b), c) = Cat(a, Cat(b, c)) /\ Cat(a, b) \in Seq(T)
BY ConcatAssociative DEF Cat

(* The first of three texts made longer in front.                             *)
LEMMA BetweenLonger ==
  ASSUME NEW T, NEW a \in Seq(T), NEW b \in Seq(T), NEW c \in Seq(T), NEW d \in Seq(T)
  PROVE  Between(Cat(a, b), c, d) = Cat(a, Between(b, c, d))
<1>1. Cat(Cat(a, b), c) = Cat(a, Cat(b, c)) /\ Cat(b, c) \in Seq(T)
  BY CatAssociative
<1>2. Cat(Cat(a, Cat(b, c)), d) = Cat(a, Cat(Cat(b, c), d))
  BY <1>1, CatAssociative
<1>3. Between(Cat(a, b), c, d) = Cat(Cat(Cat(a, b), c), d) /\ Between(b, c, d) = Cat(Cat(b, c), d)
  BY DEF Between, Cat
<1>. QED
  BY <1>1, <1>2, <1>3

(* Pieces of which the first gets a letter in front: joined, so does the      *)
(* text.                                                                      *)
LEMMA JoinLonger ==
  ASSUME NEW T, NEW c \in T, NEW q \in Seq(Seq(T)), q # <<>>, NEW by \in Seq(T)
  PROVE  Join(<< <<c>> \o Head(q) >> \o Tail(q), by) = <<c>> \o Join(q, by)
<1>. DEFINE t == Tail(q)
            x == Head(q)
            one == <<c>>
            y == one \o x
            new == <<y>> \o t
<1>1. x \in Seq(T) /\ t \in Seq(Seq(T)) /\ q = <<x>> \o t
  BY HeadAndTail
<1>2. one \in Seq(T) /\ y \in Seq(T)
  BY <1>1
<1>3. CASE t = <<>>
  <2>1. q = <<x>> /\ new = <<y>>
    <3>. HIDE DEF x, y, t, one
    <3>1. <<x>> \in Seq(Seq(T)) /\ <<y>> \in Seq(Seq(T))
      BY <1>1, <1>2
    <3>. QED
      BY <1>1, <1>3, <3>1, ConcatEmptySeq
  <2>2. Join(<<x>>, by) = x /\ Join(<<y>>, by) = y
    <3>. HIDE DEF x, y
    <3>. QED
      BY <1>1, <1>2, JoinOne
  <2>3. Join(new, by) = one \o Join(q, by)
    <3>1. Join(new, by) = y /\ Join(q, by) = x
      BY <2>1, <2>2, Zenon
    <3>. QED
      BY <3>1, Zenon DEF y
  <2>. QED
    BY <2>3
<1>4. CASE t # <<>>
  <2>. DEFINE j == Join(t, by)
  <2>. HIDE DEF t, x
  <2>a. x \in Seq(T) /\ t \in Seq(Seq(T))
    BY <1>1
  <2>1. j \in Seq(T)
    BY <2>a, <1>4, JoinTyped
  <2>b. Joinable(T, x, t, by) /\ Joinable(T, y, t, by)
    <3>. HIDE DEF y
    <3>. QED
      BY <2>a, <1>2, <1>4 DEF Joinable
  <2>2. Join(q, by) = Between(x, by, j)
    <3>1. Join(Cons(x, t), by) = Between(x, by, j)
      BY <2>b, JoinMore
    <3>2. Cons(x, t) = q
      BY <1>1 DEF Cons
    <3>. QED
      BY <3>1, <3>2, Zenon
  <2>3. Join(new, by) = Between(y, by, j)
    <3>. HIDE DEF y
    <3>. QED
      <4>1. Join(Cons(y, t), by) = Between(y, by, j)
        BY <2>b, JoinMore
      <4>. QED
        BY <4>1, Zenon DEF Cons
  <2>. HIDE DEF j, one
  <2>4. Between(y, by, j) = Cat(one, Between(x, by, j))
    <3>1. y = Cat(one, x)
      BY Zenon DEF Cat, y
    <3>. HIDE DEF y
    <3>. QED
      BY <1>2, <2>a, <2>1, <3>1, BetweenLonger
  <2>5. Join(new, by) = one \o Join(q, by)
    BY <2>2, <2>3, <2>4, Zenon DEF Cat
  <2>. QED
    BY <2>5, Zenon DEF t, x, one
<1>. QED
  BY <1>3, <1>4

----------------------------------------------------------------------------
(* Matches and pieces.                                                        *)

(* A match is inside the text.                                                *)
LEMMA MatchFits ==
  ASSUME NEW T, NEW text \in Seq(T), NEW word \in Seq(T), word # <<>>,
         NEW i \in 1..Len(text), MatchAt(text, word, i)
  PROVE  i + Len(word) \in (i + 1)..(Len(text) + 1)
BY DEF MatchAt

(* Offsets are places of the text.                                            *)
LEMMA OffsetsTyped ==
  ASSUME NEW T, NEW text \in Seq(T), NEW word \in Seq(T)
  PROVE  Offsets(text, word) \in Seq(1..Len(text))
<1>. DEFINE n == Len(text)
<1>1. CASE word = <<>>
  BY <1>1 DEF Offsets
<1>2. CASE word # <<>>
  <2>1. PICK o : Finds(o, text, word)
    BY <1>2, OffsetsAre
  <2>2. n \in Nat /\ n + 1 \in 1..(n + 1) /\ 1 \in 1..(n + 1)
    OBVIOUS
  <2>. DEFINE S == {i \in 1..(n + 1) : o[i] \in Seq(1..n)}
  <2>3. n + 1 \in S
    BY <2>1, <2>2 DEF Finds
  <2>4. ASSUME NEW i \in 1..n, \A j \in (i + 1)..(n + 1) : j \in S PROVE i \in S
    <3>1. i \in 1..(n + 1) /\ i + 1 \in (i + 1)..(n + 1)
      BY <2>2
    <3>2. CASE MatchAt(text, word, i)
      <4>1. o[i + Len(word)] \in Seq(1..n)
        BY <1>2, <2>4, <3>2, MatchFits
      <4>2. <<i>> \o o[i + Len(word)] \in Seq(1..n)
        <5>. DEFINE r == o[i + Len(word)]
        <5>. HIDE DEF r, n
        <5>1. r \in Seq(1..n)
          BY <4>1 DEF r
        <5>2. <<i>> \in Seq(1..n)
          OBVIOUS
        <5>3. <<i>> \o r \in Seq(1..n)
          BY <5>1, <5>2
        <5>. QED
          BY <5>3 DEF r
      <4>. QED
        BY <2>1, <3>1, <3>2, <4>2, Zenon DEF Finds
    <3>3. CASE ~MatchAt(text, word, i)
      BY <2>1, <2>4, <3>1, <3>3, Zenon DEF Finds
    <3>. QED
      BY <3>2, <3>3
  <2>5. \A i \in 1..(n + 1) : i \in S
    <3>. HIDE DEF S, n
    <3>. QED
      BY <2>2, <2>3, <2>4, InductionFromEnd
  <2>. QED
    BY <2>1, <2>2, <2>5, Zenon DEF Finds
<1>. QED
  BY <1>1, <1>2

(* A prefix that is not empty.                                                *)
LEMMA PrefixTyped ==
  ASSUME NEW X, NEW q \in Seq(X), NEW k \in 1..Len(q)
  PROVE  SubSeq(q, 1, k) \in Seq(X) /\ Len(SubSeq(q, 1, k)) = k /\ SubSeq(q, 1, k) # <<>>
<1>. DEFINE f == SubSeq(q, 1, k)
<1>1. f \in Seq(X) /\ Len(f) = k
  OBVIOUS
<1>. HIDE DEF f
<1>2. f # <<>>
  BY <1>1
<1>. QED
  BY <1>1, <1>2 DEF f

(* How many letters the preview shows up to the end of the k-th piece, and so *)
(* before the k-th mark.                                                      *)
ShownBefore(pieces, k, word) == Len(Join(SubSeq(pieces, 1, k), word))
(* Pieces of which the first gets a letter in front.                          *)
Longer(c, q) == << <<c>> \o Head(q) >> \o Tail(q)

(* It is a number.                                                            *)
LEMMA ShownTyped ==
  ASSUME NEW T, NEW q \in Seq(Seq(T)), NEW k \in 1..Len(q), NEW word \in Seq(T)
  PROVE  ShownBefore(q, k, word) \in Nat
<1>. DEFINE f == SubSeq(q, 1, k)
            j == Join(f, word)
<1>1. f \in Seq(Seq(T)) /\ f # <<>>
  BY PrefixTyped
<1>. HIDE DEF f
<1>2. j \in Seq(T)
  BY <1>1, JoinTyped
<1>. HIDE DEF j
<1>3. Len(j) \in Nat
  BY <1>2
<1>. QED
  BY <1>3, Zenon DEF ShownBefore, f, j

(* An empty first piece shows nothing.                                        *)
LEMMA ShownFirst ==
  ASSUME NEW T, NEW q \in Seq(Seq(T)), NEW word \in Seq(T)
  PROVE  ShownBefore(Cons(<<>>, q), 1, word) = 0
<1>. DEFINE m == Cons(<<>>, q)
            e == << <<>> >>
<1>1. m \in Seq(Seq(T)) /\ Len(m) = Len(q) + 1 /\ m[1] = <<>>
  <2>1. <<>> \in Seq(T)
    OBVIOUS
  <2>. QED
    BY <2>1, FirstOfMore DEF Cons
<1>. HIDE DEF m
<1>2. SubSeq(m, 1, 1) = e
  <2>. DEFINE f == SubSeq(m, 1, 1)
  <2>1. 1 \in 1..Len(m)
    BY <1>1
  <2>2. f \in Seq(Seq(T)) /\ Len(f) = 1
    BY <1>1, <2>1, PrefixTyped
  <2>3. f[1] = <<>>
    BY <1>1, <2>1
  <2>4. e \in Seq(Seq(T)) /\ Len(e) = 1 /\ e[1] = <<>>
    OBVIOUS
  <2>. HIDE DEF f, e
  <2>5. f = e
    BY <2>2, <2>3, <2>4, SeqEqual
  <2>. QED
    BY <2>5 DEF f
<1>3. Join(e, word) = <<>>
  <2>1. <<>> \in Seq(T)
    OBVIOUS
  <2>. QED
    BY <2>1, JoinOne
<1>4. Len(Join(SubSeq(m, 1, 1), word)) = 0
  <2>1. Join(SubSeq(m, 1, 1), word) = <<>>
    BY <1>2, <1>3, Zenon
  <2>. QED
    BY <2>1
<1>. QED
  BY <1>4, Zenon DEF ShownBefore, m

(* Behind a match at the start there is the word more.                        *)
LEMMA ShownBehindMatch ==
  ASSUME NEW T, NEW q \in Seq(Seq(T)), NEW k \in 1..Len(q), NEW word \in Seq(T)
  PROVE  ShownBefore(Cons(<<>>, q), k + 1, word) = Len(word) + ShownBefore(q, k, word)
<1>. DEFINE f == SubSeq(q, 1, k)
            j == Join(f, word)
<1>1. f \in Seq(Seq(T)) /\ f # <<>>
  BY PrefixTyped
<1>2. SubSeq(Cons(<<>>, q), 1, k + 1) = Cons(<<>>, f)
  <2>1. <<>> \in Seq(T)
    OBVIOUS
  <2>. QED
    BY <2>1, PrefixOfMore DEF Cons
<1>. HIDE DEF f
<1>3. j \in Seq(T)
  BY <1>1, JoinTyped
<1>4. Join(Cons(<<>>, f), word) = Between(<<>>, word, j)
  <2>1. Joinable(T, <<>>, f, word)
    BY <1>1 DEF Joinable
  <2>. QED
    BY <2>1, JoinMore
<1>. HIDE DEF j
<1>5. Len(Between(<<>>, word, j)) = Len(word) + Len(j)
  <2>1. <<>> \o word = word
    OBVIOUS
  <2>2. Len(word \o j) = Len(word) + Len(j)
    BY <1>3
  <2>. QED
    BY <2>1, <2>2 DEF Between
<1>6. Len(Join(SubSeq(Cons(<<>>, q), 1, k + 1), word)) = Len(word) + Len(j)
  BY <1>2, <1>4, <1>5, Zenon
<1>. QED
  BY <1>6, Zenon DEF ShownBefore, f, j

(* Behind a letter at the start there is one letter more.                     *)
LEMMA ShownLonger ==
  ASSUME NEW T, NEW c \in T, NEW q \in Seq(Seq(T)), NEW k \in 1..Len(q), NEW word \in Seq(T)
  PROVE  ShownBefore(Longer(c, q), k, word) = 1 + ShownBefore(q, k, word)
<1>. DEFINE Q == SubSeq(q, 1, k)
            long == << <<c>> \o Head(q) >> \o Tail(q)
            y == <<c>> \o Head(q)
            j == Join(Q, word)
<1>1. q # <<>> /\ Head(q) \in Seq(T) /\ Tail(q) \in Seq(Seq(T)) /\ Len(Tail(q)) = Len(q) - 1
      /\ y \in Seq(T)
  OBVIOUS
<1>a. Q \in Seq(Seq(T)) /\ Len(Q) = k /\ \A m \in 1..k : Q[m] = q[m]
  OBVIOUS
<1>2. Q # <<>> /\ Head(Q) = Head(q)
  <2>. HIDE DEF Q
  <2>. QED
    BY <1>1, <1>a
<1>3. SubSeq(long, 1, k) = <<y>> \o Tail(Q)
  <2>. DEFINE l == SubSeq(long, 1, k)
              r == <<y>> \o Tail(Q)
  <2>1. /\ Tail(Q) \in Seq(Seq(T)) /\ Len(Tail(Q)) = k - 1
        /\ \A m \in 1..(k - 1) : Tail(Q)[m] = q[m + 1]
    <3>. HIDE DEF Q
    <3>1. Tail(Q) \in Seq(Seq(T)) /\ Len(Tail(Q)) = k - 1
      BY <1>a, <1>2
    <3>2. ASSUME NEW m \in 1..(k - 1) PROVE Tail(Q)[m] = q[m + 1]
      BY <1>a, <1>2
    <3>. QED
      BY <3>1, <3>2
  <2>2. \A m \in 1..(Len(q) - 1) : Tail(q)[m] = q[m + 1]
    OBVIOUS
  <2>3. long \in Seq(Seq(T)) /\ Len(long) = Len(q) /\ long[1] = y
        /\ \A m \in 1..(Len(q) - 1) : long[m + 1] = q[m + 1]
    <3>. HIDE DEF y
    <3>. QED
      BY <1>1, <2>2, FirstOfMore DEF y
  <2>4. r \in Seq(Seq(T)) /\ Len(r) = k /\ r[1] = y /\ \A m \in 1..(k - 1) : r[m + 1] = q[m + 1]
    <3>. HIDE DEF y, Q
    <3>. QED
      BY <1>1, <2>1, FirstOfMore
  <2>5. l \in Seq(Seq(T)) /\ Len(l) = k /\ \A m \in 1..k : l[m] = long[m]
    <3>. HIDE DEF long
    <3>. QED
      BY <2>3
  <2>. HIDE DEF l, r, long, Q, y
  <2>6. ASSUME NEW m \in 1..k PROVE l[m] = r[m]
    <3>1. CASE m = 1
      BY <3>1, <2>3, <2>4, <2>5
    <3>2. CASE m # 1
      <4>1. m - 1 \in 1..(k - 1) /\ m - 1 \in 1..(Len(q) - 1) /\ m - 1 + 1 = m
        BY <3>2
      <4>. QED
        BY <4>1, <2>3, <2>4, <2>5
    <3>. QED
      BY <3>1, <3>2
  <2>7. l = r
    BY <2>4, <2>5, <2>6, SeqEqual
  <2>. QED
    BY <2>7 DEF l, r
<1>4. Join(SubSeq(long, 1, k), word) = <<c>> \o j
  <2>1. << <<c>> \o Head(Q) >> \o Tail(Q) = SubSeq(long, 1, k)
    BY <1>2, <1>3, Zenon
  <2>. HIDE DEF Q, long, y
  <2>2. Join(<< <<c>> \o Head(Q) >> \o Tail(Q), word) = <<c>> \o Join(Q, word)
    BY <1>a, <1>2, JoinLonger
  <2>. QED
    BY <2>1, <2>2, Zenon
<1>5. j \in Seq(T)
  <2>. HIDE DEF Q
  <2>. QED
    BY <1>a, <1>2, JoinTyped
<1>6. Len(<<c>> \o j) = 1 + Len(j)
  <2>. HIDE DEF j
  <2>. QED
    BY <1>5, FirstOfMore
<1>7. Len(Join(SubSeq(long, 1, k), word)) = 1 + Len(j)
  BY <1>4, <1>6, Zenon
<1>. QED
  BY <1>7, Zenon DEF ShownBefore, Longer

(* From place i on, there is a match between any two pieces, and it is at the *)
(* place where the preview marks it.                                          *)
AgreeFrom(at, pieces, i, word) ==
  /\ Len(pieces) = Len(at) + 1
  /\ \A k \in 1..Len(at) : at[k] = i + ShownBefore(pieces, k, word)

(* A match at place i, before matches and pieces that agree behind it.        *)
LEMMA AgreeAtMatch ==
  ASSUME NEW T, NEW word \in Seq(T), NEW r \in Seq(Nat), NEW q \in Seq(Seq(T)), NEW i \in Nat,
         AgreeFrom(r, q, i + Len(word), word)
  PROVE  AgreeFrom(Cons(i, r), Cons(<<>>, q), i, word)
<1>. DEFINE at == Cons(i, r)
            pieces == Cons(<<>>, q)
<1>1. Len(q) = Len(r) + 1 /\ \A k \in 1..Len(r) : r[k] = i + Len(word) + ShownBefore(q, k, word)
  BY DEF AgreeFrom
<1>2. Len(at) = Len(r) + 1 /\ at[1] = i /\ \A k \in 1..Len(r) : at[k + 1] = r[k]
  BY FirstOfMore DEF Cons
<1>3. Len(pieces) = Len(q) + 1
  <2>1. <<>> \in Seq(T)
    OBVIOUS
  <2>. QED
    BY <2>1, FirstOfMore DEF Cons
<1>4. Len(r) \in Nat /\ Len(word) \in Nat
  OBVIOUS
<1>. HIDE DEF at, pieces
<1>5. ASSUME NEW k \in 1..Len(at) PROVE at[k] = i + ShownBefore(pieces, k, word)
  <2>1. CASE k = 1
    <3>1. ShownBefore(pieces, 1, word) = 0
      BY ShownFirst DEF pieces
    <3>. QED
      BY <1>2, <2>1, <3>1
  <2>2. CASE k # 1
    <3>. DEFINE h == k - 1
    <3>1. h \in 1..Len(r) /\ h \in 1..Len(q) /\ h + 1 = k
      BY <1>1, <1>2, <1>4, <2>2
    <3>. HIDE DEF h
    <3>2. ShownBefore(pieces, h + 1, word) = Len(word) + ShownBefore(q, h, word)
      BY <3>1, ShownBehindMatch DEF pieces
    <3>3. ShownBefore(q, h, word) \in Nat
      BY <3>1, ShownTyped
    <3>4. at[h + 1] = i + Len(word) + ShownBefore(q, h, word)
      BY <1>1, <1>2, <3>1
    <3>. QED
      BY <1>4, <3>1, <3>2, <3>3, <3>4
  <2>. QED
    BY <2>1, <2>2
<1>6. Len(pieces) = Len(at) + 1
  BY <1>1, <1>2, <1>3
<1>. QED
  BY <1>5, <1>6, Zenon DEF AgreeFrom, at, pieces

(* A letter at place i that starts no match, before matches and pieces that   *)
(* agree behind it.                                                           *)
LEMMA AgreeBehindLetter ==
  ASSUME NEW T, NEW word \in Seq(T), NEW r \in Seq(Nat), NEW q \in Seq(Seq(T)), q # <<>>,
         NEW c \in T, NEW i \in Nat, AgreeFrom(r, q, i + 1, word)
  PROVE  AgreeFrom(r, Longer(c, q), i, word)
<1>1. Len(q) = Len(r) + 1 /\ \A k \in 1..Len(r) : r[k] = i + 1 + ShownBefore(q, k, word)
  BY DEF AgreeFrom
<1>2. Len(Longer(c, q)) = Len(q)
  <2>. DEFINE y == <<c>> \o Head(q)
  <2>1. y \in Seq(T) /\ Tail(q) \in Seq(Seq(T)) /\ Len(Tail(q)) = Len(q) - 1 /\ Len(q) \in Nat
    OBVIOUS
  <2>. HIDE DEF y
  <2>2. Len(<<y>> \o Tail(q)) = Len(Tail(q)) + 1
    BY <2>1, FirstOfMore
  <2>. QED
    BY <2>1, <2>2 DEF y, Longer
<1>3. ASSUME NEW k \in 1..Len(r) PROVE r[k] = i + ShownBefore(Longer(c, q), k, word)
  <2>1. k \in 1..Len(q) /\ Len(r) \in Nat
    BY <1>1
  <2>2. ShownBefore(Longer(c, q), k, word) = 1 + ShownBefore(q, k, word)
    BY <2>1, ShownLonger
  <2>3. ShownBefore(q, k, word) \in Nat
    BY <2>1, ShownTyped
  <2>. QED
    BY <1>1, <2>2, <2>3
<1>. QED
  BY <1>1, <1>2, <1>3 DEF AgreeFrom

(* The matches and the pieces of a text agree: by induction from its end, in  *)
(* which searching and splitting step over a match and a letter alike.        *)
LEMMA MarksAgree ==
  ASSUME NEW T, NEW text \in Seq(T), NEW word \in Seq(T), word # <<>>
  PROVE  AgreeFrom(Offsets(text, word), Split(text, word), 1, word)
<1>. DEFINE n == Len(text)
            L == Len(word)
            Agree(at, pieces, i) == AgreeFrom(at, pieces, i, word)
<1>1. n \in Nat /\ n + 1 \in 1..(n + 1) /\ 1 \in 1..(n + 1) /\ L \in Nat /\ L > 0
  OBVIOUS
<1>2. PICK o : Finds(o, text, word)
  BY OffsetsAre
<1>3. PICK p : Splits(p, T, text, word)
  BY SplitIs
<1>. DEFINE S == {i \in 1..(n + 1) : Agree(o[i], p[i], i)}
<1>4. n + 1 \in S
  <2>1. o[n + 1] = <<>> /\ p[n + 1] = << <<>> >>
    BY <1>2, <1>3, Zenon DEF Finds, Splits
  <2>2. Agree(<<>>, << <<>> >>, n + 1)
    BY DEF AgreeFrom
  <2>. HIDE DEF Agree
  <2>. QED
    BY <1>1, <2>1, <2>2, Zenon
<1>5. ASSUME NEW i \in 1..n, \A j \in (i + 1)..(n + 1) : j \in S PROVE i \in S
  <2>1. i \in 1..(n + 1) /\ i + 1 \in (i + 1)..(n + 1) /\ i + 1 \in 1..(n + 1)
    BY <1>1
  <2>2. CASE MatchAt(text, word, i)
    <3>. DEFINE j == i + L
                r == o[j]
                q == p[j]
    <3>1. j \in (i + 1)..(n + 1) /\ j \in 1..(n + 1)
      BY <1>1, <2>2, MatchFits
    <3>2. o[i] = Cons(i, r) /\ p[i] = Cons(<<>>, q)
      BY <1>2, <1>3, <2>2, Zenon DEF Finds, Splits, Cons
    <3>3. r \in Seq(Nat) /\ q \in Seq(Seq(T))
      BY <1>2, <1>3, <3>1 DEF Finds, Splits
    <3>4. Agree(r, q, j)
      BY <1>5, <3>1, Zenon
    <3>. HIDE DEF r, q, n
    <3>5. i \in Nat
      OBVIOUS
    <3>6. AgreeFrom(Cons(i, r), Cons(<<>>, q), i, word)
      BY <3>3, <3>4, <3>5, AgreeAtMatch
    <3>. QED
      BY <2>1, <3>2, <3>6, Zenon
  <2>3. CASE ~MatchAt(text, word, i)
    <3>. DEFINE r == o[i + 1]
                q == p[i + 1]
                c == text[i]
    <3>1. o[i] = r /\ p[i] = Longer(c, q)
      <4>1. o[i] = r
        BY <1>2, <2>3, Zenon DEF Finds
      <4>2. p[i] = << <<c>> \o Head(q) >> \o Tail(q)
        BY <1>3, <2>3, Zenon DEF Splits
      <4>. HIDE DEF c, q
      <4>. QED
        BY <4>1, <4>2, Zenon DEF Longer
    <3>2. r \in Seq(Nat) /\ q \in Seq(Seq(T)) /\ q # <<>> /\ c \in T
      <4>1. r \in Seq(Nat)
        BY <1>2, <2>1 DEF Finds
      <4>2. q \in Seq(Seq(T)) \ {<<>>}
        BY <1>3, <2>1, Zenon DEF Splits
      <4>3. c \in T
        OBVIOUS
      <4>. HIDE DEF r, q, c
      <4>. QED
        BY <4>1, <4>2, <4>3
    <3>3. Agree(r, q, i + 1)
      BY <1>5, <2>1, Zenon
    <3>. HIDE DEF r, q, c, n
    <3>4. i \in Nat
      OBVIOUS
    <3>5. AgreeFrom(r, Longer(c, q), i, word)
      BY <3>2, <3>3, <3>4, AgreeBehindLetter
    <3>. QED
      BY <2>1, <3>1, <3>5, Zenon
  <2>. QED
    BY <2>2, <2>3
<1>6. \A i \in 1..(n + 1) : i \in S
  <2>. HIDE DEF S, n
  <2>. QED
    BY <1>1, <1>4, <1>5, InductionFromEnd
<1>7. Agree(o[1], p[1], 1)
  BY <1>1, <1>6, Zenon
<1>8. Offsets(text, word) = o[1] /\ Split(text, word) = p[1]
  BY <1>2, <1>3, Zenon DEF Finds, Splits
<1>. QED
  BY <1>7, <1>8, Zenon

----------------------------------------------------------------------------
(* Replacing.                                                                 *)

(* The text up to place i, and a rest.                                        *)
Kept(text, i, rest) == SubSeq(text, 1, i - 1) \o rest

(* What is at each place of it.                                               *)
KeptFacts(d, T, text, i, rest) ==
  /\ d \in Seq(T) /\ Len(d) = i - 1 + Len(rest)
  /\ \A k \in 1..(i - 1) : d[k] = text[k]
  /\ \A k \in 1..Len(rest) : d[i - 1 + k] = rest[k]

(* It is a text with these letters.                                           *)
LEMMA KeptTyped ==
  ASSUME NEW T, NEW text \in Seq(T), NEW i \in 1..(Len(text) + 1), NEW rest \in Seq(T)
  PROVE  KeptFacts(Kept(text, i, rest), T, text, i, rest)
<1>. DEFINE f == SubSeq(text, 1, i - 1)
<1>1. f \in Seq(T) /\ Len(f) = i - 1 /\ \A k \in 1..(i - 1) : f[k] = text[k]
  OBVIOUS
<1>. HIDE DEF f
<1>a. f \o rest \in Seq(T) /\ Len(f \o rest) = i - 1 + Len(rest)
  <2>1. f \o rest \in Seq(T) /\ Len(f \o rest) = Len(f) + Len(rest)
    BY <1>1, ConcatProperties
  <2>. QED
    BY <1>1, <2>1
<1>2. \A k \in 1..(i - 1) : (f \o rest)[k] = text[k]
  BY <1>1
<1>3. \A k \in 1..Len(rest) : (f \o rest)[i - 1 + k] = rest[k]
  BY <1>1
<1>4. Kept(text, i, rest) = f \o rest
  BY DEF Kept, f
<1>. QED
  BY <1>a, <1>2, <1>3, <1>4, Zenon DEF KeptFacts

(* All of a text and no rest.                                                 *)
LEMMA KeptWhole ==
  ASSUME NEW T, NEW text \in Seq(T)
  PROVE  Kept(text, Len(text) + 1, <<>>) = text
<1>. DEFINE e == <<>>
            f == Kept(text, Len(text) + 1, e)
<1>1. e \in Seq(T) /\ Len(e) = 0 /\ Len(text) \in Nat
  OBVIOUS
<1>. HIDE DEF e
<1>2. f \in Seq(T) /\ Len(f) = Len(text) /\ \A k \in 1..Len(text) : f[k] = text[k]
  <2>1. Len(text) + 1 \in 1..(Len(text) + 1) /\ Len(text) + 1 - 1 = Len(text)
    BY <1>1
  <2>2. /\ f \in Seq(T) /\ Len(f) = Len(text) + 1 - 1 + Len(e)
        /\ \A k \in 1..(Len(text) + 1 - 1) : f[k] = text[k]
    <3>1. KeptFacts(f, T, text, Len(text) + 1, e)
      BY <1>1, <2>1, KeptTyped
    <3>. HIDE DEF f
    <3>. QED
      BY <3>1 DEF KeptFacts
  <2>. HIDE DEF f
  <2>. QED
    BY <1>1, <2>1, <2>2
<1>. HIDE DEF f
<1>3. f = text
  BY <1>2, SeqEqual
<1>. QED
  BY <1>3 DEF f, e

(* The last letter that is kept can be counted to the rest.                   *)
LEMMA KeptLetter ==
  ASSUME NEW T, NEW text \in Seq(T), NEW i \in 1..Len(text), NEW rest \in Seq(T)
  PROVE  Kept(text, i + 1, rest) = Kept(text, i, Cons(text[i], rest))
<1>. DEFINE long == Cons(text[i], rest)
            a == Kept(text, i + 1, rest)
            b == Kept(text, i, long)
<1>1. text[i] \in T /\ i \in 1..(Len(text) + 1) /\ i + 1 \in 1..(Len(text) + 1) /\ i + 1 - 1 = i
  OBVIOUS
<1>2. /\ long \in Seq(T) /\ Len(long) = Len(rest) + 1 /\ long[1] = text[i]
      /\ \A k \in 1..Len(rest) : long[k + 1] = rest[k]
  BY <1>1, FirstOfMore DEF Cons
<1>. HIDE DEF long
<1>3. /\ a \in Seq(T) /\ Len(a) = i + 1 - 1 + Len(rest) /\ \A k \in 1..(i + 1 - 1) : a[k] = text[k]
      /\ \A k \in 1..Len(rest) : a[i + 1 - 1 + k] = rest[k]
  <2>1. KeptFacts(a, T, text, i + 1, rest)
    BY <1>1, KeptTyped
  <2>. HIDE DEF a
  <2>. QED
    BY <2>1 DEF KeptFacts
<1>4. /\ b \in Seq(T) /\ Len(b) = i - 1 + Len(long) /\ \A k \in 1..(i - 1) : b[k] = text[k]
      /\ \A k \in 1..Len(long) : b[i - 1 + k] = long[k]
  <2>1. KeptFacts(b, T, text, i, long)
    BY <1>1, <1>2, KeptTyped
  <2>. HIDE DEF b
  <2>. QED
    BY <2>1 DEF KeptFacts
<1>. HIDE DEF a, b
<1>5. Len(rest) \in Nat
  OBVIOUS
<1>6. ASSUME NEW k \in 1..Len(a) PROVE a[k] = b[k]
  <2>1. CASE k < i
    BY <1>3, <1>4, <2>1
  <2>2. CASE k = i
    <3>1. 1 \in 1..Len(long) /\ i - 1 + 1 = i
      BY <1>2, <1>5
    <3>. QED
      BY <1>2, <1>3, <1>4, <2>2, <3>1
  <2>3. CASE k > i
    <3>. DEFINE m == k - i
    <3>1. m \in 1..Len(rest) /\ m + 1 \in 1..Len(long) /\ i + 1 - 1 + m = k /\ i - 1 + (m + 1) = k
      BY <1>2, <1>3, <1>5, <2>3
    <3>. HIDE DEF m
    <3>. QED
      <4>1. a[i + 1 - 1 + m] = rest[m] /\ b[i - 1 + (m + 1)] = long[m + 1] /\ long[m + 1] = rest[m]
        BY <1>2, <1>3, <1>4, <3>1, Zenon
      <4>. QED
        BY <3>1, <4>1
  <2>. QED
    BY <2>1, <2>2, <2>3
<1>7. Len(a) = Len(b)
  BY <1>2, <1>3, <1>4, <1>5
<1>8. a = b
  BY <1>3, <1>4, <1>6, <1>7, SeqEqual
<1>. QED
  BY <1>8 DEF a, b, long

(* Replacing the word at place i, when all before the end of the word is as   *)
(* it was: all before i stays.                                                *)
LEMMA ReplacedAtMatch ==
  ASSUME NEW T, NEW text \in Seq(T), NEW word \in Seq(T), NEW by \in Seq(T), NEW rest \in Seq(T),
         NEW i \in 1..Len(text), i + Len(word) \in 1..(Len(text) + 1)
  PROVE  ReplaceAt1(Kept(text, i + Len(word), rest), i, word, by) =
           Kept(text, i, Between(<<>>, by, rest))
<1>. DEFINE d == Kept(text, i + Len(word), rest)
            f == SubSeq(d, 1, i - 1)
            g == SubSeq(d, i + Len(word), Len(d))
            t == SubSeq(text, 1, i - 1)
<1>1. Len(word) \in Nat /\ Len(rest) \in Nat /\ Len(text) \in Nat
  OBVIOUS
<1>2. /\ d \in Seq(T) /\ Len(d) = i + Len(word) - 1 + Len(rest)
      /\ \A k \in 1..(i + Len(word) - 1) : d[k] = text[k]
      /\ \A k \in 1..Len(rest) : d[i + Len(word) - 1 + k] = rest[k]
  <2>1. KeptFacts(d, T, text, i + Len(word), rest)
    BY KeptTyped
  <2>. HIDE DEF d
  <2>. QED
    BY <2>1 DEF KeptFacts
<1>. HIDE DEF d
<1>3. f = t
  <2>1. f \in Seq(T) /\ Len(f) = i - 1 /\ \A k \in 1..(i - 1) : f[k] = d[k]
    BY <1>1, <1>2
  <2>2. t \in Seq(T) /\ Len(t) = i - 1 /\ \A k \in 1..(i - 1) : t[k] = text[k]
    OBVIOUS
  <2>. HIDE DEF f, t
  <2>3. ASSUME NEW k \in 1..(i - 1) PROVE f[k] = t[k]
    BY <1>1, <1>2, <2>1, <2>2
  <2>. QED
    BY <2>1, <2>2, <2>3, SeqEqual
<1>4. g = rest
  <2>1. /\ g \in Seq(T) /\ Len(g) = Len(rest)
        /\ \A k \in 1..Len(rest) : g[k] = d[i + Len(word) + k - 1]
    BY <1>1, <1>2
  <2>. HIDE DEF g
  <2>2. ASSUME NEW k \in 1..Len(rest) PROVE g[k] = rest[k]
    <3>1. i + Len(word) + k - 1 = i + Len(word) - 1 + k
      BY <1>1
    <3>. QED
      BY <1>2, <2>1, <3>1
  <2>. QED
    BY <2>1, <2>2, SeqEqual
<1>5. t \in Seq(T)
  OBVIOUS
<1>6. ReplaceAt1(d, i, word, by) = (t \o by) \o rest
  BY <1>3, <1>4, Zenon DEF ReplaceAt1
<1>7. Kept(text, i, Between(<<>>, by, rest)) = t \o (by \o rest)
  <2>1. <<>> \o by = by
    OBVIOUS
  <2>. QED
    BY <2>1, Zenon DEF Kept, Between
<1>. HIDE DEF t
<1>8. (t \o by) \o rest = t \o (by \o rest)
  <2>1. Cat(Cat(t, by), rest) = Cat(t, Cat(by, rest))
    BY <1>5, CatAssociative
  <2>. QED
    BY <2>1, Zenon DEF Cat
<1>. QED
  BY <1>6, <1>7, <1>8, Zenon DEF d

(* Replacing the matches one by one from the last to the first is what        *)
(* splitting and joining gives: by induction from the end of the text, that   *)
(* all before a place is kept and the rest is the pieces joined by the new    *)
(* word.                                                                      *)
LEMMA ReplacedAgree ==
  ASSUME NEW T, NEW text \in Seq(T), NEW word \in Seq(T), word # <<>>, NEW by \in Seq(T)
  PROVE  ReplacedBackwards(text, Offsets(text, word), word, by) = ReplaceAllIn(text, word, by)
<1>. DEFINE n == Len(text)
            L == Len(word)
            Same(at, pieces, i) ==
              ReplacedBackwards(text, at, word, by) = Kept(text, i, Join(pieces, by))
<1>1. n \in Nat /\ n + 1 \in 1..(n + 1) /\ 1 \in 1..(n + 1) /\ L \in Nat /\ L > 0
  OBVIOUS
<1>2. PICK o : Finds(o, text, word)
  BY OffsetsAre
<1>3. PICK p : Splits(p, T, text, word)
  BY SplitIs
<1>a. <<>> \in Seq(T)
  OBVIOUS
<1>. DEFINE S == {i \in 1..(n + 1) : Same(o[i], p[i], i)}
<1>4. n + 1 \in S
  <2>1. o[n + 1] = <<>> /\ p[n + 1] = << <<>> >>
    BY <1>2, <1>3, Zenon DEF Finds, Splits
  <2>2. Same(<<>>, << <<>> >>, n + 1)
    <3>1. Join(<< <<>> >>, by) = <<>>
      BY <1>a, JoinOne
    <3>2. Kept(text, n + 1, <<>>) = text
      BY KeptWhole
    <3>. QED
      BY <3>1, <3>2, BackwardsNone, Zenon
  <2>. HIDE DEF Same
  <2>. QED
    BY <1>1, <2>1, <2>2, Zenon
<1>5. ASSUME NEW i \in 1..n, \A j \in (i + 1)..(n + 1) : j \in S PROVE i \in S
  <2>1. i \in 1..(n + 1) /\ i + 1 \in (i + 1)..(n + 1) /\ i + 1 \in 1..(n + 1)
    BY <1>1
  <2>2. CASE MatchAt(text, word, i)
    <3>. DEFINE j == i + L
                r == o[j]
                q == p[j]
    <3>1. j \in (i + 1)..(n + 1) /\ j \in 1..(n + 1)
      BY <1>1, <2>2, MatchFits
    <3>2. o[i] = Cons(i, r) /\ p[i] = Cons(<<>>, q)
      BY <1>2, <1>3, <2>2, Zenon DEF Finds, Splits, Cons
    <3>3. r \in Seq(Nat) /\ q \in Seq(Seq(T)) \ {<<>>}
      BY <1>2, <1>3, <3>1 DEF Finds, Splits
    <3>4. Same(r, q, j)
      BY <1>5, <3>1, Zenon
    <3>. HIDE DEF r, q
    <3>. DEFINE rest == Join(q, by)
    <3>5. rest \in Seq(T)
      BY <3>3, JoinTyped
    <3>6. ReplacedBackwards(text, Cons(i, r), word, by) =
            ReplaceAt1(Kept(text, j, rest), i, word, by)
      <4>1. ReplacedBackwards(text, Cons(i, r), word, by) =
              ReplaceAt1(ReplacedBackwards(text, r, word, by), i, word, by)
        BY <3>3, BackwardsMore DEF Cons
      <4>. QED
        BY <4>1, <3>4, Zenon
    <3>7. Join(Cons(<<>>, q), by) = Between(<<>>, by, rest)
      <4>1. Joinable(T, <<>>, q, by)
        BY <1>a, <3>3 DEF Joinable
      <4>. QED
        BY <4>1, JoinMore
    <3>. HIDE DEF rest
    <3>8. ReplaceAt1(Kept(text, j, rest), i, word, by) = Kept(text, i, Between(<<>>, by, rest))
      BY <3>1, <3>5, ReplacedAtMatch
    <3>9. Same(Cons(i, r), Cons(<<>>, q), i)
      BY <3>6, <3>7, <3>8, Zenon
    <3>. HIDE DEF Same
    <3>. QED
      BY <2>1, <3>2, <3>9, Zenon
  <2>3. CASE ~MatchAt(text, word, i)
    <3>. DEFINE r == o[i + 1]
                q == p[i + 1]
                c == text[i]
    <3>1. o[i] = r /\ p[i] = Longer(c, q)
      <4>1. o[i] = r
        BY <1>2, <2>3, Zenon DEF Finds
      <4>2. p[i] = << <<c>> \o Head(q) >> \o Tail(q)
        BY <1>3, <2>3, Zenon DEF Splits
      <4>. HIDE DEF c, q
      <4>. QED
        BY <4>1, <4>2, Zenon DEF Longer
    <3>2. q \in Seq(Seq(T)) \ {<<>>}
      BY <1>3, <2>1, Zenon DEF Splits
    <3>3. c \in T
      OBVIOUS
    <3>4. Same(r, q, i + 1)
      BY <1>5, <2>1, Zenon
    <3>. HIDE DEF r, q
    <3>. DEFINE rest == Join(q, by)
    <3>5. rest \in Seq(T)
      BY <3>2, JoinTyped
    <3>6. Join(Longer(c, q), by) = Cons(c, rest)
      <4>. HIDE DEF c
      <4>1. Join(<< <<c>> \o Head(q) >> \o Tail(q), by) = <<c>> \o rest
        BY <3>2, <3>3, JoinLonger
      <4>. QED
        BY <4>1, Zenon DEF Longer, Cons
    <3>. HIDE DEF rest
    <3>7. Kept(text, i + 1, rest) = Kept(text, i, Cons(c, rest))
      BY <3>5, KeptLetter
    <3>8. Same(r, Longer(c, q), i)
      <4>. HIDE DEF c
      <4>. QED
        BY <3>4, <3>6, <3>7, Zenon DEF rest
    <3>. HIDE DEF Same
    <3>. QED
      BY <2>1, <3>1, <3>8, Zenon
  <2>. QED
    BY <2>2, <2>3
<1>6. \A i \in 1..(n + 1) : i \in S
  <2>. HIDE DEF S, n
  <2>. QED
    BY <1>1, <1>4, <1>5, InductionFromEnd
<1>7. Same(o[1], p[1], 1)
  BY <1>1, <1>6, Zenon
<1>8. Offsets(text, word) = o[1] /\ Split(text, word) = p[1]
  BY <1>2, <1>3, Zenon DEF Finds, Splits
<1>9. Kept(text, 1, Join(p[1], by)) = Join(p[1], by)
  <2>1. p[1] \in Seq(Seq(T)) \ {<<>>}
    BY <1>1, <1>3, Zenon DEF Splits
  <2>2. Join(p[1], by) \in Seq(T)
    BY <2>1, JoinTyped
  <2>. DEFINE rest == Join(p[1], by)
              none == SubSeq(text, 1, 1 - 1)
  <2>3. none = <<>>
    OBVIOUS
  <2>. HIDE DEF rest, none
  <2>4. none \o rest = rest
    BY <2>2, <2>3 DEF rest
  <2>. QED
    BY <2>4, Zenon DEF Kept, rest, none
<1>. QED
  BY <1>7, <1>8, <1>9, Zenon DEF ReplaceAllIn

----------------------------------------------------------------------------
(* Types.  The variables keep their types in every step.                      *)

(* Flattened sequences are a sequence (by a recursion from the end:           *)
(* FlattenSeq takes the last sequence first).                                 *)
LEMMA FlattenTyped ==
  ASSUME NEW X, NEW seqs \in Seq(Seq(X))
  PROVE  FlattenSeq(seqs) \in Seq(X)
<1>. DEFINE n == Len(seqs) - 1
            Body(g) == [i \in 1..Len(seqs) |-> IF i = 1 THEN seqs[i] ELSE g[i - 1] \o seqs[i]]
            h == CHOOSE g : g = Body(g)
            nxt == [m \in 1..n |-> m + 1]
            step == [m \in 1..n |-> [v \in Seq(X) |-> v \o seqs[n + 2 - m]]]
<1>1. CASE Len(seqs) = 0
  <2>1. seqs = <<>>
    BY <1>1
  <2>. QED
    BY <1>1, <2>1 DEF FlattenSeq
<1>2. CASE Len(seqs) # 0
  <2>1. n \in Nat /\ Len(seqs) = n + 1 /\ \A i \in 1..(n + 1) : seqs[i] \in Seq(X)
    BY <1>2
  <2>. HIDE DEF n
  <2>2. Recursion(n, Seq(X), seqs[1], step, nxt)
    <3>1. nxt \in [1..n -> Nat] /\ \A m \in 1..n : nxt[m] \in (m + 1)..(n + 1)
      BY <2>1
    <3>2. ASSUME NEW m \in 1..n, NEW v \in Seq(X) PROVE v \o seqs[n + 2 - m] \in Seq(X)
      <4>1. n + 2 - m \in 1..(n + 1)
        BY <2>1
      <4>2. seqs[n + 2 - m] \in Seq(X)
        BY <2>1, <4>1
      <4>. QED
        BY <4>2
    <3>3. step \in [1..n -> [Seq(X) -> Seq(X)]]
      BY <3>2
    <3>4. seqs[1] \in Seq(X)
      BY <2>1
    <3>. HIDE DEF nxt, step
    <3>. QED
      BY <2>1, <3>1, <3>3, <3>4 DEF Recursion
  <2>3. PICK g : Solves(g, n, Seq(X), seqs[1], step, nxt)
    <3>. HIDE DEF nxt, step
    <3>. QED
      BY <2>2, RecursionFromEnd
  <2>. DEFINE f == [i \in 1..(n + 1) |-> g[n + 2 - i]]
  <2>4. ASSUME NEW i \in 1..(n + 1) PROVE f[i] = IF i = 1 THEN seqs[i] ELSE f[i - 1] \o seqs[i]
    <3>1. CASE i = 1
      <4>1. n + 2 - i = n + 1
        BY <2>1, <3>1
      <4>. QED
        BY <2>3, <3>1, <4>1 DEF Solves
    <3>2. CASE i # 1
      <4>. DEFINE m == n + 2 - i
      <4>1. /\ m \in 1..n /\ m + 1 \in 1..(n + 1) /\ i - 1 \in 1..(n + 1)
            /\ n + 2 - (i - 1) = m + 1 /\ n + 2 - m = i
        BY <2>1, <3>2
      <4>. HIDE DEF m
      <4>2. g[m] = step[m][g[m + 1]] /\ g[m + 1] \in Seq(X)
        <5>1. nxt[m] = m + 1
          BY <4>1
        <5>. HIDE DEF nxt, step
        <5>. QED
          BY <2>3, <4>1, <5>1 DEF Solves
      <4>3. g[m] = g[m + 1] \o seqs[n + 2 - m]
        BY <4>1, <4>2
      <4>4. f[i] = g[m] /\ f[i - 1] = g[m + 1]
        BY <4>1, Zenon DEF m
      <4>. HIDE DEF f
      <4>. QED
        BY <3>2, <4>1, <4>3, <4>4, Zenon
    <3>. QED
      BY <3>1, <3>2
  <2>5. f = Body(f)
    <3>1. f = [i \in 1..Len(seqs) |-> f[i]]
      BY <2>1, Zenon
    <3>. HIDE DEF f
    <3>2. ASSUME NEW i \in 1..Len(seqs) PROVE f[i] = Body(f)[i]
      <4>1. i \in 1..(n + 1)
        BY <2>1
      <4>. QED
        BY <2>4, <4>1, Zenon
    <3>. QED
      BY <3>1, <3>2, Zenon
  <2>6. h = Body(h)
    <3>. HIDE DEF Body
    <3>. QED
      BY <2>5, Zenon
  <2>7. \A i \in 1..(n + 1) : h[i] = IF i = 1 THEN seqs[i] ELSE h[i - 1] \o seqs[i]
    <3>1. \A i \in 1..Len(seqs) : h[i] = Body(h)[i]
      BY <2>6, Zenon
    <3>. HIDE DEF h
    <3>. QED
      BY <2>1, <3>1, Zenon
  <2>8. FlattenSeq(seqs) = h[Len(seqs)]
    BY <1>2 DEF FlattenSeq
  <2>. HIDE DEF h
  <2>. DEFINE S == {m \in 1..(n + 1) : h[n + 2 - m] \in Seq(X)}
  <2>9. n + 1 \in S
    <3>1. n + 2 - (n + 1) = 1 /\ 1 \in 1..(n + 1) /\ n + 1 \in 1..(n + 1)
      BY <2>1
    <3>2. h[1] \in Seq(X)
      BY <2>1, <2>7, <3>1
    <3>. QED
      BY <3>1, <3>2
  <2>10. ASSUME NEW m \in 1..n, \A j \in (m + 1)..(n + 1) : j \in S PROVE m \in S
    <3>. DEFINE i == n + 2 - m
    <3>1. /\ m + 1 \in (m + 1)..(n + 1) /\ m \in 1..(n + 1) /\ i \in 1..(n + 1) /\ i # 1
          /\ n + 2 - (m + 1) = i - 1
      BY <2>1
    <3>2. h[n + 2 - (m + 1)] \in Seq(X)
      BY <2>10, <3>1, Zenon
    <3>3. h[i] = h[i - 1] \o seqs[i] /\ seqs[i] \in Seq(X)
      <4>. HIDE DEF i
      <4>. QED
        BY <2>1, <2>7, <3>1, Zenon
    <3>4. h[i - 1] \in Seq(X)
      BY <3>1, <3>2
    <3>5. h[i] \in Seq(X)
      <4>. HIDE DEF i
      <4>. QED
        BY <3>3, <3>4
    <3>. QED
      BY <3>1, <3>5
  <2>11. \A m \in 1..(n + 1) : m \in S
    <3>. HIDE DEF S
    <3>. QED
      BY <2>1, <2>9, <2>10, InductionFromEnd
  <2>12. 1 \in 1..(n + 1) /\ n + 2 - 1 = Len(seqs)
    BY <2>1
  <2>. QED
    BY <2>8, <2>11, <2>12
<1>. QED
  BY <1>1, <1>2

(* The places of the texts of a transcript.                                   *)
Places(texts) ==
  {p \in [segment : 1..Len(texts), offset : Nat] : p.offset \in 1..Len(texts[p.segment])}

(* Occurrences are such places.                                               *)
LEMMA OccurrencesTyped ==
  ASSUME NEW T, NEW texts \in Seq(Seq(T)), NEW word \in Seq(T)
  PROVE  Occurrences(texts, word) \in Seq(Places(texts))
<1>. DEFINE n == Len(texts)
            at(s) == Offsets(texts[s], word)
            found(s) == [k \in 1..Len(at(s)) |-> [segment |-> s, offset |-> at(s)[k]]]
            seqs == [s \in 1..n |-> found(s)]
<1>1. n \in Nat
  OBVIOUS
<1>2. ASSUME NEW s \in 1..n PROVE found(s) \in Seq(Places(texts))
  <2>1. texts[s] \in Seq(T)
    OBVIOUS
  <2>2. at(s) \in Seq(1..Len(texts[s]))
    BY <2>1, OffsetsTyped
  <2>. DEFINE a == at(s)
  <2>. HIDE DEF a
  <2>3. ASSUME NEW k \in 1..Len(a) PROVE [segment |-> s, offset |-> a[k]] \in Places(texts)
    <3>1. a[k] \in 1..Len(texts[s]) /\ a[k] \in Nat
      BY <2>1, <2>2 DEF a
    <3>. QED
      BY <3>1 DEF Places
  <2>4. Len(a) \in Nat
    BY <2>2 DEF a
  <2>5. [k \in 1..Len(a) |-> [segment |-> s, offset |-> a[k]]] \in Seq(Places(texts))
    BY <2>3, <2>4
  <2>. QED
    BY <2>5 DEF a
<1>3. seqs \in Seq(Seq(Places(texts)))
  <2>. HIDE DEF found, n
  <2>. QED
    BY <1>1, <1>2
<1>4. Occurrences(texts, word) = FlattenSeq(seqs)
  BY DEF Occurrences
<1>. HIDE DEF seqs
<1>. QED
  BY <1>3, <1>4, FlattenTyped

(* An empty search finds nothing.                                             *)
LEMMA NothingToFind ==
  ASSUME NEW T, NEW texts \in Seq(Seq(T))
  PROVE  Occurrences(texts, <<>>) = <<>>
<1>. DEFINE n == Len(texts)
            at(s) == Offsets(texts[s], <<>>)
            found(s) == [k \in 1..Len(at(s)) |-> [segment |-> s, offset |-> at(s)[k]]]
            seqs == [s \in 1..n |-> found(s)]
<1>1. n \in Nat
  OBVIOUS
<1>2. ASSUME NEW s \in 1..n PROVE found(s) \in Seq({})
  <2>1. at(s) = <<>>
    BY DEF Offsets
  <2>. DEFINE a == at(s)
  <2>. HIDE DEF a
  <2>2. 1..Len(a) = {}
    BY <2>1 DEF a
  <2>4. Len(a) \in Nat /\ \A k \in 1..Len(a) : [segment |-> s, offset |-> a[k]] \in {}
    BY <2>1, <2>2 DEF a
  <2>3. [k \in 1..Len(a) |-> [segment |-> s, offset |-> a[k]]] \in Seq({})
    BY <2>4
  <2>. QED
    BY <2>3 DEF a
<1>3. seqs \in Seq(Seq({}))
  <2>. HIDE DEF found, n
  <2>. QED
    BY <1>1, <1>2
<1>4. Occurrences(texts, <<>>) = FlattenSeq(seqs)
  BY DEF Occurrences
<1>. HIDE DEF seqs
<1>5. FlattenSeq(seqs) \in Seq({})
  BY <1>3, FlattenTyped
<1>. QED
  BY <1>4, <1>5

(* Replacing gives texts.                                                     *)
LEMMA ReplacedTyped ==
  ASSUME NEW T, NEW text \in Seq(T), NEW word \in Seq(T), NEW by \in Seq(T)
  PROVE  /\ word # <<>> => ReplaceAllIn(text, word, by) \in Seq(T)
         /\ \A o \in 1..Len(text) : ReplaceAt1(text, o, word, by) \in Seq(T)
<1>1. ASSUME word # <<>> PROVE ReplaceAllIn(text, word, by) \in Seq(T)
  <2>1. PICK f : Splits(f, T, text, word)
    BY <1>1, SplitIs
  <2>2. 1 \in 1..(Len(text) + 1)
    OBVIOUS
  <2>3. Split(text, word) \in Seq(Seq(T)) /\ Split(text, word) # <<>>
    BY <2>1, <2>2 DEF Splits
  <2>. QED
    BY <2>3, JoinTyped DEF ReplaceAllIn
<1>2. ASSUME NEW o \in 1..Len(text) PROVE ReplaceAt1(text, o, word, by) \in Seq(T)
  <2>. DEFINE a == SubSeq(text, 1, o - 1)
              b == SubSeq(text, o + Len(word), Len(text))
  <2>1. a \in Seq(T)
    OBVIOUS
  <2>2. b \in Seq(T)
    OBVIOUS
  <2>. HIDE DEF a, b
  <2>3. a \o by \o b \in Seq(T)
    BY <2>1, <2>2
  <2>. QED
    BY <2>3 DEF a, b, ReplaceAt1
<1>. QED
  BY <1>1, <1>2

(* The inductive invariant, by what changes together: the server's            *)
(* transcript, what the user entered, what the page was given, what it saves. *)
Transcripts == Seq(Seq(STRING))

Transcribed == transcript \in Transcripts /\ occupied \in BOOLEAN /\ others \in 0..MaxOthers
Drafted == DOMAIN draftEdits \subseteq Nat /\ \A s \in DOMAIN draftEdits : draftEdits[s] \in Typed
Entered ==
  /\ Drafted /\ tab \in {"transcript", "edit", "replace"}
  /\ search \in Searches \cup {<<>>} /\ target \in Targets \cup {<<>>} /\ cursor \in Nat
Fetched ==
  /\ cached \in Transcripts
  /\ refresh \in [step : {"none", "asked", "answered"}, answer : Transcripts]
Saved ==
  /\ saving \in [by : {"none", "edit", "all", "current"}, payload : Transcripts]
  /\ saves \in 0..MaxSaves

EditorTyped == Transcribed /\ Entered /\ Fetched /\ Saved

(* The page shows a transcript, and what it found is in it.                   *)
LEMMA ShownTexts ==
  ASSUME EditorTyped
  PROVE  /\ search \in Seq(STRING) /\ target \in Seq(STRING)
         /\ Displayed \in Transcripts /\ Len(Displayed) = Len(cached)
         /\ Matches \in Seq(Places(Displayed)) /\ (Matches # <<>> => search # <<>>)
<1>1. search \in Seq(STRING) /\ target \in Seq(STRING)
  <2>1. <<>> \in Seq(STRING)
    OBVIOUS
  <2>2. search \in Searches \cup {<<>>} /\ target \in Targets \cup {<<>>}
    BY DEF EditorTyped, Transcribed, Entered, Drafted, Fetched, Saved
  <2>3. Searches \subseteq Seq(STRING) /\ Targets \subseteq Seq(STRING)
    BY EditorAssumption DEF EditorAssumption
  <2>. QED
    BY <2>1, <2>2, <2>3, Zenon
<1>2. ASSUME NEW s \in 1..Len(cached)
      PROVE  (IF s \in DOMAIN draftEdits THEN draftEdits[s] ELSE cached[s]) \in Seq(STRING)
  <2>1. s \in DOMAIN draftEdits => draftEdits[s] \in Seq(STRING)
    BY EditorAssumption DEF EditorAssumption, EditorTyped, Entered, Drafted
  <2>2. cached[s] \in Seq(STRING)
    BY DEF EditorTyped, Transcribed, Entered, Drafted, Fetched, Saved, Transcripts
  <2>. QED
    BY <2>1, <2>2
<1>3. Displayed \in Transcripts /\ Len(Displayed) = Len(cached)
  <2>1. Len(cached) \in Nat
    BY DEF EditorTyped, Transcribed, Entered, Drafted, Fetched, Saved, Transcripts
  <2>. QED
    BY <1>2, <2>1 DEF Displayed, Transcripts
<1>4. Matches \in Seq(Places(Displayed))
  BY <1>1, <1>3, OccurrencesTyped DEF Matches, Transcripts
<1>5. Matches # <<>> => search # <<>>
  BY <1>3, NothingToFind DEF Matches, Transcripts
<1>. QED
  BY <1>1, <1>3, <1>4, <1>5

(* It holds in the initial states.                                            *)
LEMMA EditorTypedAtStart == EditorInit => EditorTyped
<1>. SUFFICES ASSUME EditorInit PROVE EditorTyped
  OBVIOUS
<1>. USE DEF EditorInit, Resting, NoSave, Nothing, Transcripts
<1>1. transcript \in Transcripts /\ cached \in Transcripts
  BY EditorAssumption DEF EditorAssumption
<1>2. occupied \in BOOLEAN
  BY Zenon
<1>a. others \in 0..MaxOthers /\ saves \in 0..MaxSaves
  BY EditorAssumption DEF EditorAssumption
<1>3. <<>> \in Transcripts
  OBVIOUS
<1>4. /\ refresh \in [step : {"none", "asked", "answered"}, answer : Transcripts]
      /\ saving \in [by : {"none", "edit", "all", "current"}, payload : Transcripts]
  BY <1>3
<1>5. DOMAIN draftEdits \subseteq Nat /\ \A s \in DOMAIN draftEdits : draftEdits[s] \in Typed
  <2>1. DOMAIN draftEdits = {}
    OBVIOUS
  <2>. QED
    BY <2>1
<1>. QED
  BY <1>1, <1>2, <1>a, <1>4, <1>5 DEF EditorTyped, Transcribed, Entered, Drafted, Fetched, Saved

(* One lemma for the actions that read the transcript,                        *)
LEMMA TypedWhenAsking ==
  ASSUME EditorTyped, PollTranscript \/ AnswerTranscript \/ TranscriptArrives
  PROVE  EditorTyped'
<1>. USE DEF EditorTyped
<1>1. <<>> \in Transcripts
  BY DEF Transcripts
<1>2. Transcribed' /\ Entered' /\ Saved
  BY DEF PollTranscript, AnswerTranscript, TranscriptArrives, Transcribed, Entered, Drafted,
         inputVars, serverVars
<1>3. Fetched' /\ Saved'
  BY <1>1, <1>2 DEF PollTranscript, AnswerTranscript, TranscriptArrives, Fetched, Saved,
         Transcribed, Sought, Resting, Nothing
<1>. QED
  BY <1>2, <1>3 DEF EditorTyped

(* that type a draft,                                                         *)
LEMMA TypedWhenTyping ==
  ASSUME EditorTyped, NEW s \in 1..Len(cached), NEW w \in Typed, TypeSegment(s, w)
  PROVE  EditorTyped'
<1>. USE DEF EditorTyped
<1>1. Transcribed' /\ Fetched' /\ Saved'
  BY DEF TypeSegment, Transcribed, Fetched, Saved, serverVars
<1>2. Drafted'
  <2>1. s \in Nat /\ Drafted
    BY DEF Entered
  <2>2. CASE w = cached[s]
    <3>1. draftEdits' = [d \in DOMAIN draftEdits \ {s} |-> draftEdits[d]]
      BY <2>2 DEF TypeSegment
    <3>. QED
      BY <2>1, <3>1 DEF Drafted
  <2>3. CASE w # cached[s]
    <3>1. draftEdits' = [d \in DOMAIN draftEdits \cup {s} |->
                           IF d = s THEN w ELSE draftEdits[d]]
      BY <2>3 DEF TypeSegment
    <3>. QED
      BY <2>1, <3>1 DEF Drafted
  <2>. QED
    BY <2>2, <2>3
<1>3. Entered'
  BY <1>2 DEF TypeSegment, Entered
<1>. QED
  BY <1>1, <1>3 DEF EditorTyped

(* that enter anything else,                                                  *)
LEMMA TypedWhenEntering ==
  ASSUME EditorTyped,
         \/ \E view \in {"transcript", "edit", "replace"} : SwitchTab(view)
         \/ DiscardDraftEdits \/ SwitchTask
         \/ \E w \in Searches : EnterSearch(w)
         \/ \E w \in Targets : EnterTarget(w)
         \/ GoToNextMatch
  PROVE  EditorTyped'
<1>. USE DEF EditorTyped
<1>1. Transcribed' /\ Fetched' /\ Saved'
  BY DEF SwitchTab, DiscardDraftEdits, SwitchTask, EnterSearch, EnterTarget, GoToNextMatch,
         Transcribed, Fetched, Saved, serverVars
<1>2. Drafted'
  <2>1. DOMAIN <<>> = {}
    OBVIOUS
  <2>2. draftEdits' = <<>> \/ draftEdits' = draftEdits
    BY DEF SwitchTab, DiscardDraftEdits, SwitchTask, EnterSearch, EnterTarget, GoToNextMatch
  <2>3. CASE draftEdits' = <<>>
    BY <2>1, <2>3 DEF Drafted
  <2>4. CASE draftEdits' = draftEdits
    BY <2>4 DEF Drafted, Entered
  <2>. QED
    BY <2>2, <2>3, <2>4
<1>3. cursor' \in Nat
  <2>1. ASSUME GoToNextMatch PROVE cursor' \in Nat
    <3>1. Len(Matches) \in Nat \ {0}
      BY <2>1, ShownTexts DEF GoToNextMatch
    <3>2. cursor' = (cursor + 1) % Len(Matches) /\ cursor \in Nat
      BY <2>1 DEF GoToNextMatch, Entered
    <3>. HIDE DEF Matches
    <3>. QED
      BY <3>1, <3>2
  <2>. QED
    BY <2>1 DEF SwitchTab, DiscardDraftEdits, SwitchTask, EnterSearch, EnterTarget, Entered
<1>4. /\ tab' \in {"transcript", "edit", "replace"}
      /\ search' \in Searches \cup {<<>>} /\ target' \in Targets \cup {<<>>}
  BY DEF SwitchTab, DiscardDraftEdits, SwitchTask, EnterSearch, EnterTarget, GoToNextMatch, Entered
<1>5. Entered'
  BY <1>2, <1>3, <1>4 DEF Entered
<1>. QED
  BY <1>1, <1>5 DEF EditorTyped

(* that send a transcript,                                                    *)
LEMMA TypedWhenSending ==
  ASSUME EditorTyped, NEW kind \in {"edit", "all", "current"}, NEW texts \in Transcripts,
         Send(kind, texts)
  PROVE  EditorTyped'
<1>. USE DEF EditorTyped
<1>1. Transcribed' /\ Fetched' /\ Entered'
  BY DEF Send, Transcribed, Fetched, Entered, Drafted, inputVars, serverVars
<1>2. Saved'
  <2>1. saves' \in 0..MaxSaves
    BY EditorAssumption DEF EditorAssumption, Send, MaySave, Saved
  <2>2. saving' \in [by : {"none", "edit", "all", "current"}, payload : Transcripts]
    BY DEF Send
  <2>. QED
    BY <2>1, <2>2 DEF Saved
<1>. QED
  BY <1>1, <1>2 DEF EditorTyped

(* of which both replacements make one,                                       *)
LEMMA PayloadsTyped ==
  ASSUME EditorTyped, CanReplace
  PROVE  /\ [s \in 1..Len(Displayed) |-> ReplaceAllIn(Displayed[s], search, target)] \in Transcripts
         /\ LET m == Matches[Current]
            IN [Displayed EXCEPT ![m.segment] = ReplaceAt1(@, m.offset, search, target)]
                 \in Transcripts
<1>1. /\ search \in Seq(STRING) /\ search # <<>> /\ target \in Seq(STRING)
      /\ Displayed \in Seq(Seq(STRING)) /\ Matches \in Seq(Places(Displayed)) /\ Matches # <<>>
      /\ cursor \in Nat
  BY ShownTexts DEF CanReplace, Transcripts, EditorTyped, Entered
<1>2. [s \in 1..Len(Displayed) |-> ReplaceAllIn(Displayed[s], search, target)] \in Transcripts
  <2>1. ASSUME NEW s \in 1..Len(Displayed)
        PROVE  ReplaceAllIn(Displayed[s], search, target) \in Seq(STRING)
    <3>1. Displayed[s] \in Seq(STRING)
      BY <1>1
    <3>. QED
      BY <1>1, <3>1, ReplacedTyped
  <2>2. Len(Displayed) \in Nat
    BY <1>1
  <2>. QED
    BY <2>1, <2>2 DEF Transcripts
<1>3. LET m == Matches[Current]
      IN [Displayed EXCEPT ![m.segment] = ReplaceAt1(@, m.offset, search, target)] \in Transcripts
  <2>1. Len(Matches) \in Nat \ {0}
    BY <1>1
  <2>2. Current \in 1..Len(Matches)
    <3>1. Current = (cursor % Len(Matches)) + 1
      BY <1>1 DEF Current
    <3>2. cursor % Len(Matches) \in 0..(Len(Matches) - 1)
      BY <1>1, <2>1
    <3>. QED
      BY <2>1, <3>1, <3>2
  <2>. DEFINE m == Matches[Current]
  <2>3. m \in Places(Displayed)
    BY <1>1, <2>2
  <2>. HIDE DEF m
  <2>4. m.segment \in 1..Len(Displayed) /\ m.offset \in 1..Len(Displayed[m.segment])
    BY <2>3 DEF Places
  <2>5. Displayed[m.segment] \in Seq(STRING)
    BY <1>1, <2>4
  <2>6. ReplaceAt1(Displayed[m.segment], m.offset, search, target) \in Seq(STRING)
    BY <1>1, <2>4, <2>5, ReplacedTyped
  <2>7. [Displayed EXCEPT ![m.segment] = ReplaceAt1(@, m.offset, search, target)] \in Transcripts
    BY <1>1, <2>4, <2>6 DEF Transcripts
  <2>. QED
    BY <2>7 DEF m
<1>. QED
  BY <1>2, <1>3

(* that save,                                                                 *)
LEMMA TypedWhenSaving ==
  ASSUME EditorTyped,
         SaveDraftEdits \/ ApplyBatchReplace \/ ApplyCurrentReplace \/ SaveLands \/ SaveFails
  PROVE  EditorTyped'
<1>1. CASE SaveDraftEdits
  BY <1>1, ShownTexts, TypedWhenSending DEF SaveDraftEdits
<1>2. CASE ApplyBatchReplace
  BY <1>2, PayloadsTyped, TypedWhenSending DEF ApplyBatchReplace
<1>3. CASE ApplyCurrentReplace
  BY <1>3, PayloadsTyped, TypedWhenSending DEF ApplyCurrentReplace
<1>a. <<>> \in Transcripts /\ DOMAIN <<>> = {}
  BY DEF Transcripts
<1>4. CASE SaveLands
  <2>1. Transcribed' /\ Saved'
    BY <1>4, <1>a DEF EditorTyped, SaveLands, Transcribed, Saved, NoSave, Nothing
  <2>2. Fetched'
    BY <1>4, <1>a DEF EditorTyped, SaveLands, Fetched, Sought, Nothing
  <2>3. Entered'
    BY <1>4, <1>a DEF EditorTyped, SaveLands, Entered, Drafted
  <2>. QED
    BY <2>1, <2>2, <2>3 DEF EditorTyped
<1>5. CASE SaveFails
  <2>1. Transcribed' /\ Fetched' /\ Entered'
    BY <1>5 DEF EditorTyped, SaveFails, Transcribed, Fetched, Entered, Drafted, inputVars,
                serverVars
  <2>2. Saved'
    BY <1>5, <1>a DEF EditorTyped, SaveFails, Saved, NoSave, Nothing
  <2>. QED
    BY <2>1, <2>2 DEF EditorTyped
<1>. QED
  BY <1>1, <1>2, <1>3, <1>4, <1>5

(* and for those of the other writers.                                        *)
LEMMA TypedWhenOthersWrite ==
  ASSUME EditorTyped, OthersWrite
  PROVE  EditorTyped'
<1>. USE DEF EditorTyped
<1>1. Fetched' /\ Saved' /\ Entered'
  BY DEF OthersWrite, Fetched, Saved, Entered, Drafted, inputVars
<1>2. occupied' \in BOOLEAN
  BY DEF OthersWrite, Transcribed
<1>3. others' \in 0..MaxOthers
  BY EditorAssumption DEF EditorAssumption, OthersWrite, Transcribed
<1>4. transcript' \in Transcripts
  <2>1. CASE UNCHANGED transcript
    BY <2>1 DEF Transcribed
  <2>2. CASE transcript' \in Originals
    BY <2>2, EditorAssumption DEF EditorAssumption, Transcripts
  <2>3. ASSUME NEW s \in 1..Len(transcript), NEW w \in Typed,
               transcript' = [transcript EXCEPT ![s] = w]
        PROVE  transcript' \in Transcripts
    BY <2>3, EditorAssumption DEF EditorAssumption, Transcripts, Transcribed
  <2>4. ASSUME NEW w \in Typed, transcript' = Append(transcript, w)
        PROVE  transcript' \in Transcripts
    BY <2>4, EditorAssumption DEF EditorAssumption, Transcripts, Transcribed
  <2>5. CASE Len(transcript) > 1 /\ transcript' = Front(transcript)
    BY <2>5 DEF Front, Transcripts, Transcribed
  <2>. QED
    BY <2>1, <2>2, <2>3, <2>4, <2>5 DEF OthersWrite
<1>. QED
  BY <1>1, <1>2, <1>3, <1>4 DEF Transcribed, EditorTyped

(* Every step keeps it.                                                       *)
LEMMA EditorTypedKept ==
  ASSUME EditorTyped, [EditorNext]_editorVars
  PROVE  EditorTyped'
<1>1. CASE UNCHANGED editorVars
  BY <1>1
     DEF editorVars, EditorTyped, Transcribed, Entered, Drafted, Fetched, Saved
<1>2. CASE PollTranscript \/ AnswerTranscript \/ TranscriptArrives
  BY <1>2, TypedWhenAsking
<1>3. CASE \E s \in 1..Len(cached), w \in Typed : TypeSegment(s, w)
  BY <1>3, TypedWhenTyping
<1>4. CASE \/ \E view \in {"transcript", "edit", "replace"} : SwitchTab(view)
           \/ DiscardDraftEdits \/ SwitchTask
           \/ \E w \in Searches : EnterSearch(w)
           \/ \E w \in Targets : EnterTarget(w)
           \/ GoToNextMatch
  BY <1>4, TypedWhenEntering, Zenon
<1>5. CASE SaveDraftEdits \/ ApplyBatchReplace \/ ApplyCurrentReplace \/ SaveLands \/ SaveFails
  BY <1>5, TypedWhenSaving
<1>6. CASE OthersWrite
  BY <1>6, TypedWhenOthersWrite
<1>. QED
  BY <1>1, <1>2, <1>3, <1>4, <1>5, <1>6, Zenon DEF EditorNext

(* So it holds always.                                                        *)
LEMMA EditorIsTyped == EditorSpec => []EditorTyped
BY EditorTypedAtStart, EditorTypedKept, PTL DEF EditorSpec

(* Every variable of the editor has its type: whatever is typed, searched and *)
(* replaced, the page and the server hold transcripts of texts, and the       *)
(* request, the save and the counters are in their ranges.                    *)
THEOREM EditorTypeOKHolds == EditorSpec => []EditorTypeOK
<1>1. EditorTyped => EditorTypeOK
  <2>. SUFFICES ASSUME EditorTyped PROVE EditorTypeOK
    OBVIOUS
  <2>1. \A texts \in {transcript, cached, saving.payload, refresh.answer} :
          texts \in Seq(Seq(STRING))
    BY DEF EditorTyped, Transcribed, Entered, Drafted, Fetched, Saved,
           Transcripts
  <2>2. /\ refresh.step \in {"none", "asked", "answered"}
        /\ saving.by \in {"none", "edit", "all", "current"}
    BY DEF EditorTyped, Transcribed, Entered, Drafted, Fetched, Saved
  <2>. QED
    BY <2>1, <2>2, Zenon
       DEF EditorTyped, Transcribed, Entered, Drafted, Fetched, Saved,
           EditorTypeOK
<1>. QED
  BY <1>1, EditorIsTyped, PTL

----------------------------------------------------------------------------
(* What the preview marks is what is replaced.                                *)

(* The marks and the matches of one segment.                                  *)
MarksIn(text, word, s) ==
  [k \in 1..(Len(Split(text, word)) - 1) |->
     [segment |-> s, offset |-> Len(Join(SubSeq(Split(text, word), 1, k), word)) + 1]]
MatchesIn(text, word, s) ==
  [k \in 1..Len(Offsets(text, word)) |-> [segment |-> s, offset |-> Offsets(text, word)[k]]]

(* They are the same.                                                         *)
LEMMA MarksOfText ==
  ASSUME NEW T, NEW text \in Seq(T), NEW word \in Seq(T), word # <<>>, NEW s
  PROVE  MarksIn(text, word, s) = MatchesIn(text, word, s)
<1>. DEFINE at == Offsets(text, word)
            pieces == Split(text, word)
<1>1. AgreeFrom(at, pieces, 1, word)
  BY MarksAgree
<1>2. at \in Seq(1..Len(text)) /\ Len(at) \in Nat
  BY OffsetsTyped
<1>3. PICK f : Splits(f, T, text, word)
  BY SplitIs
<1>4. pieces \in Seq(Seq(T))
  <2>1. 1 \in 1..(Len(text) + 1)
    OBVIOUS
  <2>. QED
    BY <1>3, <2>1 DEF Splits
<1>. HIDE DEF at, pieces
<1>5. Len(pieces) - 1 = Len(at)
  BY <1>1, <1>2 DEF AgreeFrom
<1>6. ASSUME NEW k \in 1..Len(at) PROVE Len(Join(SubSeq(pieces, 1, k), word)) + 1 = at[k]
  <2>1. k \in 1..Len(pieces) /\ at[k] = 1 + ShownBefore(pieces, k, word)
    BY <1>1, <1>2 DEF AgreeFrom
  <2>2. ShownBefore(pieces, k, word) \in Nat
    BY <1>4, <2>1, ShownTyped
  <2>3. ShownBefore(pieces, k, word) + 1 = at[k]
    BY <2>1, <2>2
  <2>. QED
    BY <2>3 DEF ShownBefore
<1>7. [k \in 1..(Len(pieces) - 1) |->
         [segment |-> s, offset |-> Len(Join(SubSeq(pieces, 1, k), word)) + 1]] =
      [k \in 1..Len(at) |-> [segment |-> s, offset |-> at[k]]]
  BY <1>5, <1>6, Zenon
<1>. QED
  BY <1>7 DEF at, pieces, MarksIn, MatchesIn

(* What the preview marks is what is replaced: the places that                *)
(* replacePreviewParts marks by splitting are those that replaceOccurrences   *)
(* finds by searching, in the same order, and replacing all of them (split    *)
(* and join) is replacing each; whatever the texts, the drafts and the words  *)
(* are.                                                                       *)
THEOREM MarkedIsReplacedHolds == EditorSpec => []MarkedIsReplaced
<1>1. EditorTyped => MarkedIsReplaced
  <2>. SUFFICES ASSUME EditorTyped, search # <<>> PROVE MarkedIsReplaced
    BY Zenon DEF MarkedIsReplaced
  <2>1. /\ search \in Seq(STRING) /\ target \in Seq(STRING)
        /\ \A s \in 1..Len(Displayed) : Displayed[s] \in Seq(STRING)
    BY ShownTexts DEF Transcripts
  <2>2. Marks = Matches
    <3>. DEFINE mark(s) ==
                  LET pieces == Split(Displayed[s], search)
                      before(k) == Len(Join(SubSeq(pieces, 1, k), search))
                  IN IF search = <<>> THEN <<>>
                     ELSE [k \in 1..(Len(pieces) - 1) |-> [segment |-> s, offset |-> before(k) + 1]]
                match(s) ==
                  LET at == Offsets(Displayed[s], search)
                  IN [k \in 1..Len(at) |-> [segment |-> s, offset |-> at[k]]]
    <3>1. ASSUME NEW s \in 1..Len(Displayed) PROVE mark(s) = match(s)
      <4>1. mark(s) = MarksIn(Displayed[s], search, s)
        BY DEF MarksIn
      <4>2. match(s) = MatchesIn(Displayed[s], search, s)
        BY DEF MatchesIn
      <4>3. Displayed[s] \in Seq(STRING)
        BY <2>1
      <4>. HIDE DEF mark, match
      <4>. QED
        BY <4>1, <4>2, <4>3, <2>1, MarksOfText, Zenon
    <3>2. Marks = FlattenSeq([s \in 1..Len(Displayed) |-> mark(s)])
      BY DEF Marks
    <3>3. Matches = FlattenSeq([s \in 1..Len(Displayed) |-> match(s)])
      BY DEF Matches, Occurrences
    <3>. HIDE DEF mark, match
    <3>4. [s \in 1..Len(Displayed) |-> mark(s)] = [s \in 1..Len(Displayed) |-> match(s)]
      BY <3>1, Zenon
    <3>. QED
      BY <3>2, <3>3, <3>4, Zenon
  <2>3. ASSUME NEW s \in 1..Len(Displayed)
        PROVE  ReplaceAllIn(Displayed[s], search, target) =
                 ReplacedBackwards(Displayed[s], Offsets(Displayed[s], search), search, target)
    <3>1. Displayed[s] \in Seq(STRING)
      BY <2>1
    <3>. QED
      BY <2>1, <3>1, ReplacedAgree, Zenon
  <2>. QED
    BY <2>2, <2>3, Zenon DEF MarkedIsReplaced
<1>. QED
  BY <1>1, EditorIsTyped, PTL

----------------------------------------------------------------------------
(* Recursion in two directions: the tables of the comparison are filled from  *)
(* their last row and column.                                                 *)

(* A table of M + 1 rows and N + 1 columns.                                   *)
Grid(M, N) == (1..(M + 1)) \X (1..(N + 1))

(* What holds on the last row and the last column of a table, and at every    *)
(* other cell if at the three next ones, holds everywhere.                    *)
LEMMA GridInduction ==
  ASSUME NEW M \in Nat, NEW N \in Nat, NEW S,
         \A r \in 1..(M + 1) : <<r, N + 1>> \in S,
         \A c \in 1..(N + 1) : <<M + 1, c>> \in S,
         \A r \in 1..M, c \in 1..N :
           /\ <<r + 1, c + 1>> \in S /\ <<r + 1, c>> \in S /\ <<r, c + 1>> \in S
           => <<r, c>> \in S
  PROVE  \A cell \in Grid(M, N) : cell \in S
<1>. DEFINE Rows == {r \in 1..(M + 1) : \A c \in 1..(N + 1) : <<r, c>> \in S}
<1>1. M + 1 \in Rows
  OBVIOUS
<1>2. ASSUME NEW r \in 1..M, \A j \in (r + 1)..(M + 1) : j \in Rows PROVE r \in Rows
  <2>. DEFINE Cols == {c \in 1..(N + 1) : <<r, c>> \in S}
  <2>1. r \in 1..(M + 1) /\ r + 1 \in Rows
    BY <1>2
  <2>2. N + 1 \in Cols
    BY <2>1
  <2>3. ASSUME NEW c \in 1..N, \A j \in (c + 1)..(N + 1) : j \in Cols PROVE c \in Cols
    <3>1. c + 1 \in Cols /\ c \in 1..(N + 1) /\ c + 1 \in 1..(N + 1)
      BY <2>3
    <3>. QED
      BY <3>1, <2>1
  <2>4. \A c \in 1..(N + 1) : c \in Cols
    <3>. HIDE DEF Cols
    <3>. QED
      BY <2>2, <2>3, InductionFromEnd
  <2>. QED
    BY <2>1, <2>4
<1>3. \A r \in 1..(M + 1) : r \in Rows
  <2>. HIDE DEF Rows
  <2>. QED
    BY <1>1, <1>2, InductionFromEnd
<1>. QED
  BY <1>3 DEF Grid

(* A recursion over a table: values on its last row and column, and a value   *)
(* of every other cell made of those of the three next ones.                  *)
GridRecursion(M, N, V, edge, step) ==
  /\ M \in Nat /\ N \in Nat /\ edge \in [Grid(M, N) -> V]
  /\ step \in [(1..M) \X (1..N) -> [V \X V \X V -> V]]

Fills(f, M, N, V, edge, step) ==
  /\ f \in [Grid(M, N) -> V]
  /\ \A r \in 1..(M + 1) : f[<<r, N + 1>>] = edge[<<r, N + 1>>]
  /\ \A c \in 1..(N + 1) : f[<<M + 1, c>>] = edge[<<M + 1, c>>]
  /\ \A r \in 1..M, c \in 1..N :
       f[<<r, c>>] = step[<<r, c>>][<<f[<<r + 1, c + 1>>], f[<<r + 1, c>>], f[<<r, c + 1>>]>>]

(* One row, from the row below.                                               *)
FillsRow(row, below, r, N, V, edge, step) ==
  /\ row \in [1..(N + 1) -> V] /\ row[N + 1] = edge[<<r, N + 1>>]
  /\ \A c \in 1..N : row[c] = step[<<r, c>>][<<below[c + 1], below[c], row[c + 1]>>]

LEMMA RowFilled ==
  ASSUME NEW M, NEW N, NEW V, NEW edge, NEW step, GridRecursion(M, N, V, edge, step),
         NEW r \in 1..M, NEW below \in [1..(N + 1) -> V]
  PROVE  \E row : FillsRow(row, below, r, N, V, edge, step)
<1>. USE DEF GridRecursion
<1>. DEFINE base == edge[<<r, N + 1>>]
            along == [c \in 1..N |-> [v \in V |-> step[<<r, c>>][<<below[c + 1], below[c], v>>]]]
            nxt == [c \in 1..N |-> c + 1]
<1>1. Recursion(N, V, base, along, nxt)
  <2>1. <<r, N + 1>> \in Grid(M, N)
    BY DEF Grid
  <2>2. base \in V
    BY <2>1
  <2>3. ASSUME NEW c \in 1..N, NEW v \in V
        PROVE  step[<<r, c>>][<<below[c + 1], below[c], v>>] \in V
    <3>1. below[c + 1] \in V /\ below[c] \in V
      OBVIOUS
    <3>2. <<r, c>> \in (1..M) \X (1..N)
      OBVIOUS
    <3>3. step[<<r, c>>] \in [V \X V \X V -> V]
      BY <3>2
    <3>. QED
      BY <3>1, <3>3
  <2>4. along \in [1..N -> [V -> V]]
    BY <2>3
  <2>5. nxt \in [1..N -> Nat] /\ \A c \in 1..N : nxt[c] \in (c + 1)..(N + 1)
    OBVIOUS
  <2>. QED
    BY <2>2, <2>4, <2>5 DEF Recursion
<1>2. PICK row : Solves(row, N, V, base, along, nxt)
  BY <1>1, RecursionFromEnd
<1>3. FillsRow(row, below, r, N, V, edge, step)
  <2>1. row \in [1..(N + 1) -> V] /\ row[N + 1] = base
    BY <1>2 DEF Solves
  <2>2. ASSUME NEW c \in 1..N
        PROVE  row[c] = step[<<r, c>>][<<below[c + 1], below[c], row[c + 1]>>]
    <3>1. row[c] = along[c][row[nxt[c]]] /\ nxt[c] = c + 1
      BY <1>2 DEF Solves
    <3>2. row[c + 1] \in V
      BY <2>1
    <3>. QED
      BY <3>1, <3>2
  <2>. QED
    BY <2>1, <2>2 DEF FillsRow
<1>. QED
  BY <1>3

(* So every such table can be filled, row after row.                          *)
LEMMA GridFilled ==
  ASSUME NEW M, NEW N, NEW V, NEW edge, NEW step, GridRecursion(M, N, V, edge, step)
  PROVE  \E f : Fills(f, M, N, V, edge, step)
<1>. DEFINE W == [1..(N + 1) -> V]
            bottom == [c \in 1..(N + 1) |-> edge[<<M + 1, c>>]]
            Above(r, below) == CHOOSE row : FillsRow(row, below, r, N, V, edge, step)
            up == [r \in 1..M |-> [below \in W |-> Above(r, below)]]
            nxt == [r \in 1..M |-> r + 1]
<1>1. M \in Nat /\ N \in Nat /\ edge \in [Grid(M, N) -> V]
  BY DEF GridRecursion
<1>2. ASSUME NEW r \in 1..M, NEW below \in W
      PROVE  FillsRow(Above(r, below), below, r, N, V, edge, step)
  <2>1. \E row : FillsRow(row, below, r, N, V, edge, step)
    BY RowFilled
  <2>. QED
    BY <2>1
<1>3. Recursion(M, W, bottom, up, nxt)
  <2>1. bottom \in W
    BY <1>1 DEF Grid
  <2>2. \A r \in 1..M, below \in W : Above(r, below) \in W
    <3>. HIDE DEF Above
    <3>. QED
      BY <1>2 DEF FillsRow
  <2>3. up \in [1..M -> [W -> W]]
    <3>. HIDE DEF Above, W
    <3>. QED
      BY <2>2
  <2>4. nxt \in [1..M -> Nat] /\ \A r \in 1..M : nxt[r] \in (r + 1)..(M + 1)
    BY <1>1
  <2>. HIDE DEF Above, W, bottom, up, nxt
  <2>. QED
    BY <1>1, <2>1, <2>3, <2>4 DEF Recursion
<1>4. PICK rowsOf : Solves(rowsOf, M, W, bottom, up, nxt)
  <2>. HIDE DEF W, bottom, up, nxt
  <2>. QED
    BY <1>3, RecursionFromEnd
<1>5. rowsOf \in [1..(M + 1) -> W] /\ rowsOf[M + 1] = bottom
  BY <1>4 DEF Solves
<1>6. ASSUME NEW r \in 1..M
      PROVE  FillsRow(rowsOf[r], rowsOf[r + 1], r, N, V, edge, step)
  <2>1. rowsOf[r] = up[r][rowsOf[nxt[r]]] /\ nxt[r] = r + 1
    BY <1>4 DEF Solves
  <2>2. rowsOf[r + 1] \in W
    BY <1>1, <1>5
  <2>3. up[r][rowsOf[r + 1]] = Above(r, rowsOf[r + 1])
    <3>. HIDE DEF Above, W
    <3>. QED
      BY <2>2
  <2>. HIDE DEF Above, W, up
  <2>. QED
    BY <2>1, <2>2, <2>3, <1>2
<1>7. ASSUME NEW r \in 1..(M + 1) PROVE rowsOf[r][N + 1] = edge[<<r, N + 1>>]
  <2>1. CASE r = M + 1
    BY <2>1, <1>1, <1>5
  <2>2. CASE r # M + 1
    <3>1. r \in 1..M
      BY <2>2, <1>1
    <3>. QED
      BY <3>1, <1>6 DEF FillsRow
  <2>. QED
    BY <2>1, <2>2
<1>. DEFINE f == [cell \in Grid(M, N) |-> rowsOf[cell[1]][cell[2]]]
<1>8. \A r \in 1..(M + 1), c \in 1..(N + 1) : f[<<r, c>>] = rowsOf[r][c] /\ rowsOf[r][c] \in V
  BY <1>1, <1>5 DEF Grid
<1>9. f \in [Grid(M, N) -> V]
  BY <1>8 DEF Grid
<1>10. ASSUME NEW r \in 1..M, NEW c \in 1..N
       PROVE  f[<<r, c>>] =
                step[<<r, c>>][<<f[<<r + 1, c + 1>>], f[<<r + 1, c>>], f[<<r, c + 1>>]>>]
  <2>1. r \in 1..(M + 1) /\ r + 1 \in 1..(M + 1) /\ c \in 1..(N + 1) /\ c + 1 \in 1..(N + 1)
    BY <1>1
  <2>2. rowsOf[r][c] = step[<<r, c>>][<<rowsOf[r + 1][c + 1], rowsOf[r + 1][c], rowsOf[r][c + 1]>>]
    BY <1>6 DEF FillsRow
  <2>. HIDE DEF f
  <2>. QED
    BY <2>1, <2>2, <1>8
<1>11. /\ \A r \in 1..(M + 1) : f[<<r, N + 1>>] = edge[<<r, N + 1>>]
       /\ \A c \in 1..(N + 1) : f[<<M + 1, c>>] = edge[<<M + 1, c>>]
  <2>1. N + 1 \in 1..(N + 1) /\ M + 1 \in 1..(M + 1)
    BY <1>1
  <2>2. \A c \in 1..(N + 1) : rowsOf[M + 1][c] = edge[<<M + 1, c>>]
    BY <1>5
  <2>. HIDE DEF f, bottom
  <2>. QED
    BY <2>1, <2>2, <1>7, <1>8
<1>. HIDE DEF f
<1>12. Fills(f, M, N, V, edge, step)
  BY <1>9, <1>10, <1>11 DEF Fills
<1>. QED
  BY <1>12

----------------------------------------------------------------------------
(* The comparison of two versions.                                            *)

(* The larger of two numbers.                                                 *)
LEMMA MaxOfTwo ==
  ASSUME NEW a \in Nat, NEW b \in Nat
  PROVE  Max({a, b}) = IF a >= b THEN a ELSE b
<1>. DEFINE m == IF a >= b THEN a ELSE b
<1>1. m \in {a, b} /\ \A x \in {a, b} : m >= x
  OBVIOUS
<1>2. \A y \in {a, b} : (\A x \in {a, b} : y >= x) => y = m
  OBVIOUS
<1>. HIDE DEF m
<1>3. Max({a, b}) = m
  BY <1>1, <1>2 DEF Max
<1>. QED
  BY <1>3 DEF m

(* The three next cells of one that is not on the edge.                       *)
LEMMA NextCells ==
  ASSUME NEW M \in Nat, NEW N \in Nat, NEW r \in 1..M, NEW c \in 1..N
  PROVE  /\ <<r, c>> \in Grid(M, N) /\ <<r + 1, c + 1>> \in Grid(M, N)
         /\ <<r + 1, c>> \in Grid(M, N) /\ <<r, c + 1>> \in Grid(M, N)
<1>1. r \in 1..(M + 1) /\ r + 1 \in 1..(M + 1) /\ c \in 1..(N + 1) /\ c + 1 \in 1..(N + 1)
  OBVIOUS
<1>. QED
  BY <1>1 DEF Grid

(* What the table of common lines says.                                       *)
Tabulates(f, old, new) ==
  /\ f \in [Cells(old, new) -> Nat]
  /\ \A r \in 1..(Len(old) + 1) : f[<<r, Len(new) + 1>>] = 0
  /\ \A c \in 1..(Len(new) + 1) : f[<<Len(old) + 1, c>>] = 0
  /\ \A r \in 1..Len(old), c \in 1..Len(new) :
       f[<<r, c>>] = IF old[r] = new[c] THEN f[<<r + 1, c + 1>>] + 1
                     ELSE IF f[<<r + 1, c>>] >= f[<<r, c + 1>>] THEN f[<<r + 1, c>>]
                     ELSE f[<<r, c + 1>>]

(* The equation by which the table is defined.                                *)
CommonCell(f, old, new, r, c) ==
  IF r > Len(old) \/ c > Len(new) THEN 0
  ELSE IF old[r] = new[c] THEN f[<<r + 1, c + 1>>] + 1
  ELSE Max({f[<<r + 1, c>>], f[<<r, c + 1>>]})

Equates(f, old, new) ==
  f = [cell \in Cells(old, new) |-> CommonCell(f, old, new, cell[1], cell[2])]

LEMMA TableExists ==
  ASSUME NEW T, NEW old \in Seq(T), NEW new \in Seq(T)
  PROVE  \E f : Equates(f, old, new)
<1>. DEFINE M == Len(old)
            N == Len(new)
            edge == [cell \in Grid(M, N) |-> 0]
            three == Nat \X Nat \X Nat
            step == [cell \in (1..M) \X (1..N) |->
                       [x \in three |-> IF old[cell[1]] = new[cell[2]] THEN x[1] + 1
                                        ELSE Max({x[2], x[3]})]]
<1>1. M \in Nat /\ N \in Nat /\ edge \in [Grid(M, N) -> Nat]
  OBVIOUS
<1>2. ASSUME NEW x \in three PROVE Max({x[2], x[3]}) \in Nat /\ x[1] + 1 \in Nat
  BY MaxOfTwo
<1>3. step \in [(1..M) \X (1..N) -> [three -> Nat]]
  <2>. HIDE DEF three, M, N
  <2>. QED
    BY <1>2
<1>. HIDE DEF M, N, edge, step
<1>4. PICK f : Fills(f, M, N, Nat, edge, step)
  <2>1. GridRecursion(M, N, Nat, edge, step)
    BY <1>1, <1>3 DEF GridRecursion
  <2>. QED
    BY <2>1, GridFilled
<1>5. f = [cell \in Grid(M, N) |-> f[cell]]
  BY <1>4 DEF Fills
<1>6. ASSUME NEW r \in 1..(M + 1), NEW c \in 1..(N + 1)
      PROVE  f[<<r, c>>] = CommonCell(f, old, new, r, c)
  <2>1. CASE r = M + 1 \/ c = N + 1
    <3>1. f[<<r, c>>] = 0
      <4>1. f[<<r, c>>] = edge[<<r, c>>]
        BY <2>1, <1>4 DEF Fills
      <4>2. <<r, c>> \in Grid(M, N)
        BY DEF Grid
      <4>. QED
        BY <4>1, <4>2 DEF edge
    <3>2. r > Len(old) \/ c > Len(new)
      BY <2>1, <1>1 DEF M, N
    <3>. QED
      BY <3>1, <3>2 DEF CommonCell
  <2>2. CASE r # M + 1 /\ c # N + 1
    <3>1. r \in 1..M /\ c \in 1..N /\ ~(r > Len(old) \/ c > Len(new))
      BY <2>2, <1>1 DEF M, N
    <3>2. f[<<r, c>>] = step[<<r, c>>][<<f[<<r + 1, c + 1>>], f[<<r + 1, c>>], f[<<r, c + 1>>]>>]
      BY <3>1, <1>4 DEF Fills
    <3>3. <<f[<<r + 1, c + 1>>], f[<<r + 1, c>>], f[<<r, c + 1>>]>> \in three
      <4>1. f \in [Grid(M, N) -> Nat]
        BY <1>4 DEF Fills
      <4>2. f[<<r + 1, c + 1>>] \in Nat /\ f[<<r + 1, c>>] \in Nat /\ f[<<r, c + 1>>] \in Nat
        BY <4>1, <3>1, <1>1, NextCells
      <4>. QED
        BY <4>2
    <3>4. <<r, c>> \in (1..M) \X (1..N)
      BY <3>1
    <3>5. f[<<r, c>>] = IF old[r] = new[c] THEN f[<<r + 1, c + 1>>] + 1
                        ELSE Max({f[<<r + 1, c>>], f[<<r, c + 1>>]})
      BY <3>2, <3>3, <3>4 DEF step
    <3>. QED
      BY <3>1, <3>5 DEF CommonCell
  <2>. QED
    BY <2>1, <2>2
<1>7. ASSUME NEW cell \in Grid(M, N) PROVE f[cell] = CommonCell(f, old, new, cell[1], cell[2])
  <2>1. cell[1] \in 1..(M + 1) /\ cell[2] \in 1..(N + 1) /\ cell = <<cell[1], cell[2]>>
    BY DEF Grid
  <2>. QED
    BY <2>1, <1>6
<1>8. Cells(old, new) = Grid(M, N)
  BY DEF Cells, Grid, M, N
<1>9. Equates(f, old, new)
  <2>1. f = [cell \in Grid(M, N) |-> CommonCell(f, old, new, cell[1], cell[2])]
    BY <1>5, <1>7, Zenon
  <2>. QED
    BY <2>1, <1>8 DEF Equates
<1>. QED
  BY <1>9

LEMMA TableEquates ==
  ASSUME NEW T, NEW old \in Seq(T), NEW new \in Seq(T)
  PROVE  Equates(CommonTable(old, new), old, new)
<1>1. CommonTable(old, new) = CHOOSE f : Equates(f, old, new)
  BY DEF CommonTable, Equates, CommonCell
<1>. QED
  BY <1>1, TableExists, Zenon

LEMMA TableTabulates ==
  ASSUME NEW T, NEW old \in Seq(T), NEW new \in Seq(T)
  PROVE  Tabulates(CommonTable(old, new), old, new)
<1>. DEFINE f == CommonTable(old, new)
            M == Len(old)
            N == Len(new)
            S == {cell \in Cells(old, new) : f[cell] \in Nat}
<1>1. M \in Nat /\ N \in Nat
  OBVIOUS
<1>2. Equates(f, old, new)
  BY TableEquates
<1>. HIDE DEF f
<1>3. \A r \in 1..(M + 1), c \in 1..(N + 1) :
        <<r, c>> \in Cells(old, new) /\ f[<<r, c>>] = CommonCell(f, old, new, r, c)
  BY <1>2 DEF Equates, Cells
<1>4. ASSUME NEW r \in 1..(M + 1), NEW c \in 1..(N + 1), r = M + 1 \/ c = N + 1
      PROVE  f[<<r, c>>] = 0
  <2>1. r > Len(old) \/ c > Len(new)
    BY <1>1, <1>4
  <2>. QED
    BY <2>1, <1>3, Zenon DEF CommonCell
<1>5. M + 1 \in 1..(M + 1) /\ N + 1 \in 1..(N + 1)
  BY <1>1
<1>6. ASSUME NEW r \in 1..M, NEW c \in 1..N
      PROVE  f[<<r, c>>] = IF old[r] = new[c] THEN f[<<r + 1, c + 1>>] + 1
                           ELSE Max({f[<<r + 1, c>>], f[<<r, c + 1>>]})
  <2>1. r \in 1..(M + 1) /\ c \in 1..(N + 1) /\ ~(r > Len(old) \/ c > Len(new))
    BY <1>1
  <2>. QED
    BY <2>1, <1>3 DEF CommonCell
<1>7. \A cell \in Grid(M, N) : cell \in S
  <2>1. \A r \in 1..(M + 1) : <<r, N + 1>> \in S
    BY <1>3, <1>4, <1>5
  <2>2. \A c \in 1..(N + 1) : <<M + 1, c>> \in S
    BY <1>3, <1>4, <1>5
  <2>3. ASSUME NEW r \in 1..M, NEW c \in 1..N,
               <<r + 1, c + 1>> \in S, <<r + 1, c>> \in S, <<r, c + 1>> \in S
        PROVE  <<r, c>> \in S
    <3>1. Max({f[<<r + 1, c>>], f[<<r, c + 1>>]}) \in Nat /\ f[<<r + 1, c + 1>>] + 1 \in Nat
      <4>1. f[<<r + 1, c + 1>>] \in Nat /\ f[<<r + 1, c>>] \in Nat /\ f[<<r, c + 1>>] \in Nat
        BY <2>3
      <4>2. Max({f[<<r + 1, c>>], f[<<r, c + 1>>]}) =
              IF f[<<r + 1, c>>] >= f[<<r, c + 1>>] THEN f[<<r + 1, c>>] ELSE f[<<r, c + 1>>]
        BY <4>1, MaxOfTwo, Zenon
      <4>. QED
        BY <4>1, <4>2
    <3>2. f[<<r, c>>] \in Nat
      BY <3>1, <1>6, Zenon
    <3>3. r \in 1..(M + 1) /\ c \in 1..(N + 1)
      BY <1>1
    <3>. QED
      BY <3>2, <3>3, <1>3
  <2>. HIDE DEF S, M, N
  <2>. QED
    BY <1>1, <2>1, <2>2, <2>3, GridInduction
<1>8. f \in [Cells(old, new) -> Nat]
  <2>1. Cells(old, new) = Grid(M, N)
    BY DEF Cells, Grid
  <2>2. f = [cell \in Cells(old, new) |-> f[cell]]
    BY <1>2 DEF Equates
  <2>. QED
    BY <2>1, <2>2, <1>7
<1>9. ASSUME NEW r \in 1..M, NEW c \in 1..N
      PROVE  f[<<r, c>>] = IF old[r] = new[c] THEN f[<<r + 1, c + 1>>] + 1
                           ELSE IF f[<<r + 1, c>>] >= f[<<r, c + 1>>] THEN f[<<r + 1, c>>]
                           ELSE f[<<r, c + 1>>]
  <2>1. r + 1 \in 1..(M + 1) /\ r \in 1..(M + 1) /\ c \in 1..(N + 1) /\ c + 1 \in 1..(N + 1)
    BY <1>1
  <2>2. f[<<r + 1, c>>] \in Nat /\ f[<<r, c + 1>>] \in Nat
    BY <2>1, <1>8 DEF Cells
  <2>3. Max({f[<<r + 1, c>>], f[<<r, c + 1>>]}) =
          IF f[<<r + 1, c>>] >= f[<<r, c + 1>>] THEN f[<<r + 1, c>>] ELSE f[<<r, c + 1>>]
    BY <2>2, MaxOfTwo
  <2>. QED
    BY <2>3, <1>6, Zenon
<1>10. /\ \A r \in 1..(M + 1) : f[<<r, N + 1>>] = 0
       /\ \A c \in 1..(N + 1) : f[<<M + 1, c>>] = 0
  BY <1>4, <1>5
<1>. QED
  BY <1>8, <1>9, <1>10 DEF Tabulates, f

(* A shown line of either version, and what the walk through the table says.  *)
ShownLine(T) == [kind : {"added", "removed", "same"}, text : T]

WalkFrom(w, old, new, r, c) ==
  IF old[r] = new[c] THEN <<DiffLine("same", old[r])>> \o w[<<r + 1, c + 1>>]
  ELSE IF CommonTable(old, new)[<<r + 1, c>>] >= CommonTable(old, new)[<<r, c + 1>>]
  THEN <<DiffLine("removed", old[r])>> \o w[<<r + 1, c>>]
  ELSE <<DiffLine("added", new[c])>> \o w[<<r, c + 1>>]

Walks(w, T, old, new) ==
  /\ w \in [Cells(old, new) -> Seq(ShownLine(T))]
  /\ \A c \in 1..(Len(new) + 1) : w[<<Len(old) + 1, c>>] = LinesFrom("added", new, c, Len(new))
  /\ \A r \in 1..(Len(old) + 1) : w[<<r, Len(new) + 1>>] = LinesFrom("removed", old, r, Len(old))
  /\ \A r \in 1..Len(old), c \in 1..Len(new) : w[<<r, c>>] = WalkFrom(w, old, new, r, c)

(* The equation by which the walk is defined.                                 *)
WalkCell(w, old, new, r, c) ==
  IF r > Len(old) THEN LinesFrom("added", new, c, Len(new))
  ELSE IF c > Len(new) THEN LinesFrom("removed", old, r, Len(old))
  ELSE WalkFrom(w, old, new, r, c)

EquatesWalk(w, old, new) ==
  w = [cell \in Cells(old, new) |-> WalkCell(w, old, new, cell[1], cell[2])]

LEMMA LinesTyped ==
  ASSUME NEW T, NEW text \in Seq(T), NEW kind \in {"added", "removed", "same"},
         NEW first \in 1..(Len(text) + 1)
  PROVE  LinesFrom(kind, text, first, Len(text)) \in Seq(ShownLine(T))
<1>1. Len(text) + 1 - first \in Nat
  OBVIOUS
<1>2. ASSUME NEW k \in 1..(Len(text) + 1 - first)
      PROVE  DiffLine(kind, text[first + k - 1]) \in ShownLine(T)
  <2>1. first + k - 1 \in 1..Len(text)
    OBVIOUS
  <2>. QED
    BY <2>1 DEF DiffLine, ShownLine
<1>. QED
  BY <1>1, <1>2 DEF LinesFrom

LEMMA MoreTyped ==
  ASSUME NEW T, NEW kind \in {"added", "removed", "same"}, NEW line \in T,
         NEW diff \in Seq(ShownLine(T))
  PROVE  <<DiffLine(kind, line)>> \o diff \in Seq(ShownLine(T))
<1>1. DiffLine(kind, line) \in ShownLine(T)
  BY DEF DiffLine, ShownLine
<1>. QED
  BY <1>1

LEMMA WalkExists ==
  ASSUME NEW T, NEW old \in Seq(T), NEW new \in Seq(T)
  PROVE  \E w : EquatesWalk(w, old, new)
<1>. DEFINE M == Len(old)
            N == Len(new)
            V == Seq(ShownLine(T))
            three == V \X V \X V
            common == CommonTable(old, new)
            Next3(r, c, x) ==
              IF old[r] = new[c] THEN <<DiffLine("same", old[r])>> \o x[1]
              ELSE IF common[<<r + 1, c>>] >= common[<<r, c + 1>>]
              THEN <<DiffLine("removed", old[r])>> \o x[2]
              ELSE <<DiffLine("added", new[c])>> \o x[3]
            edge == [cell \in Grid(M, N) |->
                       IF cell[1] > M THEN LinesFrom("added", new, cell[2], N)
                       ELSE LinesFrom("removed", old, cell[1], M)]
            step == [cell \in (1..M) \X (1..N) |->
                       [x \in three |-> Next3(cell[1], cell[2], x)]]
<1>1. M \in Nat /\ N \in Nat
  OBVIOUS
<1>2. edge \in [Grid(M, N) -> V]
  <2>1. \A cell \in Grid(M, N) : cell[1] \in 1..(M + 1) /\ cell[2] \in 1..(N + 1)
    BY DEF Grid
  <2>2. /\ \A c \in 1..(N + 1) : LinesFrom("added", new, c, N) \in V
        /\ \A r \in 1..(M + 1) : LinesFrom("removed", old, r, M) \in V
    BY LinesTyped
  <2>. HIDE DEF V, M, N
  <2>. QED
    BY <2>1, <2>2
<1>3. ASSUME NEW r \in 1..M, NEW c \in 1..N, NEW x \in three PROVE Next3(r, c, x) \in V
  <2>1. old[r] \in T /\ new[c] \in T /\ x[1] \in V /\ x[2] \in V /\ x[3] \in V
    OBVIOUS
  <2>2. /\ <<DiffLine("same", old[r])>> \o x[1] \in V
        /\ <<DiffLine("removed", old[r])>> \o x[2] \in V
        /\ <<DiffLine("added", new[c])>> \o x[3] \in V
    BY <2>1, MoreTyped
  <2>. HIDE DEF V
  <2>. QED
    BY <2>2
<1>4. step \in [(1..M) \X (1..N) -> [three -> V]]
  <2>1. ASSUME NEW cell \in (1..M) \X (1..N), NEW x \in three
        PROVE  Next3(cell[1], cell[2], x) \in V
    <3>1. cell[1] \in 1..M /\ cell[2] \in 1..N
      OBVIOUS
    <3>. HIDE DEF Next3, three, V, M, N
    <3>. QED
      BY <3>1, <1>3
  <2>. HIDE DEF Next3, three, V, M, N
  <2>. QED
    BY <2>1
<1>5. PICK w : Fills(w, M, N, V, edge, step)
  <2>. HIDE DEF V, M, N, edge, step
  <2>1. GridRecursion(M, N, V, edge, step)
    BY <1>1, <1>2, <1>4 DEF GridRecursion
  <2>. QED
    BY <2>1, GridFilled
<1>. HIDE DEF V, M, N, edge, step, Next3
<1>6. w = [cell \in Grid(M, N) |-> w[cell]]
  BY <1>5 DEF Fills
<1>7. ASSUME NEW r \in 1..(M + 1), NEW c \in 1..(N + 1)
      PROVE  w[<<r, c>>] = WalkCell(w, old, new, r, c)
  <2>0. <<r, c>> \in Grid(M, N)
    BY DEF Grid
  <2>1. CASE r = M + 1
    <3>1. w[<<r, c>>] = edge[<<r, c>>]
      BY <2>1, <1>5 DEF Fills
    <3>2. r > M
      BY <2>1, <1>1
    <3>3. edge[<<r, c>>] = LinesFrom("added", new, c, N)
      BY <2>0, <3>2 DEF edge
    <3>. QED
      BY <3>1, <3>2, <3>3, Zenon DEF WalkCell, M, N
  <2>2. CASE r # M + 1 /\ c = N + 1
    <3>1. w[<<r, c>>] = edge[<<r, c>>]
      BY <2>2, <1>5 DEF Fills
    <3>2. ~(r > M) /\ c > N
      BY <2>2, <1>1
    <3>3. edge[<<r, c>>] = LinesFrom("removed", old, r, M)
      BY <2>0, <3>2 DEF edge
    <3>. QED
      BY <3>1, <3>2, <3>3, Zenon DEF WalkCell, M, N
  <2>3. CASE r # M + 1 /\ c # N + 1
    <3>1. r \in 1..M /\ c \in 1..N /\ ~(r > M) /\ ~(c > N)
      BY <2>3, <1>1
    <3>. DEFINE x == <<w[<<r + 1, c + 1>>], w[<<r + 1, c>>], w[<<r, c + 1>>]>>
    <3>2. w[<<r, c>>] = step[<<r, c>>][x]
      BY <3>1, <1>5 DEF Fills
    <3>3. x \in three
      <4>1. w \in [Grid(M, N) -> V]
        BY <1>5 DEF Fills
      <4>2. w[<<r + 1, c + 1>>] \in V /\ w[<<r + 1, c>>] \in V /\ w[<<r, c + 1>>] \in V
        BY <4>1, <3>1, <1>1, NextCells
      <4>. QED
        BY <4>2
    <3>4. <<r, c>> \in (1..M) \X (1..N)
      BY <3>1
    <3>5. step[<<r, c>>][x] = Next3(r, c, x)
      <4>. HIDE DEF x, three
      <4>. QED
        BY <3>3, <3>4 DEF step
    <3>6. Next3(r, c, x) = WalkFrom(w, old, new, r, c)
      BY DEF Next3, WalkFrom
    <3>. QED
      BY <3>1, <3>2, <3>5, <3>6, Zenon DEF WalkCell, M, N
  <2>. QED
    BY <2>1, <2>2, <2>3
<1>8. ASSUME NEW cell \in Grid(M, N) PROVE w[cell] = WalkCell(w, old, new, cell[1], cell[2])
  <2>1. cell[1] \in 1..(M + 1) /\ cell[2] \in 1..(N + 1) /\ cell = <<cell[1], cell[2]>>
    BY DEF Grid
  <2>. QED
    BY <2>1, <1>7
<1>9. EquatesWalk(w, old, new)
  <2>1. Cells(old, new) = Grid(M, N)
    BY DEF Cells, Grid, M, N
  <2>2. w = [cell \in Grid(M, N) |-> WalkCell(w, old, new, cell[1], cell[2])]
    BY <1>6, <1>8, Zenon
  <2>. QED
    BY <2>1, <2>2 DEF EquatesWalk
<1>. QED
  BY <1>9

LEMMA WalkEquates ==
  ASSUME NEW T, NEW old \in Seq(T), NEW new \in Seq(T)
  PROVE  EquatesWalk(DiffWalk(old, new), old, new)
<1>1. DiffWalk(old, new) = CHOOSE w : EquatesWalk(w, old, new)
  BY DEF DiffWalk, EquatesWalk, WalkCell, WalkFrom
<1>. QED
  BY <1>1, WalkExists, Zenon

LEMMA WalkWalks ==
  ASSUME NEW T, NEW old \in Seq(T), NEW new \in Seq(T)
  PROVE  Walks(DiffWalk(old, new), T, old, new)
<1>. DEFINE w == DiffWalk(old, new)
            M == Len(old)
            N == Len(new)
            V == Seq(ShownLine(T))
            S == {cell \in Cells(old, new) : w[cell] \in V}
<1>1. M \in Nat /\ N \in Nat
  OBVIOUS
<1>2. EquatesWalk(w, old, new)
  BY WalkEquates
<1>. HIDE DEF w
<1>3. \A r \in 1..(M + 1), c \in 1..(N + 1) :
        <<r, c>> \in Cells(old, new) /\ w[<<r, c>>] = WalkCell(w, old, new, r, c)
  BY <1>2 DEF EquatesWalk, Cells
<1>4. M + 1 \in 1..(M + 1) /\ N + 1 \in 1..(N + 1)
  BY <1>1
<1>5. ASSUME NEW c \in 1..(N + 1) PROVE w[<<M + 1, c>>] = LinesFrom("added", new, c, N)
  <2>1. M + 1 > Len(old)
    BY <1>1
  <2>. QED
    BY <2>1, <1>3, <1>4, Zenon DEF WalkCell
<1>6. ASSUME NEW r \in 1..(M + 1) PROVE w[<<r, N + 1>>] = LinesFrom("removed", old, r, M)
  <2>1. CASE r = M + 1
    <3>1. /\ LinesFrom("added", new, N + 1, N) = <<>>
          /\ LinesFrom("removed", old, M + 1, M) = <<>>
      BY <1>1 DEF LinesFrom
    <3>. QED
      BY <2>1, <3>1, <1>4, <1>5
  <2>2. CASE r # M + 1
    <3>1. ~(r > Len(old)) /\ N + 1 > Len(new)
      BY <2>2, <1>1
    <3>. QED
      BY <3>1, <1>3, <1>4, Zenon DEF WalkCell
  <2>. QED
    BY <2>1, <2>2
<1>7. ASSUME NEW r \in 1..M, NEW c \in 1..N PROVE w[<<r, c>>] = WalkFrom(w, old, new, r, c)
  <2>1. r \in 1..(M + 1) /\ c \in 1..(N + 1) /\ ~(r > Len(old)) /\ ~(c > Len(new))
    BY <1>1
  <2>. QED
    BY <2>1, <1>3, Zenon DEF WalkCell
<1>8. \A cell \in Grid(M, N) : cell \in S
  <2>1. \A r \in 1..(M + 1) : <<r, N + 1>> \in S
    <3>1. \A r \in 1..(M + 1) : LinesFrom("removed", old, r, M) \in V
      BY LinesTyped
    <3>. QED
      BY <3>1, <1>3, <1>4, <1>6
  <2>2. \A c \in 1..(N + 1) : <<M + 1, c>> \in S
    <3>1. \A c \in 1..(N + 1) : LinesFrom("added", new, c, N) \in V
      BY LinesTyped
    <3>. QED
      BY <3>1, <1>3, <1>4, <1>5
  <2>3. ASSUME NEW r \in 1..M, NEW c \in 1..N,
               <<r + 1, c + 1>> \in S, <<r + 1, c>> \in S, <<r, c + 1>> \in S
        PROVE  <<r, c>> \in S
    <3>1. w[<<r + 1, c + 1>>] \in V /\ w[<<r + 1, c>>] \in V /\ w[<<r, c + 1>>] \in V
      BY <2>3
    <3>2. old[r] \in T /\ new[c] \in T
      OBVIOUS
    <3>3. /\ <<DiffLine("same", old[r])>> \o w[<<r + 1, c + 1>>] \in V
          /\ <<DiffLine("removed", old[r])>> \o w[<<r + 1, c>>] \in V
          /\ <<DiffLine("added", new[c])>> \o w[<<r, c + 1>>] \in V
      BY <3>1, <3>2, MoreTyped
    <3>4. WalkFrom(w, old, new, r, c) \in V
      <4>. HIDE DEF V
      <4>. QED
        BY <3>3, Zenon DEF WalkFrom
    <3>5. r \in 1..(M + 1) /\ c \in 1..(N + 1)
      BY <1>1
    <3>. QED
      BY <3>4, <3>5, <1>3, <1>7
  <2>. HIDE DEF S, M, N
  <2>. QED
    BY <1>1, <2>1, <2>2, <2>3, GridInduction
<1>9. w \in [Cells(old, new) -> V]
  <2>1. Cells(old, new) = Grid(M, N)
    BY DEF Cells, Grid
  <2>2. w = [cell \in Cells(old, new) |-> w[cell]]
    BY <1>2 DEF EquatesWalk
  <2>. HIDE DEF V
  <2>. QED
    BY <2>1, <2>2, <1>8
<1>. QED
  BY <1>5, <1>6, <1>7, <1>9 DEF Walks, w

(* Counting the lines of some kinds among the first ones.                     *)
Counted(diff, kinds, p) == {q \in 1..p : diff[q].kind \in kinds}

LEMMA CountTyped ==
  ASSUME NEW diff, NEW kinds, NEW p \in Nat
  PROVE  IsFiniteSet(Counted(diff, kinds, p)) /\ Count(diff, kinds, p) \in Nat
<1>1. IsFiniteSet(1..p)
  BY FS_Interval
<1>2. Counted(diff, kinds, p) \in SUBSET (1..p)
  BY DEF Counted
<1>3. IsFiniteSet(Counted(diff, kinds, p))
  BY <1>1, <1>2, FS_Subset
<1>4. Cardinality(Counted(diff, kinds, p)) \in Nat
  BY <1>3, FS_CardinalityType
<1>. QED
  BY <1>3, <1>4 DEF Count, Counted

LEMMA CountGrows ==
  ASSUME NEW diff, NEW kinds, NEW p \in Nat, NEW q \in Nat, p <= q
  PROVE  Count(diff, kinds, p) <= Count(diff, kinds, q)
<1>1. Counted(diff, kinds, p) \in SUBSET Counted(diff, kinds, q)
  BY DEF Counted
<1>2. Cardinality(Counted(diff, kinds, p)) <= Cardinality(Counted(diff, kinds, q))
  BY <1>1, CountTyped, FS_Subset
<1>. QED
  BY <1>2 DEF Count, Counted

LEMMA CountNone ==
  ASSUME NEW diff, NEW kinds
  PROVE  Count(diff, kinds, 0) = 0
<1>1. Counted(diff, kinds, 0) = {}
  BY DEF Counted
<1>. QED
  BY <1>1, FS_EmptySet DEF Count, Counted

(* Whether lines are of some kinds settles what is counted.                   *)
LEMMA CountAlike ==
  ASSUME NEW d, NEW e, NEW kinds, NEW p \in Nat,
         \A q \in 1..p : d[q].kind \in kinds <=> e[q].kind \in kinds
  PROVE  Count(d, kinds, p) = Count(e, kinds, p)
<1>1. Counted(d, kinds, p) = Counted(e, kinds, p)
  BY DEF Counted
<1>. QED
  BY <1>1 DEF Count, Counted

(* A line in front moves all others on.                                       *)
LEMMA CountMore ==
  ASSUME NEW X, NEW diff \in Seq(X), NEW line, NEW kinds, NEW p \in 0..Len(diff)
  PROVE  Count(<<line>> \o diff, kinds, p + 1) =
           Count(diff, kinds, p) + (IF line.kind \in kinds THEN 1 ELSE 0)
<1>. DEFINE longer == <<line>> \o diff
            P == Counted(diff, kinds, p)
            R == {q \in 2..(p + 1) : longer[q].kind \in kinds}
            move == [q \in P |-> q + 1]
<1>1. longer[1] = line /\ \A q \in 1..Len(diff) : longer[q + 1] = diff[q]
  OBVIOUS
<1>2. IsFiniteSet(P) /\ Cardinality(P) \in Nat
  BY CountTyped, FS_CardinalityType
<1>3. move \in Bijection(P, R)
  <2>1. \A q \in P : q \in 1..p /\ q \in 1..Len(diff) /\ diff[q].kind \in kinds
    BY DEF Counted
  <2>. HIDE DEF longer
  <2>2. \A q \in P : move[q] \in R
    BY <2>1, <1>1
  <2>3. \A q, s \in P : move[q] = move[s] => q = s
    BY <2>1
  <2>4. \A s \in R : \E q \in P : move[q] = s
    <3>1. ASSUME NEW s \in R PROVE s - 1 \in P /\ move[s - 1] = s
      <4>1. s - 1 \in 1..p /\ s - 1 \in 1..Len(diff) /\ (s - 1) + 1 = s
        OBVIOUS
      <4>2. longer[s] = diff[s - 1]
        BY <4>1, <1>1
      <4>3. s - 1 \in P
        BY <4>1, <4>2 DEF Counted
      <4>. QED
        BY <4>1, <4>3
    <3>. HIDE DEF move, P, R
    <3>. QED
      BY <3>1
  <2>5. move \in [P -> R]
    BY <2>2
  <2>. HIDE DEF move, P, R
  <2>. QED
    BY <2>3, <2>4, <2>5 DEF Bijection, Injection, Surjection, IsInjective
<1>4. IsFiniteSet(R) /\ Cardinality(R) = Cardinality(P)
  <2>1. ExistsBijection(P, R)
    BY <1>3 DEF ExistsBijection
  <2>. HIDE DEF P, R
  <2>. QED
    BY <2>1, <1>2, FS_Bijection
<1>5. 1 \notin R
  OBVIOUS
<1>. DEFINE Q == Counted(longer, kinds, p + 1)
<1>6. CASE line.kind \in kinds
  <2>1. Q = R \cup {1}
    <3>. HIDE DEF longer
    <3>. QED
      BY <1>1, <1>6 DEF Counted
  <2>2. Cardinality(Q) = Cardinality(P) + 1
    <3>. HIDE DEF P, Q, R
    <3>. QED
      BY <1>2, <1>4, <1>5, <2>1, FS_AddElement
  <2>. QED
    BY <1>6, <2>2 DEF Count, Counted
<1>7. CASE line.kind \notin kinds
  <2>1. Q = R
    <3>. HIDE DEF longer
    <3>. QED
      BY <1>1, <1>7 DEF Counted
  <2>2. Cardinality(Q) = Cardinality(P) + 0
    <3>. HIDE DEF P, Q, R
    <3>. QED
      BY <1>2, <1>4, <2>1
  <2>. QED
    BY <1>7, <2>2 DEF Count, Counted
<1>. QED
  BY <1>6, <1>7

(* Lines of one kind are all counted or none.                                 *)
LEMMA CountLines ==
  ASSUME NEW kind, NEW text, NEW kinds, NEW first \in Nat, NEW last \in Nat,
         NEW p \in 0..(last + 1 - first)
  PROVE  Count(LinesFrom(kind, text, first, last), kinds, p) = IF kind \in kinds THEN p ELSE 0
<1>. DEFINE diff == LinesFrom(kind, text, first, last)
<1>1. \A q \in 1..p : diff[q].kind = kind
  BY DEF LinesFrom, DiffLine
<1>. HIDE DEF diff
<1>2. CASE kind \in kinds
  <2>1. Counted(diff, kinds, p) = 1..p
    BY <1>1, <1>2 DEF Counted
  <2>2. Cardinality(1..p) = p
    BY FS_Interval
  <2>. QED
    BY <1>2, <2>1, <2>2 DEF Count, Counted, diff
<1>3. CASE kind \notin kinds
  <2>1. Counted(diff, kinds, p) = {}
    BY <1>1, <1>3 DEF Counted
  <2>. QED
    BY <1>3, <2>1, FS_EmptySet DEF Count, Counted, diff
<1>. QED
  BY <1>2, <1>3

(* What a walk shows of a version from line r on: all its lines, in order.    *)
ShowsFrom(diff, kinds, text, r) ==
  /\ Count(diff, kinds, Len(diff)) = Len(text) + 1 - r
  /\ \A p \in 1..Len(diff) :
       diff[p].kind \in kinds => diff[p].text = text[r - 1 + Count(diff, kinds, p)]

(* One more line in front, of the version or of the other one.                *)
LEMMA ShowsMore ==
  ASSUME NEW T, NEW text \in Seq(T), NEW r \in 1..Len(text), NEW kinds,
         NEW diff \in Seq(ShownLine(T)), NEW kind, kind \in kinds,
         ShowsFrom(diff, kinds, text, r + 1)
  PROVE  ShowsFrom(<<DiffLine(kind, text[r])>> \o diff, kinds, text, r)
<1>. DEFINE line == DiffLine(kind, text[r])
            longer == <<line>> \o diff
<1>1. line.kind = kind /\ line.text = text[r]
  BY DEF DiffLine
<1>. HIDE DEF line
<1>2. Len(longer) = Len(diff) + 1 /\ Len(diff) \in Nat
  OBVIOUS
<1>3. longer[1] = line /\ \A q \in 1..Len(diff) : longer[q + 1] = diff[q]
  OBVIOUS
<1>4. ASSUME NEW p \in 0..Len(diff)
      PROVE  /\ Count(longer, kinds, p + 1) = Count(diff, kinds, p) + 1
             /\ Count(diff, kinds, p) \in Nat
  BY <1>1, CountMore, CountTyped
<1>. HIDE DEF longer
<1>5. Count(longer, kinds, Len(longer)) = Len(text) + 1 - r
  <2>1. Len(diff) \in 0..Len(diff)
    BY <1>2
  <2>2. Count(diff, kinds, Len(diff)) = Len(text) + 1 - (r + 1)
    BY DEF ShowsFrom
  <2>3. Count(longer, kinds, Len(diff) + 1) = Count(diff, kinds, Len(diff)) + 1
    BY <2>1, <1>4
  <2>. QED
    BY <2>2, <2>3, <1>2
<1>6. ASSUME NEW p \in 1..Len(longer), longer[p].kind \in kinds
      PROVE  longer[p].text = text[r - 1 + Count(longer, kinds, p)]
  <2>1. CASE p = 1
    <3>1. 0 \in 0..Len(diff)
      BY <1>2
    <3>2. Count(longer, kinds, 0 + 1) = Count(diff, kinds, 0) + 1 /\ Count(diff, kinds, 0) = 0
      BY <3>1, <1>4, CountNone
    <3>3. r - 1 + Count(longer, kinds, p) = r
      BY <2>1, <3>2
    <3>. QED
      BY <2>1, <3>3, <1>1, <1>3
  <2>2. CASE p # 1
    <3>1. PICK q \in 1..Len(diff) : p = q + 1
      <4>1. p - 1 \in 1..Len(diff) /\ p = (p - 1) + 1
        BY <2>2, <1>2
      <4>. QED
        BY <4>1
    <3>2. longer[p] = diff[q] /\ q \in 0..Len(diff)
      BY <3>1, <1>3
    <3>3. Count(longer, kinds, p) = Count(diff, kinds, q) + 1 /\ Count(diff, kinds, q) \in Nat
      BY <3>1, <3>2, <1>4
    <3>4. diff[q].text = text[(r + 1) - 1 + Count(diff, kinds, q)]
      BY <1>6, <3>2 DEF ShowsFrom
    <3>5. (r + 1) - 1 + Count(diff, kinds, q) = r - 1 + Count(longer, kinds, p)
      BY <3>3
    <3>. QED
      BY <3>2, <3>4, <3>5
  <2>. QED
    BY <2>1, <2>2
<1>7. ShowsFrom(longer, kinds, text, r)
  BY <1>5, <1>6 DEF ShowsFrom
<1>. QED
  BY <1>7 DEF longer, line

LEMMA ShowsOther ==
  ASSUME NEW T, NEW text, Len(text) \in Nat, NEW r \in 1..(Len(text) + 1), NEW kinds,
         NEW diff \in Seq(ShownLine(T)), NEW kind, kind \notin kinds, NEW other,
         ShowsFrom(diff, kinds, text, r)
  PROVE  ShowsFrom(<<DiffLine(kind, other)>> \o diff, kinds, text, r)
<1>. DEFINE line == DiffLine(kind, other)
            longer == <<line>> \o diff
<1>1. line.kind = kind
  BY DEF DiffLine
<1>. HIDE DEF line
<1>2. Len(longer) = Len(diff) + 1 /\ Len(diff) \in Nat
  OBVIOUS
<1>3. longer[1] = line /\ \A q \in 1..Len(diff) : longer[q + 1] = diff[q]
  OBVIOUS
<1>4. ASSUME NEW p \in 0..Len(diff)
      PROVE  Count(longer, kinds, p + 1) = Count(diff, kinds, p)
  <2>1. Count(longer, kinds, p + 1) = Count(diff, kinds, p) + 0
    BY <1>1, CountMore
  <2>2. Count(diff, kinds, p) \in Nat
    BY CountTyped
  <2>. QED
    BY <2>1, <2>2
<1>. HIDE DEF longer
<1>5. Count(longer, kinds, Len(longer)) = Len(text) + 1 - r
  <2>1. Len(diff) \in 0..Len(diff)
    BY <1>2
  <2>2. Count(diff, kinds, Len(diff)) = Len(text) + 1 - r
    BY DEF ShowsFrom
  <2>. QED
    BY <2>1, <2>2, <1>2, <1>4
<1>6. ASSUME NEW p \in 1..Len(longer), longer[p].kind \in kinds
      PROVE  longer[p].text = text[r - 1 + Count(longer, kinds, p)]
  <2>1. p # 1
    BY <1>1, <1>3, <1>6
  <2>2. PICK q \in 1..Len(diff) : p = q + 1
    <3>1. p - 1 \in 1..Len(diff) /\ p = (p - 1) + 1
      BY <2>1, <1>2
    <3>. QED
      BY <3>1
  <2>3. longer[p] = diff[q] /\ q \in 0..Len(diff)
    BY <2>2, <1>3
  <2>4. Count(longer, kinds, p) = Count(diff, kinds, q)
    BY <2>2, <2>3, <1>4
  <2>. QED
    BY <1>6, <2>3, <2>4 DEF ShowsFrom
<1>7. ShowsFrom(longer, kinds, text, r)
  BY <1>5, <1>6 DEF ShowsFrom
<1>. QED
  BY <1>7 DEF longer, line

(* The rest of a version, when nothing is left of the other one.              *)
LEMMA ShowsRest ==
  ASSUME NEW T, NEW text \in Seq(T), NEW r \in 1..(Len(text) + 1),
         NEW kind, NEW kinds, kind \in kinds
  PROVE  ShowsFrom(LinesFrom(kind, text, r, Len(text)), kinds, text, r)
<1>. DEFINE diff == LinesFrom(kind, text, r, Len(text))
            n == Len(text) + 1 - r
<1>1. n \in Nat /\ Len(diff) = n
  BY DEF LinesFrom
<1>2. \A p \in 0..n : Count(diff, kinds, p) = p
  BY CountLines
<1>3. ASSUME NEW p \in 1..n PROVE diff[p].text = text[r - 1 + p]
  <2>1. diff[p].text = text[r + p - 1] /\ r + p - 1 = r - 1 + p
    BY DEF LinesFrom, DiffLine
  <2>. QED
    BY <2>1
<1>. HIDE DEF diff
<1>4. Count(diff, kinds, Len(diff)) = Len(text) + 1 - r
  BY <1>1, <1>2
<1>5. \A p \in 1..Len(diff) : diff[p].text = text[r - 1 + Count(diff, kinds, p)]
  <2>1. \A p \in 1..n : Count(diff, kinds, p) = p
    BY <1>1, <1>2
  <2>. QED
    BY <2>1, <1>1, <1>3
<1>. QED
  BY <1>4, <1>5 DEF ShowsFrom, diff

LEMMA ShowsNothing ==
  ASSUME NEW T, NEW text, Len(text) \in Nat, NEW other \in Seq(T), NEW r \in 1..(Len(other) + 1),
         NEW kind, NEW kinds, kind \notin kinds
  PROVE  ShowsFrom(LinesFrom(kind, other, r, Len(other)), kinds, text, Len(text) + 1)
<1>. DEFINE diff == LinesFrom(kind, other, r, Len(other))
            n == Len(other) + 1 - r
<1>1. n \in Nat /\ Len(diff) = n
  BY DEF LinesFrom
<1>2. Count(diff, kinds, Len(diff)) = 0
  <2>1. n \in 0..n
    BY <1>1
  <2>. QED
    BY <1>1, <2>1, CountLines
<1>3. \A p \in 1..Len(diff) : diff[p].kind = kind
  BY <1>1 DEF LinesFrom, DiffLine
<1>. HIDE DEF diff
<1>. QED
  BY <1>2, <1>3 DEF ShowsFrom, diff

(* What the walk shows from a cell on: both versions from there on, and as    *)
(* many common lines as the table says.                                       *)
FromOld == {"same", "removed"}
FromNew == {"same", "added"}
ShowsBoth(diff, old, new, cell) ==
  /\ ShowsFrom(diff, FromOld, old, cell[1]) /\ ShowsFrom(diff, FromNew, new, cell[2])
  /\ Count(diff, {"same"}, Len(diff)) = CommonTable(old, new)[cell]

(* The common lines that a first line adds.                                   *)
LEMMA SameMore ==
  ASSUME NEW T, NEW diff \in Seq(ShownLine(T)), NEW kind, NEW text
  PROVE  LET longer == <<DiffLine(kind, text)>> \o diff
         IN Count(longer, {"same"}, Len(longer)) =
              Count(diff, {"same"}, Len(diff)) + (IF kind = "same" THEN 1 ELSE 0)
<1>. DEFINE line == DiffLine(kind, text)
            longer == <<line>> \o diff
<1>1. Len(longer) = Len(diff) + 1 /\ Len(diff) \in 0..Len(diff)
  OBVIOUS
<1>2. line.kind = kind
  BY DEF DiffLine
<1>. HIDE DEF line
<1>3. Count(longer, {"same"}, Len(diff) + 1) =
        Count(diff, {"same"}, Len(diff)) + (IF line.kind \in {"same"} THEN 1 ELSE 0)
  BY <1>1, CountMore
<1>. HIDE DEF longer
<1>. QED
  BY <1>1, <1>2, <1>3 DEF longer, line

LEMMA WalkShows ==
  ASSUME NEW T, NEW old \in Seq(T), NEW new \in Seq(T)
  PROVE  \A cell \in Cells(old, new) : ShowsBoth(DiffWalk(old, new)[cell], old, new, cell)
<1>. DEFINE w == DiffWalk(old, new)
            M == Len(old)
            N == Len(new)
            common == CommonTable(old, new)
            S == {cell \in Cells(old, new) : ShowsBoth(w[cell], old, new, cell)}
<1>1. M \in Nat /\ N \in Nat
  OBVIOUS
<1>2. Walks(w, T, old, new) /\ Tabulates(common, old, new)
  BY WalkWalks, TableTabulates
<1>3. \A r \in 1..(M + 1), c \in 1..(N + 1) :
        /\ <<r, c>> \in Cells(old, new)
        /\ w[<<r, c>>] \in Seq(ShownLine(T)) /\ common[<<r, c>>] \in Nat
  BY <1>2 DEF Walks, Tabulates, Cells
<1>4. M + 1 \in 1..(M + 1) /\ N + 1 \in 1..(N + 1)
  BY <1>1
<1>. HIDE DEF w, common
<1>5. ASSUME NEW r \in 1..(M + 1) PROVE <<r, N + 1>> \in S
  <2>1. w[<<r, N + 1>>] = LinesFrom("removed", old, r, M) /\ common[<<r, N + 1>>] = 0
    BY <1>2 DEF Walks, Tabulates
  <2>2. ShowsFrom(w[<<r, N + 1>>], FromOld, old, r)
    BY <2>1, ShowsRest DEF FromOld
  <2>3. ShowsFrom(w[<<r, N + 1>>], FromNew, new, N + 1)
    BY <2>1, <1>1, ShowsNothing DEF FromNew
  <2>4. ShowsFrom(w[<<r, N + 1>>], {"same"}, new, N + 1)
    BY <2>1, <1>1, ShowsNothing
  <2>5. Count(w[<<r, N + 1>>], {"same"}, Len(w[<<r, N + 1>>])) = 0
    BY <2>4, <1>1 DEF ShowsFrom
  <2>6. ShowsBoth(w[<<r, N + 1>>], old, new, <<r, N + 1>>)
    BY <2>1, <2>2, <2>3, <2>5 DEF ShowsBoth, common
  <2>. QED
    BY <2>6, <1>3, <1>4
<1>6. ASSUME NEW c \in 1..(N + 1) PROVE <<M + 1, c>> \in S
  <2>1. w[<<M + 1, c>>] = LinesFrom("added", new, c, N) /\ common[<<M + 1, c>>] = 0
    BY <1>2 DEF Walks, Tabulates
  <2>2. ShowsFrom(w[<<M + 1, c>>], FromNew, new, c)
    BY <2>1, ShowsRest DEF FromNew
  <2>3. ShowsFrom(w[<<M + 1, c>>], FromOld, old, M + 1)
    BY <2>1, <1>1, ShowsNothing DEF FromOld
  <2>4. ShowsFrom(w[<<M + 1, c>>], {"same"}, old, M + 1)
    BY <2>1, <1>1, ShowsNothing
  <2>5. Count(w[<<M + 1, c>>], {"same"}, Len(w[<<M + 1, c>>])) = 0
    BY <2>4, <1>1 DEF ShowsFrom
  <2>6. ShowsBoth(w[<<M + 1, c>>], old, new, <<M + 1, c>>)
    BY <2>1, <2>2, <2>3, <2>5 DEF ShowsBoth, common
  <2>. QED
    BY <2>6, <1>3, <1>4
<1>7. ASSUME NEW r \in 1..M, NEW c \in 1..N,
             <<r + 1, c + 1>> \in S, <<r + 1, c>> \in S, <<r, c + 1>> \in S
      PROVE  <<r, c>> \in S
  <2>1. /\ r \in 1..(M + 1) /\ r + 1 \in 1..(M + 1) /\ c \in 1..(N + 1) /\ c + 1 \in 1..(N + 1)
        /\ old[r] \in T /\ new[c] \in T
    BY <1>1
  <2>. DEFINE both == w[<<r + 1, c + 1>>]
              down == w[<<r + 1, c>>]
              right == w[<<r, c + 1>>]
  <2>2. /\ both \in Seq(ShownLine(T)) /\ down \in Seq(ShownLine(T))
        /\ right \in Seq(ShownLine(T))
    BY <2>1, <1>3
  <2>3. /\ ShowsFrom(both, FromOld, old, r + 1) /\ ShowsFrom(both, FromNew, new, c + 1)
        /\ Count(both, {"same"}, Len(both)) = common[<<r + 1, c + 1>>]
    BY <1>7 DEF ShowsBoth, common
  <2>4. /\ ShowsFrom(down, FromOld, old, r + 1) /\ ShowsFrom(down, FromNew, new, c)
        /\ Count(down, {"same"}, Len(down)) = common[<<r + 1, c>>]
    BY <1>7 DEF ShowsBoth, common
  <2>5. /\ ShowsFrom(right, FromOld, old, r) /\ ShowsFrom(right, FromNew, new, c + 1)
        /\ Count(right, {"same"}, Len(right)) = common[<<r, c + 1>>]
    BY <1>7 DEF ShowsBoth, common
  <2>6. /\ w[<<r, c>>] = WalkFrom(w, old, new, r, c)
        /\ common[<<r, c>>] = IF old[r] = new[c] THEN common[<<r + 1, c + 1>>] + 1
                              ELSE IF common[<<r + 1, c>>] >= common[<<r, c + 1>>]
                              THEN common[<<r + 1, c>>] ELSE common[<<r, c + 1>>]
    BY <1>2 DEF Walks, Tabulates
  <2>7. /\ common[<<r + 1, c + 1>>] \in Nat /\ common[<<r + 1, c>>] \in Nat
        /\ common[<<r, c + 1>>] \in Nat
    BY <2>1, <1>3
  <2>. HIDE DEF both, down, right
  <2>8. CASE old[r] = new[c]
    <3>. DEFINE diff == <<DiffLine("same", old[r])>> \o both
    <3>1. w[<<r, c>>] = diff /\ common[<<r, c>>] = common[<<r + 1, c + 1>>] + 1
      BY <2>6, <2>8 DEF WalkFrom, both
    <3>2. ShowsFrom(diff, FromOld, old, r)
      BY <2>2, <2>3, ShowsMore DEF FromOld
    <3>3. ShowsFrom(<<DiffLine("same", new[c])>> \o both, FromNew, new, c)
      BY <2>2, <2>3, ShowsMore DEF FromNew
    <3>4. Count(diff, {"same"}, Len(diff)) = Count(both, {"same"}, Len(both)) + 1
      BY <2>2, SameMore
    <3>. HIDE DEF diff
    <3>5. ShowsFrom(diff, FromNew, new, c)
      BY <3>3, <2>8 DEF diff
    <3>6. ShowsBoth(w[<<r, c>>], old, new, <<r, c>>)
      BY <3>1, <3>2, <3>4, <3>5, <2>3 DEF ShowsBoth, common
    <3>. QED
      BY <3>6, <2>1, <1>3
  <2>9. CASE old[r] # new[c] /\ common[<<r + 1, c>>] >= common[<<r, c + 1>>]
    <3>. DEFINE diff == <<DiffLine("removed", old[r])>> \o down
    <3>1. w[<<r, c>>] = diff /\ common[<<r, c>>] = common[<<r + 1, c>>]
      BY <2>6, <2>9 DEF WalkFrom, down, common
    <3>2. ShowsFrom(diff, FromOld, old, r)
      BY <2>2, <2>4, ShowsMore DEF FromOld
    <3>3. ShowsFrom(diff, FromNew, new, c)
      BY <2>1, <2>2, <2>4, <1>1, ShowsOther DEF FromNew
    <3>4. Count(diff, {"same"}, Len(diff)) = Count(down, {"same"}, Len(down)) + 0
      BY <2>2, SameMore
    <3>. HIDE DEF diff
    <3>5. ShowsBoth(w[<<r, c>>], old, new, <<r, c>>)
      BY <3>1, <3>2, <3>3, <3>4, <2>4, <2>7 DEF ShowsBoth, common
    <3>. QED
      BY <3>5, <2>1, <1>3
  <2>10. CASE old[r] # new[c] /\ ~(common[<<r + 1, c>>] >= common[<<r, c + 1>>])
    <3>. DEFINE diff == <<DiffLine("added", new[c])>> \o right
    <3>1. w[<<r, c>>] = diff /\ common[<<r, c>>] = common[<<r, c + 1>>]
      BY <2>6, <2>10 DEF WalkFrom, right, common
    <3>2. ShowsFrom(diff, FromNew, new, c)
      BY <2>2, <2>5, ShowsMore DEF FromNew
    <3>3. ShowsFrom(diff, FromOld, old, r)
      BY <2>1, <2>2, <2>5, <1>1, ShowsOther DEF FromOld
    <3>4. Count(diff, {"same"}, Len(diff)) = Count(right, {"same"}, Len(right)) + 0
      BY <2>2, SameMore
    <3>. HIDE DEF diff
    <3>5. ShowsBoth(w[<<r, c>>], old, new, <<r, c>>)
      BY <3>1, <3>2, <3>3, <3>4, <2>5, <2>7 DEF ShowsBoth, common
    <3>. QED
      BY <3>5, <2>1, <1>3
  <2>. QED
    BY <2>8, <2>9, <2>10
<1>8. \A cell \in Grid(M, N) : cell \in S
  <2>. HIDE DEF S, M, N
  <2>. QED
    BY <1>1, <1>5, <1>6, <1>7, GridInduction
<1>9. Cells(old, new) = Grid(M, N)
  BY DEF Cells, Grid
<1>. QED
  BY <1>8, <1>9 DEF w

(* Lines that both versions have in the same order, from two places on: where *)
(* they are in the old version and where in the new one.                      *)
RisingFrom(n, first, last) ==
  {f \in [1..n -> first..last] : \A i, j \in 1..n : i < j => f[i] < f[j]}

Match(old, new, r, c, n, f, g) ==
  /\ n \in Nat
  /\ f \in RisingFrom(n, r, Len(old)) /\ g \in RisingFrom(n, c, Len(new))
  /\ \A k \in 1..n : old[f[k]] = new[g[k]]

(* None is longer than the table says.                                        *)
Bounded(old, new, cell) ==
  \A n, f, g : Match(old, new, cell[1], cell[2], n, f, g) => n <= CommonTable(old, new)[cell]

(* A match without its first line, and one that starts later.                 *)
LEMMA MatchTail ==
  ASSUME NEW T, NEW old \in Seq(T), NEW new \in Seq(T),
         NEW r \in 1..Len(old), NEW c \in 1..Len(new),
         NEW n, NEW f, NEW g, Match(old, new, r, c, n, f, g), n > 0
  PROVE  \E f1, g1 : Match(old, new, r + 1, c + 1, n - 1, f1, g1)
<1>. DEFINE f1 == [k \in 1..(n - 1) |-> f[k + 1]]
            g1 == [k \in 1..(n - 1) |-> g[k + 1]]
<1>1. n \in Nat /\ n - 1 \in Nat /\ 1 \in 1..n
  BY DEF Match
<1>2. /\ f \in [1..n -> r..Len(old)] /\ g \in [1..n -> c..Len(new)]
      /\ \A i, j \in 1..n : i < j => f[i] < f[j]
      /\ \A i, j \in 1..n : i < j => g[i] < g[j]
      /\ \A k \in 1..n : old[f[k]] = new[g[k]]
  BY DEF Match, RisingFrom
<1>3. \A k \in 1..(n - 1) : k + 1 \in 1..n /\ 1 < k + 1
  BY <1>1
<1>4. f1 \in RisingFrom(n - 1, r + 1, Len(old))
  <2>1. ASSUME NEW k \in 1..(n - 1) PROVE f1[k] \in (r + 1)..Len(old)
    <3>1. f[1] < f[k + 1] /\ f[1] \in r..Len(old) /\ f[k + 1] \in r..Len(old)
      BY <1>1, <1>2, <1>3
    <3>. QED
      BY <3>1
  <2>2. ASSUME NEW i \in 1..(n - 1), NEW j \in 1..(n - 1), i < j PROVE f1[i] < f1[j]
    <3>1. i + 1 \in 1..n /\ j + 1 \in 1..n /\ i + 1 < j + 1
      BY <1>3, <2>2
    <3>. QED
      BY <3>1, <1>2
  <2>3. f1 \in [1..(n - 1) -> (r + 1)..Len(old)]
    BY <2>1
  <2>. HIDE DEF f1
  <2>. QED
    BY <2>2, <2>3 DEF RisingFrom
<1>5. g1 \in RisingFrom(n - 1, c + 1, Len(new))
  <2>1. ASSUME NEW k \in 1..(n - 1) PROVE g1[k] \in (c + 1)..Len(new)
    <3>1. g[1] < g[k + 1] /\ g[1] \in c..Len(new) /\ g[k + 1] \in c..Len(new)
      BY <1>1, <1>2, <1>3
    <3>. QED
      BY <3>1
  <2>2. ASSUME NEW i \in 1..(n - 1), NEW j \in 1..(n - 1), i < j PROVE g1[i] < g1[j]
    <3>1. i + 1 \in 1..n /\ j + 1 \in 1..n /\ i + 1 < j + 1
      BY <1>3, <2>2
    <3>. QED
      BY <3>1, <1>2
  <2>3. g1 \in [1..(n - 1) -> (c + 1)..Len(new)]
    BY <2>1
  <2>. HIDE DEF g1
  <2>. QED
    BY <2>2, <2>3 DEF RisingFrom
<1>6. \A k \in 1..(n - 1) : old[f1[k]] = new[g1[k]]
  BY <1>2, <1>3
<1>. HIDE DEF f1, g1
<1>7. Match(old, new, r + 1, c + 1, n - 1, f1, g1)
  BY <1>1, <1>4, <1>5, <1>6 DEF Match
<1>. QED
  BY <1>7

LEMMA MatchLater ==
  ASSUME NEW n \in Nat, NEW first \in Nat, NEW last \in Nat,
         NEW f \in RisingFrom(n, first, last), n > 0 => f[1] > first
  PROVE  f \in RisingFrom(n, first + 1, last)
<1>1. f \in [1..n -> first..last] /\ \A i, j \in 1..n : i < j => f[i] < f[j]
  BY DEF RisingFrom
<1>2. ASSUME NEW k \in 1..n PROVE f[k] \in (first + 1)..last
  <2>1. 1 \in 1..n /\ f[1] \in first..last /\ f[k] \in first..last /\ f[1] > first
    BY <1>1
  <2>2. CASE k = 1
    BY <2>1, <2>2
  <2>3. CASE k # 1
    <3>1. f[1] < f[k]
      BY <2>1, <2>3, <1>1
    <3>. QED
      BY <2>1, <3>1
  <2>. QED
    BY <2>2, <2>3
<1>. QED
  BY <1>1, <1>2 DEF RisingFrom

LEMMA TableBounds ==
  ASSUME NEW T, NEW old \in Seq(T), NEW new \in Seq(T)
  PROVE  \A cell \in Cells(old, new) : Bounded(old, new, cell)
<1>. DEFINE M == Len(old)
            N == Len(new)
            common == CommonTable(old, new)
            S == {cell \in Cells(old, new) : Bounded(old, new, cell)}
<1>1. M \in Nat /\ N \in Nat
  OBVIOUS
<1>2. Tabulates(common, old, new)
  BY TableTabulates
<1>3. \A r \in 1..(M + 1), c \in 1..(N + 1) :
        <<r, c>> \in Cells(old, new) /\ common[<<r, c>>] \in Nat
  BY <1>2 DEF Tabulates, Cells
<1>4. M + 1 \in 1..(M + 1) /\ N + 1 \in 1..(N + 1)
  BY <1>1
<1>. HIDE DEF common
<1>5. ASSUME NEW r \in 1..(M + 1), NEW c \in 1..(N + 1), r = M + 1 \/ c = N + 1
      PROVE  <<r, c>> \in S
  <2>1. common[<<r, c>>] = 0
    BY <1>2, <1>5 DEF Tabulates
  <2>2. ASSUME NEW n, NEW f, NEW g, Match(old, new, r, c, n, f, g) PROVE n <= 0
    <3>1. n \in Nat /\ f \in [1..n -> r..M] /\ g \in [1..n -> c..N]
      BY <2>2 DEF Match, RisingFrom
    <3>2. r..M = {} \/ c..N = {}
      BY <1>1, <1>5
    <3>3. 1 \notin 1..n
      BY <3>1, <3>2
    <3>. QED
      BY <3>1, <3>3
  <2>3. Bounded(old, new, <<r, c>>)
    BY <2>1, <2>2 DEF Bounded, common
  <2>. QED
    BY <2>3, <1>3
<1>6. ASSUME NEW r \in 1..M, NEW c \in 1..N,
             <<r + 1, c + 1>> \in S, <<r + 1, c>> \in S, <<r, c + 1>> \in S
      PROVE  <<r, c>> \in S
  <2>1. r \in 1..(M + 1) /\ r + 1 \in 1..(M + 1) /\ c \in 1..(N + 1) /\ c + 1 \in 1..(N + 1)
    BY <1>1
  <2>2. /\ common[<<r + 1, c + 1>>] \in Nat /\ common[<<r + 1, c>>] \in Nat
        /\ common[<<r, c + 1>>] \in Nat /\ common[<<r, c>>] \in Nat
    BY <2>1, <1>3
  <2>3. common[<<r, c>>] = IF old[r] = new[c] THEN common[<<r + 1, c + 1>>] + 1
                           ELSE IF common[<<r + 1, c>>] >= common[<<r, c + 1>>]
                           THEN common[<<r + 1, c>>] ELSE common[<<r, c + 1>>]
    BY <1>2 DEF Tabulates
  <2>4. \A n, f, g :
          /\ Match(old, new, r + 1, c + 1, n, f, g) => n <= common[<<r + 1, c + 1>>]
          /\ Match(old, new, r + 1, c, n, f, g) => n <= common[<<r + 1, c>>]
          /\ Match(old, new, r, c + 1, n, f, g) => n <= common[<<r, c + 1>>]
    BY <1>6 DEF Bounded, common
  <2>5. ASSUME NEW n, NEW f, NEW g, Match(old, new, r, c, n, f, g) PROVE n <= common[<<r, c>>]
    <3>1. /\ n \in Nat /\ f \in RisingFrom(n, r, M) /\ g \in RisingFrom(n, c, N)
          /\ \A k \in 1..n : old[f[k]] = new[g[k]]
      BY <2>5 DEF Match
    <3>2. CASE n = 0
      BY <3>2, <2>2
    <3>3. CASE n > 0 /\ old[r] = new[c]
      <4>1. PICK f1, g1 : Match(old, new, r + 1, c + 1, n - 1, f1, g1)
        BY <2>5, <3>3, MatchTail
      <4>2. n - 1 <= common[<<r + 1, c + 1>>]
        BY <4>1, <2>4
      <4>. QED
        BY <3>1, <3>3, <4>2, <2>2, <2>3
    <3>4. CASE n > 0 /\ old[r] # new[c]
      <4>1. 1 \in 1..n /\ f[1] \in r..M /\ g[1] \in c..N
        BY <3>1, <3>4 DEF RisingFrom
      <4>2. f[1] > r \/ g[1] > c
        BY <4>1, <3>1, <3>4
      <4>3. CASE f[1] > r
        <5>1. f \in RisingFrom(n, r + 1, M)
          BY <3>1, <4>3, <1>1, MatchLater
        <5>2. Match(old, new, r + 1, c, n, f, g)
          BY <3>1, <5>1 DEF Match
        <5>3. n <= common[<<r + 1, c>>]
          BY <5>2, <2>4
        <5>. QED
          BY <3>1, <3>4, <5>3, <2>2, <2>3
      <4>4. CASE g[1] > c
        <5>1. g \in RisingFrom(n, c + 1, N)
          BY <3>1, <4>4, <1>1, MatchLater
        <5>2. Match(old, new, r, c + 1, n, f, g)
          BY <3>1, <5>1 DEF Match
        <5>3. n <= common[<<r, c + 1>>]
          BY <5>2, <2>4
        <5>. QED
          BY <3>1, <3>4, <5>3, <2>2, <2>3
      <4>. QED
        BY <4>2, <4>3, <4>4
    <3>. QED
      BY <3>1, <3>2, <3>3, <3>4
  <2>6. Bounded(old, new, <<r, c>>)
    BY <2>5 DEF Bounded, common
  <2>. QED
    BY <2>6, <2>1, <1>3
<1>7. \A cell \in Grid(M, N) : cell \in S
  <2>. HIDE DEF S, M, N
  <2>. QED
    BY <1>1, <1>4, <1>5, <1>6, GridInduction
<1>8. Cells(old, new) = Grid(M, N)
  BY DEF Cells, Grid
<1>. QED
  BY <1>7, <1>8

(* The smaller of two numbers.                                                *)
LEMMA MinOfTwo ==
  ASSUME NEW a \in Nat, NEW b \in Nat
  PROVE  Min({a, b}) = IF a <= b THEN a ELSE b
<1>. DEFINE m == IF a <= b THEN a ELSE b
<1>1. m \in {a, b} /\ \A x \in {a, b} : m <= x
  OBVIOUS
<1>2. \A y \in {a, b} : (\A x \in {a, b} : y <= x) => y = m
  OBVIOUS
<1>. HIDE DEF m
<1>3. Min({a, b}) = m
  BY <1>1, <1>2 DEF Min
<1>. QED
  BY <1>3 DEF m

(* What is shown of a version stays so when the rest is cut off.              *)
LEMMA ShowsOfCut ==
  ASSUME NEW X, NEW diff \in Seq(X), NEW kinds, NEW text, Len(text) \in Nat,
         ShowsOf(diff, kinds, text), NEW n \in 0..Len(diff)
  PROVE  ShowsOf(SubSeq(diff, 1, n), kinds, text)
<1>. DEFINE part == SubSeq(diff, 1, n)
<1>1. Len(part) = n /\ \A q \in 1..n : part[q] = diff[q]
  OBVIOUS
<1>. HIDE DEF part
<1>2. \A p \in 0..n : Count(part, kinds, p) = Count(diff, kinds, p)
  <2>1. ASSUME NEW p \in 0..n PROVE Count(part, kinds, p) = Count(diff, kinds, p)
    <3>1. p \in Nat /\ \A q \in 1..p : part[q].kind \in kinds <=> diff[q].kind \in kinds
      BY <1>1
    <3>. QED
      BY <3>1, CountAlike
  <2>. QED
    BY <2>1
<1>3. Count(part, kinds, Len(part)) <= Len(text)
  <2>1. Count(diff, kinds, n) <= Count(diff, kinds, Len(diff))
    BY CountGrows
  <2>2. Count(diff, kinds, n) \in Nat /\ Count(diff, kinds, Len(diff)) \in Nat
    BY CountTyped
  <2>3. Count(part, kinds, Len(part)) = Count(diff, kinds, n)
    BY <1>1, <1>2
  <2>. QED
    BY <2>1, <2>2, <2>3 DEF ShowsOf
<1>4. ASSUME NEW p \in 1..Len(part), part[p].kind \in kinds
      PROVE  part[p].text = text[Count(part, kinds, p)]
  <2>1. p \in 1..Len(diff) /\ p \in 0..n /\ part[p] = diff[p]
    BY <1>1
  <2>. QED
    BY <2>1, <1>2, <1>4 DEF ShowsOf
<1>. QED
  BY <1>3, <1>4 DEF ShowsOf, part

(* Three parts one behind the other, the second of one line.                  *)
MadeOf(all, X, a, x, b, m, k) ==
  /\ all \in Seq(X) /\ Len(all) = m + 1 + k
  /\ \A q \in 1..m : all[q] = a[q]
  /\ all[m + 1] = x
  /\ \A q \in (m + 2)..(m + 1 + k) : all[q] = b[q - m - 1]

LEMMA Parts ==
  ASSUME NEW X, NEW a \in Seq(X), NEW x \in X, NEW b \in Seq(X),
         NEW m \in Nat, NEW k \in Nat, Len(a) = m, Len(b) = k
  PROVE  MadeOf(a \o <<x>> \o b, X, a, x, b, m, k)
<1>. DEFINE front == a \o <<x>>
<1>1. front \in Seq(X) /\ Len(front) = m + 1 /\ front[m + 1] = x
  OBVIOUS
<1>2. \A q \in 1..m : front[q] = a[q]
  OBVIOUS
<1>. DEFINE all == front \o b
<1>. HIDE DEF front
<1>3. all \in Seq(X) /\ Len(all) = m + 1 + k
  BY <1>1
<1>4. ASSUME NEW q \in 1..(m + 1) PROVE all[q] = front[q]
  BY <1>1
<1>5. ASSUME NEW q \in (m + 2)..(m + 1 + k) PROVE all[q] = b[q - m - 1]
  <2>1. q \in 1..(Len(front) + Len(b)) /\ ~(q <= Len(front)) /\ q - Len(front) = q - m - 1
    BY <1>1
  <2>. QED
    BY <2>1, <1>1
<1>. HIDE DEF all
<1>6. m + 1 \in 1..(m + 1) /\ \A q \in 1..m : q \in 1..(m + 1)
  OBVIOUS
<1>7. MadeOf(all, X, a, x, b, m, k)
  BY <1>1, <1>2, <1>3, <1>4, <1>5, <1>6 DEF MadeOf
<1>. QED
  BY <1>7 DEF all, front

(* The simplified comparison: first lines of both versions about a summary.   *)
LEMMA SimplifiedShows ==
  ASSUME NEW T, NEW old \in Seq(T), NEW new \in Seq(T), NEW summary, summary.kind = "summary",
         NEW m \in 0..Len(old), NEW k \in 0..Len(new)
  PROVE  LET diff == LinesFrom("removed", old, 1, m) \o <<summary>> \o LinesFrom("added", new, 1, k)
         IN /\ diff \in Seq(ShownLine(T) \cup {summary})
            /\ ShowsOf(diff, FromOld, old) /\ ShowsOf(diff, FromNew, new)
<1>. DEFINE X == ShownLine(T) \cup {summary}
            a == LinesFrom("removed", old, 1, m)
            b == LinesFrom("added", new, 1, k)
            diff == a \o <<summary>> \o b
<1>1. /\ a \in Seq(X) /\ Len(a) = m
      /\ \A q \in 1..m : a[q].kind = "removed" /\ a[q].text = old[q]
  <2>1. ASSUME NEW q \in 1..m PROVE DiffLine("removed", old[1 + q - 1]) \in X /\ 1 + q - 1 = q
    BY DEF DiffLine, ShownLine
  <2>. QED
    BY <2>1 DEF LinesFrom, DiffLine
<1>2. /\ b \in Seq(X) /\ Len(b) = k
      /\ \A q \in 1..k : b[q].kind = "added" /\ b[q].text = new[q]
  <2>1. ASSUME NEW q \in 1..k PROVE DiffLine("added", new[1 + q - 1]) \in X /\ 1 + q - 1 = q
    BY DEF DiffLine, ShownLine
  <2>. QED
    BY <2>1 DEF LinesFrom, DiffLine
<1>. HIDE DEF a, b
<1>3. /\ diff \in Seq(X) /\ Len(diff) = m + 1 + k
      /\ \A q \in 1..m : diff[q] = a[q]
      /\ diff[m + 1] = summary
      /\ \A q \in (m + 2)..(m + 1 + k) : diff[q] = b[q - m - 1]
  <2>. HIDE DEF X
  <2>1. summary \in X
    BY DEF X
  <2>2. m \in Nat /\ k \in Nat
    OBVIOUS
  <2>3. a \in Seq(X) /\ Len(a) = m /\ b \in Seq(X) /\ Len(b) = k
    BY <1>1, <1>2
  <2>4. MadeOf(diff, X, a, summary, b, m, k)
    BY <2>1, <2>2, <2>3, Parts, Zenon
  <2>. HIDE DEF diff
  <2>. QED
    BY <2>4 DEF MadeOf
<1>. HIDE DEF diff, X
<1>4. /\ \A q \in 1..m : diff[q].kind = "removed" /\ diff[q].text = old[q]
      /\ \A q \in (m + 2)..(m + 1 + k) : diff[q].kind = "added" /\ diff[q].text = new[q - m - 1]
  <2>1. \A q \in (m + 2)..(m + 1 + k) : q - m - 1 \in 1..k
    OBVIOUS
  <2>2. \A q \in 1..m : diff[q].kind = "removed" /\ diff[q].text = old[q]
    BY <1>1, <1>3
  <2>3. \A q \in (m + 2)..(m + 1 + k) : diff[q].kind = "added" /\ diff[q].text = new[q - m - 1]
    BY <2>1, <1>2, <1>3
  <2>. QED
    BY <2>2, <2>3
<1>5. \A q \in 1..(m + 1 + k) : /\ diff[q].kind \in FromOld <=> q <= m
                                /\ diff[q].kind \in FromNew <=> q > m + 1
  <2>1. ASSUME NEW q \in 1..(m + 1 + k)
        PROVE  /\ diff[q].kind \in FromOld <=> q <= m
               /\ diff[q].kind \in FromNew <=> q > m + 1
    <3>1. q \in 1..m \/ q = m + 1 \/ q \in (m + 2)..(m + 1 + k)
      OBVIOUS
    <3>2. CASE q \in 1..m
      <4>1. diff[q].kind = "removed" /\ q <= m /\ ~(q > m + 1)
        BY <3>2, <1>4
      <4>. QED
        BY <4>1 DEF FromOld, FromNew
    <3>3. CASE q = m + 1
      <4>1. diff[q].kind = "summary" /\ ~(q <= m) /\ ~(q > m + 1)
        BY <3>3, <1>3
      <4>. QED
        BY <4>1 DEF FromOld, FromNew
    <3>4. CASE q \in (m + 2)..(m + 1 + k)
      <4>1. diff[q].kind = "added" /\ ~(q <= m) /\ q > m + 1
        BY <3>4, <1>4
      <4>. QED
        BY <4>1 DEF FromOld, FromNew
    <3>. QED
      BY <3>1, <3>2, <3>3, <3>4
  <2>. QED
    BY <2>1
<1>6. ShowsOf(diff, FromOld, old)
  <2>1. ASSUME NEW p \in 1..(m + 1 + k) PROVE Count(diff, FromOld, p) = IF p <= m THEN p ELSE m
    <3>1. Counted(diff, FromOld, p) = 1..(IF p <= m THEN p ELSE m)
      BY <1>5 DEF Counted
    <3>2. Cardinality(1..(IF p <= m THEN p ELSE m)) = IF p <= m THEN p ELSE m
      BY FS_Interval
    <3>. QED
      BY <3>1, <3>2 DEF Count, Counted
  <2>2. Count(diff, FromOld, Len(diff)) = m
    BY <2>1, <1>3
  <2>3. \A p \in 1..Len(diff) :
          diff[p].kind \in FromOld => diff[p].text = old[Count(diff, FromOld, p)]
    <3>1. ASSUME NEW p \in 1..(m + 1 + k), diff[p].kind \in FromOld
          PROVE  diff[p].text = old[Count(diff, FromOld, p)]
      <4>1. p <= m
        BY <3>1, <1>5
      <4>2. p \in 1..m /\ Count(diff, FromOld, p) = p
        BY <4>1, <2>1
      <4>. QED
        BY <4>2, <1>4
    <3>. QED
      BY <3>1, <1>3
  <2>. QED
    BY <2>2, <2>3 DEF ShowsOf
<1>7. ShowsOf(diff, FromNew, new)
  <2>1. ASSUME NEW p \in 1..(m + 1 + k)
        PROVE  Count(diff, FromNew, p) = IF p > m + 1 THEN p - m - 1 ELSE 0
    <3>1. Counted(diff, FromNew, p) = (m + 2)..p
      BY <1>5 DEF Counted
    <3>2. Cardinality((m + 2)..p) = IF m + 2 > p THEN 0 ELSE p - (m + 2) + 1
      BY FS_Interval
    <3>3. (IF m + 2 > p THEN 0 ELSE p - (m + 2) + 1) = IF p > m + 1 THEN p - m - 1 ELSE 0
      OBVIOUS
    <3>. QED
      BY <3>1, <3>2, <3>3, Zenon DEF Count, Counted
  <2>2. Count(diff, FromNew, Len(diff)) = k
    <3>1. m + 1 + k \in 1..(m + 1 + k)
      OBVIOUS
    <3>2. Count(diff, FromNew, m + 1 + k) =
            IF m + 1 + k > m + 1 THEN (m + 1 + k) - m - 1 ELSE 0
      BY <3>1, <2>1
    <3>3. Count(diff, FromNew, m + 1 + k) = k
      BY <3>2
    <3>. QED
      BY <3>3, <1>3
  <2>3. \A p \in 1..Len(diff) :
          diff[p].kind \in FromNew => diff[p].text = new[Count(diff, FromNew, p)]
    <3>1. ASSUME NEW p \in 1..(m + 1 + k), diff[p].kind \in FromNew
          PROVE  diff[p].text = new[Count(diff, FromNew, p)]
      <4>1. p > m + 1
        BY <3>1, <1>5
      <4>2. p \in (m + 2)..(m + 1 + k) /\ Count(diff, FromNew, p) = p - m - 1
        BY <4>1, <2>1
      <4>. QED
        BY <4>2, <1>4
    <3>. QED
      BY <3>1, <1>3
  <2>. QED
    BY <2>2, <2>3 DEF ShowsOf
<1>. QED
  BY <1>3, <1>6, <1>7 DEF diff, a, b, X

(* What the walk through the whole table shows.                               *)
LEMMA WalkIsExact ==
  ASSUME NEW T, NEW old \in Seq(T), NEW new \in Seq(T)
  PROVE  LET diff == DiffWalk(old, new)[<<1, 1>>]
         IN /\ diff \in Seq(ShownLine(T))
            /\ ShowsOf(diff, FromOld, old) /\ ShowsOf(diff, FromNew, new)
            /\ Count(diff, FromOld, Len(diff)) = Len(old)
            /\ Count(diff, FromNew, Len(diff)) = Len(new)
            /\ NoneLonger(old, new, Count(diff, {"same"}, Len(diff)))
<1>. DEFINE diff == DiffWalk(old, new)[<<1, 1>>]
<1>1. <<1, 1>> \in Cells(old, new)
  BY DEF Cells
<1>2. diff \in Seq(ShownLine(T))
  BY <1>1, WalkWalks DEF Walks
<1>3. ShowsBoth(diff, old, new, <<1, 1>>)
  BY <1>1, WalkShows
<1>4. Bounded(old, new, <<1, 1>>)
  BY <1>1, TableBounds
<1>. HIDE DEF diff
<1>5. ASSUME NEW text, Len(text) \in Nat, NEW kinds, ShowsFrom(diff, kinds, text, 1)
      PROVE  ShowsOf(diff, kinds, text) /\ Count(diff, kinds, Len(diff)) = Len(text)
  <2>1. Count(diff, kinds, Len(diff)) = Len(text)
    BY <1>5 DEF ShowsFrom
  <2>2. \A p \in 1..Len(diff) : 1 - 1 + Count(diff, kinds, p) = Count(diff, kinds, p)
    BY CountTyped
  <2>3. \A p \in 1..Len(diff) :
          diff[p].kind \in kinds => diff[p].text = text[Count(diff, kinds, p)]
    BY <1>5, <2>2 DEF ShowsFrom
  <2>. QED
    BY <1>5, <2>1, <2>3 DEF ShowsOf
<1>6. /\ ShowsOf(diff, FromOld, old) /\ Count(diff, FromOld, Len(diff)) = Len(old)
      /\ ShowsOf(diff, FromNew, new) /\ Count(diff, FromNew, Len(diff)) = Len(new)
  <2>1. ShowsFrom(diff, FromOld, old, 1) /\ ShowsFrom(diff, FromNew, new, 1)
    BY <1>3 DEF ShowsBoth
  <2>2. Len(old) \in Nat /\ Len(new) \in Nat
    OBVIOUS
  <2>. QED
    BY <2>1, <2>2, <1>5
<1>7. NoneLonger(old, new, Count(diff, {"same"}, Len(diff)))
  <2>1. Count(diff, {"same"}, Len(diff)) = CommonTable(old, new)[<<1, 1>>]
    BY <1>3 DEF ShowsBoth
  <2>2. ASSUME NEW n \in 0..Len(old), NEW f \in Rising(n, Len(old)), NEW g \in Rising(n, Len(new)),
               \A k \in 1..n : old[f[k]] = new[g[k]]
        PROVE  n <= CommonTable(old, new)[<<1, 1>>]
    <3>1. Match(old, new, 1, 1, n, f, g)
      BY <2>2 DEF Match, Rising, RisingFrom
    <3>. QED
      BY <3>1, <1>4 DEF Bounded
  <2>. QED
    BY <2>1, <2>2 DEF NoneLonger
<1>. QED
  BY <1>2, <1>6, <1>7 DEF diff

(* The comparison of two versions is exact, for all versions, all limits of   *)
(* the table and of the lines: what it shows of each version are its lines,   *)
(* in their order and from the first on; and what is neither simplified nor   *)
(* cut shows both whole and as many lines as the same as any sequence of      *)
(* lines has that both have in common.                                        *)
THEOREM DiffIsExactAlways ==
  ASSUME NEW T, NEW old \in Seq(T), NEW new \in Seq(T),
         NEW maxCells \in Nat, NEW maxLines \in Nat \ {0}
  PROVE  DiffIsExact(old, new, maxCells, maxLines)
<1>. DEFINE side == Max({1, (maxLines - 1) \div 2})
            first(kind, text) == LinesFrom(kind, text, 1, Min({side, Len(text)}))
            summary == DiffLine("summary", <<Len(old), Len(new)>>)
            simplified == first("removed", old) \o <<summary>> \o first("added", new)
            large == Len(old) * Len(new) > maxCells
            whole == IF large THEN simplified ELSE DiffWalk(old, new)[<<1, 1>>]
            X == ShownLine(T) \cup {summary}
            n == Min({maxLines, Len(whole)})
            diff == SubSeq(whole, 1, n)
<1>1. Len(old) \in Nat /\ Len(new) \in Nat
  OBVIOUS
<1>2. side \in Nat
  <2>1. 1 \in Nat /\ (maxLines - 1) \div 2 \in Nat
    OBVIOUS
  <2>2. Max({1, (maxLines - 1) \div 2}) =
          IF 1 >= (maxLines - 1) \div 2 THEN 1 ELSE (maxLines - 1) \div 2
    BY <2>1, MaxOfTwo, Zenon
  <2>. QED
    BY <2>1, <2>2
<1>. HIDE DEF side
<1>3. /\ simplified \in Seq(X)
      /\ ShowsOf(simplified, FromOld, old) /\ ShowsOf(simplified, FromNew, new)
  <2>1. Min({side, Len(old)}) \in 0..Len(old) /\ Min({side, Len(new)}) \in 0..Len(new)
    <3>1. Min({side, Len(old)}) = IF side <= Len(old) THEN side ELSE Len(old)
      BY <1>1, <1>2, MinOfTwo, Zenon
    <3>2. Min({side, Len(new)}) = IF side <= Len(new) THEN side ELSE Len(new)
      BY <1>1, <1>2, MinOfTwo, Zenon
    <3>. QED
      BY <3>1, <3>2, <1>1, <1>2
  <2>2. summary.kind = "summary"
    BY DEF DiffLine
  <2>. HIDE DEF summary
  <2>. QED
    BY <2>1, <2>2, SimplifiedShows, Zenon
<1>4. LET walk == DiffWalk(old, new)[<<1, 1>>]
      IN walk \in Seq(X) /\ ShowsOf(walk, FromOld, old) /\ ShowsOf(walk, FromNew, new)
  <2>1. DiffWalk(old, new)[<<1, 1>>] \in Seq(ShownLine(T))
    BY WalkIsExact
  <2>2. DiffWalk(old, new)[<<1, 1>>] \in Seq(X)
    BY <2>1
  <2>. HIDE DEF X
  <2>. QED
    BY <2>2, WalkIsExact
<1>. HIDE DEF simplified, X, large
<1>5. whole \in Seq(X) /\ ShowsOf(whole, FromOld, old) /\ ShowsOf(whole, FromNew, new)
  BY <1>3, <1>4, Zenon
<1>6. ~large => /\ Count(whole, FromOld, Len(whole)) = Len(old)
                /\ Count(whole, FromNew, Len(whole)) = Len(new)
                /\ NoneLonger(old, new, Count(whole, {"same"}, Len(whole)))
  BY WalkIsExact, Zenon
<1>. HIDE DEF whole
<1>7. n \in 0..Len(whole) /\ n <= maxLines /\ (n < maxLines => n = Len(whole))
  <2>1. Len(whole) \in Nat
    BY <1>5
  <2>2. n = IF maxLines <= Len(whole) THEN maxLines ELSE Len(whole)
    BY <2>1, MinOfTwo, Zenon
  <2>. QED
    BY <2>1, <2>2
<1>. HIDE DEF n
<1>8. Len(diff) = n
  BY <1>5, <1>7
<1>9. ShowsOf(diff, FromOld, old) /\ ShowsOf(diff, FromNew, new)
  BY <1>1, <1>5, <1>7, ShowsOfCut
<1>10. ASSUME Len(old) * Len(new) <= maxCells, Len(diff) < maxLines
       PROVE  ~large /\ diff = whole
  <2>1. ~large
    BY <1>1, <1>10 DEF large
  <2>2. diff = SubSeq(whole, 1, Len(whole))
    BY <1>7, <1>8, <1>10
  <2>3. SubSeq(whole, 1, Len(whole)) = whole
    BY <1>5
  <2>. QED
    BY <2>1, <2>2, <2>3
<1>11. DiffTextLines(old, new, maxCells, maxLines) = diff
  BY DEF DiffTextLines, diff, n, whole, large, simplified, side
<1>. HIDE DEF diff
<1>12. Len(old) * Len(new) <= maxCells /\ Len(diff) < maxLines =>
         /\ Count(diff, FromOld, Len(diff)) = Len(old)
         /\ Count(diff, FromNew, Len(diff)) = Len(new)
         /\ NoneLonger(old, new, Count(diff, {"same"}, Len(diff)))
  BY <1>6, <1>10, Zenon
<1>13. Len(diff) <= maxLines
  BY <1>7, <1>8
<1>. QED
  BY <1>9, <1>11, <1>12, <1>13, Zenon DEF DiffIsExact, FromOld, FromNew
=============================================================================
