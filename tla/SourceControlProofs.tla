-------------------------- MODULE SourceControlProofs --------------------------
(***************************************************************************)
(* Rewriting the source loses no code of the user, but for the end of it   *)
(* in a crash and a last line without newline, and no choice of a function *)
(* whose name is apart from the others, for any names, kinds, levels,      *)
(* lines of code and experiments.                                          *)
(***************************************************************************)
EXTENDS SourceControl, NumberLemmas

-------------------------------------------------------------------------------
(* Filtered sequences *)

LEMMA SeqFacts ==
    ASSUME NEW X, NEW s \in Seq(X)
    PROVE  /\ Len(s) \in Nat /\ DOMAIN s = 1 .. Len(s)
           /\ \A n \in 1 .. Len(s) : s[n] \in X
OBVIOUS

\* t is what the first n elements of s have in S, pos says from where.
Picks(t, s, S, n, pos) ==
    /\ pos \in [1 .. Len(t) -> 1 .. n]
    /\ \A j \in 1 .. Len(t) : t[j] = s[pos[j]] /\ s[pos[j]] \in S
    /\ \A i, j \in 1 .. Len(t) : i < j => pos[i] < pos[j]
    /\ \A i \in 1 .. n : s[i] \in S => \E j \in 1 .. Len(t) : pos[j] = i

LEMMA PicksMore ==
    ASSUME NEW X, NEW s \in Seq(X), NEW S, NEW n \in Nat, n < Len(s),
           NEW t \in Seq(X), NEW pos, Picks(t, s, S, n, pos)
    PROVE  LET u == IF s[n + 1] \in S THEN Append(t, s[n + 1]) ELSE t
           IN  u \in Seq(X) /\ \E more : Picks(u, s, S, n + 1, more)
<1> DEFINE u == IF s[n + 1] \in S THEN Append(t, s[n + 1]) ELSE t
           L == Len(t)
<1>1. L \in Nat /\ n + 1 \in 1 .. Len(s) /\ s[n + 1] \in X
  OBVIOUS
<1>0. /\ \A j \in 1 .. L : pos[j] \in 1 .. n /\ t[j] = s[pos[j]] /\ s[pos[j]] \in S
      /\ \A i, j \in 1 .. L : i < j => pos[i] < pos[j]
      /\ \A i \in 1 .. n : s[i] \in S => \E j \in 1 .. L : pos[j] = i
  BY <1>1 DEF Picks
<1>2. CASE s[n + 1] \notin S
  <2>1. u = t
    BY <1>2
  <2>2. pos \in [1 .. Len(t) -> 1 .. n + 1]
    BY DEF Picks
  <2>3. \A i \in 1 .. n + 1 : i \in 1 .. n \/ i = n + 1
    OBVIOUS
  <2>4. Picks(t, s, S, n + 1, pos)
    BY <1>2, <2>2, <2>3 DEF Picks
  <2> QED  BY <2>1, <2>4
<1>3. CASE s[n + 1] \in S
  <2> DEFINE more == [j \in 1 .. L + 1 |-> IF j = L + 1 THEN n + 1 ELSE pos[j]]
  <2>1. /\ u \in Seq(X) /\ Len(u) = L + 1 /\ u[L + 1] = s[n + 1]
        /\ \A j \in 1 .. L : u[j] = t[j]
    BY <1>1, <1>3
  <2> HIDE DEF u, L
  <2>2. /\ \A j \in 1 .. L : pos[j] \in 1 .. n /\ more[j] = pos[j]
        /\ more[L + 1] = n + 1
        /\ \A j \in 1 .. L + 1 : j \in 1 .. L \/ j = L + 1
        /\ 1 .. L \subseteq 1 .. L + 1 /\ L + 1 \in 1 .. L + 1
    BY <1>0, <1>1
  <2>3. more \in [1 .. Len(u) -> 1 .. n + 1]
    <3>1. \A j \in 1 .. L + 1 : more[j] \in 1 .. n + 1
      <4> HIDE DEF more
      <4>1. \A j \in 1 .. L : more[j] \in 1 .. n + 1
        BY <2>2
      <4>2. more[L + 1] \in 1 .. n + 1
        BY <2>2
      <4> QED  BY <2>2, <4>1, <4>2
    <3> QED  BY <2>1, <3>1
  <2> HIDE DEF more
  <2>4. \A j \in 1 .. Len(u) : u[j] = s[more[j]] /\ s[more[j]] \in S
    BY <1>0, <1>3, <2>1, <2>2
  <2>5. \A i, j \in 1 .. Len(u) : i < j => more[i] < more[j]
    <3> SUFFICES ASSUME NEW i \in 1 .. L + 1, NEW j \in 1 .. L + 1, i < j
                 PROVE  more[i] < more[j]
      BY <2>1
    <3>1. i \in 1 .. L
      BY <1>1
    <3>2. CASE j = L + 1
      BY <2>2, <3>1, <3>2
    <3>3. CASE j \in 1 .. L
      BY <1>0, <2>2, <3>1, <3>3
    <3> QED  BY <2>2, <3>2, <3>3
  <2>6. \A i \in 1 .. n + 1 : s[i] \in S => \E j \in 1 .. Len(u) : more[j] = i
    <3> SUFFICES ASSUME NEW i \in 1 .. n + 1, s[i] \in S
                 PROVE  \E j \in 1 .. L + 1 : more[j] = i
      BY <2>1
    <3>1. CASE i = n + 1
      BY <2>2, <3>1
    <3>2. CASE i \in 1 .. n
      BY <1>0, <2>2, <3>2
    <3> QED  BY <3>1, <3>2
  <2>7. Picks(u, s, S, n + 1, more)
    BY <2>3, <2>4, <2>5, <2>6 DEF Picks
  <2> QED  BY <2>1, <2>7 DEF u
<1> QED  BY <1>2, <1>3

\* Only picks from the whole sequence.
LEMMA OnlyFacts ==
    ASSUME NEW X, NEW s \in Seq(X), NEW S
    PROVE  /\ Only(s, S) \in Seq(X)
           /\ \E pos : Picks(Only(s, S), s, S, Len(s), pos)
<1> DEFINE K == Len(s)
           F == Seq(X)
           next(t, n) == IF s[n] \in S THEN Append(t, s[n]) ELSE t
           step == [q \in F \X (1 .. K) |-> next(q[1], q[2])]
           Solves(g) == g = [n \in 0 .. K |->
               IF n = 0 THEN <<>> ELSE next(g[n - 1], n)]
<1>1. K \in Nat /\ \A n \in 1 .. K : s[n] \in X
  OBVIOUS
<1>2. step \in [F \X (1 .. K) -> F]
  BY <1>1
<1>3. \A t \in F, n \in 1 .. K : step[<<t, n>>] = next(t, n)
  OBVIOUS
<1>4. <<>> \in F
  OBVIOUS
<1> HIDE DEF step, K, F
<1>5. PICK g \in [0 .. K -> F] : Iterates(g, K, <<>>, step)
  BY <1>1, <1>2, <1>4, Iteration
<1>6. \A n \in 1 .. K : g[n] = next(g[n - 1], n)
  <2> SUFFICES ASSUME NEW n \in 1 .. K PROVE g[n] = next(g[n - 1], n)
    OBVIOUS
  <2>1. g[n - 1] \in F
    BY <1>1
  <2> HIDE DEF next
  <2> QED  BY <1>3, <1>5, <2>1 DEF Iterates
<1>7. Solves(g)
  <2>1. \A n \in 0 .. K :
          g[n] = IF n = 0 THEN <<>> ELSE next(g[n - 1], n)
    <3> HIDE DEF next
    <3> QED  BY <1>1, <1>5, <1>6 DEF Iterates
  <2> QED  BY <2>1
<1> DEFINE h == CHOOSE f : Solves(f)
<1>8. Only(s, S) = h[K]
  BY DEF Only, K
<1>9. Solves(h)
  <2> HIDE DEF Solves
  <2> QED  BY <1>7
<1>10. h[0] = <<>> /\ \A n \in 1 .. K : h[n] = next(h[n - 1], n)
  <2> HIDE DEF h, next
  <2> QED  BY <1>1, <1>9
<1> HIDE DEF h, Solves
<1> DEFINE Good == {n \in 0 .. K : h[n] \in Seq(X) /\ \E pos : Picks(h[n], s, S, n, pos)}
<1>11. 0 \in Good
  <2>1. Picks(<<>>, s, S, 0, [j \in 1 .. 0 |-> 0])
    BY DEF Picks
  <2>2. h[0] \in Seq(X) /\ Picks(h[0], s, S, 0, [j \in 1 .. 0 |-> 0]) /\ 0 \in 0 .. K
    BY <1>1, <1>10, <2>1
  <2> QED  BY <2>2
<1>12. ASSUME NEW n \in Nat, n < K, n \in Good PROVE n + 1 \in Good
  <2>1. PICK pos : Picks(h[n], s, S, n, pos)
    BY <1>12
  <2>2. h[n] \in Seq(X) /\ n < Len(s) /\ n + 1 \in 1 .. K /\ (n + 1) - 1 = n
    BY <1>12 DEF K
  <2>3. h[n + 1] = IF s[n + 1] \in S THEN Append(h[n], s[n + 1]) ELSE h[n]
    BY <1>10, <2>2
  <2>4. h[n + 1] \in Seq(X) /\ \E more : Picks(h[n + 1], s, S, n + 1, more)
    BY <2>1, <2>2, <2>3, PicksMore
  <2> QED  BY <2>2, <2>4
<1> HIDE DEF Good
<1>13. \A n \in Nat : n < K /\ n \in Good => n + 1 \in Good
  BY <1>12
<1>14. \A n \in 0 .. K : n \in Good
  BY <1>1, <1>11, <1>13, InductUpTo
<1>15. K \in Good
  BY <1>1, <1>14
<1> QED  BY <1>8, <1>15 DEF Good, K

\* A set of positions has a last one.
LEMMA LastOfSet ==
    ASSUME NEW n \in Nat, NEW S, S \subseteq 1 .. n, S # {}
    PROVE  Max(S) \in S
<1> DEFINE T == {n - x : x \in S}
<1>1. T \subseteq Nat /\ T # {}
  <2>1. \A x \in S : n - x \in Nat
    OBVIOUS
  <2> QED  BY <2>1
<1>2. PICK t \in T : \A u \in T : t <= u
  <2> HIDE DEF T
  <2> QED  BY <1>1, LeastNumber
<1>3. PICK x \in S : t = n - x
  OBVIOUS
<1>4. \A y \in S : n - y \in T /\ y \in Int
  OBVIOUS
<1>5. \A y \in S : x >= y
  <2> HIDE DEF T
  <2> QED  BY <1>2, <1>3, <1>4
<1> QED  BY <1>5 DEF Max

-------------------------------------------------------------------------------
(* The choices of an experiment *)

\* Every function of the choices is a key, and is one once.
LEMMA FunctionsFacts ==
    ASSUME NEW choices \in Seq(Choice), choices # <<>>
    PROVE  LET fs == Functions(choices)
           IN  /\ fs \in Seq(Function) /\ Len(fs) \in Nat \ {0}
               /\ \A i, j \in 1 .. Len(fs) : fs[i] = fs[j] => i = j
               /\ \A i \in 1 .. Len(fs) :
                     \E n \in 1 .. Len(choices) : choices[n].function = fs[i]
               /\ \A n \in 1 .. Len(choices) :
                     \E i \in 1 .. Len(fs) : fs[i] = choices[n].function
<1> DEFINE K == Len(choices)
           fn(n) == choices[n].function
           firsts == {n \in DOMAIN choices :
                         \A m \in 1 .. n - 1 : choices[m].function # choices[n].function}
           id == [n \in DOMAIN choices |-> n]
           order == Only(id, firsts)
           fs == [n \in DOMAIN order |-> choices[order[n]].function]
<1>1. /\ K \in Nat /\ K > 0 /\ DOMAIN choices = 1 .. K
      /\ \A n \in 1 .. K : fn(n) \in Function
  <2>1. K \in Nat /\ K # 0 /\ DOMAIN choices = 1 .. K
    OBVIOUS
  <2>2. \A n \in 1 .. K : choices[n] \in Choice
    OBVIOUS
  <2> QED  BY <2>1, <2>2 DEF Choice
<1>2. id \in Seq(1 .. K) /\ Len(id) = K /\ \A n \in 1 .. K : id[n] = n
  BY <1>1
<1>3. \A n \in 1 .. K : n \in firsts <=> \A m \in 1 .. n - 1 : fn(m) # fn(n)
  BY <1>1
<1>4. Functions(choices) = fs
  BY DEF Functions
<1> HIDE DEF id, firsts, K
<1>5. order \in Seq(1 .. K)
  BY <1>2, OnlyFacts
<1>6. PICK pos : Picks(order, id, firsts, K, pos)
  BY <1>2, OnlyFacts
<1> HIDE DEF order
<1> DEFINE L == Len(order)
<1>7. L \in Nat /\ DOMAIN order = 1 .. L /\ \A j \in 1 .. L : order[j] \in 1 .. K
  BY <1>5, SeqFacts
<1>8. /\ \A j \in 1 .. L : order[j] = pos[j] /\ pos[j] \in 1 .. K /\ pos[j] \in firsts
      /\ \A i, j \in 1 .. L : i < j => pos[i] < pos[j]
      /\ \A i \in 1 .. K : i \in firsts => \E j \in 1 .. L : pos[j] = i
  BY <1>2, <1>6 DEF Picks
<1> HIDE DEF L
<1>9. /\ fs \in Seq(Function) /\ Len(fs) = L
      /\ \A i \in 1 .. L : fs[i] = fn(order[i])
  <2>1. fs \in [1 .. L -> Function] /\ \A i \in 1 .. L : fs[i] = fn(order[i])
    BY <1>1, <1>7
  <2> HIDE DEF fs
  <2> QED  BY <1>7, <2>1
<1> HIDE DEF fs, fn
<1>10. ASSUME NEW i \in 1 .. L, NEW j \in 1 .. L, i < j PROVE fs[i] # fs[j]
  <2>1. pos[i] \in 1 .. K /\ pos[j] \in 1 .. K /\ pos[i] < pos[j] /\ pos[j] \in firsts
    BY <1>8, <1>10
  <2>2. pos[i] \in 1 .. pos[j] - 1
    BY <1>1, <2>1
  <2>3. fn(pos[i]) # fn(pos[j])
    BY <1>3, <2>1, <2>2
  <2> QED  BY <1>8, <1>9, <2>3
<1>11. \A i, j \in 1 .. L : fs[i] = fs[j] => i = j
  BY <1>7, <1>10
<1>12. ASSUME NEW n \in 1 .. K PROVE \E i \in 1 .. L : fs[i] = fn(n)
  <2> DEFINE same == {m \in 1 .. K : fn(m) = fn(n)}
  <2>1. same \subseteq Nat /\ same # {}
    BY <1>1
  <2> HIDE DEF same
  <2>2. PICK m \in same : \A x \in same : m <= x
    BY <2>1, LeastNumber
  <2>3. m \in 1 .. K /\ fn(m) = fn(n)
    BY <2>2 DEF same
  <2>4. ASSUME NEW x \in 1 .. m - 1 PROVE fn(x) # fn(m)
    <3>1. x \in 1 .. K /\ ~(m <= x)
      BY <1>1, <2>3
    <3>2. x \notin same
      BY <2>2, <3>1
    <3> QED  BY <2>3, <3>1, <3>2 DEF same
  <2>5. m \in firsts
    BY <1>3, <2>3, <2>4
  <2> QED  BY <1>8, <1>9, <2>3, <2>5
<1>13. L # 0
  <2>1. 1 \in 1 .. K
    BY <1>1
  <2> QED  BY <1>12, <2>1
<1>14. /\ fs \in Seq(Function) /\ Len(fs) \in Nat \ {0}
       /\ \A i, j \in 1 .. Len(fs) : fs[i] = fs[j] => i = j
       /\ \A i \in 1 .. Len(fs) : \E n \in 1 .. K : fn(n) = fs[i]
       /\ \A n \in 1 .. K : \E i \in 1 .. Len(fs) : fs[i] = fn(n)
  BY <1>7, <1>9, <1>11, <1>12, <1>13
<1> QED  BY <1>4, <1>14 DEF K, fn

\* A function without choices gets no levels, one with choices gets some.
LEMMA NewLevelsFacts ==
    ASSUME NEW choices \in Seq(Choice), NEW f \in Function
    PROVE  /\ \A k \in Kind : NewLevels(choices, f, k) \in Seq(Level)
           /\ (\A n \in 1 .. Len(choices) : choices[n].function # f)
                 => \A k \in Kind : NewLevels(choices, f, k) = <<>>
           /\ \A n \in 1 .. Len(choices) :
                 choices[n].function = f
                     => NewLevels(choices, f, choices[n].kind) # <<>>
<1> DEFINE S(k) == [function : {f}, kind : {k}, level : Level]
           these(k) == Only(choices, S(k))
<1>1. \A n \in 1 .. Len(choices) : choices[n] \in Choice
  OBVIOUS
<1>2. ASSUME NEW k \in Kind
      PROVE  /\ these(k) \in Seq(Choice)
             /\ \E pos : Picks(these(k), choices, S(k), Len(choices), pos)
  BY OnlyFacts
<1>3. \A k : NewLevels(choices, f, k)
               = [n \in DOMAIN these(k) |-> these(k)[n].level]
  BY DEF NewLevels
<1> HIDE DEF these
<1>4. ASSUME NEW k \in Kind
      PROVE  /\ NewLevels(choices, f, k) \in Seq(Level)
             /\ Len(NewLevels(choices, f, k)) = Len(these(k))
  <2>1. \A n \in 1 .. Len(these(k)) : these(k)[n].level \in Level
    <3>1. \A n \in 1 .. Len(these(k)) : these(k)[n] \in Choice
      BY <1>2, SeqFacts
    <3> QED  BY <3>1 DEF Choice
  <2>2. DOMAIN these(k) = 1 .. Len(these(k)) /\ Len(these(k)) \in Nat
    BY <1>2
  <2>3. [n \in DOMAIN these(k) |-> these(k)[n].level] \in [1 .. Len(these(k)) -> Level]
    BY <2>1, <2>2
  <2> QED  BY <1>3, <2>2, <2>3
<1>5. ASSUME NEW k \in Kind, \A n \in 1 .. Len(choices) : choices[n].function # f
      PROVE  NewLevels(choices, f, k) = <<>>
  <2>1. PICK pos : Picks(these(k), choices, S(k), Len(choices), pos)
    BY <1>2
  <2>2. \A j \in 1 .. Len(these(k)) : FALSE
    <3> SUFFICES ASSUME NEW j \in 1 .. Len(these(k)) PROVE FALSE  OBVIOUS
    <3>1. pos[j] \in 1 .. Len(choices) /\ choices[pos[j]] \in S(k)
      BY <2>1 DEF Picks
    <3> QED  BY <1>5, <3>1
  <2>3. Len(these(k)) \in Nat
    BY <1>2
  <2>4. Len(these(k)) = 0
    BY <2>2, <2>3
  <2> QED  BY <1>4, <2>4
<1>6. ASSUME NEW n \in 1 .. Len(choices), choices[n].function = f
      PROVE  NewLevels(choices, f, choices[n].kind) # <<>>
  <2> DEFINE k == choices[n].kind
  <2>1. choices[n] \in S(k) /\ k \in Kind
    BY <1>1, <1>6 DEF Choice
  <2>2. PICK pos : Picks(these(k), choices, S(k), Len(choices), pos)
    BY <1>2, <2>1
  <2>3. \E j \in 1 .. Len(these(k)) : pos[j] = n
    BY <2>1, <2>2 DEF Picks
  <2>4. Len(these(k)) # 0 /\ Len(NewLevels(choices, f, k)) = Len(these(k))
    BY <1>4, <2>1, <2>3
  <2> QED  BY <2>4
<1> QED  BY <1>4, <1>5, <1>6

-------------------------------------------------------------------------------
(* What is written *)

Lines == Seq(SourceLine)

\* A line that no function of an experiment matches.
Free(line, fs) == \A n \in 1 .. Len(fs) : ~ Matches(line, fs[n])

LEMMA KeptFacts ==
    ASSUME file \in Lines, NEW fs \in Seq(Function)
    PROVE  /\ Kept(fs) \in Lines
           /\ \E pos :
                /\ pos \in [1 .. Len(Kept(fs)) -> 1 .. Len(file)]
                /\ \A j \in 1 .. Len(Kept(fs)) :
                      Kept(fs)[j] = file[pos[j]] /\ Free(file[pos[j]], fs)
                /\ \A i, j \in 1 .. Len(Kept(fs)) : i < j => pos[i] < pos[j]
                /\ \A i \in 1 .. Len(file) :
                      Free(file[i], fs) => \E j \in 1 .. Len(Kept(fs)) : pos[j] = i
<1> DEFINE S == {line \in ToSet(file) :
                    \A n \in DOMAIN fs : ~ Matches(line, fs[n])}
<1>1. DOMAIN fs = 1 .. Len(fs) /\ DOMAIN file = 1 .. Len(file)
  BY SeqFacts DEF Lines
<1>2. \A i \in 1 .. Len(file) : file[i] \in S <=> Free(file[i], fs)
  BY <1>1 DEF Free, ToSet
<1>3. Kept(fs) = Only(file, S)
  BY DEF Kept
<1> HIDE DEF S
<1>4. Kept(fs) \in Lines /\ \E pos : Picks(Kept(fs), file, S, Len(file), pos)
  BY <1>3, OnlyFacts DEF Lines
<1>5. PICK pos : Picks(Kept(fs), file, S, Len(file), pos)
  BY <1>4
<1>6. /\ pos \in [1 .. Len(Kept(fs)) -> 1 .. Len(file)]
      /\ \A j \in 1 .. Len(Kept(fs)) :
            Kept(fs)[j] = file[pos[j]] /\ Free(file[pos[j]], fs)
      /\ \A i, j \in 1 .. Len(Kept(fs)) : i < j => pos[i] < pos[j]
      /\ \A i \in 1 .. Len(file) :
            Free(file[i], fs) => \E j \in 1 .. Len(Kept(fs)) : pos[j] = i
  BY <1>2, <1>5 DEF Picks
<1> QED  BY <1>4, <1>6

LEMMA EarlierType ==
    ASSUME file \in Lines, NEW fs, NEW n
    PROVE  Earlier(fs, n) \in ControlString
<1> DEFINE at == {i \in DOMAIN file :
                     file[i].def # None /\ IsTakenFor(file[i], fs, n)}
<1>1. NoString \in ControlString
  BY DEF NoString, ControlString
<1>2. Len(file) \in Nat /\ DOMAIN file = 1 .. Len(file)
      /\ \A i \in 1 .. Len(file) : file[i] \in SourceLine
  BY SeqFacts DEF Lines
<1>3. \A i \in 1 .. Len(file) : file[i].string \in ControlString
  BY <1>2 DEF SourceLine
<1>4. at \subseteq 1 .. Len(file)
  BY <1>2
<1>5. Earlier(fs, n) = IF at = {} THEN NoString ELSE file[Max(at)].string
  BY DEF Earlier
<1> HIDE DEF at
<1>6. at # {} => Max(at) \in at
  BY <1>2, <1>4, LastOfSet
<1> QED  BY <1>1, <1>3, <1>4, <1>5, <1>6

\* The string of a function with choices is not empty.
LEMMA StringFacts ==
    ASSUME file \in Lines, NEW choices \in Seq(Choice), NEW fs \in Seq(Function),
           NEW n \in 1 .. Len(fs)
    PROVE  /\ String(fs, n, choices) \in ControlString
           /\ (\E c \in 1 .. Len(choices) : choices[c].function = fs[n])
                 => String(fs, n, choices) # NoString
<1> DEFINE E(k) == Earlier(fs, n)[k]
           L(k) == NewLevels(choices, fs[n], k)
           T == String(fs, n, choices)
<1>1. fs[n] \in Function
  BY SeqFacts
<1>2. \A k \in Kind : E(k) \in Seq(Level)
  BY EarlierType DEF ControlString
<1>3. /\ \A k \in Kind : L(k) \in Seq(Level)
      /\ \A c \in 1 .. Len(choices) :
            choices[c].function = fs[n] => L(choices[c].kind) # <<>>
  BY <1>1, NewLevelsFacts
<1>4. T = [k \in Kind |-> E(k) \o L(k)]
  BY DEF String
<1>5. \A c \in 1 .. Len(choices) : choices[c].kind \in Kind
  <2>1. \A c \in 1 .. Len(choices) : choices[c] \in Choice
    BY SeqFacts
  <2> QED  BY <2>1 DEF Choice
<1> HIDE DEF E, L, T
<1>6. T \in ControlString
  BY <1>2, <1>3, <1>4 DEF ControlString
<1>7. ASSUME NEW c \in 1 .. Len(choices), choices[c].function = fs[n]
      PROVE  T # NoString
  <2> DEFINE k == choices[c].kind
  <2>1. k \in Kind /\ L(k) # <<>>
    BY <1>3, <1>5, <1>7
  <2> HIDE DEF k
  <2>2. E(k) \o L(k) # <<>>
    <3>1. E(k) \in Seq(Level) /\ L(k) \in Seq(Level)
      BY <1>2, <1>3, <2>1
    <3>2. Len(L(k)) # 0 /\ Len(L(k)) \in Nat /\ Len(E(k)) \in Nat
      BY <2>1, <3>1
    <3>3. Len(E(k) \o L(k)) = Len(E(k)) + Len(L(k))
      BY <3>1
    <3>4. Len(E(k) \o L(k)) # 0
      BY <3>2, <3>3
    <3> QED  BY <3>4
  <2>3. T[k] = E(k) \o L(k) /\ NoString[k] = <<>>
    BY <1>4, <2>1 DEF NoString
  <2> QED  BY <2>2, <2>3
<1> QED  BY <1>6, <1>7 DEF T

\* A definition and a reference of function n.
IsDefinition(line, fs, n, choices) ==
    /\ line.def = fs[n] /\ line.string = String(fs, n, choices)
    /\ line.ref = None /\ line.eol
IsReference(line, fs, n) ==
    /\ line.code = None /\ line.def = None /\ line.string = NoString
    /\ line.ref = fs[n] /\ line.eol

LEMMA NewLinesFacts ==
    ASSUME file \in Lines, NEW choices \in Seq(Choice), NEW fs \in Seq(Function)
    PROVE  LET new == NewLines(fs, choices)
           IN  /\ new \in Lines /\ Len(new) = 2 * Len(fs)
               /\ \A n \in 1 .. Len(fs) :
                     /\ new[2 * n - 1].code = None
                     /\ IsDefinition(new[2 * n - 1], fs, n, choices)
                     /\ IsReference(new[2 * n], fs, n)
<1> DEFINE new == NewLines(fs, choices)
           K == Len(fs)
           half(m) == (m + 1) \div 2
           def(n) == Line(None, fs[n], String(fs, n, choices), None, TRUE)
           ref(n) == Line(None, None, NoString, fs[n], TRUE)
<1>1. K \in Nat /\ \A n \in 1 .. K : fs[n] \in Function
  BY SeqFacts
<1>2. \A m \in 1 .. 2 * K : half(m) \in 1 .. K
  BY <1>1
<1>3. \A n \in 1 .. K : /\ 2 * n - 1 \in 1 .. 2 * K /\ 2 * n \in 1 .. 2 * K
                        /\ half(2 * n - 1) = n /\ half(2 * n) = n
                        /\ 2 * n - 1 # 2 * n
  BY <1>1
<1>4. \A n \in 1 .. K : String(fs, n, choices) \in ControlString
  BY StringFacts
<1>5. NoString \in ControlString
  BY DEF NoString, ControlString
<1>6. \A n \in 1 .. K : def(n) \in SourceLine /\ ref(n) \in SourceLine
  BY <1>1, <1>4, <1>5 DEF Line, SourceLine
<1>7. new = [m \in 1 .. 2 * K |->
                IF m = 2 * half(m) THEN ref(half(m)) ELSE def(half(m))]
  BY DEF NewLines
<1>8. \A n \in 1 .. K : /\ IsDefinition(def(n), fs, n, choices) /\ def(n).code = None
                        /\ IsReference(ref(n), fs, n)
  BY DEF IsDefinition, IsReference, Line
<1> HIDE DEF new, half, def, ref, K
<1>9. new \in [1 .. 2 * K -> SourceLine]
  BY <1>2, <1>6, <1>7
<1>10. new \in Lines /\ Len(new) = 2 * K
  BY <1>1, <1>9 DEF Lines
<1>11. \A n \in 1 .. K : new[2 * n - 1] = def(n) /\ new[2 * n] = ref(n)
  BY <1>3, <1>7
<1> QED  BY <1>8, <1>10, <1>11 DEF new, K

\* r is the first n kept lines, then the new ones; the last kept line, without
\* newline, may go on with the first new one.
IsJoined(r, n, kept, new) ==
    /\ r \in Lines /\ n \in 0 .. Len(kept) /\ Len(r) = n + Len(new)
    /\ n = IF Continued(kept) THEN Len(kept) - 1 ELSE Len(kept)
    /\ \A i \in 1 .. n : r[i] = kept[i]
    /\ \A m \in 1 .. Len(new) :
          \/ r[n + m] = new[m]
          \/ /\ m = 1 /\ Continued(kept)
             /\ r[n + m] = [new[1] EXCEPT !.code = kept[Len(kept)].code]

LEMMA JoinedFacts ==
    ASSUME NEW kept \in Lines, NEW new \in Lines, new # <<>>
    PROVE  \E n : IsJoined(Joined(kept, new), n, kept, new)
<1> DEFINE r == Joined(kept, new)
           K == Len(kept)
           M == Len(new)
           n == IF Continued(kept) THEN K - 1 ELSE K
           first == [new[1] EXCEPT !.code = Last(kept).code]
<1>1. K \in Nat /\ M \in Nat /\ M # 0 /\ (\A i \in 1 .. K : kept[i] \in SourceLine)
      /\ (\A i \in 1 .. M : new[i] \in SourceLine)
  BY SeqFacts DEF Lines
<1>2. Continued(kept) => K > 0
  BY DEF Continued, Lines
<1>3. n \in 0 .. K
  BY <1>1, <1>2
<1>4. r = [i \in 1 .. n + M |->
              IF i <= n THEN kept[i]
              ELSE IF i = K THEN first ELSE new[i - n]]
  BY DEF Joined
<1>5. Last(kept) = kept[K]
  BY DEF Last
<1>6. Continued(kept) => first \in SourceLine
  <2>1. Continued(kept) => kept[K] \in SourceLine
    BY <1>1, <1>2
  <2>2. new[1] \in SourceLine
    BY <1>1
  <2> QED  BY <1>5, <2>1, <2>2 DEF SourceLine
<1>7. Continued(kept) => n = K - 1
  OBVIOUS
<1>8. ~ Continued(kept) => n = K
  OBVIOUS
<1> HIDE DEF r, n, first, K, M
<1>9. ASSUME NEW m \in 1 .. M
      PROVE  /\ n + m \in 1 .. n + M /\ ~(n + m <= n) /\ (n + m) - n = m
             /\ n + m = K <=> m = 1 /\ Continued(kept)
  BY <1>1, <1>3, <1>7, <1>8
<1>10. \A i \in 1 .. n : i \in 1 .. n + M /\ i <= n /\ i \in 1 .. K
  BY <1>1, <1>3
<1>11. \A i \in 1 .. n : r[i] = kept[i]
  BY <1>4, <1>10
<1>12. \A m \in 1 .. M : r[n + m] = IF m = 1 /\ Continued(kept) THEN first ELSE new[m]
  BY <1>4, <1>9
<1>13. \A i \in 1 .. n + M : r[i] \in SourceLine
  <2> SUFFICES ASSUME NEW i \in 1 .. n + M PROVE r[i] \in SourceLine  OBVIOUS
  <2>1. CASE i \in 1 .. n
    BY <1>1, <1>10, <1>11, <2>1
  <2>2. CASE i \notin 1 .. n
    <3>1. i - n \in 1 .. M /\ n + (i - n) = i
      BY <1>1, <1>3, <2>2
    <3>2. r[i] = IF i - n = 1 /\ Continued(kept) THEN first ELSE new[i - n]
      BY <1>12, <3>1
    <3> QED  BY <1>1, <1>6, <3>1, <3>2
  <2> QED  BY <2>1, <2>2
<1>14. r \in [1 .. n + M -> SourceLine]
  BY <1>4, <1>13
<1>15. r \in Lines /\ Len(r) = n + M
  BY <1>1, <1>3, <1>14 DEF Lines
<1>16. n = IF Continued(kept) THEN K - 1 ELSE K
  BY <1>7, <1>8
<1>17. IsJoined(r, n, kept, new)
  BY <1>3, <1>5, <1>11, <1>12, <1>15, <1>16 DEF IsJoined, K, M, first
<1> QED  BY <1>17 DEF r

\* w is n lines of the file that no function matches (pos says which ones; only
\* a last line without newline can be missing), then two for each function.
Composed(w, n, pos, fs, choices) ==
    /\ w \in Lines /\ n \in Nat /\ Len(w) = n + 2 * Len(fs)
    /\ \A i \in 1 .. n : /\ pos[i] \in 1 .. Len(file) /\ w[i] = file[pos[i]]
                         /\ Free(file[pos[i]], fs) /\ file[pos[i]].eol
    /\ \A i, j \in 1 .. n : i < j => pos[i] < pos[j]
    /\ \A p \in 1 .. Len(file) :
          Free(file[p], fs) /\ file[p].eol => \E i \in 1 .. n : pos[i] = p
    /\ \A m \in 1 .. Len(fs) :
          /\ IsDefinition(w[n + 2 * m - 1], fs, m, choices)
          /\ \/ w[n + 2 * m - 1].code = None
             \/ /\ m = 1 /\ w[n + 2 * m - 1].code = CodeLines /\ ~ newline
                /\ ~ file[Len(file)].eol
          /\ IsReference(w[n + 2 * m], fs, m)

LEMMA WrittenFacts ==
    ASSUME WellFormed(file), NEW choices \in Seq(Choice), choices # <<>>
    PROVE  \E n, pos : Composed(Written(choices), n, pos, Functions(choices), choices)
<1> DEFINE fs == Functions(choices)
           kept == Kept(fs)
           new == NewLines(fs, choices)
           w == Written(choices)
           K == Len(kept)
           L == Len(fs)
<1>1. /\ file \in Lines
      /\ \A i \in 1 .. Len(file) :
            ~ file[i].eol => /\ i = Len(file) /\ file[i].code = CodeLines
                             /\ file[i].def = None /\ ~ newline
  BY DEF WellFormed, Lines
<1>2. fs \in Seq(Function) /\ L \in Nat /\ L # 0
  BY FunctionsFacts
<1>3. w = Joined(kept, new)
  BY DEF Written
<1> HIDE DEF fs, w
<1>4. kept \in Lines
  BY <1>1, <1>2, KeptFacts
<1>5. PICK pos :
        /\ pos \in [1 .. K -> 1 .. Len(file)]
        /\ \A j \in 1 .. K : kept[j] = file[pos[j]] /\ Free(file[pos[j]], fs)
        /\ \A i, j \in 1 .. K : i < j => pos[i] < pos[j]
        /\ \A i \in 1 .. Len(file) :
              Free(file[i], fs) => \E j \in 1 .. K : pos[j] = i
  BY <1>1, <1>2, KeptFacts
<1>6. /\ new \in Lines /\ Len(new) = 2 * L
      /\ \A m \in 1 .. L : /\ new[2 * m - 1].code = None
                           /\ IsDefinition(new[2 * m - 1], fs, m, choices)
                           /\ IsReference(new[2 * m], fs, m)
  BY <1>1, <1>2, NewLinesFacts
<1> HIDE DEF kept, new
<1>7. new # <<>>
  BY <1>2, <1>6
<1>8. PICK n : IsJoined(w, n, kept, new)
  BY <1>3, <1>4, <1>6, <1>7, JoinedFacts
<1>0. /\ w \in Lines /\ n \in 0 .. K /\ Len(w) = n + 2 * L
      /\ n = IF Continued(kept) THEN K - 1 ELSE K
      /\ \A i \in 1 .. n : w[i] = kept[i]
      /\ \A m \in 1 .. 2 * L :
            \/ w[n + m] = new[m]
            \/ /\ m = 1 /\ Continued(kept)
               /\ w[n + m] = [new[1] EXCEPT !.code = kept[K].code]
  BY <1>6, <1>8 DEF IsJoined
<1>9. K \in Nat /\ Len(file) \in Nat
  BY <1>1, <1>4, SeqFacts DEF Lines
<1>10. Continued(kept) => K \in 1 .. K /\ ~ kept[K].eol /\ n = K - 1
  <2>1. Last(kept) = kept[K]
    BY DEF Last
  <2>2. Continued(kept) => kept # <<>> /\ ~ kept[K].eol
    BY <2>1 DEF Continued
  <2>3. kept # <<>> => K # 0
    BY <1>4 DEF Lines
  <2> HIDE DEF K
  <2> QED  BY <1>0, <1>9, <2>2, <2>3
<1>11. ~ Continued(kept) => n = K /\ (K # 0 => kept[K].eol)
  <2>1. Last(kept) = kept[K]
    BY DEF Last
  <2>2. K # 0 => kept # <<>>
    OBVIOUS
  <2>3. ~ Continued(kept) => kept = <<>> \/ kept[K].eol
    BY <2>1 DEF Continued
  <2> HIDE DEF K
  <2> QED  BY <1>0, <2>2, <2>3
<1> HIDE DEF K, L
<1>20. n \in Nat
  BY <1>0, <1>9
<1>12. \A i \in 1 .. n : i \in 1 .. K
  BY <1>0, <1>9
<1>13. \A i \in 1 .. K : i < K => file[pos[i]].eol
  <2> SUFFICES ASSUME NEW i \in 1 .. K, i < K PROVE file[pos[i]].eol  OBVIOUS
  <2>1. pos[i] < pos[K] /\ pos[i] \in 1 .. Len(file) /\ pos[K] \in 1 .. Len(file)
    BY <1>5, <1>9
  <2>2. pos[i] # Len(file)
    BY <1>9, <2>1
  <2> QED  BY <1>1, <2>1, <2>2
<1>14. \A i \in 1 .. n : file[pos[i]].eol
  <2> SUFFICES ASSUME NEW i \in 1 .. n PROVE file[pos[i]].eol  OBVIOUS
  <2>1. CASE i < K
    BY <1>12, <1>13, <2>1
  <2>2. CASE i = K
    <3>1. ~ Continued(kept)
      BY <1>0, <1>9, <1>10, <2>2
    <3>2. K # 0
      BY <1>9, <2>2
    <3> QED  BY <1>5, <1>11, <1>12, <2>2, <3>1, <3>2
  <2> QED  BY <1>9, <1>12, <2>1, <2>2
<1>15. \A i \in 1 .. n : /\ pos[i] \in 1 .. Len(file) /\ w[i] = file[pos[i]]
                         /\ Free(file[pos[i]], fs) /\ file[pos[i]].eol
  BY <1>5, <1>0, <1>12, <1>14
<1>16. \A i, j \in 1 .. n : i < j => pos[i] < pos[j]
  BY <1>5, <1>12
<1>17. ASSUME NEW p \in 1 .. Len(file), Free(file[p], fs), file[p].eol
       PROVE  \E i \in 1 .. n : pos[i] = p
  <2>1. PICK j \in 1 .. K : pos[j] = p
    BY <1>5, <1>17
  <2>2. Continued(kept) => j # K
    BY <1>5, <1>10, <1>17, <2>1
  <2>3. j \in 1 .. n
    BY <1>9, <1>10, <1>11, <2>2
  <2> QED  BY <2>1, <2>3
<1>18. Continued(kept) =>
          kept[K].code = CodeLines /\ ~ newline /\ ~ file[Len(file)].eol
  BY <1>1, <1>5, <1>10
<1>19. ASSUME NEW m \in 1 .. L
       PROVE  /\ IsDefinition(w[n + 2 * m - 1], fs, m, choices)
              /\ \/ w[n + 2 * m - 1].code = None
                 \/ /\ m = 1 /\ w[n + 2 * m - 1].code = CodeLines /\ ~ newline
                    /\ ~ file[Len(file)].eol
              /\ IsReference(w[n + 2 * m], fs, m)
  <2>1. /\ 2 * m - 1 \in 1 .. 2 * L /\ 2 * m \in 1 .. 2 * L /\ 2 * m # 1
        /\ n + (2 * m - 1) = n + 2 * m - 1
    BY <1>2, <1>20
  <2>2. w[n + 2 * m] = new[2 * m]
    BY <1>0, <2>1
  <2>3. CASE w[n + 2 * m - 1] = new[2 * m - 1]
    BY <1>6, <2>2, <2>3
  <2>4. CASE /\ 2 * m - 1 = 1 /\ Continued(kept)
             /\ w[n + 2 * m - 1] = [new[1] EXCEPT !.code = kept[K].code]
    <3>1. new[1] \in SourceLine /\ IsDefinition(new[1], fs, m, choices)
      BY <1>6, <2>1, <2>4, SeqFacts DEF Lines
    <3>2. [new[1] EXCEPT !.code = kept[K].code].code = CodeLines
      BY <1>18, <2>4, <3>1 DEF SourceLine
    <3>3. IsDefinition([new[1] EXCEPT !.code = kept[K].code], fs, m, choices)
      BY <3>1 DEF SourceLine, IsDefinition
    <3>4. m = 1
      BY <1>2, <2>4
    <3> QED  BY <1>6, <1>18, <2>2, <2>4, <3>2, <3>3, <3>4
  <2>5. \/ w[n + 2 * m - 1] = new[2 * m - 1]
        \/ /\ 2 * m - 1 = 1 /\ Continued(kept)
           /\ w[n + 2 * m - 1] = [new[1] EXCEPT !.code = kept[K].code]
    BY <1>0, <2>1
  <2> QED  BY <2>3, <2>4, <2>5
<1>21. Composed(w, n, pos, fs, choices)
  BY <1>0, <1>15, <1>16, <1>17, <1>19, <1>20 DEF Composed, L
<1> QED  BY <1>21 DEF w, fs

LEMMA Places ==
    ASSUME NEW n \in Nat, NEW L \in Nat, NEW i \in 1 .. n + 2 * L
    PROVE  i \in 1 .. n \/ \E m \in 1 .. L : i = n + 2 * m - 1 \/ i = n + 2 * m
<1> DEFINE m == (i - n + 1) \div 2
<1>1. CASE i > n
  <2>1. m \in 1 .. L
    BY <1>1
  <2>2. i = n + 2 * m - 1 \/ i = n + 2 * m
    BY <1>1
  <2> QED  BY <2>1, <2>2
<1> QED  BY <1>1

LEMMA FreeFacts ==
    ASSUME NEW fs \in Seq(Function), NEW line, Free(line, fs), NEW m \in 1 .. Len(fs)
    PROVE  line.def # fs[m] /\ line.ref # fs[m] /\ fs[m] \in Function /\ fs[m] # None
<1>1. fs[m] \in Function
  BY SeqFacts
<1>2. fs[m] # None
  BY <1>1, NamesAssumption
<1>3. ~ Matches(line, fs[m])
  BY DEF Free
<1> QED  BY <1>1, <1>2, <1>3 DEF Matches

\* What is written is well-formed: the lines that stay are of other functions
\* than the new ones.
LEMMA WrittenIsWellFormed ==
    ASSUME WellFormed(file), newline \in BOOLEAN,
           NEW choices \in Seq(Choice), choices # <<>>,
           NEW w, NEW n, NEW pos, Composed(w, n, pos, Functions(choices), choices)
    PROVE  WellFormed(w)
<1> DEFINE fs == Functions(choices)
           L == Len(fs)
           d(m) == n + 2 * m - 1
           r(m) == n + 2 * m
<1>1. /\ file \in Lines
      /\ \A i \in 1 .. Len(file) :
            /\ file[i].string # NoString <=> file[i].def # None
            /\ file[i].code # None => file[i].ref = None
            /\ file[i].code = None => (file[i].def = None) # (file[i].ref = None)
      /\ \A i, j \in 1 .. Len(file) :
            /\ file[i].def = file[j].def => i = j \/ file[i].def = None
            /\ file[i].ref = file[j].ref => i = j \/ file[i].ref = None
  BY DEF WellFormed, Lines
<1>2. /\ fs \in Seq(Function) /\ L \in Nat
      /\ \A i, j \in 1 .. L : fs[i] = fs[j] => i = j
      /\ \A i \in 1 .. L : \E c \in 1 .. Len(choices) : choices[c].function = fs[i]
  BY FunctionsFacts
<1> HIDE DEF fs
<1>3. \A m \in 1 .. L : fs[m] \in Function /\ fs[m] # None /\ String(fs, m, choices) # NoString
  <2>1. \A m \in 1 .. L : fs[m] \in Function /\ fs[m] # None
    BY <1>2, NamesAssumption, SeqFacts
  <2>2. \A m \in 1 .. L : String(fs, m, choices) # NoString
    BY <1>1, <1>2, StringFacts
  <2> QED  BY <2>1, <2>2
<1>4. /\ w \in Lines /\ n \in Nat /\ Len(w) = n + 2 * L
      /\ \A i \in 1 .. n : /\ pos[i] \in 1 .. Len(file) /\ w[i] = file[pos[i]]
                           /\ Free(file[pos[i]], fs) /\ file[pos[i]].eol
      /\ \A i, j \in 1 .. n : i < j => pos[i] < pos[j]
      /\ \A m \in 1 .. L :
            /\ w[d(m)].def = fs[m] /\ w[d(m)].string = String(fs, m, choices)
            /\ w[d(m)].ref = None /\ w[d(m)].eol
            /\ w[r(m)].code = None /\ w[r(m)].def = None /\ w[r(m)].string = NoString
            /\ w[r(m)].ref = fs[m] /\ w[r(m)].eol
  BY DEF Composed, fs, IsDefinition, IsReference
<1>5. \A i \in 1 .. n : \A m \in 1 .. L : w[i].def # fs[m] /\ w[i].ref # fs[m]
  BY <1>2, <1>4, FreeFacts
<1>6. \A i, j \in 1 .. n : pos[i] = pos[j] => i = j
  <2> SUFFICES ASSUME NEW i \in 1 .. n, NEW j \in 1 .. n, pos[i] = pos[j], i < j
               PROVE  FALSE
    BY <1>4
  <2>1. pos[i] < pos[j] /\ pos[i] \in 1 .. Len(file)
    BY <1>4
  <2> QED  BY <2>1
<1>7. DOMAIN w = 1 .. Len(w) /\ w \in Seq(SourceLine)
  BY <1>4 DEF Lines
<1>8. \A i \in DOMAIN w : \/ i \in 1 .. n
                          \/ \E m \in 1 .. L : i = d(m) \/ i = r(m)
  <2> SUFFICES ASSUME NEW i \in 1 .. n + 2 * L
               PROVE  i \in 1 .. n \/ \E m \in 1 .. L : i = d(m) \/ i = r(m)
    BY <1>4, <1>7
  <2> HIDE DEF L
  <2> QED  BY <1>2, <1>4, Places
<1> HIDE DEF d, r, L
<1>9. ASSUME NEW i \in DOMAIN w
      PROVE  /\ w[i].string # NoString <=> w[i].def # None
             /\ w[i].code # None => w[i].ref = None
             /\ w[i].code = None => (w[i].def = None) # (w[i].ref = None)
             /\ w[i].eol
  <2>1. CASE i \in 1 .. n
    BY <1>1, <1>4, <2>1
  <2>2. CASE \E m \in 1 .. L : i = d(m)
    BY <1>3, <1>4, <2>2
  <2>3. CASE \E m \in 1 .. L : i = r(m)
    BY <1>3, <1>4, <2>3
  <2> QED  BY <1>8, <2>1, <2>2, <2>3
<1>10. ASSUME NEW i \in DOMAIN w, NEW j \in DOMAIN w, w[i].def = w[j].def, w[i].def # None
       PROVE  i = j
  <2>1. i \in 1 .. n \/ \E m \in 1 .. L : i = d(m)
    BY <1>4, <1>8, <1>10
  <2>2. j \in 1 .. n \/ \E m \in 1 .. L : j = d(m)
    BY <1>4, <1>8, <1>10
  <2>3. CASE i \in 1 .. n /\ j \in 1 .. n
    <3>1. /\ pos[i] \in 1 .. Len(file) /\ pos[j] \in 1 .. Len(file)
          /\ w[i] = file[pos[i]] /\ w[j] = file[pos[j]]
      BY <1>4, <2>3
    <3>2. pos[i] = pos[j]
      BY <1>1, <1>10, <3>1
    <3> QED  BY <1>6, <2>3, <3>2
  <2>4. CASE (\E m \in 1 .. L : i = d(m)) /\ (\E m \in 1 .. L : j = d(m))
    <3>1. PICK a \in 1 .. L : i = d(a)
      BY <2>4
    <3>2. PICK b \in 1 .. L : j = d(b)
      BY <2>4
    <3>3. w[i].def = fs[a] /\ w[j].def = fs[b]
      BY <1>4, <3>1, <3>2
    <3>4. a = b
      BY <1>2, <1>10, <3>3 DEF L
    <3> QED  BY <3>1, <3>2, <3>4
  <2>5. (\E m \in 1 .. L : i = d(m)) => j \notin 1 .. n
    BY <1>4, <1>5, <1>10
  <2>6. (\E m \in 1 .. L : j = d(m)) => i \notin 1 .. n
    BY <1>4, <1>5, <1>10
  <2> QED  BY <2>1, <2>2, <2>3, <2>4, <2>5, <2>6
<1>11. ASSUME NEW i \in DOMAIN w, NEW j \in DOMAIN w, w[i].ref = w[j].ref, w[i].ref # None
       PROVE  i = j
  <2>1. i \in 1 .. n \/ \E m \in 1 .. L : i = r(m)
    BY <1>4, <1>8, <1>11
  <2>2. j \in 1 .. n \/ \E m \in 1 .. L : j = r(m)
    BY <1>4, <1>8, <1>11
  <2>3. CASE i \in 1 .. n /\ j \in 1 .. n
    <3>1. /\ pos[i] \in 1 .. Len(file) /\ pos[j] \in 1 .. Len(file)
          /\ w[i] = file[pos[i]] /\ w[j] = file[pos[j]]
      BY <1>4, <2>3
    <3>2. pos[i] = pos[j]
      BY <1>1, <1>11, <3>1
    <3> QED  BY <1>6, <2>3, <3>2
  <2>4. CASE (\E m \in 1 .. L : i = r(m)) /\ (\E m \in 1 .. L : j = r(m))
    <3>1. PICK a \in 1 .. L : i = r(a)
      BY <2>4
    <3>2. PICK b \in 1 .. L : j = r(b)
      BY <2>4
    <3>3. w[i].ref = fs[a] /\ w[j].ref = fs[b]
      BY <1>4, <3>1, <3>2
    <3>4. a = b
      BY <1>2, <1>11, <3>3 DEF L
    <3> QED  BY <3>1, <3>2, <3>4
  <2>5. (\E m \in 1 .. L : i = r(m)) => j \notin 1 .. n
    BY <1>4, <1>5, <1>11
  <2>6. (\E m \in 1 .. L : j = r(m)) => i \notin 1 .. n
    BY <1>4, <1>5, <1>11
  <2> QED  BY <2>1, <2>2, <2>3, <2>4, <2>5, <2>6
<1>12. \A i, j \in DOMAIN w :
          /\ w[i].def = w[j].def => i = j \/ w[i].def = None
          /\ w[i].ref = w[j].ref => i = j \/ w[i].ref = None
  BY <1>10, <1>11
<1> QED  BY <1>7, <1>9, <1>12 DEF WellFormed

\* No line of the user that has nothing else in it is lost, none gets a
\* definition, and the code stays in its order.
LEMMA WrittenKeepsCode ==
    ASSUME WellFormed(file), newline \in BOOLEAN, CodeIsApart(file),
           InOrder(file), \A i \in 1 .. CodeLines : HasCode(file, i),
           NEW choices \in Seq(Choice), choices # <<>>,
           NEW w, NEW n, NEW pos, Composed(w, n, pos, Functions(choices), choices)
    PROVE  CodeIsApart(w) /\ HasSafeCode(w) /\ InOrder(w)
<1> DEFINE fs == Functions(choices)
           L == Len(fs)
<1>1. /\ file \in Lines
      /\ \A i \in 1 .. Len(file) :
            /\ file[i].code # None => file[i].ref = None
            /\ ~ file[i].eol => file[i].code = CodeLines /\ ~ newline
  BY DEF WellFormed, Lines
<1>2. fs \in Seq(Function) /\ L \in Nat
  BY FunctionsFacts
<1> HIDE DEF fs
<1>3. /\ w \in Lines /\ n \in Nat /\ Len(w) = n + 2 * L
      /\ \A i \in 1 .. n : /\ pos[i] \in 1 .. Len(file) /\ w[i] = file[pos[i]]
                           /\ file[pos[i]].eol
      /\ \A i, j \in 1 .. n : i < j => pos[i] < pos[j]
      /\ \A p \in 1 .. Len(file) :
            Free(file[p], fs) /\ file[p].eol => \E i \in 1 .. n : pos[i] = p
      /\ \A m \in 1 .. L :
            /\ \/ w[n + 2 * m - 1].code = None
               \/ /\ m = 1 /\ w[n + 2 * m - 1].code = CodeLines /\ ~ newline
                  /\ ~ file[Len(file)].eol
            /\ w[n + 2 * m].def = None /\ w[n + 2 * m].code = None
  BY DEF Composed, fs, IsReference
<1>4. /\ DOMAIN w = 1 .. n + 2 * L
      /\ DOMAIN file = 1 .. Len(file)
  BY <1>1, <1>3, SeqFacts DEF Lines
<1>5. \A i \in 1 .. CodeLines : i # None
  BY NamesAssumption, SourceAssumption
<1>6. \A i \in 1 .. CodeLines : Safe(i) => ~ (i = CodeLines /\ ~ newline)
  BY SourceAssumption DEF Safe
<1> HIDE DEF L
<1>7. CodeIsApart(w)
  <2> SUFFICES ASSUME NEW j \in 1 .. n + 2 * L, NEW i \in 1 .. CodeLines,
                      w[j].code = i, Safe(i)
               PROVE  w[j].def = None
    BY <1>4 DEF CodeIsApart
  <2>1. CASE j \in 1 .. n
    BY <1>3, <1>4, <2>1 DEF CodeIsApart
  <2>2. ASSUME NEW m \in 1 .. L, j = n + 2 * m - 1 PROVE FALSE
    BY <1>3, <1>5, <1>6, <2>2
  <2>3. ASSUME NEW m \in 1 .. L, j = n + 2 * m PROVE w[j].def = None
    BY <1>3, <2>3
  <2>4. j \in 1 .. n \/ \E m \in 1 .. L : j = n + 2 * m - 1 \/ j = n + 2 * m
    <3>1. L \in Nat /\ n \in Nat
      BY <1>2, <1>3 DEF L
    <3> QED  BY <3>1, Places
  <2> QED  BY <2>1, <2>2, <2>3, <2>4
<1>8. HasSafeCode(w)
  <2> SUFFICES ASSUME NEW i \in 1 .. CodeLines, Safe(i)
               PROVE  \E j \in 1 .. n + 2 * L : w[j].code = i
    BY <1>4 DEF HasSafeCode, HasCode
  <2>1. PICK p \in 1 .. Len(file) : file[p].code = i
    BY <1>4 DEF HasCode
  <2>2. file[p].def = None
    BY <1>4, <2>1 DEF CodeIsApart
  <2>3. file[p].ref = None /\ file[p].eol
    BY <1>1, <1>5, <1>6, <2>1
  <2>4. Free(file[p], fs)
    BY <2>2, <2>3 DEF Free, Matches
  <2>5. PICK j \in 1 .. n : pos[j] = p
    BY <1>3, <2>3, <2>4
  <2>6. w[j].code = i
    BY <1>3, <2>1, <2>5
  <2>7. j \in 1 .. n + 2 * L
    BY <1>2, <1>3, <2>5 DEF L
  <2> QED  BY <2>6, <2>7
<1>9. L \in Nat /\ n \in Nat /\ Len(file) \in Nat
  BY <1>1, <1>2, <1>3, SeqFacts DEF L, Lines
<1>10. \A j \in 1 .. n + 2 * L :
          w[j].code # None =>
             \/ j \in 1 .. n
             \/ j = n + 1 /\ w[j].code = CodeLines /\ ~ file[Len(file)].eol
  <2> SUFFICES ASSUME NEW j \in 1 .. n + 2 * L, w[j].code # None, j \notin 1 .. n
               PROVE  j = n + 1 /\ w[j].code = CodeLines /\ ~ file[Len(file)].eol
    OBVIOUS
  <2>1. \E m \in 1 .. L : j = n + 2 * m - 1 \/ j = n + 2 * m
    BY <1>9, Places
  <2>2. PICK m \in 1 .. L : j = n + 2 * m - 1 \/ j = n + 2 * m
    BY <2>1
  <2>3. j = n + 2 * m - 1
    BY <1>3, <2>2
  <2>4. m = 1 /\ w[j].code = CodeLines /\ ~ file[Len(file)].eol
    BY <1>3, <2>3
  <2>5. j = n + 1
    BY <1>9, <2>3, <2>4
  <2> QED  BY <2>4, <2>5
<1>11. InOrder(w)
  <2> SUFFICES ASSUME NEW i \in 1 .. n + 2 * L, NEW j \in 1 .. n + 2 * L, i < j,
                      w[i].code # None, w[j].code # None
               PROVE  w[i].code < w[j].code
    BY <1>4 DEF InOrder
  <2>1. i \in 1 .. n
    BY <1>9, <1>10
  <2>2. /\ pos[i] \in 1 .. Len(file) /\ w[i] = file[pos[i]]
        /\ file[pos[i]].eol
    BY <1>3, <2>1
  <2>3. CASE j \in 1 .. n
    BY <1>3, <1>4, <2>1, <2>2, <2>3 DEF InOrder
  <2>4. CASE j = n + 1 /\ w[j].code = CodeLines /\ ~ file[Len(file)].eol
    <3>1. pos[i] < Len(file) /\ Len(file) \in 1 .. Len(file)
      <4>1. pos[i] # Len(file)
        BY <2>2, <2>4
      <4> QED  BY <1>9, <2>2, <4>1
    <3>2. file[Len(file)].code = CodeLines
      BY <1>1, <2>4, <3>1
    <3>3. CodeLines # None
      BY NamesAssumption, SourceAssumption
    <3> QED  BY <1>4, <2>2, <2>4, <3>1, <3>2, <3>3 DEF InOrder
  <2> QED  BY <1>10, <2>3, <2>4
<1> QED  BY <1>7, <1>8, <1>11

-------------------------------------------------------------------------------
(* The string of a function whose name is apart *)

\* There is one definition at most, so that its place tells the string.
LEMMA StringInSource ==
    ASSUME NEW lines, NEW f, NEW i \in DOMAIN lines, lines[i].def = f,
           \A j \in DOMAIN lines : lines[j].def = f => j = i
    PROVE  /\ HasDef(lines, f)
           /\ HasRef(lines, f) => InSource(lines, f) = lines[i].string
<1>1. HasDef(lines, f)
  BY DEF HasDef
<1>2. (CHOOSE n \in DOMAIN lines : lines[n].def = f) = i
  OBVIOUS
<1> QED  BY <1>1, <1>2 DEF InSource

\* Of a function whose name is apart the lines match that have just it.
LEMMA ApartMatches ==
    ASSUME NEW f \in Function, Apart(f), NEW g \in Function, NEW line
    PROVE  /\ line.def = f /\ line.ref = None => (Matches(line, g) <=> g = f)
           /\ line.ref = f /\ line.def = None => (Matches(line, g) <=> g = f)
           /\ Matches(line, f) <=> line.def = f \/ line.ref = f
<1>1. f # None /\ g # None
  BY NamesAssumption
<1>2. \A h : /\ <<f, h>> \notin EndsWith \cup StartsWith
             /\ <<h, f>> \notin EndsWith \cup StartsWith
  <2> SUFFICES ASSUME NEW h,
                      <<f, h>> \in EndsWith \cup StartsWith
                         \/ <<h, f>> \in EndsWith \cup StartsWith
               PROVE  FALSE
    OBVIOUS
  <2>1. <<f, h>>[1] = f /\ <<h, f>>[2] = f
    OBVIOUS
  <2> QED  BY <2>1 DEF Apart
<1>3. /\ <<f, g>> \notin EndsWith /\ <<f, g>> \notin StartsWith
      /\ <<line.def, f>> \notin EndsWith /\ <<line.ref, f>> \notin StartsWith
  BY <1>2
<1>4. Matches(line, f) <=> line.def = f \/ line.ref = f
  BY <1>1, <1>3 DEF Matches
<1>5. line.ref = f /\ line.def = None => (Matches(line, g) <=> g = f)
  BY <1>1, <1>3 DEF Matches
<1>6. line.def = f /\ line.ref = None => (Matches(line, g) <=> g = f)
  BY <1>1, <1>3 DEF Matches
<1> QED  BY <1>4, <1>5, <1>6

\* What the file has before is what c2cs[-1] finds.
LEMMA EarlierIsInSource ==
    ASSUME WellFormed(file), NEW fs \in Seq(Function), NEW m \in 1 .. Len(fs),
           \A i, j \in 1 .. Len(fs) : fs[i] = fs[j] => i = j,
           Apart(fs[m]), HasDef(file, fs[m]) <=> HasRef(file, fs[m])
    PROVE  Earlier(fs, m) = InSource(file, fs[m])
<1> DEFINE f == fs[m]
           at == {i \in DOMAIN file :
                     file[i].def # None /\ IsTakenFor(file[i], fs, m)}
           defs == {i \in DOMAIN file : file[i].def = f}
<1>1. /\ Len(fs) \in Nat /\ \A i \in 1 .. Len(fs) : fs[i] \in Function /\ fs[i] # None
  BY SeqFacts, NamesAssumption
<1>2. /\ Len(file) \in Nat /\ DOMAIN file = 1 .. Len(file)
      /\ \A i \in DOMAIN file :
            /\ file[i].code # None => file[i].ref = None
            /\ file[i].code = None => (file[i].def = None) # (file[i].ref = None)
      /\ \A i, j \in DOMAIN file :
            file[i].def = file[j].def => i = j \/ file[i].def = None
  BY SeqFacts DEF WellFormed
<1>3. ASSUME NEW i \in at PROVE i \in defs
  <2>1. i \in DOMAIN file /\ file[i].def # None /\ Matches(file[i], f)
    BY DEF IsTakenFor
  <2>2. file[i].ref = None
    BY <1>2, <2>1
  <2>3. file[i].def = f \/ file[i].ref = f
    BY <1>1, <2>1, ApartMatches
  <2> QED  BY <1>1, <2>1, <2>2, <2>3
<1>4. ASSUME NEW i \in defs PROVE i \in at
  <2>1. i \in DOMAIN file /\ file[i].def = f /\ file[i].def # None
    BY <1>1
  <2>2. file[i].ref = None
    BY <1>2, <2>1
  <2>3. Matches(file[i], f)
    BY <1>1, <2>1, ApartMatches
  <2>4. ASSUME NEW l \in 1 .. m - 1 PROVE ~ Matches(file[i], fs[l])
    <3>1. l \in 1 .. Len(fs) /\ l # m
      BY <1>1
    <3>2. fs[l] \in Function /\ fs[l] # f /\ fs[l] # None
      BY <1>1, <3>1
    <3> QED  BY <1>1, <2>1, <2>2, <3>2, ApartMatches
  <2> QED  BY <2>1, <2>3, <2>4 DEF IsTakenFor
<1>5. at = defs
  BY <1>3, <1>4
<1>6. Earlier(fs, m) = IF at = {} THEN NoString ELSE file[Max(at)].string
  BY DEF Earlier
<1>7. defs \subseteq 1 .. Len(file)
  BY <1>2
<1> HIDE DEF at
<1>8. CASE defs = {}
  <2>1. ~ HasDef(file, f)
    BY <1>8 DEF HasDef
  <2> QED  BY <1>5, <1>6, <1>8, <2>1 DEF InSource
<1>9. CASE defs # {}
  <2> HIDE DEF defs
  <2>1. Max(defs) \in defs
    BY <1>2, <1>7, <1>9, LastOfSet
  <2> DEFINE i == Max(defs)
  <2>2. i \in DOMAIN file /\ file[i].def = f
    BY <2>1 DEF defs
  <2>3. \A j \in DOMAIN file : file[j].def = f => j = i
    BY <1>1, <1>2, <2>2
  <2> HIDE DEF i
  <2>4. InSource(file, f) = file[i].string
    BY <2>2, <2>3, StringInSource
  <2> QED  BY <1>5, <1>6, <1>9, <2>4 DEF i
<1> QED  BY <1>8, <1>9

\* Strings that are there are not empty: the annotator reads what the command
\* line has.
LEMMA NoEarlyReturn ==
    ASSUME WellFormed(file)
    PROVE  ~ ReturnsEarly
<1> SUFFICES ASSUME NEW f \in Function, HasRef(file, f), HasDef(file, f),
                    InSource(file, f) = NoString
             PROVE  FALSE
  BY DEF ReturnsEarly
<1>1. f # None
  BY NamesAssumption
<1>2. /\ \A i \in DOMAIN file : file[i].string # NoString <=> file[i].def # None
      /\ \A i, j \in DOMAIN file :
            file[i].def = file[j].def => i = j \/ file[i].def = None
  BY DEF WellFormed
<1>3. PICK i \in DOMAIN file : file[i].def = f
  BY DEF HasDef
<1>4. \A j \in DOMAIN file : file[j].def = f => j = i
  BY <1>1, <1>2, <1>3
<1>5. InSource(file, f) = file[i].string
  BY <1>3, <1>4, StringInSource
<1> QED  BY <1>1, <1>2, <1>3, <1>5

\* Complete, for a string that need not be the tuned one.
Has(lines, f, string) ==
    /\ HasDef(lines, f) <=> HasRef(lines, f)
    /\ InSource(lines, f) = string

\* The choices of a function with choices: its new definition has the old
\* string and the new levels.
LEMMA WrittenHasNew ==
    ASSUME WellFormed(file), NEW choices \in Seq(Choice), choices # <<>>,
           NEW w, WellFormed(w),
           NEW n, NEW pos, Composed(w, n, pos, Functions(choices), choices),
           NEW m \in 1 .. Len(Functions(choices)), NEW f, f = Functions(choices)[m],
           Apart(f), HasDef(file, f) <=> HasRef(file, f)
    PROVE  Has(w, f, InBuild(f, choices))
<1> DEFINE fs == Functions(choices)
           L == Len(fs)
           d == n + 2 * m - 1
           r == n + 2 * m
<1>1. /\ fs \in Seq(Function) /\ L \in Nat
      /\ \A i, j \in 1 .. L : fs[i] = fs[j] => i = j
  BY FunctionsFacts
<1> HIDE DEF fs
<1>2. f = fs[m] /\ m \in 1 .. L
  BY DEF fs
<1>3. f \in Function /\ f # None
  BY <1>1, <1>2, SeqFacts, NamesAssumption
<1>4. /\ w \in Lines /\ n \in Nat /\ Len(w) = n + 2 * L
      /\ w[d].def = f /\ w[d].string = String(fs, m, choices)
      /\ w[r].ref = f
  BY <1>2 DEF Composed, fs, IsDefinition, IsReference
<1>5. d \in DOMAIN w /\ r \in DOMAIN w
  <2>1. d \in 1 .. n + 2 * L /\ r \in 1 .. n + 2 * L
    BY <1>1, <1>2, <1>4
  <2> QED  BY <1>4, <2>1, SeqFacts DEF Lines
<1>6. \A i, j \in DOMAIN w : w[i].def = w[j].def => i = j \/ w[i].def = None
  BY DEF WellFormed
<1> HIDE DEF d, r, L
<1>7. HasRef(w, f)
  BY <1>4, <1>5 DEF HasRef
<1>8. \A j \in DOMAIN w : w[j].def = f => j = d
  BY <1>3, <1>4, <1>5, <1>6
<1>9. HasDef(w, f) /\ InSource(w, f) = w[d].string
  BY <1>4, <1>5, <1>7, <1>8, StringInSource
<1>10. Earlier(fs, m) = InSource(file, f)
  BY <1>1, <1>2, EarlierIsInSource DEF L
<1>11. InBuild(f, choices) = String(fs, m, choices)
  BY <1>2, <1>10, NoEarlyReturn DEF InBuild, String
<1> QED  BY <1>4, <1>7, <1>9, <1>11 DEF Has

\* Those of the others: its lines stay.
LEMMA WrittenHasOld ==
    ASSUME WellFormed(file), NEW choices \in Seq(Choice), choices # <<>>,
           NEW w, WellFormed(w),
           NEW n, NEW pos, Composed(w, n, pos, Functions(choices), choices),
           NEW f \in Function,
           \A m \in 1 .. Len(Functions(choices)) : f # Functions(choices)[m],
           Apart(f), HasDef(file, f) <=> HasRef(file, f)
    PROVE  Has(w, f, InBuild(f, choices))
<1> DEFINE fs == Functions(choices)
           L == Len(fs)
<1>1. /\ fs \in Seq(Function) /\ L \in Nat
      /\ \A m \in 1 .. L : f # fs[m]
      /\ \A c \in 1 .. Len(choices) : \E i \in 1 .. L : fs[i] = choices[c].function
  BY FunctionsFacts
<1> HIDE DEF fs
<1>2. f # None /\ \A m \in 1 .. L : fs[m] \in Function
  BY <1>1, SeqFacts, NamesAssumption
<1>3. /\ file \in Lines /\ DOMAIN file = 1 .. Len(file)
      /\ \A i \in DOMAIN file :
            /\ file[i].code # None => file[i].ref = None
            /\ file[i].code = None => (file[i].def = None) # (file[i].ref = None)
            /\ ~ file[i].eol => file[i].code = CodeLines /\ file[i].def = None
      /\ \A i, j \in DOMAIN file :
            /\ file[i].def = file[j].def => i = j \/ file[i].def = None
            /\ file[i].ref = file[j].ref => i = j \/ file[i].ref = None
  BY SeqFacts DEF WellFormed, Lines
<1>4. /\ w \in Lines /\ n \in Nat /\ Len(w) = n + 2 * L
      /\ \A i \in 1 .. n : pos[i] \in 1 .. Len(file) /\ w[i] = file[pos[i]]
      /\ \A p \in 1 .. Len(file) :
            Free(file[p], fs) /\ file[p].eol => \E i \in 1 .. n : pos[i] = p
      /\ \A m \in 1 .. L :
            /\ w[n + 2 * m - 1].def = fs[m] /\ w[n + 2 * m - 1].ref = None
            /\ w[n + 2 * m].def = None /\ w[n + 2 * m].ref = fs[m]
  BY DEF Composed, fs, IsDefinition, IsReference
<1>5. DOMAIN w = 1 .. n + 2 * L
  BY <1>4, SeqFacts DEF Lines
<1>6. \A i, j \in DOMAIN w : w[i].def = w[j].def => i = j \/ w[i].def = None
  BY DEF WellFormed
<1>7. \A i \in 1 .. n : i \in DOMAIN w
  BY <1>1, <1>4, <1>5
<1>8. ASSUME NEW j \in DOMAIN w, w[j].def = f \/ w[j].ref = f
      PROVE  j \in 1 .. n
  <2>1. \A m \in 1 .. L : j # n + 2 * m - 1 /\ j # n + 2 * m
    <3> SUFFICES ASSUME NEW m \in 1 .. L, j = n + 2 * m - 1 \/ j = n + 2 * m
                 PROVE  FALSE
      OBVIOUS
    <3>1. CASE j = n + 2 * m - 1
      BY <1>1, <1>2, <1>4, <1>8, <3>1
    <3>2. CASE j = n + 2 * m
      BY <1>1, <1>2, <1>4, <1>8, <3>2
    <3> QED  BY <3>1, <3>2
  <2>2. j \in 1 .. n + 2 * L
    BY <1>5
  <2>3. L \in Nat /\ n \in Nat
    BY <1>1, <1>4
  <2> HIDE DEF L
  <2>4. j \in 1 .. n \/ \E m \in 1 .. L : j = n + 2 * m - 1 \/ j = n + 2 * m
    BY <2>2, <2>3, Places
  <2> QED  BY <2>1, <2>4
<1> HIDE DEF L
<1>9. ASSUME NEW p \in DOMAIN file, file[p].def = f \/ file[p].ref = f
      PROVE  \E i \in 1 .. n : pos[i] = p
  <2>1. file[p].eol
    BY <1>2, <1>3, <1>9, NamesAssumption, SourceAssumption
  <2>2. (file[p].def = f /\ file[p].ref = None) \/ (file[p].ref = f /\ file[p].def = None)
    BY <1>2, <1>3, <1>9
  <2>3. \A m \in 1 .. L : ~ Matches(file[p], fs[m])
    BY <1>1, <1>2, <2>2, ApartMatches
  <2>4. Free(file[p], fs)
    BY <2>3 DEF Free, L
  <2> QED  BY <1>3, <1>4, <2>1, <2>4
<1>10. HasDef(w, f) <=> HasDef(file, f)
  <2>1. HasDef(w, f) => HasDef(file, f)
    <3> SUFFICES ASSUME NEW j \in DOMAIN w, w[j].def = f PROVE HasDef(file, f)
      BY DEF HasDef
    <3>1. j \in 1 .. n
      BY <1>8
    <3> QED  BY <1>3, <1>4, <3>1 DEF HasDef
  <2>2. HasDef(file, f) => HasDef(w, f)
    <3> SUFFICES ASSUME NEW p \in DOMAIN file, file[p].def = f PROVE HasDef(w, f)
      BY DEF HasDef
    <3>1. PICK i \in 1 .. n : pos[i] = p
      BY <1>9
    <3> QED  BY <1>4, <1>7, <3>1 DEF HasDef
  <2> QED  BY <2>1, <2>2
<1>11. HasRef(w, f) <=> HasRef(file, f)
  <2>1. HasRef(w, f) => HasRef(file, f)
    <3> SUFFICES ASSUME NEW j \in DOMAIN w, w[j].ref = f PROVE HasRef(file, f)
      BY DEF HasRef
    <3>1. j \in 1 .. n
      BY <1>8
    <3> QED  BY <1>3, <1>4, <3>1 DEF HasRef
  <2>2. HasRef(file, f) => HasRef(w, f)
    <3> SUFFICES ASSUME NEW p \in DOMAIN file, file[p].ref = f PROVE HasRef(w, f)
      BY DEF HasRef
    <3>1. PICK i \in 1 .. n : pos[i] = p
      BY <1>9
    <3> QED  BY <1>4, <1>7, <3>1 DEF HasRef
  <2> QED  BY <2>1, <2>2
<1>12. InSource(w, f) = InSource(file, f)
  <2>1. CASE HasDef(file, f)
    <3>1. PICK p \in DOMAIN file : file[p].def = f
      BY <2>1 DEF HasDef
    <3>2. PICK i \in 1 .. n : pos[i] = p
      BY <1>9, <3>1
    <3>3. i \in DOMAIN w /\ w[i] = file[p]
      BY <1>4, <1>7, <3>2
    <3>4. InSource(w, f) = w[i].string
      <4>1. \A j \in DOMAIN w : w[j].def = f => j = i
        BY <1>2, <1>6, <3>1, <3>3
      <4> QED  BY <1>10, <1>11, <2>1, <3>1, <3>3, <4>1, StringInSource
    <3>5. InSource(file, f) = file[p].string
      <4>1. \A j \in DOMAIN file : file[j].def = f => j = p
        BY <1>2, <1>3, <3>1
      <4> QED  BY <2>1, <3>1, <4>1, StringInSource
    <3> QED  BY <3>3, <3>4, <3>5
  <2>2. CASE ~ HasDef(file, f)
    BY <1>10, <2>2 DEF InSource
  <2> QED  BY <2>1, <2>2
<1>13. InBuild(f, choices) = InSource(file, f)
  <2>1. \A c \in 1 .. Len(choices) : choices[c].function # f
    BY <1>1
  <2>2. \A k \in Kind : NewLevels(choices, f, k) = <<>>
    BY <2>1, NewLevelsFacts
  <2>3. InSource(file, f) \in ControlString
    <3>1. NoString \in ControlString
      BY DEF NoString, ControlString
    <3>2. \A i \in DOMAIN file : file[i].string \in ControlString
      <4>1. \A i \in DOMAIN file : file[i] \in SourceLine
        BY <1>3, SeqFacts DEF Lines
      <4> QED  BY <4>1 DEF SourceLine
    <3> QED  BY <3>1, <3>2 DEF InSource, HasDef
  <2> DEFINE old == InSource(file, f)
  <2>4. InBuild(f, choices) = [k \in Kind |-> old[k] \o NewLevels(choices, f, k)]
    BY NoEarlyReturn DEF InBuild
  <2> HIDE DEF old
  <2>5. \A k \in Kind : old[k] \o NewLevels(choices, f, k) = old[k]
    <3>1. \A k \in Kind : old[k] \in Seq(Level)
      BY <2>3 DEF old, ControlString
    <3>2. \A s \in Seq(Level) : s \o <<>> = s
      OBVIOUS
    <3> QED  BY <2>2, <3>1, <3>2
  <2>6. old = [k \in Kind |-> old[k]]
    BY <2>3 DEF old, ControlString
  <2> QED  BY <2>4, <2>5, <2>6 DEF old
<1> QED  BY <1>10, <1>11, <1>12, <1>13 DEF Has

-------------------------------------------------------------------------------
(* A write that was cut short *)

LEMMA PrefixFacts ==
    ASSUME NEW lines, WellFormed(lines), newline \in BOOLEAN,
           NEW n \in 0 .. Len(lines) - 1
    PROVE  LET p == SubSeq(lines, 1, n)
           IN  /\ WellFormed(p)
               /\ CodeIsApart(lines) => CodeIsApart(p)
               /\ InOrder(lines) => InOrder(p)
               /\ InOrder(lines) /\ HasSafeCode(lines) => OnlyEndIsLost(p)
               /\ \A f \in Function :
                     InSource(p, f) = InSource(lines, f) \/ InSource(p, f) = NoString
<1> DEFINE p == SubSeq(lines, 1, n)
           K == Len(lines)
<1>1. /\ lines \in Seq(SourceLine) /\ K \in Nat /\ DOMAIN lines = 1 .. K
      /\ \A i \in DOMAIN lines :
            /\ lines[i].string # NoString <=> lines[i].def # None
            /\ lines[i].code # None => lines[i].ref = None
            /\ lines[i].code = None => (lines[i].def = None) # (lines[i].ref = None)
            /\ ~ lines[i].eol => i = K
      /\ \A i, j \in DOMAIN lines :
            /\ lines[i].def = lines[j].def => i = j \/ lines[i].def = None
            /\ lines[i].ref = lines[j].ref => i = j \/ lines[i].ref = None
  BY SeqFacts DEF WellFormed
<1>2. K \in Nat /\ DOMAIN lines = 1 .. K /\ n \in Nat /\ n < K
  BY <1>1
<1>3. /\ p \in Seq(SourceLine) /\ DOMAIN p = 1 .. n
      /\ \A i \in 1 .. n : p[i] = lines[i]
  BY <1>1, <1>2
<1>4. \A i \in 1 .. n : i \in DOMAIN lines /\ i # K
  <2> HIDE DEF K
  <2> QED  BY <1>2
<1> HIDE DEF p, K
<1>5. WellFormed(p)
  <2>1. \A i \in DOMAIN p :
            /\ p[i].string # NoString <=> p[i].def # None
            /\ p[i].code # None => p[i].ref = None
            /\ p[i].code = None => (p[i].def = None) # (p[i].ref = None)
            /\ p[i].eol
    BY <1>1, <1>3, <1>4
  <2>2. \A i, j \in DOMAIN p :
            /\ p[i].def = p[j].def => i = j \/ p[i].def = None
            /\ p[i].ref = p[j].ref => i = j \/ p[i].ref = None
    BY <1>1, <1>3, <1>4
  <2> QED  BY <1>3, <2>1, <2>2 DEF WellFormed
<1>6. CodeIsApart(lines) => CodeIsApart(p)
  BY <1>3, <1>4 DEF CodeIsApart
<1>7. ASSUME NEW f \in Function, HasRef(p, f), HasDef(p, f)
      PROVE  InSource(p, f) = InSource(lines, f)
  <2>1. f # None
    BY NamesAssumption
  <2>2. PICK i \in DOMAIN p : p[i].def = f
    BY <1>7 DEF HasDef
  <2>3. i \in DOMAIN lines /\ lines[i] = p[i]
    BY <1>3, <1>4, <2>2
  <2>4. HasRef(lines, f)
    BY <1>3, <1>4, <1>7 DEF HasRef
  <2>5. \A j \in DOMAIN lines : lines[j].def = f => j = i
    BY <1>1, <2>1, <2>2, <2>3
  <2>6. \A j \in DOMAIN p : p[j].def = f => j = i
    BY <1>3, <1>4, <2>5
  <2>7. InSource(lines, f) = lines[i].string
    BY <2>2, <2>3, <2>4, <2>5, StringInSource
  <2>8. InSource(p, f) = p[i].string
    BY <1>7, <2>2, <2>6, StringInSource
  <2> QED  BY <2>3, <2>7, <2>8
<1>8. \A f \in Function :
         InSource(p, f) = InSource(lines, f) \/ InSource(p, f) = NoString
  <2> SUFFICES ASSUME NEW f \in Function
               PROVE  InSource(p, f) = InSource(lines, f) \/ InSource(p, f) = NoString
    OBVIOUS
  <2>1. CASE HasRef(p, f) /\ HasDef(p, f)
    BY <1>7, <2>1
  <2>2. CASE ~ (HasRef(p, f) /\ HasDef(p, f))
    BY <2>2 DEF InSource
  <2> QED  BY <2>1, <2>2
<1>9. InOrder(lines) => InOrder(p)
  BY <1>3, <1>4 DEF InOrder
<1>10. ASSUME InOrder(lines), HasSafeCode(lines),
              NEW i \in 1 .. CodeLines, NEW j \in 1 .. CodeLines,
              Safe(i), ~ HasCode(p, i), i < j, HasCode(p, j)
       PROVE  FALSE
  <2>1. PICK b \in 1 .. n : p[b].code = j
    BY <1>3, <1>10 DEF HasCode
  <2>2. PICK a \in 1 .. K : lines[a].code = i
    BY <1>2, <1>10 DEF HasSafeCode, HasCode
  <2>3. a \notin 1 .. n
    BY <1>3, <1>10, <2>2 DEF HasCode
  <2>4. b < a /\ b \in DOMAIN lines /\ a \in DOMAIN lines /\ lines[b].code = j
    BY <1>2, <1>3, <1>4, <2>1, <2>2, <2>3
  <2>5. i # None /\ j # None
    BY NamesAssumption, SourceAssumption
  <2>6. j < i
    BY <1>10, <2>2, <2>4, <2>5 DEF InOrder
  <2> QED  BY <1>10, <2>6, SourceAssumption
<1>11. InOrder(lines) /\ HasSafeCode(lines) => OnlyEndIsLost(p)
  BY <1>10 DEF OnlyEndIsLost
<1> QED  BY <1>5, <1>6, <1>8, <1>9, <1>11 DEF p

-------------------------------------------------------------------------------
(* The inductive invariant *)

LEMMA EmptyFile ==
    WellFormed(<<>>) /\ CodeIsApart(<<>>) /\ InOrder(<<>>)
BY DEF WellFormed, CodeIsApart, InOrder

LEMMA InitIInv == Init => IInv
<1> SUFFICES ASSUME Init PROVE IInv  OBVIOUS
<1> USE DEF Init
<1>1. newline \in BOOLEAN /\ CodeLines \in Nat \ {0}
  BY SourceAssumption
<1>2. NoString \in ControlString
  BY DEF NoString, ControlString
<1>3. \A i \in 1 .. CodeLines : i # None
  BY <1>1, NamesAssumption
<1>4. /\ file \in Seq(SourceLine) /\ Len(file) = CodeLines /\ DOMAIN file = 1 .. CodeLines
      /\ \A i \in 1 .. CodeLines :
            /\ file[i].code = i /\ file[i].def = None /\ file[i].ref = None
            /\ file[i].string = NoString
            /\ ~ file[i].eol => i = CodeLines /\ ~ newline
  <2> DEFINE line(i) == Line(i, None, NoString, None, i < CodeLines \/ newline)
  <2>1. \A i \in 1 .. CodeLines :
           /\ line(i) \in SourceLine
           /\ line(i).code = i /\ line(i).def = None /\ line(i).ref = None
           /\ line(i).string = NoString
           /\ ~ line(i).eol => i = CodeLines /\ ~ newline
    <3> SUFFICES ASSUME NEW i \in 1 .. CodeLines
                 PROVE  /\ line(i) \in SourceLine
                        /\ line(i).code = i /\ line(i).def = None /\ line(i).ref = None
                        /\ line(i).string = NoString
                        /\ ~ line(i).eol => i = CodeLines /\ ~ newline
      OBVIOUS
    <3> DEFINE ended == i < CodeLines \/ newline
    <3>1. ended \in BOOLEAN
      OBVIOUS
    <3>2. ~ ended => i = CodeLines /\ ~ newline
      BY <1>1
    <3>3. line(i) = Line(i, None, NoString, None, ended)
      OBVIOUS
    <3> HIDE DEF ended, line
    <3> QED  BY <1>2, <3>1, <3>2, <3>3 DEF Line, SourceLine
  <2>2. file = [i \in 1 .. CodeLines |-> line(i)]
    BY DEF Source
  <2> HIDE DEF line
  <2>3. file \in [1 .. CodeLines -> SourceLine]
    BY <2>1, <2>2
  <2>4. file \in Seq(SourceLine) /\ Len(file) = CodeLines /\ DOMAIN file = 1 .. CodeLines
    BY <1>1, <2>3
  <2>5. \A i \in 1 .. CodeLines : file[i] = line(i)
    BY <2>2
  <2> QED  BY <2>1, <2>4, <2>5
<1>5. WellFormed(file)
  <2>1. \A i \in DOMAIN file :
          /\ file[i].string # NoString <=> file[i].def # None
          /\ file[i].code # None => file[i].ref = None
          /\ file[i].code = None => (file[i].def = None) # (file[i].ref = None)
          /\ ~ file[i].eol => i = Len(file) /\ file[i].code = CodeLines
                                /\ file[i].def = None /\ ~ newline
    BY <1>3, <1>4
  <2>2. \A i \in DOMAIN file : file[i].def = None /\ file[i].ref = None
    BY <1>4
  <2> QED  BY <1>4, <2>1, <2>2 DEF WellFormed
<1>6. tuned = [f \in Function |-> NoString] /\ tuned \in [Function -> ControlString]
  BY <1>2
<1>7. TypeOK
  BY <1>1, <1>5, <1>6, EmptyFile, BoundAssumption DEF TypeOK
<1>8. CodeIsApart(file) /\ CodeIsApart(pending)
  BY <1>4, EmptyFile DEF CodeIsApart
<1>9. CodeSurvives /\ InOrder(pending)
  <2>1. HasSafeCode(file)
    BY <1>4 DEF HasSafeCode, HasCode
  <2>2. InOrder(file)
    BY <1>4 DEF InOrder
  <2> QED  BY <2>1, <2>2, EmptyFile DEF CodeSurvives, InOrder
<1>10. ASSUME NEW f \in Function PROVE Complete(file, f)
  <2>1. f # None
    BY NamesAssumption
  <2>2. ~ HasDef(file, f) /\ ~ HasRef(file, f)
    BY <1>4, <2>1 DEF HasDef, HasRef
  <2> QED  BY <1>6, <2>2 DEF Complete, InSource
<1>11. ApartKeepsChoices
  BY <1>10 DEF ApartKeepsChoices, Complete, Found
<1> QED  BY <1>7, <1>8, <1>9, <1>10, <1>11 DEF IInv

LEMMA ExperimentIInv ==
    ASSUME IInv, Experiment
    PROVE  IInv'
<1>1. /\ WellFormed(file) /\ newline \in BOOLEAN /\ CodeIsApart(file)
      /\ InOrder(file)
      /\ crashes \in Nat /\ experiments \in 0 .. MaxExperiments
      /\ phase = "crashed" => crashes > 0
      /\ crashes = 0 /\ phase = "idle" =>
            \A f \in Function : Apart(f) => Complete(file, f)
  BY DEF IInv, TypeOK, CodeSurvives
<1>2. /\ phase \in {"idle", "crashed"} /\ experiments < MaxExperiments
      /\ \A i \in 1 .. CodeLines : HasCode(file, i)
      /\ experiments' = experiments + 1 /\ file' = <<>> /\ phase' = "writing"
      /\ crashes' = crashes /\ newline' = newline
  BY DEF Experiment, Compiles
<1>3. PICK choices \in SeqOf(Choice, MaxChoices) \ {<<>>} :
        /\ tuned' = [f \in Function |-> InBuild(f, choices)]
        /\ pending' = Written(choices)
  BY DEF Experiment
<1>4. choices \in Seq(Choice) /\ choices # <<>>
  BY <1>3, BoundAssumption DEF SeqOf
<1> DEFINE w == Written(choices)
           B(f) == InBuild(f, choices)
<1>5. PICK n, pos : Composed(w, n, pos, Functions(choices), choices)
  BY <1>1, <1>4, WrittenFacts
<1>6. tuned' = [f \in Function |-> B(f)] /\ pending' = w
  BY <1>3
<1> HIDE DEF w, B
<1>7. WellFormed(w)
  BY <1>1, <1>4, <1>5, WrittenIsWellFormed
<1>8. CodeIsApart(w) /\ HasSafeCode(w) /\ InOrder(w)
  BY <1>1, <1>2, <1>4, <1>5, WrittenKeepsCode
<1>9. ASSUME NEW f \in Function, Apart(f), crashes = 0 PROVE Has(w, f, B(f))
  <2>1. HasDef(file, f) <=> HasRef(file, f)
    BY <1>1, <1>2, <1>9 DEF Complete
  <2>2. CASE \E m \in 1 .. Len(Functions(choices)) : f = Functions(choices)[m]
    BY <1>1, <1>4, <1>5, <1>7, <1>9, <2>1, <2>2, WrittenHasNew DEF B
  <2>3. CASE \A m \in 1 .. Len(Functions(choices)) : f # Functions(choices)[m]
    BY <1>1, <1>4, <1>5, <1>7, <1>9, <2>1, <2>3, WrittenHasOld DEF B
  <2> QED  BY <2>2, <2>3
<1>10. ASSUME NEW f \in Function PROVE B(f) \in ControlString
  <2>1. file \in Lines /\ DOMAIN file = 1 .. Len(file)
    BY <1>1, SeqFacts DEF WellFormed, Lines
  <2>2. \A i \in DOMAIN file : file[i].string \in ControlString
    <3>1. \A i \in DOMAIN file : file[i] \in SourceLine
      BY <2>1, SeqFacts DEF Lines
    <3> QED  BY <3>1 DEF SourceLine
  <2>3. NoString \in ControlString
    BY DEF NoString, ControlString
  <2> DEFINE old == InSource(file, f)
  <2>4. old \in ControlString
    BY <2>2, <2>3 DEF InSource, HasDef
  <2>5. B(f) = [k \in Kind |-> old[k] \o NewLevels(choices, f, k)]
    BY <1>1, NoEarlyReturn DEF InBuild, B
  <2> HIDE DEF old
  <2>6. \A k \in Kind : old[k] \in Seq(Level) /\ NewLevels(choices, f, k) \in Seq(Level)
    BY <1>4, <2>4, NewLevelsFacts DEF ControlString
  <2>7. \A k \in Kind : old[k] \o NewLevels(choices, f, k) \in Seq(Level)
    BY <2>6
  <2> QED  BY <2>5, <2>7 DEF ControlString
<1>11. TypeOK'
  <2>1. WellFormed(file)'
    BY <1>2, EmptyFile DEF WellFormed
  <2>2. WellFormed(pending)'
    BY <1>2, <1>6, <1>7 DEF WellFormed
  <2>3. tuned' \in [Function -> ControlString]
    BY <1>6, <1>10
  <2>4. experiments' \in 0 .. MaxExperiments
    BY <1>1, <1>2, BoundAssumption
  <2> QED  BY <1>1, <1>2, <2>1, <2>2, <2>3, <2>4 DEF TypeOK
<1>12. CodeIsApart(file)' /\ CodeIsApart(pending)' /\ CodeSurvives' /\ InOrder(pending)'
  <2>1. CodeIsApart(file)'
    BY <1>2, EmptyFile DEF CodeIsApart
  <2>2. CodeIsApart(pending)'
    BY <1>2, <1>6, <1>8 DEF CodeIsApart, Safe
  <2>3. HasSafeCode(pending)'
    BY <1>2, <1>6, <1>8 DEF HasSafeCode, HasCode, Safe
  <2>4. InOrder(file)' /\ InOrder(pending)'
    BY <1>2, <1>6, <1>8, EmptyFile DEF InOrder
  <2> QED  BY <1>2, <2>1, <2>2, <2>3, <2>4 DEF CodeSurvives
<1>13. ASSUME crashes = 0, NEW f \in Function, Apart(f)
       PROVE  Complete(pending, f)'
  <2>1. Has(w, f, B(f)) /\ tuned'[f] = B(f)
    BY <1>6, <1>9, <1>13
  <2> QED  BY <1>6, <2>1 DEF Complete, Has, HasDef, HasRef, InSource
<1>14. \A f \in Function : crashes' = 0 /\ Apart(f) => Complete(pending, f)'
  BY <1>2, <1>13
<1>15. ApartKeepsChoices'
  BY <1>2 DEF ApartKeepsChoices
<1> QED  BY <1>2, <1>11, <1>12, <1>14, <1>15 DEF IInv, Apart

LEMMA FinishIInv ==
    ASSUME IInv, FinishWriting
    PROVE  IInv'
<1>1. /\ phase = "writing" /\ file' = pending /\ pending' = <<>> /\ phase' = "idle"
      /\ crashes' = crashes /\ experiments' = experiments /\ newline' = newline
      /\ tuned' = tuned
  BY DEF FinishWriting
<1>2. TypeOK'
  <2>1. WellFormed(file)' /\ WellFormed(pending)'
    BY <1>1, EmptyFile DEF IInv, TypeOK, WellFormed
  <2> QED  BY <1>1, <2>1 DEF IInv, TypeOK
<1>3. CodeIsApart(file)' /\ CodeIsApart(pending)' /\ CodeSurvives' /\ InOrder(pending)'
  <2>1. CodeIsApart(file)' /\ CodeIsApart(pending)'
    BY <1>1, EmptyFile DEF IInv, CodeIsApart, Safe
  <2>2. HasSafeCode(file)'
    BY <1>1 DEF IInv, CodeSurvives, HasSafeCode, HasCode, Safe
  <2>3. InOrder(file)' /\ InOrder(pending)'
    BY <1>1, EmptyFile DEF IInv, InOrder
  <2> QED  BY <1>1, <2>1, <2>2, <2>3 DEF CodeSurvives
<1>4. \A f \in Function : crashes' = 0 /\ Apart(f) => Complete(file, f)'
  BY <1>1 DEF IInv, Complete, HasDef, HasRef, InSource
<1>5. ApartKeepsChoices'
  BY <1>1, <1>4 DEF ApartKeepsChoices, Complete, Found, Apart
<1> QED  BY <1>1, <1>2, <1>3, <1>4, <1>5 DEF IInv, Apart

LEMMA CrashIInv ==
    ASSUME IInv, Crash
    PROVE  IInv'
<1>1. /\ phase = "writing" /\ pending' = <<>> /\ phase' = "crashed"
      /\ crashes' = crashes + 1 /\ experiments' = experiments /\ newline' = newline
      /\ tuned' = tuned
  BY DEF Crash
<1>2. PICK n \in 0 .. Len(pending) - 1 : file' = SubSeq(pending, 1, n)
  BY DEF Crash
<1>3. /\ WellFormed(pending) /\ CodeIsApart(pending) /\ newline \in BOOLEAN
      /\ InOrder(pending) /\ HasSafeCode(pending)
      /\ crashes \in Nat
      /\ crashes = 0 => \A f \in Function : Apart(f) => Complete(pending, f)
  BY <1>1 DEF IInv, TypeOK, CodeSurvives
<1> DEFINE p == SubSeq(pending, 1, n)
<1>4. /\ WellFormed(p) /\ CodeIsApart(p) /\ InOrder(p) /\ OnlyEndIsLost(p)
      /\ \A f \in Function :
            InSource(p, f) = InSource(pending, f) \/ InSource(p, f) = NoString
  BY <1>3, PrefixFacts
<1>5. file' = p
  BY <1>2
<1> HIDE DEF p
<1>6. TypeOK'
  <2>1. WellFormed(file)'
    BY <1>1, <1>4, <1>5 DEF WellFormed
  <2>2. WellFormed(pending)'
    BY <1>1, EmptyFile DEF WellFormed
  <2>3. crashes' \in Nat
    BY <1>1, <1>3
  <2> QED  BY <1>1, <2>1, <2>2, <2>3 DEF IInv, TypeOK
<1>7. CodeIsApart(file)' /\ CodeIsApart(pending)'
  <2>1. CodeIsApart(file)'
    BY <1>1, <1>4, <1>5 DEF CodeIsApart, Safe
  <2>2. CodeIsApart(pending)'
    BY <1>1, EmptyFile DEF CodeIsApart
  <2> QED  BY <2>1, <2>2
<1>8. ApartKeepsChoices'
  <2> SUFFICES ASSUME NEW f \in Function, Apart(f), crashes' = 1
               PROVE  InSource(p, f) = tuned[f] \/ InSource(p, f) = NoString
    BY <1>1, <1>5 DEF ApartKeepsChoices, Found, Apart, InSource, HasDef, HasRef
  <2>1. crashes = 0
    BY <1>1, <1>3
  <2> QED  BY <1>3, <1>4, <2>1 DEF Complete
<1>9. crashes' > 0
  BY <1>1, <1>3
<1>10. CodeSurvives' /\ InOrder(pending)'
  <2>1. InOrder(file)' /\ InOrder(pending)'
    BY <1>1, <1>4, <1>5, EmptyFile DEF InOrder
  <2>2. OnlyEndIsLost(file)'
    BY <1>1, <1>4, <1>5 DEF OnlyEndIsLost, HasCode, Safe
  <2> QED  BY <1>1, <2>1, <2>2 DEF CodeSurvives
<1> QED  BY <1>1, <1>6, <1>7, <1>8, <1>9, <1>10 DEF IInv

LEMMA StutterIInv ==
    ASSUME IInv, UNCHANGED vars
    PROVE  IInv'
<1>1. /\ file' = file /\ pending' = pending /\ phase' = phase /\ crashes' = crashes
      /\ experiments' = experiments /\ newline' = newline /\ tuned' = tuned
  BY DEF vars
<1>2. TypeOK'
  BY <1>1 DEF IInv, TypeOK, WellFormed
<1>3. CodeIsApart(file)' /\ CodeIsApart(pending)'
  BY <1>1 DEF IInv, CodeIsApart, Safe
<1>4. CodeSurvives' /\ InOrder(pending)' /\ ((phase = "crashed")' => (crashes > 0)')
  <2>1. InOrder(file)' /\ InOrder(pending)'
    BY <1>1 DEF IInv, CodeSurvives, InOrder
  <2>2. /\ (phase = "idle")' => HasSafeCode(file)'
        /\ (phase = "writing")' => HasSafeCode(pending)'
        /\ (phase = "crashed")' => OnlyEndIsLost(file)'
        /\ (phase = "crashed")' => (crashes > 0)'
    BY <1>1 DEF IInv, CodeSurvives, HasSafeCode, HasCode, OnlyEndIsLost, Safe
  <2> QED  BY <2>1, <2>2 DEF CodeSurvives
<1>5. \A f \in Function : /\ Complete(file, f) => Complete(file, f)'
                          /\ Complete(pending, f) => Complete(pending, f)'
                          /\ Found(f) => Found(f)'
                          /\ InSource(file, f)' = InSource(file, f)
  BY <1>1 DEF Complete, HasDef, HasRef, InSource, Found
<1>6. /\ (crashes = 0 /\ phase = "idle")' =>
            \A f \in Function : Apart(f) => Complete(file, f)'
      /\ (crashes = 0 /\ phase = "writing")' =>
            \A f \in Function : Apart(f) => Complete(pending, f)'
  BY <1>1, <1>5 DEF IInv
<1>7. ApartKeepsChoices'
  BY <1>1, <1>5 DEF IInv, ApartKeepsChoices, Apart
<1> QED  BY <1>2, <1>3, <1>4, <1>6, <1>7 DEF IInv, Apart

-------------------------------------------------------------------------------
(* Theorems *)

\* The inductive invariant: in the file, or in what is about to be written, every
\* definition and reference is there once, the code is in its order, no line of it
\* is shared with a definition (but a last one without newline), and without a crash an apart
\* name has its verified string.
THEOREM SourceControlInvariance == Spec => []IInv
<1>1. IInv /\ [Next]_vars => IInv'
  <2> SUFFICES ASSUME IInv, [Next]_vars PROVE IInv'  OBVIOUS
  <2>1. CASE Experiment
    BY <2>1, ExperimentIInv
  <2>2. CASE FinishWriting
    BY <2>2, FinishIInv
  <2>3. CASE Crash
    BY <2>3, CrashIInv
  <2>4. CASE UNCHANGED vars
    BY <2>4, StutterIInv
  <2> QED  BY <2>1, <2>2, <2>3, <2>4 DEF Next
<1> QED  BY <1>1, InitIInv, PTL DEF Spec

\* Type correctness: whatever names contain each other, writeControl never leaves
\* a function with two definitions or references, which would not compile.
THEOREM SourceControlTypeCorrect == Spec => []TypeOK
<1>1. IInv => TypeOK
  BY DEF IInv
<1> QED  BY <1>1, SourceControlInvariance, PTL

\* A function whose name is apart from the others finds its verified choices
\* after every experiment, and all of them or none after the first crash.
THEOREM ApartChoicesKept == Spec => []ApartKeepsChoices
<1>1. IInv => ApartKeepsChoices
  BY DEF IInv
<1> QED  BY <1>1, SourceControlInvariance, PTL

\* However many experiments rewrite the file, and wherever writing is cut
\* short: the user's code is in the file or about to be written to it, but for a
\* last line without newline, and a crash loses nothing of it but its end.
THEOREM OnlyCrashesLoseCode == Spec => []CodeSurvives
<1>1. IInv => CodeSurvives
  BY DEF IInv
<1> QED  BY <1>1, SourceControlInvariance, PTL

===============================================================================
