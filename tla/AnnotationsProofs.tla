--------------------------- MODULE AnnotationsProofs ---------------------------
(***************************************************************************)
(* What is proved of the annotations, for every number of parameters, of   *)
(* loops and of instances of the annotator, and for every nesting of loops. *)
(***************************************************************************)
EXTENDS Annotations, FiniteSetTheorems, NumberLemmas, TLAPS

-------------------------------------------------------------------------------
(* Loops *)

\* f is what Around computes: its definition, for one loop after the other.
IsAround(f) ==
    f = [i \in 0 .. NumLoops |-> IF i = 0 THEN {} ELSE {i} \cup f[parent[i]]]

\* As the loop around a loop comes before it, the definition has a solution.
LEMMA AroundExists ==
    ASSUME TypeOK
    PROVE  \E f : IsAround(f)
<1> USE SizeAssumption
<1> DEFINE Solves(f, n) ==
              f = [i \in 0 .. n |-> IF i = 0 THEN {} ELSE {i} \cup f[parent[i]]]
           S == {n \in Nat : n <= NumLoops => \E f : Solves(f, n)}
<1>1. 0 \in S
  <2>1. Solves([i \in 0 .. 0 |-> {}], 0)
    OBVIOUS
  <2> QED  BY <2>1
<1>2. ASSUME NEW n \in Nat, n \in S PROVE n + 1 \in S
  <2> SUFFICES ASSUME n + 1 <= NumLoops PROVE \E f : Solves(f, n + 1)
    OBVIOUS
  <2>1. PICK f : Solves(f, n)
    BY <1>2
  <2>2. \A i \in 1 .. n + 1 : parent[i] \in 0 .. n /\ parent[i] # n + 1
    BY DEF TypeOK, Loop
  <2> DEFINE new == {n + 1} \cup f[parent[n + 1]]
             g == [i \in 0 .. n + 1 |-> IF i = n + 1 THEN new ELSE f[i]]
  <2>3. \A i \in 0 .. n : g[i] = f[i]
    OBVIOUS
  <2>4. g[n + 1] = new
    OBVIOUS
  <2>5. \A i \in 0 .. n : f[i] = IF i = 0 THEN {} ELSE {i} \cup f[parent[i]]
    BY <2>1, Zenon
  <2>6. ASSUME NEW i \in 0 .. n + 1
        PROVE  g[i] = IF i = 0 THEN {} ELSE {i} \cup g[parent[i]]
    <3>1. CASE i = n + 1
      <4>1. g[parent[i]] = f[parent[i]] /\ i # 0
        BY <2>2, <2>3, <3>1
      <4> QED  BY <2>4, <3>1, <4>1
    <3>2. CASE i \in 0 .. n
      <4>1. i # 0 => g[parent[i]] = f[parent[i]]
        BY <2>2, <2>3, <3>2
      <4> QED  BY <2>3, <2>5, <3>2, <4>1
    <3> QED  BY <3>1, <3>2
  <2>7. Solves(g, n + 1)
    <3>1. g = [i \in 0 .. n + 1 |-> g[i]]
      OBVIOUS
    <3> HIDE DEF g
    <3> QED  BY <2>6, <3>1
  <2> QED  BY <2>7
<1> HIDE DEF S
<1>3. NumLoops \in S
  BY <1>1, <1>2, Induct
<1> QED  BY <1>3 DEF S, IsAround

\* A loop is around itself: the annotation of a loop reaches its own accesses.
LEMMA AroundItself ==
    ASSUME TypeOK, NEW l \in Loop
    PROVE  l \in Around(l)
<1> DEFINE a == CHOOSE f : IsAround(f)
<1>1. IsAround(a)
  BY AroundExists
<1>2. Around(l) = a[l]
  BY DEF Around, IsAround
<1>3. l \in 0 .. NumLoops /\ l # 0
  BY SizeAssumption DEF Loop
<1> HIDE DEF a
<1>4. a[l] = {l} \cup a[parent[l]]
  BY <1>1, <1>3, Zenon DEF IsAround
<1> QED  BY <1>2, <1>4

-------------------------------------------------------------------------------
(* Memory effects *)

\* What a level of the memory effects lets a function do.
LEMMA LevelPermits ==
    ASSUME NEW level \in 1 .. 13
    PROVE  /\ Compatible(Adds[level])
           /\ Adds[level] \subseteq FnAttribute
           /\ "speculatable" \in Adds[level] => "readnone" \in Adds[level]
           /\ \A what \in {"read", "write"},
                 where \in {"argument", "inaccessible", "other"} :
                 <<what, where>> \in Permitted(Adds[level]) <=>
                    /\ level < 12
                    /\ level \in 4 .. 7 => what = "write"
                    /\ level \in 8 .. 11 => what = "read"
                    /\ level \in {2, 6, 10} => where = "argument"
                    /\ level \in {3, 7, 11} => where = "inaccessible"
                    /\ level \in {1, 5, 9} => where # "other"
<1> USE DEF Adds, Compatible, Permitted, FnAttribute, Access, Ranges
<1>1. CASE level \in 1 .. 3
  BY <1>1
<1>2. CASE level = 4
  BY <1>2
<1>3. CASE level = 5
  BY <1>3
<1>4. CASE level = 6
  BY <1>4
<1>5. CASE level = 7
  BY <1>5
<1>6. CASE level = 8
  BY <1>6
<1>7. CASE level = 9
  BY <1>7
<1>8. CASE level = 10
  BY <1>8
<1>9. CASE level = 11
  BY <1>9
<1>10. CASE level = 12
  BY <1>10
<1>11. CASE level = 13
  BY <1>11
<1> HIDE DEF Adds, Compatible, Permitted, FnAttribute, Access, Ranges
<1>12. \/ level \in 1 .. 3 \/ level = 4 \/ level = 5 \/ level = 6 \/ level = 7
       \/ level = 8 \/ level = 9 \/ level = 10 \/ level = 11 \/ level = 12 \/ level = 13
  OBVIOUS
<1> QED
  BY <1>1, <1>2, <1>3, <1>4, <1>5, <1>6, <1>7, <1>8, <1>9, <1>10, <1>11,
     <1>12, Zenon

\* A level replaces what was known, where a level is asked for.
LEMMA EffectsOfLevel ==
    ASSUME Compatible(fn), AsksForEffects
    PROVE  /\ \A level \in 1 .. 13 : WithEffects(fn, level) = Adds[level]
           /\ fn = {} \/ fn = {"readonly"} \/ fn = {"writeonly"}
<1>1. fn \subseteq Access
  BY DEF AsksForEffects
<1>2. fn = {} \/ fn = {"readonly"} \/ fn = {"writeonly"}
  BY <1>1 DEF Access, Compatible
<1> QED  BY <1>1, <1>2 DEF WithEffects

\* No lower level says strictly more: among two levels that both say
\* something, and of a level against none.
LEMMA LevelsOrdered ==
    ASSUME NEW high \in 1 .. 13, NEW low \in 1 .. high - 1,
           Permitted(Adds[low]) \subseteq Permitted(Adds[high])
    PROVE  Permitted(Adds[low]) = Permitted(Adds[high])
<1> DEFINE E == {"read", "write"} \X {"argument", "inaccessible", "other"}
           may(level, what, where) == <<what, where>> \in Permitted(Adds[level])
<1>1. low \in 1 .. 13 /\ low < high
  OBVIOUS
<1>2. \A level \in 1 .. 13 : Permitted(Adds[level]) \subseteq E
  BY DEF Permitted
<1>3. \A level \in {low, high} :
         \A what \in {"read", "write"},
            where \in {"argument", "inaccessible", "other"} :
            may(level, what, where) <=>
               /\ level < 12
               /\ level \in 4 .. 7 => what = "write"
               /\ level \in 8 .. 11 => what = "read"
               /\ level \in {2, 6, 10} => where = "argument"
               /\ level \in {3, 7, 11} => where = "inaccessible"
               /\ level \in {1, 5, 9} => where # "other"
  BY <1>1, LevelPermits
<1>4. \A what \in {"read", "write"},
         where \in {"argument", "inaccessible", "other"} :
         may(low, what, where) => may(high, what, where)
  OBVIOUS
<1> HIDE DEF may
<1>5. low >= 12
  <2> SUFFICES ASSUME low < 12 PROVE FALSE
    BY <1>1
  <2> USE <1>1, <1>3, <1>4
  <2>1. CASE low \in 1 .. 3
    <3>1. CASE low = 1
      BY <3>1
    <3>2. CASE low = 2
      BY <3>2
    <3>3. CASE low = 3
      BY <3>3
    <3> QED  BY <2>1, <3>1, <3>2, <3>3
  <2>2. CASE low \in 4 .. 7
    <3>1. CASE low = 4
      BY <3>1
    <3>2. CASE low = 5
      BY <3>2
    <3>3. CASE low = 6
      BY <3>3
    <3>4. CASE low = 7
      BY <3>4
    <3> QED  BY <2>2, <3>1, <3>2, <3>3, <3>4
  <2>3. CASE low \in 8 .. 11
    <3>1. CASE low = 8
      BY <3>1
    <3>2. CASE low = 9
      BY <3>2
    <3>3. CASE low = 10
      BY <3>3
    <3>4. CASE low = 11
      BY <3>4
    <3> QED  BY <2>3, <3>1, <3>2, <3>3, <3>4
  <2> QED  BY <2>1, <2>2, <2>3
<1>6. \A what \in {"read", "write"},
         where \in {"argument", "inaccessible", "other"} :
         ~may(low, what, where) /\ ~may(high, what, where)
  BY <1>1, <1>3, <1>5
<1>7. \A e \in E : e = <<e[1], e[2]>> /\ e[1] \in {"read", "write"}
                   /\ e[2] \in {"argument", "inaccessible", "other"}
  OBVIOUS
<1>8. ASSUME NEW level \in {low, high}, NEW e \in Permitted(Adds[level])
      PROVE  FALSE
  <2>1. e \in E
    BY <1>1, <1>2
  <2>2. may(level, e[1], e[2])
    BY <1>7, <2>1 DEF may
  <2> QED  BY <1>6, <1>7, <2>1, <2>2
<1> QED  BY <1>8

LEMMA NoneOrdered ==
    ASSUME NEW attributes \in {{}, {"readonly"}, {"writeonly"}},
           NEW high \in 1 .. 13,
           Permitted(attributes) \subseteq Permitted(Adds[high])
    PROVE  Permitted(attributes) = Permitted(Adds[high])
<1> DEFINE E == {"read", "write"} \X {"argument", "inaccessible", "other"}
           may(what, where) == <<what, where>> \in Permitted(Adds[high])
           did(what, where) == <<what, where>> \in Permitted(attributes)
<1>1. Permitted(attributes) \subseteq E /\ Permitted(Adds[high]) \subseteq E
  BY DEF Permitted
<1>2. \A what \in {"read", "write"},
         where \in {"argument", "inaccessible", "other"} :
         may(what, where) <=>
            /\ high < 12
            /\ high \in 4 .. 7 => what = "write"
            /\ high \in 8 .. 11 => what = "read"
            /\ high \in {2, 6, 10} => where = "argument"
            /\ high \in {3, 7, 11} => where = "inaccessible"
            /\ high \in {1, 5, 9} => where # "other"
  BY LevelPermits
<1>3. \A what \in {"read", "write"},
         where \in {"argument", "inaccessible", "other"} :
         did(what, where) <=>
            /\ attributes = {"readonly"} => what = "read"
            /\ attributes = {"writeonly"} => what = "write"
  BY DEF Permitted
<1>4. \A what \in {"read", "write"},
         where \in {"argument", "inaccessible", "other"} :
         did(what, where) => may(what, where)
  OBVIOUS
<1> HIDE DEF may, did
<1>5. \/ attributes = {"readonly"} /\ high = 8
      \/ attributes = {"writeonly"} /\ high = 4
  <2>1. CASE attributes = {}
    <3>1. may("read", "other") /\ may("write", "other")
      BY <1>3, <1>4, <2>1
    <3> QED  BY <1>2, <3>1
  <2>2. CASE attributes = {"readonly"}
    <3>1. may("read", "other")
      BY <1>3, <1>4, <2>2
    <3> QED  BY <1>2, <2>2, <3>1
  <2>3. CASE attributes = {"writeonly"}
    <3>1. may("write", "other")
      BY <1>3, <1>4, <2>3
    <3> QED  BY <1>2, <2>3, <3>1
  <2> QED  BY <2>1, <2>2, <2>3
<1>6. \A what \in {"read", "write"},
         where \in {"argument", "inaccessible", "other"} :
         did(what, where) <=> may(what, where)
  BY <1>2, <1>3, <1>5
<1>7. \A e \in E : e = <<e[1], e[2]>> /\ e[1] \in {"read", "write"}
                   /\ e[2] \in {"argument", "inaccessible", "other"}
  OBVIOUS
<1>8. ASSUME NEW e \in Permitted(Adds[high])
      PROVE  e \in Permitted(attributes)
  <2>1. e \in E
    BY <1>1
  <2>2. may(e[1], e[2])
    BY <1>7, <2>1 DEF may
  <2>3. did(e[1], e[2])
    BY <1>6, <1>7, <2>1, <2>2
  <2> QED  BY <1>7, <2>1, <2>3 DEF did
<1> QED  BY <1>8

-------------------------------------------------------------------------------
(* The inductive invariant *)

LEMMA InitIInv == Init => IInv
<1> SUFFICES ASSUME Init PROVE IInv  OBVIOUS
<1> USE SizeAssumption
<1>1. /\ assume \in BOOLEAN /\ Compatible(fn) /\ fn \subseteq FnAttribute
      /\ "speculatable" \in fn => "readnone" \in fn
      /\ behavior \subseteq Access \cup {"readnone"}
      /\ returned \in {{}} \cup {{p} : p \in Param}
  <2>1. CASE AFunction
    BY <2>1 DEF AFunction, Access
  <2>2. CASE NoFunction
    BY <2>2 DEF NoFunction, Compatible, FnAttribute, Access, Ranges
  <2> QED  BY <2>1, <2>2 DEF Init
<1>2. /\ parent \in [Loop -> 0 .. NumLoops] /\ \A l \in Loop : parent[l] < l
      /\ accesses \subseteq Loop /\ ids \subseteq Loop
  <2>1. CASE SomeLoops
    BY <2>1 DEF SomeLoops
  <2>2. CASE NoLoops
    BY <2>2 DEF NoLoops, Loop
  <2> QED  BY <2>1, <2>2 DEF Init
<1>3. size \in [Slot -> 0 .. 2]
  BY DEF Init, Slot
<1>4. /\ marks \in [Loop -> SUBSET ids] /\ parallel = {}
      /\ instance = 0 /\ kind = 1
      /\ before = [ids |-> ids, returned |-> returned]
  BY DEF Init
<1>5. TypeOK
  BY <1>1, <1>2, <1>3, <1>4 DEF TypeOK, Kinds, Param
<1> QED
  BY <1>1, <1>4, <1>5 DEF IInv, ChosenIsParallel

\* The loops chosen are parallel when annotateLoops has gone through all of
\* them, and those chosen before stay parallel.
LEMMA LoopsIInv == IInv /\ AnnotateLoops => IInv'
<1> SUFFICES ASSUME IInv, AnnotateLoops PROVE IInv'  OBVIOUS
<1> USE SizeAssumption
<1>1. TypeOK
  BY DEF IInv
<1>2. PICK chosen \in SUBSET Loop :
         /\ parallel' = parallel \cup chosen
         /\ ids' = WithIds(chosen)
         /\ marks' = Marks(chosen, ids')
  BY DEF AnnotateLoops, Innermost
<1>3. /\ UNCHANGED <<instance, size, assume, fn, behavior, returned, parent,
                     accesses, before>>
      /\ kind \in {2, 3} /\ kind' = kind + 1
  BY <1>1 DEF AnnotateLoops, function, At, Kinds, TypeOK
<1>4. ids' = ids \cup chosen
  BY <1>2 DEF WithIds
<1>5. \A l \in Loop : Around(l)' = Around(l) /\ Within(l)' = Within(l)
  BY <1>3 DEF Around, Within
<1>6. /\ marks' \in [Loop -> SUBSET ids']
      /\ \A i \in Loop : marks[i] \subseteq marks'[i]
      /\ \A i \in Loop, c \in chosen, l \in ids' :
            MarkedFor(c, i, chosen) /\ l \in Around(c) => l \in marks'[i]
  <2>1. marks' = [i \in Loop |-> marks[i] \cup
                    UNION {Around(l) \cap ids' :
                             l \in {c \in chosen : MarkedFor(c, i, chosen)}}]
    BY <1>2 DEF Marks
  <2>2. \A i \in Loop : marks[i] \subseteq ids
    BY <1>1 DEF TypeOK
  <2>3. \A i \in Loop :
           UNION {Around(l) \cap ids' :
                    l \in {c \in chosen : MarkedFor(c, i, chosen)}}
              \subseteq ids'
    OBVIOUS
  <2> QED  BY <1>4, <2>1, <2>2, <2>3
<1>7. TypeOK'
  <2>1. kind' \in 1 .. Len(Kinds)
    BY <1>3 DEF Kinds
  <2>2. accesses' \cup ids' \cup parallel' \subseteq Loop
    BY <1>1, <1>2, <1>3, <1>4 DEF TypeOK
  <2>3. /\ parent' \in [Loop -> 0 .. NumLoops]
        /\ \A l \in Loop : parent'[l] < l
    BY <1>1, <1>3 DEF TypeOK
  <2> QED  BY <1>1, <1>3, <1>6, <2>1, <2>2, <2>3 DEF TypeOK
<1>8. ChosenIsParallel'
  <2> SUFFICES ASSUME NEW l \in parallel \cup chosen
               PROVE  /\ l \in ids'
                      /\ \A i \in Within(l) \cap accesses : l \in marks'[i]
    BY <1>1, <1>2, <1>3, <1>5 DEF ChosenIsParallel, IsParallel, TypeOK
  <2>1. l \in Loop
    BY <1>1, <1>2 DEF TypeOK
  <2>2. CASE l \in parallel
    <3>1. l \in ids /\ \A i \in Within(l) \cap accesses : l \in marks[i]
      BY <2>2 DEF IInv, ChosenIsParallel, IsParallel
    <3>2. \A i \in Within(l) : i \in Loop
      BY DEF Within
    <3> QED  BY <1>4, <1>6, <3>1, <3>2
  <2>3. CASE l \in chosen
    <3>1. ASSUME NEW i \in Within(l) PROVE l \in marks'[i]
      <4>1. i \in Loop /\ l \in Around(i)
        BY DEF Within
      <4>2. CASE i = l \/ i \notin chosen
        <5>1. MarkedFor(l, i, chosen) /\ l \in Around(l)
          BY <1>1, <2>1, <4>2, AroundItself DEF MarkedFor
        <5> QED  BY <1>4, <1>6, <2>3, <4>1, <5>1
      <4>3. CASE i # l /\ i \in chosen
        \* the loop in it marks for all loops around
        <5>1. i \in Within(i)
          BY <1>1, <4>1, AroundItself DEF Within
        <5>2. MarkedFor(i, i, chosen)
          BY <5>1 DEF MarkedFor
        <5> QED  BY <1>4, <1>6, <2>3, <4>1, <4>3, <5>2
      <4> QED  BY <4>2, <4>3
    <3> QED  BY <1>4, <2>3, <3>1
  <2> QED  BY <2>2, <2>3
<1> QED
  BY <1>2, <1>3, <1>4, <1>7, <1>8 DEF IInv, Compatible

\* What the other kinds leave alone: everything about loops.
LEMMA LoopsUntouched ==
    ASSUME ChosenIsParallel, UNCHANGED loops
    PROVE  ChosenIsParallel'
BY DEF loops, ChosenIsParallel, IsParallel, Within, Around

LEMMA SlotsIInv == IInv /\ AnnotateSlots => IInv'
<1> SUFFICES ASSUME IInv, AnnotateSlots PROVE IInv'  OBVIOUS
<1>1. PICK level \in [Slot -> 0 .. 2] :
         size' = [s \in Slot |->
                     IF IsAsked(s) THEN Size(s, level[s]) ELSE size[s]]
  BY DEF AnnotateSlots
<1>2. /\ UNCHANGED <<instance, assume, fn, behavior, returned, parent,
                     accesses, ids, marks, parallel, before>>
      /\ kind = 1 /\ kind' = 2 /\ ChosenIsParallel'
  <2>1. fn' = fn
    BY DEF AnnotateSlots, Speculated, IInv
  <2> QED
    BY <2>1, LoopsUntouched DEF AnnotateSlots, loops, At, Kinds, IInv, TypeOK
<1>3. size' \in [Slot -> 0 .. 2]
  BY <1>1 DEF IInv, TypeOK, Size, Larger
<1> QED
  BY <1>2, <1>3 DEF IInv, TypeOK, Compatible, Kinds

LEMMA ReturnedIInv == IInv /\ AnnotateReturned => IInv'
<1> SUFFICES ASSUME IInv, AnnotateReturned PROVE IInv'  OBVIOUS
<1>1. /\ UNCHANGED <<instance, size, assume, fn, behavior, parent, accesses,
                     ids, marks, parallel, before>>
      /\ kind = 4 /\ kind' = 5 /\ ChosenIsParallel'
  BY LoopsUntouched
  DEF AnnotateReturned, loops, At, Kinds, IInv, TypeOK
<1>2. returned' \subseteq Param
  BY DEF AnnotateReturned, IInv, TypeOK
<1>3. before.returned = {} => \E p \in Param \cup {0} : returned' \subseteq {p}
  <2>1. CASE returned' = returned
    BY <2>1 DEF IInv
  <2>2. CASE \E p \in Param : instance = 0 /\ returned' = returned \cup {p}
    <3>1. returned = before.returned
      BY <1>1, <2>2 DEF IInv
    <3> QED  BY <2>2, <3>1
  <2> QED  BY <2>1, <2>2 DEF AnnotateReturned
<1> QED
  BY <1>1, <1>2, <1>3 DEF IInv, TypeOK, Compatible, Kinds

LEMMA BehaviorIInv == IInv /\ AnnotateBehavior => IInv'
<1> SUFFICES ASSUME IInv, AnnotateBehavior PROVE IInv'  OBVIOUS
<1>1. /\ UNCHANGED <<instance, size, assume, fn, returned, parent, accesses,
                     ids, marks, parallel, before>>
      /\ kind = 5 /\ kind' = 6 /\ ChosenIsParallel'
  BY LoopsUntouched
  DEF AnnotateBehavior, loops, At, Kinds, IInv, TypeOK
<1>2. behavior' \subseteq Access \cup {"readnone"}
  <2>1. CASE behavior' = behavior
    BY <2>1 DEF IInv, TypeOK
  <2>2. CASE behavior' # behavior
    <3>1. PICK level \in 1 .. 3 : behavior' = BehaviorAt[level]
      BY <2>2 DEF AnnotateBehavior
    <3>2. behavior' \in {{"writeonly"}, {"readonly"}, {"readnone"}}
      BY <3>1 DEF BehaviorAt
    <3> QED  BY <3>2 DEF Access
  <2> QED  BY <2>1, <2>2
<1> QED
  BY <1>1, <1>2 DEF IInv, TypeOK, Compatible, Kinds

LEMMA EffectsIInv == IInv /\ AnnotateEffects => IInv'
<1> SUFFICES ASSUME IInv, AnnotateEffects PROVE IInv'  OBVIOUS
<1>1. /\ UNCHANGED <<instance, size, assume, behavior, returned, parent,
                     accesses, ids, marks, parallel, before>>
      /\ kind = 6 /\ kind' = 7 /\ ChosenIsParallel'
  BY LoopsUntouched
  DEF AnnotateEffects, loops, At, Kinds, IInv, TypeOK
<1>2. /\ Compatible(fn)' /\ fn' \subseteq FnAttribute
      /\ "speculatable" \in fn' => "readnone" \in fn'
  <2>1. CASE fn' = fn
    BY <2>1 DEF IInv, TypeOK, Compatible
  <2>2. CASE \E level \in 1 .. EffectOptions - 1 :
                instance = 0 /\ AsksForEffects /\ fn' = WithEffects(fn, level)
    <3>1. PICK level \in 1 .. 13 : AsksForEffects /\ fn' = WithEffects(fn, level)
      BY <2>2 DEF EffectOptions
    <3>2. fn' = Adds[level]
      BY <3>1, EffectsOfLevel DEF IInv
    <3> QED  BY <3>2, LevelPermits
  <2> QED  BY <2>1, <2>2 DEF AnnotateEffects
<1> QED
  BY <1>1, <1>2 DEF IInv, TypeOK, Compatible, Kinds

LEMMA InstanceIInv == IInv /\ NextInstance => IInv'
<1> SUFFICES ASSUME IInv, NextInstance PROVE IInv'  OBVIOUS
<1>1. /\ UNCHANGED <<size, assume, fn, behavior, returned, parent, accesses,
                     ids, marks, parallel, before>>
      /\ kind' = 1 /\ instance' = instance + 1 /\ instance' \in 1 .. LoopInstance
      /\ ChosenIsParallel'
  BY LoopsUntouched, SizeAssumption
  DEF NextInstance, loops, function, Kinds, IInv, TypeOK
<1> QED
  BY <1>1, SizeAssumption DEF IInv, TypeOK, Compatible, Kinds

\* For any function and any nest of loops, through all instances.
THEOREM AnnotationsInvariance == Spec => []IInv
<1>1. IInv /\ [Next]_vars => IInv'
  <2> SUFFICES ASSUME IInv, [Next]_vars PROVE IInv'  OBVIOUS
  <2>1. CASE UNCHANGED vars
    <3>1. /\ UNCHANGED <<instance, kind, size, assume, fn, behavior, returned,
                         parent, accesses, ids, marks, parallel, before>>
          /\ ChosenIsParallel'
      BY <2>1, LoopsUntouched DEF vars, loops, function, IInv
    <3> QED  BY <3>1 DEF IInv, TypeOK, Compatible
  <2> QED
    BY <2>1, SlotsIInv, LoopsIInv, ReturnedIInv, BehaviorIInv, EffectsIInv,
       InstanceIInv
    DEF Next
<1> QED  BY <1>1, InitIInv, PTL DEF Spec

-------------------------------------------------------------------------------
(* The properties *)

\* Sizes, attributes and marks keep their types: a marked access names loops
\* that have a LoopID.
THEOREM AnnotationsTypeCorrect == Spec => []TypeOK
<1>1. IInv => TypeOK
  BY DEF IInv
<1> QED  BY <1>1, AnnotationsInvariance, PTL

\* verifyModule finds nothing to complain about.
THEOREM ModulesVerify == Spec => []ModuleVerifies
<1>1. IInv => ModuleVerifies
  <2> SUFFICES ASSUME IInv, before.returned = {}
               PROVE  Cardinality(returned) <= 1
    BY DEF IInv, ModuleVerifies
  <2>1. PICK p : returned \subseteq {p}
    BY DEF IInv
  <2>2. returned = {} \/ returned = {p}
    BY <2>1
  <2>3. Cardinality({}) = 0 /\ Cardinality({p}) = 1
    BY FS_EmptySet, FS_Singleton
  <2> QED  BY <2>2, <2>3
<1> QED  BY <1>1, AnnotationsInvariance, PTL

\* The levels of the memory effects are tried from the strongest down.
THEOREM LevelsGoDown == Spec => []StrongestFirst
<1>1. IInv => StrongestFirst
  <2> SUFFICES ASSUME IInv, AsksForEffects, NEW high \in 0 .. EffectOptions - 1,
                      NEW low \in 0 .. high - 1,
                      Permitted(WithEffects(fn, low))
                         \subseteq Permitted(WithEffects(fn, high))
               PROVE  Permitted(WithEffects(fn, low))
                         = Permitted(WithEffects(fn, high))
    BY DEF StrongestFirst
  <2>1. high \in 1 .. 13 /\ low \in 0 .. 12 /\ low < high
    BY DEF EffectOptions
  <2>2. /\ \A level \in 1 .. 13 : WithEffects(fn, level) = Adds[level]
        /\ fn \in {{}, {"readonly"}, {"writeonly"}}
    BY EffectsOfLevel DEF IInv
  <2>3. CASE low = 0
    <3>1. WithEffects(fn, low) = fn
      BY <2>3 DEF WithEffects
    <3> QED  BY <2>1, <2>2, <3>1, NoneOrdered
  <2>4. CASE low # 0
    <3>1. low \in 1 .. high - 1 /\ low \in 1 .. 13
      BY <2>1, <2>4
    <3> QED  BY <2>1, <2>2, <3>1, LevelsOrdered
  <2> QED  BY <2>3, <2>4
<1> QED  BY <1>1, AnnotationsInvariance, PTL

\* The assertion of annotateLoops holds, for loops nested in any way.
THEOREM ChosenLoopsAreParallel == Spec => []ChosenIsParallel
<1>1. IInv => ChosenIsParallel
  BY DEF IInv
<1> QED  BY <1>1, AnnotationsInvariance, PTL

\* And no loop becomes parallel that was not chosen or had a LoopID before.
THEOREM OnlyChosenAreParallel == Spec => []ParallelIsChosen
<1>1. IInv => ParallelIsChosen
  BY DEF IInv, ParallelIsChosen, IsParallel
<1> QED  BY <1>1, AnnotationsInvariance, PTL

\* No annotation takes back what was known, but for functions of which only
\* readonly or writeonly was.
THEOREM NothingForgotten == Spec => KnownIsKept
<1> DEFINE Kept ==
      /\ fn \cap Access = {} \/ fn \cap Ranges # {} =>
             Permitted(fn') \subseteq Permitted(fn)
      /\ Permitted(behavior') \subseteq Permitted(behavior)
      /\ returned \subseteq returned'
      /\ \A s \in Slot : size'[s] >= size[s]
<1>1. IInv /\ [Next]_vars => [Kept]_vars
  <2> SUFFICES ASSUME IInv, Next PROVE Kept
    OBVIOUS
  <2>0. size \in [Slot -> 0 .. 2]
    BY DEF IInv, TypeOK
  <2>1. CASE AnnotateSlots
    <3>1. PICK level \in [Slot -> 0 .. 2] :
             size' = [s \in Slot |->
                         IF IsAsked(s) THEN Size(s, level[s]) ELSE size[s]]
      BY <2>1 DEF AnnotateSlots
    <3>2. ASSUME NEW s \in Slot PROVE size'[s] >= size[s]
      <4>1. /\ size'[s] = IF IsAsked(s) THEN Size(s, level[s]) ELSE size[s]
            /\ size[s] \in 0 .. 2 /\ level[s] \in 0 .. 2
        BY <2>0, <3>1
      <4>2. CASE s = "alignment"
        BY <4>1, <4>2 DEF Size, Larger
      <4>3. CASE s # "alignment"
        <5>1. IsAsked(s) => size[s] = 0
          BY <4>3 DEF IsAsked, Slot
        <5> QED  BY <4>1, <4>3, <5>1 DEF Size
      <4> QED  BY <4>2, <4>3
    <3>3. fn' = fn
      BY <2>1 DEF AnnotateSlots, Speculated, IInv
    <3> QED  BY <2>1, <3>2, <3>3 DEF AnnotateSlots
  <2>2. CASE AnnotateLoops
    BY <2>0, <2>2 DEF AnnotateLoops, function
  <2>3. CASE AnnotateReturned
    BY <2>0, <2>3 DEF AnnotateReturned
  <2>4. CASE AnnotateBehavior
    <3>1. Permitted(behavior') \subseteq Permitted(behavior)
      <4>1. behavior = {} \/ behavior' = behavior
        BY <2>4 DEF AnnotateBehavior
      <4> QED  BY <4>1 DEF Permitted
    <3> QED  BY <2>0, <2>4, <3>1 DEF AnnotateBehavior
  <2>5. CASE AnnotateEffects
    <3>1. ASSUME fn \cap Access = {} \/ fn \cap Ranges # {}
          PROVE  Permitted(fn') \subseteq Permitted(fn)
      <4>1. fn' = fn \/ AsksForEffects
        BY <2>5 DEF AnnotateEffects
      <4>2. CASE AsksForEffects
        <5>1. fn = {}
          BY <3>1, <4>2 DEF AsksForEffects, Access, Ranges
        <5> QED  BY <5>1 DEF Permitted
      <4> QED  BY <4>1, <4>2
    <3> QED  BY <2>0, <2>5, <3>1 DEF AnnotateEffects
  <2>6. CASE NextInstance
    BY <2>0, <2>6 DEF NextInstance, function
  <2> QED  BY <2>1, <2>2, <2>3, <2>4, <2>5, <2>6 DEF Next
<1> QED  BY <1>1, AnnotationsInvariance, PTL DEF Spec, KnownIsKept

===============================================================================
