--------------------------- MODULE ChoiceMapsProofs ---------------------------
(***************************************************************************)
(* The lookups of the annotator read the entries that were written for     *)
(* them, for any number of functions, names, instances and rounds, which-   *)
(* ever instances meet a value, as long as the cache of names answers none *)
(* of them.                                                                *)
(***************************************************************************)
EXTENDS ChoiceMaps, NumberLemmas

Strings == [Function -> Seq(Entry)]
Steps == 0 .. Len(Order)

-------------------------------------------------------------------------------
(* One lookup *)

\* What the constants are.
LEMMA Sizes ==
    /\ NumFunctions \in Nat \ {0} /\ NumNames \in Nat \ {0}
    /\ Instances \in Nat \ {0} /\ Rounds \in Nat
    /\ Len(Order) \in Nat /\ \A k \in 1 .. Len(Order) : Order[k] \in Value
    /\ None \notin Entry /\ \A v \in Value : NumChoices[v] \in Nat /\ NumChoices[v] >= 2
    /\ \A v \in Value : v[1] \in Function /\ v[2] \in Name
BY ValueAssumption, SizeAssumption, OrderAssumption, ChoicesAssumption

\* An entry is one of the function's string, as long as that lasts.
LEMMA EntryFacts ==
    ASSUME NEW p \in Process, NEW s \in Strings, NEW v \in Value
    PROVE  LET entry == EntryFor(p, v, s)
               pos == p.index[v[1]] + 1
           IN  /\ entry \in {None} \cup Entry
               /\ entry # None <=> pos <= Len(s[v[1]])
               /\ entry # None => /\ entry = s[v[1]][pos] /\ pos \in 1 .. Len(s[v[1]])
                                  /\ entry \in Entry /\ entry.level \in Nat
<1> DEFINE pos == p.index[v[1]] + 1
<1>1. v[1] \in Function /\ p.index[v[1]] \in Nat /\ pos \in Nat /\ pos >= 1
  BY Sizes DEF Process
<1>2. s[v[1]] \in Seq(Entry) /\ Len(s[v[1]]) \in Nat
  BY <1>1 DEF Strings
<1>3. CASE pos <= Len(s[v[1]])
  <2>1. pos \in 1 .. Len(s[v[1]])
    BY <1>1, <1>2, <1>3
  <2>2. s[v[1]][pos] \in Entry
    BY <1>2, <2>1
  <2>3. EntryFor(p, v, s) = s[v[1]][pos]
    BY <1>3 DEF EntryFor
  <2> HIDE DEF pos
  <2>4. s[v[1]][pos] # None /\ s[v[1]][pos].level \in Nat
    BY <2>2, Sizes DEF Entry
  <2> QED  BY <1>3, <2>1, <2>2, <2>3, <2>4 DEF pos
<1>4. CASE ~(pos <= Len(s[v[1]]))
  BY <1>4 DEF EntryFor
<1> QED  BY <1>3, <1>4

\* The choice of a lookup is a level with one added.
LEMMA ChoiceFacts ==
    ASSUME NEW p \in Process, NEW v \in Value,
           NEW entry \in {None} \cup Entry
    PROVE  /\ ChoiceFor(p, v, entry) \in Nat /\ ChoiceFor(p, v, entry) > 0
           /\ SourceFor(p, v, entry) \in {"entry", "cache", "default"}
           /\ SourceFor(p, v, entry) = "entry" <=> entry # None
           /\ SourceFor(p, v, entry) = "default"
                 <=> entry = None /\ p.cache[v[2]] = 0
           /\ SourceFor(p, v, entry) = "default" => ChoiceFor(p, v, entry) = 1
           /\ entry # None => ChoiceFor(p, v, entry) = entry.level + 1
<1>1. p.cache[v[2]] \in Nat
  BY Sizes DEF Process
<1>2. entry # None => entry.level \in Nat
  BY DEF Entry
<1>3. CASE entry # None
  BY <1>1, <1>2, <1>3 DEF ChoiceFor, SourceFor, Stored
<1>4. CASE entry = None /\ p.cache[v[2]] > 0
  BY <1>1, <1>4 DEF ChoiceFor, SourceFor, Stored
<1>5. CASE entry = None /\ ~(p.cache[v[2]] > 0)
  BY <1>1, <1>5 DEF ChoiceFor, SourceFor, Stored
<1> QED  BY <1>3, <1>4, <1>5

\* A visit keeps the tables of the process.
LEMMA VisitType ==
    ASSUME NEW p \in Process, NEW i \in Instance, NEW v \in Value,
           NEW s \in Strings
    PROVE  Visit(p, i, v, s) \in Process
<1> DEFINE entry == EntryFor(p, v, s)
           source == SourceFor(p, v, entry)
           choice == ChoiceFor(p, v, entry)
<1>1. entry \in {None} \cup Entry
  BY EntryFacts
<1>2. choice \in Nat /\ choice > 0 /\ source \in {"entry", "cache", "default"}
  BY <1>1, ChoiceFacts
<1>3. v[1] \in Function /\ v[2] \in Name
  BY Sizes
<1>4. Ask(p, i, v, entry) =
        [index |-> [p.index EXCEPT ![v[1]] = @ + 1],
         cache |-> IF source = "entry" THEN [p.cache EXCEPT ![v[2]] = choice]
                   ELSE p.cache,
         level |-> [p.level EXCEPT ![v] = choice - 1],
         asked |-> p.asked \cup {[instance |-> i, value |-> v,
                                  source |-> source, entry |-> entry]},
         unspecified |->
             IF source = "default"
             THEN [p.unspecified EXCEPT ![v[1]] = Append(@, v)]
             ELSE p.unspecified]
  BY DEF Ask
<1>5. [instance |-> i, value |-> v, source |-> source, entry |-> entry] \in Lookup
  BY <1>1, <1>2 DEF Lookup
<1> HIDE DEF entry, source, choice
<1>6. [p.index EXCEPT ![v[1]] = @ + 1] \in [Function -> Nat]
  BY <1>3 DEF Process
<1>7. [p.cache EXCEPT ![v[2]] = choice] \in [Name -> Nat]
  BY <1>2, <1>3 DEF Process
<1>8. [p.level EXCEPT ![v] = choice - 1] \in [Value -> Nat]
  BY <1>2 DEF Process
<1>9. [p.unspecified EXCEPT ![v[1]] = Append(@, v)] \in [Function -> Seq(Value)]
  BY <1>3 DEF Process
<1>10. Ask(p, i, v, entry) \in Process
  BY <1>4, <1>5, <1>6, <1>7, <1>8, <1>9 DEF Process
<1> QED  BY <1>10 DEF Visit, entry

-------------------------------------------------------------------------------
(* An instance, and all instances *)

\* What a pass starts with: nothing is printed yet.
Fresh(p) == [p EXCEPT !.unspecified = NothingIn]

LEMMA FreshFacts ==
    ASSUME NEW p \in Process
    PROVE  /\ Fresh(p) \in Process /\ Fresh(p).index = p.index
           /\ Fresh(p).cache = p.cache /\ Fresh(p).level = p.level
           /\ Fresh(p).asked = p.asked /\ Fresh(p).unspecified = NothingIn
<1>1. NothingIn \in [Function -> Seq(Value)]
  BY DEF NothingIn
<1> QED  BY <1>1 DEF Process, Fresh

\* A pass visits one value after the other.
LEMMA VisitsDef ==
    ASSUME NEW p \in Process, NEW i \in Instance, NEW s \in Strings
    PROVE  /\ Visits(p, i, s) \in [Steps -> Process]
           /\ Visits(p, i, s)[0] = Fresh(p)
           /\ \A k \in 1 .. Len(Order) :
                Visits(p, i, s)[k] = Visit(Visits(p, i, s)[k - 1], i, Order[k], s)
<1> DEFINE K == Len(Order)
           step == [q \in Process \X (1 .. K) |-> Visit(q[1], i, Order[q[2]], s)]
           Solves(g) == g = [k \in 0 .. K |->
               IF k = 0 THEN Fresh(p) ELSE Visit(g[k - 1], i, Order[k], s)]
<1>1. K \in Nat /\ \A k \in 1 .. K : Order[k] \in Value
  BY Sizes
<1>2. step \in [Process \X (1 .. K) -> Process]
  BY <1>1, VisitType
<1>3. \A q \in Process, k \in 1 .. K :
        step[<<q, k>>] = Visit(q, i, Order[k], s)
  OBVIOUS
<1>4. Fresh(p) \in Process
  BY FreshFacts
<1> HIDE DEF step, K
<1>5. PICK g \in [0 .. K -> Process] : Iterates(g, K, Fresh(p), step)
  BY <1>1, <1>2, <1>4, Iteration
<1>6. \A k \in 1 .. K : g[k] = Visit(g[k - 1], i, Order[k], s)
  <2> SUFFICES ASSUME NEW k \in 1 .. K PROVE g[k] = Visit(g[k - 1], i, Order[k], s)
    OBVIOUS
  <2>1. g[k - 1] \in Process
    BY <1>1
  <2> QED  BY <1>3, <1>5, <2>1 DEF Iterates
<1>7. Solves(g)
  <2>1. \A k \in 0 .. K :
          g[k] = IF k = 0 THEN Fresh(p) ELSE Visit(g[k - 1], i, Order[k], s)
    BY <1>1, <1>5, <1>6 DEF Iterates
  <2> QED  BY <2>1
<1> DEFINE h == Visits(p, i, s)
<1>8. h = CHOOSE f : Solves(f)
  BY DEF Visits, Fresh, K
<1>9. Solves(h)
  <2> HIDE DEF Solves, h
  <2> QED  BY <1>7, <1>8
<1>10. /\ DOMAIN h = 0 .. K /\ h[0] = Fresh(p)
       /\ \A k \in 1 .. K : h[k] = Visit(h[k - 1], i, Order[k], s)
  <2> HIDE DEF h
  <2> QED  BY <1>1, <1>9
<1>11. \A k \in 0 .. K : h[k] \in Process
  <2> DEFINE S == {k \in 0 .. K : h[k] \in Process}
  <2> HIDE DEF h
  <2>1. 0 \in S
    BY <1>1, <1>4, <1>10
  <2>2. \A k \in Nat : k < K /\ k \in S => k + 1 \in S
    BY <1>1, <1>10, VisitType
  <2> HIDE DEF S
  <2>3. \A k \in 0 .. K : k \in S
    BY <1>1, <2>1, <2>2, InductUpTo
  <2> QED  BY <2>3 DEF S
<1>12. h = [k \in 0 .. K |-> h[k]]
  <2> HIDE DEF h
  <2> QED  BY <1>9
<1> QED  BY <1>10, <1>11, <1>12 DEF Steps, K

LEMMA RunType ==
    ASSUME NEW p \in Process, NEW i \in Instance, NEW s \in Strings
    PROVE  RunOnModule(p, i, s) \in Process
BY VisitsDef, Sizes DEF RunOnModule, Steps

\* A process begins with empty tables.
LEMMA NewFacts ==
    /\ NewProcess \in Process /\ NewProcess.asked = {}
    /\ \A f \in Function : NewProcess.index[f] = 0
    /\ \A n \in Name : NewProcess.cache[n] = 0
    /\ \A v \in Value : NewProcess.level[v] = 0
    /\ NothingIn \in Strings /\ \A f \in Function : Len(NothingIn[f]) = 0
<1>1. NothingIn \in [Function -> Seq(Value)] /\ NothingIn \in Strings
  BY DEF NothingIn, Strings
<1>2. /\ [f \in Function |-> 0] \in [Function -> Nat]
      /\ [n \in Name |-> 0] \in [Name -> Nat]
      /\ [v \in Value |-> 0] \in [Value -> Nat]
  OBVIOUS
<1>3. NewProcess \in Process
  BY <1>1, <1>2 DEF NewProcess, Process
<1>4. \A f \in Function : Len(NothingIn[f]) = 0
  BY DEF NothingIn
<1> QED  BY <1>1, <1>3, <1>4 DEF NewProcess

\* The instances follow each other.
LEMMA PipelineDef ==
    ASSUME NEW s \in Strings
    PROVE  /\ Pipeline(s) \in [0 .. Instances -> Process]
           /\ Pipeline(s)[0] = NewProcess
           /\ \A i \in 1 .. Instances :
                Pipeline(s)[i] = RunOnModule(Pipeline(s)[i - 1], i - 1, s)
<1> DEFINE K == Instances
           step == [q \in Process \X (1 .. K) |-> RunOnModule(q[1], q[2] - 1, s)]
           Solves(g) == g = [i \in 0 .. K |->
               IF i = 0 THEN NewProcess ELSE RunOnModule(g[i - 1], i - 1, s)]
<1>1. K \in Nat /\ \A i \in 1 .. K : i - 1 \in Instance
  BY Sizes DEF Instance
<1>2. step \in [Process \X (1 .. K) -> Process]
  BY <1>1, RunType
<1>3. \A q \in Process, i \in 1 .. K : step[<<q, i>>] = RunOnModule(q, i - 1, s)
  OBVIOUS
<1> HIDE DEF step, K
<1>4. PICK g \in [0 .. K -> Process] : Iterates(g, K, NewProcess, step)
  BY <1>1, <1>2, NewFacts, Iteration
<1>5. \A i \in 1 .. K : g[i] = RunOnModule(g[i - 1], i - 1, s)
  <2> SUFFICES ASSUME NEW i \in 1 .. K PROVE g[i] = RunOnModule(g[i - 1], i - 1, s)
    OBVIOUS
  <2>1. g[i - 1] \in Process
    BY <1>1
  <2> QED  BY <1>3, <1>4, <2>1 DEF Iterates
<1>6. Solves(g)
  <2>1. \A i \in 0 .. K :
          g[i] = IF i = 0 THEN NewProcess ELSE RunOnModule(g[i - 1], i - 1, s)
    BY <1>1, <1>4, <1>5 DEF Iterates
  <2> QED  BY <2>1
<1> DEFINE h == Pipeline(s)
<1>7. h = CHOOSE f : Solves(f)
  BY DEF Pipeline, K
<1>8. Solves(h)
  <2> HIDE DEF Solves, h
  <2> QED  BY <1>6, <1>7
<1>9. /\ DOMAIN h = 0 .. K /\ h[0] = NewProcess
      /\ \A i \in 1 .. K : h[i] = RunOnModule(h[i - 1], i - 1, s)
  <2> HIDE DEF h
  <2> QED  BY <1>1, <1>8
<1>10. \A i \in 0 .. K : h[i] \in Process
  <2> DEFINE S == {i \in 0 .. K : h[i] \in Process}
  <2> HIDE DEF h
  <2>1. 0 \in S
    BY <1>1, <1>9, NewFacts
  <2>2. ASSUME NEW i \in Nat, i < K, i \in S PROVE i + 1 \in S
    <3>1. i + 1 \in 1 .. K /\ (i + 1) - 1 = i /\ i \in Instance
      BY <1>1, <2>2 DEF Instance, K
    <3>2. h[i + 1] = RunOnModule(h[i], i, s) /\ h[i] \in Process
      BY <1>9, <2>2, <3>1
    <3> QED  BY <3>1, <3>2, RunType
  <2> HIDE DEF S
  <2>3. \A i \in 0 .. K : i \in S
    BY <1>1, <2>1, <2>2, InductUpTo
  <2> QED  BY <2>3 DEF S
<1>11. h = [i \in 0 .. K |-> h[i]]
  <2> HIDE DEF h
  <2> QED  BY <1>8
<1> QED  BY <1>9, <1>10, <1>11 DEF K

-------------------------------------------------------------------------------
(* Tables only grow *)

\* What a value that is asked for changes.
LEMMA AskFacts ==
    ASSUME NEW p \in Process, NEW i \in Instance, NEW v \in Value,
           NEW s \in Strings, MustAsk(p, i, v)
    PROVE  LET q == Visit(p, i, v, s)
               entry == EntryFor(p, v, s)
               source == SourceFor(p, v, entry)
           IN  /\ q.index[v[1]] = p.index[v[1]] + 1
               /\ \A f \in Function : f # v[1] => q.index[f] = p.index[f]
               /\ q.level[v] = ChoiceFor(p, v, entry) - 1
               /\ \A w \in Value : w # v => q.level[w] = p.level[w]
               /\ entry # None => q.cache[v[2]] = ChoiceFor(p, v, entry)
               /\ \A n \in Name : n # v[2] \/ entry = None => q.cache[n] = p.cache[n]
               /\ q.asked = p.asked \cup {[instance |-> i, value |-> v,
                                           source |-> source, entry |-> entry]}
               /\ source = "default" =>
                    q.unspecified[v[1]] = Append(p.unspecified[v[1]], v)
               /\ \A f \in Function : f # v[1] \/ source # "default" =>
                    q.unspecified[f] = p.unspecified[f]
<1> DEFINE entry == EntryFor(p, v, s)
           source == SourceFor(p, v, entry)
           choice == ChoiceFor(p, v, entry)
<1>1. v[1] \in Function /\ v[2] \in Name
  BY Sizes
<1>2. Visit(p, i, v, s) =
        [index |-> [p.index EXCEPT ![v[1]] = @ + 1],
         cache |-> IF source = "entry" THEN [p.cache EXCEPT ![v[2]] = choice]
                   ELSE p.cache,
         level |-> [p.level EXCEPT ![v] = choice - 1],
         asked |-> p.asked \cup {[instance |-> i, value |-> v,
                                  source |-> source, entry |-> entry]},
         unspecified |->
             IF source = "default"
             THEN [p.unspecified EXCEPT ![v[1]] = Append(@, v)]
             ELSE p.unspecified]
  BY DEF Visit, Ask
<1>3. source = "entry" <=> entry # None
  BY EntryFacts, ChoiceFacts
<1> HIDE DEF entry, source, choice
<1>4. /\ p.index \in [Function -> Nat] /\ p.cache \in [Name -> Nat]
      /\ p.level \in [Value -> Nat] /\ p.unspecified \in [Function -> Seq(Value)]
  BY DEF Process
<1>5. /\ Visit(p, i, v, s).index = [p.index EXCEPT ![v[1]] = @ + 1]
      /\ Visit(p, i, v, s).level = [p.level EXCEPT ![v] = choice - 1]
      /\ Visit(p, i, v, s).cache =
            IF source = "entry" THEN [p.cache EXCEPT ![v[2]] = choice] ELSE p.cache
      /\ Visit(p, i, v, s).unspecified =
            IF source = "default"
            THEN [p.unspecified EXCEPT ![v[1]] = Append(@, v)] ELSE p.unspecified
      /\ Visit(p, i, v, s).asked =
            p.asked \cup {[instance |-> i, value |-> v,
                           source |-> source, entry |-> entry]}
  BY <1>2
<1> QED  BY <1>1, <1>3, <1>4, <1>5 DEF entry, source, choice

LEMMA SkipFacts ==
    ASSUME NEW p, NEW i, NEW v, NEW s, ~MustAsk(p, i, v)
    PROVE  Visit(p, i, v, s) = p
BY DEF Visit

\* Of the lookups an instance makes none is forgotten.
LEMMA VisitGrows ==
    ASSUME NEW p \in Process, NEW i \in Instance, NEW v \in Value,
           NEW s \in Strings
    PROVE  /\ p.asked \subseteq Visit(p, i, v, s).asked
           /\ \A a \in Visit(p, i, v, s).asked : a \in p.asked \/ a.instance = i
           /\ \A f \in Function : p.index[f] <= Visit(p, i, v, s).index[f]
<1>1. \A f \in Function : p.index[f] \in Nat
  BY DEF Process
<1>2. CASE MustAsk(p, i, v)
  BY <1>1, <1>2, AskFacts, Sizes
<1>3. CASE ~MustAsk(p, i, v)
  BY <1>1, <1>3, SkipFacts
<1> QED  BY <1>2, <1>3

LEMMA VisitsGrow ==
    ASSUME NEW p \in Process, NEW i \in Instance, NEW s \in Strings,
           NEW k \in Steps
    PROVE  /\ p.asked \subseteq Visits(p, i, s)[k].asked
           /\ \A a \in Visits(p, i, s)[k].asked : a \in p.asked \/ a.instance = i
           /\ \A j \in 0 .. k :
                Visits(p, i, s)[j].asked \subseteq Visits(p, i, s)[k].asked
           /\ \A f \in Function : p.index[f] <= Visits(p, i, s)[k].index[f]
<1> DEFINE g == Visits(p, i, s)
           S == {m \in Steps :
                   /\ p.asked \subseteq g[m].asked
                   /\ \A a \in g[m].asked : a \in p.asked \/ a.instance = i
                   /\ \A j \in 0 .. m : g[j].asked \subseteq g[m].asked
                   /\ \A f \in Function : p.index[f] <= g[m].index[f]}
<1>1. /\ g \in [Steps -> Process] /\ g[0] = Fresh(p)
      /\ \A m \in 1 .. Len(Order) : g[m] = Visit(g[m - 1], i, Order[m], s)
  BY VisitsDef
<1>2. \A f \in Function : p.index[f] \in Nat
  BY DEF Process
<1> HIDE DEF g
<1>3. 0 \in S
  BY <1>1, <1>2, FreshFacts, Sizes DEF Steps
<1>4. ASSUME NEW m \in Nat, m < Len(Order), m \in S PROVE m + 1 \in S
  <2>1. m + 1 \in 1 .. Len(Order) /\ m + 1 \in Steps /\ m \in Steps
        /\ (m + 1) - 1 = m /\ Order[m + 1] \in Value
    BY <1>4, Sizes DEF Steps
  <2>2. g[m + 1] = Visit(g[m], i, Order[m + 1], s) /\ g[m] \in Process
    BY <1>1, <2>1
  <2>3. /\ g[m].asked \subseteq g[m + 1].asked
        /\ \A a \in g[m + 1].asked : a \in g[m].asked \/ a.instance = i
        /\ \A f \in Function : g[m].index[f] <= g[m + 1].index[f]
    BY <2>1, <2>2, VisitGrows
  <2>4. \A f \in Function : p.index[f] <= g[m + 1].index[f]
    <3>1. g[m + 1] \in Process
      BY <1>1, <2>1
    <3>2. \A f \in Function : g[m].index[f] \in Nat /\ g[m + 1].index[f] \in Nat
      BY <2>2, <3>1 DEF Process
    <3> QED  BY <1>2, <1>4, <2>3, <3>2
  <2>5. \A j \in 0 .. m + 1 : j \in 0 .. m \/ j = m + 1
    BY <2>1
  <2> QED  BY <1>4, <2>1, <2>3, <2>4, <2>5
<1> HIDE DEF S
<1>5. \A m \in 0 .. Len(Order) : m \in S
  BY <1>3, <1>4, Sizes, InductUpTo
<1> QED  BY <1>5 DEF S, Steps, g

\* The lookups of the first instances are those of the pipeline cut there.
LEMMA PipelineGrows ==
    ASSUME NEW s \in Strings, NEW m \in 0 .. Instances, NEW i \in 0 .. m
    PROVE  /\ Pipeline(s)[i].asked \subseteq Pipeline(s)[m].asked
           /\ \A a \in Pipeline(s)[m].asked :
                a.instance < m /\ (a.instance < i => a \in Pipeline(s)[i].asked)
<1> DEFINE h == Pipeline(s)
           S == {n \in 0 .. Instances :
                   \A j \in 0 .. n :
                     /\ h[j].asked \subseteq h[n].asked
                     /\ \A a \in h[n].asked :
                          a.instance < n /\ (a.instance < j => a \in h[j].asked)}
<1>1. /\ h \in [0 .. Instances -> Process] /\ h[0] = NewProcess
      /\ \A n \in 1 .. Instances : h[n] = RunOnModule(h[n - 1], n - 1, s)
  BY PipelineDef
<1> HIDE DEF h
<1>2. 0 \in S
  BY <1>1, NewFacts, Sizes
<1>3. ASSUME NEW n \in Nat, n < Instances, n \in S PROVE n + 1 \in S
  <2>1. n + 1 \in 1 .. Instances /\ n \in Instance /\ (n + 1) - 1 = n
        /\ n \in 0 .. Instances /\ Len(Order) \in Steps
    BY <1>3, Sizes DEF Instance, Steps
  <2>2. h[n + 1] = Visits(h[n], n, s)[Len(Order)] /\ h[n] \in Process
    BY <1>1, <2>1 DEF RunOnModule
  <2>3. /\ h[n].asked \subseteq h[n + 1].asked
        /\ \A a \in h[n + 1].asked : a \in h[n].asked \/ a.instance = n
    BY <2>1, <2>2, VisitsGrow
  <2>4. \A a \in h[n].asked : a.instance \in Int /\ a.instance < n
    <3>1. n \in 0 .. n
      OBVIOUS
    <3>2. \A a \in h[n].asked : a \in Lookup
      BY <2>2 DEF Process
    <3> QED  BY <1>3, <3>1, <3>2 DEF Lookup, Instance
  <2> SUFFICES ASSUME NEW j \in 0 .. n + 1
               PROVE  /\ h[j].asked \subseteq h[n + 1].asked
                      /\ \A a \in h[n + 1].asked :
                           a.instance < n + 1 /\ (a.instance < j => a \in h[j].asked)
    BY <2>1
  <2>5. \A a \in h[n + 1].asked : a.instance < n + 1
    BY <2>3, <2>4
  <2>6. CASE j = n + 1
    BY <2>5, <2>6
  <2>7. CASE j \in 0 .. n
    BY <1>3, <2>3, <2>5, <2>7
  <2> QED  BY <2>1, <2>6, <2>7
<1> HIDE DEF S
<1>4. \A n \in 0 .. Instances : n \in S
  BY <1>2, <1>3, Sizes, InductUpTo
<1> QED  BY <1>4 DEF S, h

-------------------------------------------------------------------------------
(* A longer string serves as its beginning does *)

Prolongs(s, t) ==
    \A f \in Function :
        /\ Len(s[f]) <= Len(t[f])
        /\ \A k \in 1 .. Len(s[f]) : t[f][k] = s[f][k]

LEMMA SameVisit ==
    ASSUME NEW p \in Process, NEW i \in Instance, NEW v \in Value,
           NEW s \in Strings, NEW t \in Strings, Prolongs(s, t),
           MustAsk(p, i, v) => EntryFor(p, v, s) # None
    PROVE  Visit(p, i, v, t) = Visit(p, i, v, s)
<1>1. CASE MustAsk(p, i, v)
  <2> DEFINE pos == p.index[v[1]] + 1
  <2>1. v[1] \in Function
    BY Sizes
  <2>2. pos \in 1 .. Len(s[v[1]]) /\ EntryFor(p, v, s) = s[v[1]][pos]
    BY <1>1, EntryFacts
  <2>3. pos <= Len(t[v[1]]) /\ t[v[1]][pos] = s[v[1]][pos]
    <3>1. Len(s[v[1]]) \in Nat /\ Len(t[v[1]]) \in Nat
      BY <2>1 DEF Strings
    <3> HIDE DEF pos
    <3> QED  BY <2>1, <2>2, <3>1 DEF Prolongs
  <2>4. EntryFor(p, v, t) = EntryFor(p, v, s)
    BY <2>2, <2>3 DEF EntryFor
  <2> QED  BY <2>4 DEF Visit
<1>2. CASE ~MustAsk(p, i, v)
  BY <1>2, SkipFacts
<1> QED  BY <1>1, <1>2

\* A pass that finds an entry for each of its lookups does the same with a
\* longer string.
LEMMA SamePass ==
    ASSUME NEW p \in Process, NEW i \in Instance,
           NEW s \in Strings, NEW t \in Strings, Prolongs(s, t),
           \A a \in RunOnModule(p, i, s).asked : a.entry # None
    PROVE  RunOnModule(p, i, t) = RunOnModule(p, i, s)
<1> DEFINE g == Visits(p, i, s)
           h == Visits(p, i, t)
           S == {m \in Steps : h[m] = g[m]}
<1>1. /\ g \in [Steps -> Process] /\ g[0] = Fresh(p) /\ h[0] = Fresh(p)
      /\ \A m \in 1 .. Len(Order) :
            /\ g[m] = Visit(g[m - 1], i, Order[m], s)
            /\ h[m] = Visit(h[m - 1], i, Order[m], t)
  BY VisitsDef
<1>2. Len(Order) \in Steps
  BY Sizes DEF Steps
<1>3. \A m \in Steps : \A a \in g[m].asked : a.entry # None
  <2>1. \A m \in Steps : g[m].asked \subseteq g[Len(Order)].asked
    BY <1>2, VisitsGrow DEF Steps
  <2> QED  BY <2>1 DEF RunOnModule
<1> HIDE DEF g, h
<1>4. 0 \in S
  BY <1>1, Sizes DEF Steps
<1>5. ASSUME NEW m \in Nat, m < Len(Order), m \in S PROVE m + 1 \in S
  <2>1. m + 1 \in 1 .. Len(Order) /\ m + 1 \in Steps /\ m \in Steps
        /\ (m + 1) - 1 = m /\ Order[m + 1] \in Value
    BY <1>5, Sizes DEF Steps
  <2>2. /\ g[m + 1] = Visit(g[m], i, Order[m + 1], s) /\ g[m] \in Process
        /\ h[m + 1] = Visit(g[m], i, Order[m + 1], t)
    BY <1>1, <1>5, <2>1
  <2>3. MustAsk(g[m], i, Order[m + 1]) => EntryFor(g[m], Order[m + 1], s) # None
    <3> SUFFICES ASSUME MustAsk(g[m], i, Order[m + 1])
                 PROVE  EntryFor(g[m], Order[m + 1], s) # None
      OBVIOUS
    <3> DEFINE e == EntryFor(g[m], Order[m + 1], s)
               a == [instance |-> i, value |-> Order[m + 1],
                     source |-> SourceFor(g[m], Order[m + 1], e), entry |-> e]
    <3>1. g[m + 1].asked = g[m].asked \cup {a}
      BY <2>1, <2>2, AskFacts
    <3>2. a.entry = e
      OBVIOUS
    <3> HIDE DEF a
    <3> QED  BY <1>3, <2>1, <3>1, <3>2
  <2> QED  BY <2>1, <2>2, <2>3, SameVisit
<1> HIDE DEF S
<1>6. \A m \in 0 .. Len(Order) : m \in S
  BY <1>4, <1>5, Sizes, InductUpTo
<1> QED  BY <1>2, <1>6 DEF S, Steps, g, h, RunOnModule

\* As long as a string serves the instances, a longer one does not differ.
LEMMA Follow ==
    ASSUME NEW s \in Strings, NEW t \in Strings, Prolongs(s, t),
           NEW n \in 0 .. Instances, Serves(s, n)
    PROVE  \A i \in 0 .. n : Pipeline(t)[i] = Pipeline(s)[i]
<1> DEFINE g == Pipeline(s)
           h == Pipeline(t)
           S == {i \in 0 .. n : h[i] = g[i]}
<1>1. /\ g \in [0 .. Instances -> Process] /\ g[0] = NewProcess
      /\ h[0] = NewProcess
      /\ \A i \in 1 .. Instances :
            /\ g[i] = RunOnModule(g[i - 1], i - 1, s)
            /\ h[i] = RunOnModule(h[i - 1], i - 1, t)
  BY PipelineDef
<1>2. \A i \in 0 .. n : \A a \in g[i].asked : a.entry # None
  <2>1. \A i \in 0 .. n : g[i].asked \subseteq g[n].asked
    BY PipelineGrows
  <2> QED  BY <2>1 DEF Serves
<1> HIDE DEF g, h
<1>3. 0 \in S
  BY <1>1
<1>4. ASSUME NEW i \in Nat, i < n, i \in S PROVE i + 1 \in S
  <2>1. /\ i + 1 \in 1 .. Instances /\ i + 1 \in 0 .. n /\ (i + 1) - 1 = i
        /\ i \in Instance /\ i \in 0 .. Instances
    BY <1>4, Sizes DEF Instance
  <2>2. /\ g[i + 1] = RunOnModule(g[i], i, s) /\ g[i] \in Process
        /\ h[i + 1] = RunOnModule(g[i], i, t)
    BY <1>1, <1>4, <2>1
  <2>3. \A a \in RunOnModule(g[i], i, s).asked : a.entry # None
    BY <1>2, <2>1, <2>2
  <2> QED  BY <2>1, <2>2, <2>3, SamePass
<1> HIDE DEF S
<1>5. \A i \in 0 .. n : i \in S
  BY <1>3, <1>4, InductUpTo
<1> QED  BY <1>5 DEF S, g, h

-------------------------------------------------------------------------------
(* A string that is used up *)

\* When a string is used up, a pass finds no entry any more.
LEMMA PassExhausted ==
    ASSUME NEW p \in Process, NEW i \in Instance, NEW s \in Strings,
           \A f \in Function : Len(s[f]) <= p.index[f]
    PROVE  /\ \A f \in Function : Len(s[f]) <= RunOnModule(p, i, s).index[f]
           /\ \A a \in RunOnModule(p, i, s).asked : a \in p.asked \/ a.entry = None
<1> DEFINE g == Visits(p, i, s)
           S == {m \in Steps : \A a \in g[m].asked : a \in p.asked \/ a.entry = None}
<1>1. /\ g \in [Steps -> Process] /\ g[0] = Fresh(p)
      /\ \A m \in 1 .. Len(Order) : g[m] = Visit(g[m - 1], i, Order[m], s)
  BY VisitsDef
<1>2. \A m \in Steps : \A f \in Function : Len(s[f]) <= g[m].index[f]
  <2> SUFFICES ASSUME NEW m \in Steps, NEW f \in Function
               PROVE  Len(s[f]) <= g[m].index[f]
    OBVIOUS
  <2>1. p.index[f] <= g[m].index[f]
    BY VisitsGrow
  <2>2. Len(s[f]) \in Nat /\ p.index[f] \in Nat /\ g[m].index[f] \in Nat
    BY <1>1 DEF Strings, Process
  <2> QED  BY <2>1, <2>2
<1> HIDE DEF g
<1>3. 0 \in S
  BY <1>1, FreshFacts, Sizes DEF Steps
<1>4. ASSUME NEW m \in Nat, m < Len(Order), m \in S PROVE m + 1 \in S
  <2> DEFINE v == Order[m + 1]
             e == EntryFor(g[m], v, s)
  <2>1. m + 1 \in 1 .. Len(Order) /\ m + 1 \in Steps /\ m \in Steps
        /\ (m + 1) - 1 = m /\ v \in Value /\ v[1] \in Function
    BY <1>4, Sizes DEF Steps
  <2>2. g[m + 1] = Visit(g[m], i, v, s) /\ g[m] \in Process
    BY <1>1, <2>1
  <2>3. e = None
    <3>1. g[m].index[v[1]] \in Nat /\ Len(s[v[1]]) \in Nat
      BY <2>1, <2>2 DEF Process, Strings
    <3>2. Len(s[v[1]]) <= g[m].index[v[1]]
      BY <1>2, <2>1
    <3> HIDE DEF v
    <3>3. ~(g[m].index[v[1]] + 1 <= Len(s[v[1]]))
      BY <3>1, <3>2
    <3> QED  BY <3>3 DEF EntryFor
  <2> HIDE DEF v
  <2>4. CASE MustAsk(g[m], i, v)
    <3> DEFINE a == [instance |-> i, value |-> v,
                     source |-> SourceFor(g[m], v, e), entry |-> e]
    <3>1. g[m + 1].asked = g[m].asked \cup {a}
      BY <2>1, <2>2, <2>4, AskFacts
    <3>2. a.entry = None
      BY <2>3
    <3> HIDE DEF a
    <3> QED  BY <1>4, <2>1, <3>1, <3>2
  <2>5. CASE ~MustAsk(g[m], i, v)
    BY <1>4, <2>1, <2>2, <2>5, SkipFacts
  <2> QED  BY <2>4, <2>5
<1> HIDE DEF S
<1>5. \A m \in 0 .. Len(Order) : m \in S
  BY <1>3, <1>4, Sizes, InductUpTo
<1>6. Len(Order) \in Steps /\ Len(Order) \in 0 .. Len(Order)
  BY Sizes DEF Steps
<1> QED  BY <1>2, <1>5, <1>6 DEF S, g, RunOnModule

LEMMA Exhausted ==
    ASSUME NEW s \in Strings, NEW m \in 0 .. Instances,
           \A f \in Function : Len(s[f]) <= Pipeline(s)[m].index[f],
           NEW a \in Pipeline(s)[Instances].asked
    PROVE  a \in Pipeline(s)[m].asked \/ a.entry = None
<1> DEFINE h == Pipeline(s)
           S == {i \in 0 .. Instances : m <= i =>
                   /\ \A f \in Function : Len(s[f]) <= h[i].index[f]
                   /\ \A b \in h[i].asked : b \in h[m].asked \/ b.entry = None}
<1>1. /\ h \in [0 .. Instances -> Process]
      /\ \A i \in 1 .. Instances : h[i] = RunOnModule(h[i - 1], i - 1, s)
  BY PipelineDef
<1>2. m \in S
  OBVIOUS
<1> HIDE DEF h
<1>3. 0 \in S
  <2>1. CASE m = 0
    BY <1>2, <2>1
  <2>2. CASE m # 0
    BY <2>2, Sizes
  <2> QED  BY <2>1, <2>2
<1>4. ASSUME NEW i \in Nat, i < Instances, i \in S PROVE i + 1 \in S
  <2>1. i + 1 \in 1 .. Instances /\ i + 1 \in 0 .. Instances /\ i \in 0 .. Instances
        /\ (i + 1) - 1 = i /\ i \in Instance
    BY <1>4, Sizes DEF Instance
  <2>2. h[i + 1] = RunOnModule(h[i], i, s) /\ h[i] \in Process
    BY <1>1, <2>1
  <2>3. CASE m <= i
    <3>1. \A f \in Function : Len(s[f]) <= h[i].index[f]
      BY <1>4, <2>3
    <3>2. /\ \A f \in Function : Len(s[f]) <= h[i + 1].index[f]
          /\ \A b \in h[i + 1].asked : b \in h[i].asked \/ b.entry = None
      BY <2>1, <2>2, <3>1, PassExhausted
    <3> QED  BY <1>4, <2>1, <2>3, <3>2
  <2>4. CASE m = i + 1
    BY <1>2, <2>4
  <2>5. CASE m > i + 1
    BY <2>1, <2>5
  <2> QED  BY <2>3, <2>4, <2>5
<1> HIDE DEF S
<1>5. \A i \in 0 .. Instances : i \in S
  BY <1>3, <1>4, Sizes, InductUpTo
<1>6. Instances \in 0 .. Instances /\ m <= Instances
  BY Sizes
<1> QED  BY <1>5, <1>6 DEF S, h

-------------------------------------------------------------------------------
(* What a pass finds unspecified *)

LEMMA ProlongsTrans ==
    ASSUME NEW X, NEW r \in [Function -> Seq(X)], NEW s \in [Function -> Seq(X)],
           NEW t \in [Function -> Seq(X)], Prolongs(r, s), Prolongs(s, t)
    PROVE  Prolongs(r, t)
<1> SUFFICES ASSUME NEW f \in Function
             PROVE  /\ Len(r[f]) <= Len(t[f])
                    /\ \A k \in 1 .. Len(r[f]) : t[f][k] = r[f][k]
  BY DEF Prolongs
<1>1. Len(r[f]) \in Nat /\ Len(s[f]) \in Nat /\ Len(t[f]) \in Nat
  OBVIOUS
<1>2. /\ Len(r[f]) <= Len(s[f]) /\ Len(s[f]) <= Len(t[f])
      /\ \A k \in 1 .. Len(r[f]) : s[f][k] = r[f][k]
      /\ \A k \in 1 .. Len(s[f]) : t[f][k] = s[f][k]
  BY DEF Prolongs
<1>3. \A k \in 1 .. Len(r[f]) : k \in 1 .. Len(s[f])
  BY <1>1, <1>2
<1> QED  BY <1>1, <1>2, <1>3

\* From p to q nothing or v was added to what is reported for f.
Gains(p, q, f, v) ==
    \/ q.unspecified[f] = p.unspecified[f]
    \/ f = v[1] /\ q.unspecified[f] = Append(p.unspecified[f], v)

LEMMA VisitReports ==
    ASSUME NEW p \in Process, NEW i \in Instance, NEW v \in Value,
           NEW s \in Strings, NEW f \in Function
    PROVE  Gains(p, Visit(p, i, v, s), f, v)
<1> USE DEF Gains
<1>1. CASE MustAsk(p, i, v)
  <2> DEFINE source == SourceFor(p, v, EntryFor(p, v, s))
  <2>1. CASE f = v[1] /\ source = "default"
    BY <1>1, <2>1, AskFacts
  <2>2. CASE f # v[1] \/ source # "default"
    BY <1>1, <2>2, AskFacts
  <2> QED  BY <2>1, <2>2
<1>2. CASE ~MustAsk(p, i, v)
  BY <1>2, SkipFacts
<1> QED  BY <1>1, <1>2

LEMMA VisitProlongs ==
    ASSUME NEW p \in Process, NEW i \in Instance, NEW v \in Value,
           NEW s \in Strings
    PROVE  Prolongs(p.unspecified, Visit(p, i, v, s).unspecified)
<1> DEFINE q == Visit(p, i, v, s)
           new == q.unspecified
           old == p.unspecified
<1>1. old \in [Function -> Seq(Value)] /\ v[1] \in Function
  BY Sizes DEF Process
<1>2. ASSUME NEW f \in Function PROVE new[f] = old[f] \/ new[f] = Append(old[f], v)
  <2>1. Gains(p, q, f, v)
    BY VisitReports
  <2> HIDE DEF q
  <2> QED  BY <2>1 DEF Gains
<1> HIDE DEF new, old, q
<1>3. ASSUME NEW f \in Function
      PROVE  /\ Len(old[f]) <= Len(new[f])
             /\ \A k \in 1 .. Len(old[f]) : new[f][k] = old[f][k]
  <2>1. old[f] \in Seq(Value) /\ Len(old[f]) \in Nat
    BY <1>1
  <2>2. CASE new[f] = old[f]
    BY <2>1, <2>2
  <2>3. CASE new[f] = Append(old[f], v)
    BY <2>1, <2>3
  <2> QED  BY <1>2, <2>2, <2>3
<1> QED  BY <1>3 DEF Prolongs, new, old, q

LEMMA UnspecifiedGrows ==
    ASSUME NEW p \in Process, NEW i \in Instance, NEW s \in Strings,
           NEW k \in Steps
    PROVE  Prolongs(Visits(p, i, s)[k].unspecified, RunOnModule(p, i, s).unspecified)
<1> DEFINE g == Visits(p, i, s)
           S == {m \in Steps : \A j \in 0 .. m :
                     Prolongs(g[j].unspecified, g[m].unspecified)}
<1>1. /\ g \in [Steps -> Process]
      /\ \A m \in 1 .. Len(Order) : g[m] = Visit(g[m - 1], i, Order[m], s)
  BY VisitsDef
<1> HIDE DEF g
<1>2. \A m \in Steps : /\ g[m].unspecified \in [Function -> Seq(Value)]
                       /\ Prolongs(g[m].unspecified, g[m].unspecified)
  <2>1. \A m \in Steps : g[m].unspecified \in [Function -> Seq(Value)]
    BY <1>1 DEF Process
  <2>2. \A m \in Steps : \A f \in Function : Len(g[m].unspecified[f]) \in Nat
    BY <2>1
  <2> QED  BY <2>1, <2>2 DEF Prolongs
<1>3. 0 \in S
  BY <1>2, Sizes DEF Steps
<1>4. ASSUME NEW m \in Nat, m < Len(Order), m \in S PROVE m + 1 \in S
  <2>1. m + 1 \in 1 .. Len(Order) /\ m + 1 \in Steps /\ m \in Steps
        /\ (m + 1) - 1 = m /\ Order[m + 1] \in Value
    BY <1>4, Sizes DEF Steps
  <2>2. Prolongs(g[m].unspecified, g[m + 1].unspecified)
    BY <1>1, <2>1, VisitProlongs
  <2> SUFFICES ASSUME NEW j \in 0 .. m + 1
               PROVE  Prolongs(g[j].unspecified, g[m + 1].unspecified)
    BY <2>1
  <2>3. CASE j = m + 1
    BY <1>2, <2>1, <2>3
  <2>4. CASE j \in 0 .. m
    <3>1. j \in Steps /\ Prolongs(g[j].unspecified, g[m].unspecified)
      BY <1>4, <2>1, <2>4 DEF Steps
    <3> QED  BY <1>2, <2>1, <2>2, <3>1, ProlongsTrans
  <2> QED  BY <2>3, <2>4
<1> HIDE DEF S
<1>5. \A m \in 0 .. Len(Order) : m \in S
  BY <1>3, <1>4, Sizes, InductUpTo
<1>6. Len(Order) \in Steps /\ k \in 0 .. Len(Order)
  BY Sizes DEF Steps
<1> QED  BY <1>5, <1>6 DEF S, g, RunOnModule, Steps

\* The value is one of the first k of a pass.
Seen(k, v) == \E m \in 1 .. k : Order[m] = v

\* What q, a state of a pass that began with p and made k visits, has found
\* unspecified, when the string s was used up before and no name was reused.
Found(p, s, k, q) ==
    /\ \A f \in Function : q.index[f] = Len(s[f]) + Len(q.unspecified[f])
    /\ \A n \in Name : q.cache[n] = p.cache[n]
    /\ \A f \in Function : \A j \in 1 .. Len(q.unspecified[f]) :
          LET v == q.unspecified[f][j]
          IN  v[1] = f /\ p.cache[v[2]] = 0 /\ Seen(k, v)
    /\ \A f \in Function : \A j, m \in 1 .. Len(q.unspecified[f]) :
          q.unspecified[f][j] = q.unspecified[f][m] => j = m

\* A lookup behind the end of the string, of a name that was not read.
LEMMA FoundMore ==
    ASSUME NEW p \in Process, NEW i \in Instance, NEW s \in Strings,
           NEW k \in 1 .. Len(Order), NEW q \in Process,
           Found(p, s, k - 1, q), MustAsk(q, i, Order[k]),
           \A a \in Visit(q, i, Order[k], s).asked : a.source # "cache"
    PROVE  Found(p, s, k, Visit(q, i, Order[k], s))
<1> DEFINE v == Order[k]
           r == Visit(q, i, v, s)
           e == EntryFor(q, v, s)
           old == q.unspecified
           new == r.unspecified
<1>1. v \in Value /\ v[1] \in Function /\ v[2] \in Name /\ r \in Process
  BY Sizes, VisitType
<1>2. /\ old \in [Function -> Seq(Value)] /\ new \in [Function -> Seq(Value)]
      /\ \A f \in Function : Len(s[f]) \in Nat /\ Len(old[f]) \in Nat
      /\ \A f \in Function : q.index[f] \in Nat
  <2> HIDE DEF r
  <2>1. old \in [Function -> Seq(Value)] /\ new \in [Function -> Seq(Value)]
    BY <1>1 DEF Process
  <2>2. \A f \in Function : Len(s[f]) \in Nat
    BY DEF Strings
  <2>3. \A f \in Function : q.index[f] \in Nat
    BY DEF Process
  <2> HIDE DEF old, new
  <2>4. \A f \in Function : Len(old[f]) \in Nat
    BY <2>1
  <2> QED  BY <2>1, <2>2, <2>3, <2>4
<1>3. e = None
  <2> HIDE DEF v
  <2>1. q.index[v[1]] = Len(s[v[1]]) + Len(old[v[1]])
    BY <1>1 DEF Found
  <2>2. Len(s[v[1]]) \in Nat /\ Len(old[v[1]]) \in Nat /\ q.index[v[1]] \in Nat
    BY <1>1, <1>2
  <2>3. ~(q.index[v[1]] + 1 <= Len(s[v[1]]))
    <3> DEFINE at == q.index[v[1]]
               length == Len(s[v[1]])
               more == Len(old[v[1]])
    <3>1. at = length + more /\ length \in Nat /\ more \in Nat /\ at \in Nat
      BY <2>1, <2>2
    <3> HIDE DEF at, length, more
    <3>2. ~(at + 1 <= length)
      BY <3>1
    <3> QED  BY <3>2 DEF at, length
  <2> QED  BY <2>3 DEF EntryFor
<1>4. SourceFor(q, v, e) = "default"
  <2> DEFINE a == [instance |-> i, value |-> v,
                   source |-> SourceFor(q, v, e), entry |-> e]
  <2>1. a \in r.asked
    BY <1>1, AskFacts
  <2>2. a.source # "cache" /\ a.source = SourceFor(q, v, e)
    BY <2>1
  <2>3. SourceFor(q, v, e) # "entry"
    BY <1>3 DEF SourceFor
  <2> QED  BY <2>2, <2>3 DEF SourceFor
<1>5. p.cache[v[2]] = 0
  <2>1. q.cache[v[2]] = 0
    BY <1>1, <1>3, <1>4, ChoiceFacts
  <2> QED  BY <1>1, <2>1 DEF Found
<1>6. /\ new[v[1]] = Append(old[v[1]], v)
      /\ \A f \in Function : f # v[1] => new[f] = old[f]
      /\ r.index[v[1]] = q.index[v[1]] + 1
      /\ \A f \in Function : f # v[1] => r.index[f] = q.index[f]
      /\ \A n \in Name : r.cache[n] = q.cache[n]
  <2>1. /\ r.index[v[1]] = q.index[v[1]] + 1
        /\ \A f \in Function : f # v[1] => r.index[f] = q.index[f]
        /\ \A n \in Name : n # v[2] \/ e = None => r.cache[n] = q.cache[n]
    BY <1>1, AskFacts
  <2>2. SourceFor(q, v, e) = "default" => new[v[1]] = Append(old[v[1]], v)
    <3>1. /\ v \in Value /\ MustAsk(q, i, v)
      BY <1>1
    <3> HIDE DEF v
    <3> QED  BY <3>1, AskFacts
  <2>3. \A f \in Function : f # v[1] => new[f] = old[f]
    BY <1>1, AskFacts
  <2> HIDE DEF r, e, v, new, old
  <2> QED  BY <1>3, <1>4, <2>1, <2>2, <2>3
<1> HIDE DEF e, r, new, v
<1>7. \A f \in Function : r.index[f] = Len(s[f]) + Len(new[f])
  <2> SUFFICES ASSUME NEW f \in Function PROVE r.index[f] = Len(s[f]) + Len(new[f])
    OBVIOUS
  <2>1. q.index[f] = Len(s[f]) + Len(old[f])
    BY DEF Found
  <2>2. old[f] \in Seq(Value) /\ Len(old[f]) \in Nat /\ Len(s[f]) \in Nat
    BY <1>2
  <2> HIDE DEF old
  <2>3. CASE f = v[1]
    <3>1. Len(Append(old[f], v)) = Len(old[f]) + 1
      BY <2>2, <1>1
    <3>2. r.index[f] = q.index[f] + 1 /\ new[f] = Append(old[f], v)
      BY <1>6, <2>3
    <3> DEFINE length == Len(s[f])
               more == Len(old[f])
    <3>3. Len(new[f]) = more + 1 /\ length \in Nat /\ more \in Nat
      BY <2>2, <3>1, <3>2
    <3>4. r.index[f] = (length + more) + 1
      BY <2>1, <3>2
    <3> HIDE DEF length, more
    <3>5. (length + more) + 1 = length + (more + 1)
      BY <3>3
    <3> QED  BY <3>3, <3>4, <3>5 DEF length
  <2>4. CASE f # v[1]
    BY <1>6, <2>1, <2>4
  <2> QED  BY <2>3, <2>4
<1>8. \A n \in Name : r.cache[n] = p.cache[n]
  BY <1>6 DEF Found
<1>9. \A j \in 1 .. Len(old[v[1]]) : old[v[1]][j] # v
  <2> SUFFICES ASSUME NEW j \in 1 .. Len(old[v[1]]), old[v[1]][j] = v PROVE FALSE
    OBVIOUS
  <2>1. PICK m \in 1 .. k - 1 : Order[m] = v
    <3>1. Seen(k - 1, v)
      BY <1>1 DEF Found
    <3> QED  BY <3>1 DEF Seen
  <2>2. m \in 1 .. Len(Order) /\ m < k
    BY Sizes
  <2>3. Order[m] # Order[k]
    BY <2>2, OrderAssumption
  <2> QED  BY <2>1, <2>3 DEF v
<1>10. \A j \in 1 .. Len(new[v[1]]) :
          \/ j \in 1 .. Len(old[v[1]]) /\ new[v[1]][j] = old[v[1]][j]
          \/ j = Len(old[v[1]]) + 1 /\ new[v[1]][j] = v
  <2> DEFINE o == old[v[1]]
  <2>1. o \in Seq(Value) /\ Len(o) \in Nat /\ new[v[1]] = Append(o, v)
    BY <1>1, <1>2, <1>6
  <2> HIDE DEF o
  <2>2. Len(Append(o, v)) = Len(o) + 1 /\ Append(o, v)[Len(o) + 1] = v
        /\ \A j \in 1 .. Len(o) : Append(o, v)[j] = o[j]
    BY <2>1, <1>1
  <2>3. \A j \in 1 .. Len(o) + 1 : j \in 1 .. Len(o) \/ j = Len(o) + 1
    BY <2>1
  <2> QED  BY <2>1, <2>2, <2>3 DEF o
<1>11. \A f \in Function : \A j \in 1 .. Len(new[f]) :
          new[f][j][1] = f /\ p.cache[new[f][j][2]] = 0 /\ Seen(k, new[f][j])
  <2> SUFFICES ASSUME NEW f \in Function, NEW j \in 1 .. Len(new[f])
               PROVE  /\ new[f][j][1] = f /\ p.cache[new[f][j][2]] = 0
                      /\ Seen(k, new[f][j])
    OBVIOUS
  <2>1. \A w : Seen(k - 1, w) => Seen(k, w)
    <3>1. \A m \in 1 .. k - 1 : m \in 1 .. k
      OBVIOUS
    <3> QED  BY <3>1 DEF Seen
  <2>2. CASE j \in 1 .. Len(old[f]) /\ new[f][j] = old[f][j]
    <3>1. old[f][j][1] = f /\ p.cache[old[f][j][2]] = 0 /\ Seen(k - 1, old[f][j])
      BY <2>2 DEF Found
    <3> QED  BY <2>1, <2>2, <3>1
  <2>3. CASE f = v[1] /\ new[f][j] = v
    <3>1. Seen(k, v)
      <4>1. k \in 1 .. k /\ Order[k] = v
        BY Sizes DEF v
      <4> QED  BY <4>1 DEF Seen
    <3> QED  BY <1>5, <2>3, <3>1
  <2>4. CASE f # v[1]
    <3>1. new[f] = old[f]
      BY <1>6, <2>4
    <3> QED  BY <2>2, <3>1
  <2>5. CASE f = v[1]
    BY <1>10, <2>2, <2>3, <2>5
  <2> QED  BY <2>4, <2>5
<1>12. \A f \in Function : \A j, m \in 1 .. Len(new[f]) : new[f][j] = new[f][m] => j = m
  <2> SUFFICES ASSUME NEW f \in Function, NEW j \in 1 .. Len(new[f]),
                      NEW m \in 1 .. Len(new[f]), new[f][j] = new[f][m]
               PROVE  j = m
    OBVIOUS
  <2>1. \A x, y \in 1 .. Len(old[f]) : old[f][x] = old[f][y] => x = y
    BY DEF Found
  <2>2. CASE f # v[1]
    BY <1>6, <2>1, <2>2
  <2>3. CASE f = v[1]
    BY <1>9, <1>10, <2>1, <2>3
  <2> QED  BY <2>2, <2>3
<1>13. Found(p, s, k, r)
  BY <1>7, <1>8, <1>11, <1>12 DEF Found, new
<1> QED  BY <1>13 DEF v, r

LEMMA FoundLater ==
    ASSUME NEW p, NEW s, NEW k, NEW n, NEW q, Found(p, s, k, q),
           \A m \in 1 .. k : m \in 1 .. n
    PROVE  Found(p, s, n, q)
<1>1. \A v : Seen(k, v) => Seen(n, v)
  BY DEF Seen
<1> QED  BY <1>1 DEF Found

\* A pass behind the end of the string, when no name is reused.
LEMMA Report ==
    ASSUME NEW p \in Process, NEW i \in Instance, NEW s \in Strings,
           \A f \in Function : p.index[f] = Len(s[f]),
           \A a \in RunOnModule(p, i, s).asked : a.source # "cache",
           NEW k \in Steps
    PROVE  Found(p, s, k, Visits(p, i, s)[k])
<1> DEFINE g == Visits(p, i, s)
           S == {m \in Steps : Found(p, s, m, g[m])}
<1>1. /\ g \in [Steps -> Process] /\ g[0] = Fresh(p)
      /\ \A m \in 1 .. Len(Order) : g[m] = Visit(g[m - 1], i, Order[m], s)
  BY VisitsDef
<1>2. \A m \in Steps : \A a \in g[m].asked : a.source # "cache"
  <2>1. Len(Order) \in Steps
    BY Sizes DEF Steps
  <2>2. \A m \in Steps : g[m].asked \subseteq g[Len(Order)].asked
    BY <2>1, VisitsGrow DEF Steps
  <2> QED  BY <2>2 DEF RunOnModule
<1> HIDE DEF g
<1>3. 0 \in S
  <2>1. 0 \in Steps
    BY Sizes DEF Steps
  <2>2. /\ g[0].index = p.index /\ g[0].cache = p.cache
        /\ g[0].unspecified = NothingIn
    BY <1>1, FreshFacts
  <2>3. \A f \in Function : Len(s[f]) \in Nat /\ Len(NothingIn[f]) = 0
    BY NewFacts DEF Strings
  <2>4. \A f \in Function : p.index[f] = Len(s[f]) + Len(NothingIn[f])
    <3> SUFFICES ASSUME NEW f \in Function
                 PROVE  p.index[f] = Len(s[f]) + Len(NothingIn[f])
      OBVIOUS
    <3> DEFINE length == Len(s[f])
    <3>1. p.index[f] = length /\ length \in Nat /\ Len(NothingIn[f]) = 0
      BY <2>3
    <3> HIDE DEF length
    <3>2. length = length + 0
      BY <3>1
    <3> QED  BY <3>1, <3>2 DEF length
  <2>5. \A f \in Function : 1 .. Len(NothingIn[f]) = {}
    BY <2>3
  <2>6. Found(p, s, 0, g[0])
    BY <2>2, <2>4, <2>5 DEF Found
  <2> QED  BY <2>1, <2>6
<1>4. ASSUME NEW m \in Nat, m < Len(Order), m \in S PROVE m + 1 \in S
  <2> DEFINE n == m + 1
             v == Order[n]
  <2>1. n \in 1 .. Len(Order) /\ n \in Steps /\ m \in Steps /\ n - 1 = m
        /\ v \in Value
    BY <1>4, Sizes DEF Steps
  <2>2. g[n] = Visit(g[m], i, v, s) /\ g[m] \in Process /\ Found(p, s, m, g[m])
    BY <1>1, <1>4, <2>1
  <2> HIDE DEF n
  <2>3. CASE MustAsk(g[m], i, v)
    <3>1. \A a \in Visit(g[m], i, v, s).asked : a.source # "cache"
      BY <1>2, <2>1, <2>2
    <3>2. Found(p, s, n - 1, g[m])
      BY <2>1, <2>2
    <3> HIDE DEF v
    <3>3. Found(p, s, n, Visit(g[m], i, v, s))
      BY <2>1, <2>2, <2>3, <3>1, <3>2, FoundMore DEF v
    <3> QED  BY <2>1, <2>2, <3>3 DEF n
  <2>4. CASE ~MustAsk(g[m], i, v)
    <3>1. g[n] = g[m]
      BY <2>2, <2>4, SkipFacts
    <3>2. \A x \in 1 .. m : x \in 1 .. n
      BY <2>1 DEF n
    <3>3. Found(p, s, n, g[m])
      BY <2>2, <3>2, FoundLater
    <3> QED  BY <2>1, <3>1, <3>3 DEF n
  <2> QED  BY <2>3, <2>4
<1> HIDE DEF S
<1>5. \A m \in 0 .. Len(Order) : m \in S
  BY <1>3, <1>4, Sizes, InductUpTo
<1> QED  BY <1>5 DEF S, Steps, g

-------------------------------------------------------------------------------
(* The next pass reads what was written for it *)

\* t continues s with entries for the values that were found unspecified.
Continues(s, t, found) ==
    /\ Prolongs(s, t)
    /\ \A f \in Function :
          /\ Len(t[f]) <= Len(s[f]) + Len(found[f])
          /\ \A j \in 1 .. Len(found[f]) :
                Len(s[f]) + j <= Len(t[f]) => t[f][Len(s[f]) + j].value = found[f][j]
Complete(s, t, found) ==
    \A f \in Function : Len(t[f]) = Len(s[f]) + Len(found[f])

LEMMA NextEntry ==
    ASSUME NEW s \in Strings, NEW t \in Strings,
           NEW found \in [Function -> Seq(Value)], Continues(s, t, found),
           NEW p \in Process, NEW v \in Value, NEW j \in 1 .. Len(found[v[1]]),
           found[v[1]][j] = v, p.index[v[1]] + 1 = Len(s[v[1]]) + j
    PROVE  LET e == EntryFor(p, v, t)
           IN  (e # None => e.value = v) /\ (Complete(s, t, found) => e # None)
<1> DEFINE e == EntryFor(p, v, t)
           pos == p.index[v[1]] + 1
<1>1. /\ v[1] \in Function /\ Len(s[v[1]]) \in Nat /\ Len(t[v[1]]) \in Nat
      /\ Len(found[v[1]]) \in Nat
  <2>1. v[1] \in Function
    BY Sizes
  <2>2. s[v[1]] \in Seq(Entry) /\ t[v[1]] \in Seq(Entry)
        /\ found[v[1]] \in Seq(Value)
    BY <2>1 DEF Strings
  <2> QED  BY <2>1, <2>2
<1>2. e # None <=> pos <= Len(t[v[1]])
  BY EntryFacts
<1>3. e # None => e = t[v[1]][pos]
  BY EntryFacts
<1> HIDE DEF e
<1>4. e # None => e.value = v
  <2> SUFFICES ASSUME e # None PROVE e.value = v
    OBVIOUS
  <2>1. Len(s[v[1]]) + j <= Len(t[v[1]]) /\ e = t[v[1]][Len(s[v[1]]) + j]
    BY <1>2, <1>3
  <2>2. t[v[1]][Len(s[v[1]]) + j].value = found[v[1]][j]
    BY <1>1, <2>1 DEF Continues
  <2> QED  BY <2>1, <2>2
<1>5. Complete(s, t, found) => e # None
  BY <1>1, <1>2 DEF Complete
<1> QED  BY <1>4, <1>5 DEF e

\* The second of two passes over the same program, the first of which (g) has
\* found unspecified what the second (h) finds in its string.
Follows(p, s, t, found, k, g, h) ==
    /\ \A f \in Function : h.index[f] = g.index[f]
    /\ \A v \in Value : (\A m \in 1 .. k : Order[m] # v) => h.level[v] = g.level[v]
    /\ \A a \in h.asked : a \in p.asked \/ (/\ a.entry # None => a.entry.value = a.value
                                            /\ Complete(s, t, found) => a.entry # None)

LEMMA NextVisit ==
    ASSUME NEW p \in Process, NEW i \in Instance, NEW s \in Strings, NEW t \in Strings,
           NEW found \in [Function -> Seq(Value)], Continues(s, t, found),
           NEW k \in 1 .. Len(Order), NEW g \in Process, NEW h \in Process,
           Found(p, s, k - 1, g), Follows(p, s, t, found, k - 1, g, h),
           Prolongs(Visit(g, i, Order[k], s).unspecified, found),
           Found(p, s, k, Visit(g, i, Order[k], s))
    PROVE  Follows(p, s, t, found, k, Visit(g, i, Order[k], s), Visit(h, i, Order[k], t))
<1> DEFINE v == Order[k]
           newG == Visit(g, i, v, s)
           newH == Visit(h, i, v, t)
<1>1. v \in Value /\ v[1] \in Function
  BY Sizes
<1>2. \A m \in 1 .. k - 1 : Order[m] # v
  <2> SUFFICES ASSUME NEW m \in 1 .. k - 1 PROVE Order[m] # v
    OBVIOUS
  <2>1. m \in 1 .. Len(Order) /\ m < k
    BY Sizes
  <2> QED  BY <2>1, OrderAssumption
<1>3. MustAsk(h, i, v) <=> MustAsk(g, i, v)
  BY <1>1, <1>2 DEF MustAsk, Follows
<1>4. k \in 1 .. k /\ \A m \in 1 .. k - 1 : m \in 1 .. k
  BY Sizes
<1>5. CASE ~MustAsk(g, i, v)
  <2>1. newG = g /\ newH = h
    BY <1>3, <1>5, SkipFacts
  <2>2. Follows(p, s, t, found, k, g, h)
    BY <1>4 DEF Follows
  <2> HIDE DEF newG, newH, v
  <2>3. Follows(p, s, t, found, k, newG, newH)
    BY <2>1, <2>2
  <2> QED  BY <2>3 DEF newG, newH, v
<1>6. CASE MustAsk(g, i, v)
  <2> DEFINE e == EntryFor(h, v, t)
             a == [instance |-> i, value |-> v,
                   source |-> SourceFor(h, v, e), entry |-> e]
  <2>1. /\ newG.index[v[1]] = g.index[v[1]] + 1
        /\ \A f \in Function : f # v[1] => newG.index[f] = g.index[f]
        /\ \A w \in Value : w # v => newG.level[w] = g.level[w]
    BY <1>1, <1>6, AskFacts
  <2>2. /\ newH.index[v[1]] = h.index[v[1]] + 1
        /\ \A f \in Function : f # v[1] => newH.index[f] = h.index[f]
        /\ \A w \in Value : w # v => newH.level[w] = h.level[w]
        /\ newH.asked = h.asked \cup {a}
    BY <1>1, <1>3, <1>6, AskFacts
  <2>3. newG.unspecified[v[1]] = Append(g.unspecified[v[1]], v)
    <3>1. \/ newG.unspecified[v[1]] = g.unspecified[v[1]]
          \/ newG.unspecified[v[1]] = Append(g.unspecified[v[1]], v)
      <4>1. Gains(g, newG, v[1], v)
        BY <1>1, VisitReports
      <4> HIDE DEF newG
      <4> QED  BY <4>1 DEF Gains
    <3>2. /\ g.index[v[1]] = Len(s[v[1]]) + Len(g.unspecified[v[1]])
          /\ newG.index[v[1]] = Len(s[v[1]]) + Len(newG.unspecified[v[1]])
      BY <1>1 DEF Found
    <3>3. newG.index[v[1]] # g.index[v[1]]
      <4>1. g.index[v[1]] \in Nat
        BY <1>1 DEF Process
      <4> HIDE DEF newG
      <4> QED  BY <2>1, <4>1
    <3> HIDE DEF newG
    <3> QED  BY <3>1, <3>2, <3>3
  <2> DEFINE old == g.unspecified[v[1]]
             j == Len(old) + 1
  <2>4. /\ old \in Seq(Value) /\ Len(old) \in Nat /\ j \in Nat /\ j >= 1
        /\ Len(s[v[1]]) \in Nat /\ g.index[v[1]] \in Nat
        /\ Len(found[v[1]]) \in Nat
    <3>1. old \in Seq(Value) /\ s[v[1]] \in Seq(Entry) /\ found[v[1]] \in Seq(Value)
          /\ g.index[v[1]] \in Nat
      BY <1>1 DEF Process, Strings
    <3> HIDE DEF old
    <3> QED  BY <3>1
  <2>5. Len(Append(old, v)) = j /\ Append(old, v)[j] = v
    <3> HIDE DEF old, v
    <3> QED  BY <1>1, <2>4
  <2>6. j \in 1 .. Len(found[v[1]]) /\ found[v[1]][j] = v
    <3>1. j <= Len(found[v[1]]) /\ \A x \in 1 .. j : found[v[1]][x] = Append(old, v)[x]
      <4> HIDE DEF old, j, newG
      <4>1. /\ Len(newG.unspecified[v[1]]) <= Len(found[v[1]])
            /\ \A x \in 1 .. Len(newG.unspecified[v[1]]) :
                  found[v[1]][x] = newG.unspecified[v[1]][x]
        BY <1>1 DEF Prolongs, newG
      <4> QED  BY <2>3, <2>5, <4>1 DEF old
    <3> HIDE DEF old, v, j
    <3>2. j \in 1 .. j
      BY <2>4
    <3> QED  BY <2>4, <2>5, <3>1, <3>2
  <2>7. h.index[v[1]] + 1 = Len(s[v[1]]) + j
    <3> DEFINE at == g.index[v[1]]
               length == Len(s[v[1]])
               more == Len(old)
    <3>1. h.index[v[1]] = at /\ at = length + more /\ length \in Nat /\ more \in Nat
      BY <1>1, <2>4 DEF Follows, Found
    <3>2. j = more + 1
      OBVIOUS
    <3> HIDE DEF at, length, more, j
    <3>3. at + 1 = length + (more + 1)
      BY <3>1
    <3> QED  BY <3>1, <3>2, <3>3 DEF length
  <2> HIDE DEF j
  <2>8. (e # None => e.value = v) /\ (Complete(s, t, found) => e # None)
    BY <1>1, <2>6, <2>7, NextEntry
  <2>9. a.entry = e /\ a.value = v
    OBVIOUS
  <2> HIDE DEF a, e, newG, newH, v
  <2>10. \A b \in newH.asked :
            b \in p.asked \/ (/\ b.entry # None => b.entry.value = b.value
                              /\ Complete(s, t, found) => b.entry # None)
    <3>1. \A b \in h.asked :
            b \in p.asked \/ (/\ b.entry # None => b.entry.value = b.value
                              /\ Complete(s, t, found) => b.entry # None)
      BY DEF Follows
    <3> QED  BY <2>2, <2>8, <2>9, <3>1
  <2>11. \A f \in Function : newH.index[f] = newG.index[f]
    <3>1. \A f \in Function : h.index[f] = g.index[f]
      BY DEF Follows
    <3> QED  BY <1>1, <2>1, <2>2, <3>1
  <2>12. \A w \in Value : (\A m \in 1 .. k : Order[m] # w)
                             => newH.level[w] = newG.level[w]
    <3> SUFFICES ASSUME NEW w \in Value, \A m \in 1 .. k : Order[m] # w
                 PROVE  newH.level[w] = newG.level[w]
      OBVIOUS
    <3>1. w # v /\ \A m \in 1 .. k - 1 : Order[m] # w
      BY <1>4 DEF v
    <3>2. h.level[w] = g.level[w]
      BY <3>1 DEF Follows
    <3> QED  BY <2>1, <2>2, <3>1, <3>2
  <2>13. Follows(p, s, t, found, k, newG, newH)
    BY <2>10, <2>11, <2>12 DEF Follows
  <2> QED  BY <2>13 DEF newG, newH, v
<1> QED  BY <1>5, <1>6

LEMMA NextPass ==
    ASSUME NEW p \in Process, NEW i \in Instance, NEW s \in Strings, NEW t \in Strings,
           NEW found, found = RunOnModule(p, i, s).unspecified,
           Continues(s, t, found), \A f \in Function : p.index[f] = Len(s[f]),
           \A a \in RunOnModule(p, i, s).asked : a.source # "cache"
    PROVE  Follows(p, s, t, found, Len(Order), RunOnModule(p, i, s), RunOnModule(p, i, t))
<1> DEFINE g == Visits(p, i, s)
           h == Visits(p, i, t)
           S == {m \in Steps : Follows(p, s, t, found, m, g[m], h[m])}
<1>1. /\ g \in [Steps -> Process] /\ g[0] = Fresh(p)
      /\ h \in [Steps -> Process] /\ h[0] = Fresh(p)
      /\ \A m \in 1 .. Len(Order) :
            /\ g[m] = Visit(g[m - 1], i, Order[m], s)
            /\ h[m] = Visit(h[m - 1], i, Order[m], t)
  BY VisitsDef
<1>2. \A m \in Steps : Prolongs(g[m].unspecified, found)
  BY UnspecifiedGrows
<1>3. \A m \in Steps : Found(p, s, m, g[m])
  BY Report
<1>4. found \in [Function -> Seq(Value)]
  BY RunType DEF Process
<1> HIDE DEF g, h
<1>5. 0 \in S
  <2>1. h[0].asked = p.asked /\ h[0] = g[0]
    BY <1>1, FreshFacts
  <2>2. 0 \in Steps
    BY Sizes DEF Steps
  <2> QED  BY <2>1, <2>2 DEF Follows
<1>6. ASSUME NEW m \in Nat, m < Len(Order), m \in S PROVE m + 1 \in S
  <2> DEFINE n == m + 1
  <2>1. n \in 1 .. Len(Order) /\ n \in Steps /\ m \in Steps /\ n - 1 = m
    BY <1>6, Sizes DEF Steps
  <2> HIDE DEF n
  <2>2. /\ g[n] = Visit(g[m], i, Order[n], s) /\ g[m] \in Process
        /\ h[n] = Visit(h[m], i, Order[n], t) /\ h[m] \in Process
    BY <1>1, <2>1
  <2>3. Found(p, s, n - 1, g[m]) /\ Follows(p, s, t, found, n - 1, g[m], h[m])
    BY <1>3, <1>6, <2>1
  <2>4. /\ Prolongs(Visit(g[m], i, Order[n], s).unspecified, found)
        /\ Found(p, s, n, Visit(g[m], i, Order[n], s))
    BY <1>2, <1>3, <2>1, <2>2
  <2>5. Follows(p, s, t, found, n, g[n], h[n])
    BY <1>4, <2>1, <2>2, <2>3, <2>4, NextVisit
  <2> QED  BY <2>1, <2>5 DEF n
<1> HIDE DEF S
<1>7. \A m \in 0 .. Len(Order) : m \in S
  BY <1>5, <1>6, Sizes, InductUpTo
<1>8. Len(Order) \in 0 .. Len(Order)
  BY Sizes
<1> QED  BY <1>7, <1>8 DEF S, g, h, RunOnModule

-------------------------------------------------------------------------------
(* What every pass of the pipeline keeps *)

\* A set of states that each lookup keeps holds what a pass, and what the
\* first n instances end with.
LEMMA PassKeeps ==
    ASSUME NEW X, NEW p \in Process, NEW i \in Instance, NEW s \in Strings,
           Fresh(p) \in X,
           \A q \in Process : \A v \in Value :
               /\ q \in X
               /\ Visit(q, i, v, s).asked \subseteq RunOnModule(p, i, s).asked
               => Visit(q, i, v, s) \in X
    PROVE  RunOnModule(p, i, s) \in X
<1> DEFINE g == Visits(p, i, s)
           S == {m \in Steps : g[m] \in X}
<1>1. /\ g \in [Steps -> Process] /\ g[0] = Fresh(p)
      /\ \A m \in 1 .. Len(Order) : g[m] = Visit(g[m - 1], i, Order[m], s)
  BY VisitsDef
<1>2. Len(Order) \in Steps /\ 0 \in Steps
  BY Sizes DEF Steps
<1>3. \A m \in Steps : g[m].asked \subseteq RunOnModule(p, i, s).asked
  BY <1>2, VisitsGrow DEF RunOnModule, Steps
<1> HIDE DEF g
<1>4. 0 \in S
  BY <1>1, <1>2
<1>5. ASSUME NEW m \in Nat, m < Len(Order), m \in S PROVE m + 1 \in S
  <2>1. m + 1 \in 1 .. Len(Order) /\ m + 1 \in Steps /\ m \in Steps
        /\ (m + 1) - 1 = m /\ Order[m + 1] \in Value
    BY <1>5, Sizes DEF Steps
  <2>2. g[m + 1] = Visit(g[m], i, Order[m + 1], s) /\ g[m] \in Process
    BY <1>1, <2>1
  <2> QED  BY <1>3, <1>5, <2>1, <2>2
<1> HIDE DEF S
<1>6. \A m \in 0 .. Len(Order) : m \in S
  BY <1>4, <1>5, Sizes, InductUpTo
<1> QED  BY <1>2, <1>6 DEF S, Steps, g, RunOnModule

LEMMA PipelineKeeps ==
    ASSUME NEW X, NEW s \in Strings, NEW n \in 0 .. Instances,
           NewProcess \in X, \A q \in Process : q \in X => Fresh(q) \in X,
           \A q \in Process : \A i \in Instance : \A v \in Value :
               q \in X /\ Visit(q, i, v, s).asked \subseteq Pipeline(s)[n].asked
               => Visit(q, i, v, s) \in X
    PROVE  Pipeline(s)[n] \in X
<1> DEFINE h == Pipeline(s)
           S == {i \in 0 .. n : h[i] \in X}
<1>1. /\ h \in [0 .. Instances -> Process] /\ h[0] = NewProcess
      /\ \A i \in 1 .. Instances : h[i] = RunOnModule(h[i - 1], i - 1, s)
  BY PipelineDef
<1>2. \A i \in 0 .. n : h[i].asked \subseteq Pipeline(s)[n].asked
  BY PipelineGrows
<1> HIDE DEF h
<1>3. 0 \in S
  BY <1>1
<1>4. ASSUME NEW i \in Nat, i < n, i \in S PROVE i + 1 \in S
  <2>1. /\ i + 1 \in 1 .. Instances /\ i + 1 \in 0 .. n /\ (i + 1) - 1 = i
        /\ i \in Instance /\ i \in 0 .. Instances
    BY <1>4, Sizes DEF Instance
  <2>2. h[i + 1] = RunOnModule(h[i], i, s) /\ h[i] \in Process /\ h[i] \in X
    BY <1>1, <1>4, <2>1
  <2>3. RunOnModule(h[i], i, s).asked \subseteq Pipeline(s)[n].asked
    BY <1>2, <2>1, <2>2
  <2>4. \A q \in Process : \A v \in Value :
           /\ q \in X
           /\ Visit(q, i, v, s).asked \subseteq RunOnModule(h[i], i, s).asked
           => Visit(q, i, v, s) \in X
    BY <2>1, <2>3
  <2>5. RunOnModule(h[i], i, s) \in X
    BY <2>1, <2>2, <2>4, PassKeeps
  <2> QED  BY <2>1, <2>2, <2>5
<1> HIDE DEF S
<1>5. \A i \in 0 .. n : i \in S
  BY <1>3, <1>4, InductUpTo
<1> QED  BY <1>5 DEF S, h

\* The report goes by function: it names a value under the function it is in.
LEMMA ReportedByFunction ==
    ASSUME NEW s \in Strings, NEW n \in 0 .. Instances, NEW f \in Function,
           NEW j \in 1 .. Len(Pipeline(s)[n].unspecified[f])
    PROVE  Pipeline(s)[n].unspecified[f][j][1] = f
<1> DEFINE X == {q \in Process : \A g \in Function : \A k \in 1 .. Len(q.unspecified[g]) :
                     q.unspecified[g][k][1] = g}
           Shown == \A g \in Function : 1 .. Len(NothingIn[g]) = {}
<1>1. Shown
  BY NewFacts
<1>2. NewProcess \in X
  BY <1>1, NewFacts DEF NewProcess
<1>3. \A q \in Process : Fresh(q) \in X
  <2> SUFFICES ASSUME NEW q \in Process PROVE Fresh(q) \in X
    OBVIOUS
  <2>1. Fresh(q) \in Process /\ Fresh(q).unspecified = NothingIn
    BY FreshFacts
  <2> QED  BY <1>1, <2>1
<1>4. ASSUME NEW q \in Process, q \in X, NEW i \in Instance, NEW v \in Value
      PROVE  Visit(q, i, v, s) \in X
  <2> DEFINE r == Visit(q, i, v, s)
             old == q.unspecified
             new == r.unspecified
  <2>1. r \in Process
    BY VisitType
  <2>2. old \in [Function -> Seq(Value)] /\ v[1] \in Function
    BY Sizes DEF Process
  <2>3. ASSUME NEW g \in Function
        PROVE  new[g] = old[g] \/ (g = v[1] /\ new[g] = Append(old[g], v))
    <3>1. Gains(q, r, g, v)
      BY VisitReports
    <3> HIDE DEF r
    <3> QED  BY <3>1 DEF Gains
  <2>4. \A g \in Function : \A k \in 1 .. Len(old[g]) : old[g][k][1] = g
    BY <1>4
  <2> HIDE DEF new, old, r
  <2>5. ASSUME NEW g \in Function, NEW k \in 1 .. Len(new[g]) PROVE new[g][k][1] = g
    <3>1. CASE new[g] = old[g]
      BY <2>4, <2>5, <3>1
    <3>2. CASE g = v[1] /\ new[g] = Append(old[g], v)
      <4> DEFINE o == old[g]
      <4>1. o \in Seq(Value) /\ Len(o) \in Nat /\ new[g] = Append(o, v)
            /\ \A x \in 1 .. Len(o) : o[x][1] = g
        BY <2>2, <2>4, <2>5, <3>2
      <4> HIDE DEF o
      <4>2. Len(Append(o, v)) = Len(o) + 1 /\ Append(o, v)[Len(o) + 1] = v
            /\ \A x \in 1 .. Len(o) : Append(o, v)[x] = o[x]
        BY <4>1
      <4>3. k \in 1 .. Len(o) \/ k = Len(o) + 1
        BY <2>5, <4>1, <4>2
      <4> QED  BY <3>2, <4>1, <4>2, <4>3
    <3> QED  BY <2>3, <2>5, <3>1, <3>2
  <2>6. \A g \in Function : \A k \in 1 .. Len(r.unspecified[g]) :
           r.unspecified[g][k][1] = g
    BY <2>5 DEF new
  <2>7. r \in X
    BY <2>1, <2>6
  <2> QED  BY <2>7 DEF r
<1> HIDE DEF X
<1>5. Pipeline(s)[n] \in X
  BY <1>2, <1>3, <1>4, PipelineKeeps
<1> QED  BY <1>5 DEF X

\* Without a string no level is remembered for a name.
LEMMA NothingRemembered ==
    ASSUME NEW n \in 0 .. Instances
    PROVE  /\ ~CacheAnswered(Pipeline(NothingIn)[n])
           /\ \A a \in Pipeline(NothingIn)[n].asked : a.entry = None
<1> DEFINE X == {q \in Process :
                   /\ \A m \in Name : q.cache[m] = 0
                   /\ \A a \in q.asked : a.source # "cache" /\ a.entry = None}
<1>1. NothingIn \in Strings /\ \A f \in Function : Len(NothingIn[f]) = 0
  BY NewFacts
<1>2. NewProcess \in X
  BY NewFacts
<1>3. \A q \in Process : q \in X => Fresh(q) \in X
  BY FreshFacts
<1>4. ASSUME NEW q \in Process, q \in X, NEW i \in Instance, NEW v \in Value
      PROVE  Visit(q, i, v, NothingIn) \in X
  <2> DEFINE r == Visit(q, i, v, NothingIn)
             e == EntryFor(q, v, NothingIn)
             a == [instance |-> i, value |-> v, source |-> SourceFor(q, v, e), entry |-> e]
  <2>1. r \in Process /\ v[1] \in Function /\ v[2] \in Name
    BY <1>1, Sizes, VisitType
  <2>2. CASE ~MustAsk(q, i, v)
    BY <1>4, <2>2, SkipFacts
  <2>3. CASE MustAsk(q, i, v)
    <3>1. e = None
      <4>1. q.index[v[1]] \in Nat /\ Len(NothingIn[v[1]]) = 0
        BY <1>1, <2>1 DEF Process
      <4>2. ~(q.index[v[1]] + 1 <= Len(NothingIn[v[1]]))
        BY <4>1
      <4> QED  BY <4>2 DEF EntryFor
    <3>2. /\ \A m \in Name : m # v[2] \/ e = None => r.cache[m] = q.cache[m]
          /\ r.asked = q.asked \cup {a}
      BY <1>1, <2>3, AskFacts
    <3>3. q.cache[v[2]] = 0
      BY <1>4, <2>1
    <3>4. SourceFor(q, v, e) = "default"
      BY <3>1, <3>3 DEF SourceFor
    <3>5. a.source = "default" /\ a.entry = None
      BY <3>1, <3>4
    <3> HIDE DEF a, e, r
    <3>6. /\ \A m \in Name : r.cache[m] = 0
          /\ \A b \in r.asked : b.source # "cache" /\ b.entry = None
      BY <1>4, <3>1, <3>2, <3>5
    <3>7. r \in X
      BY <2>1, <3>6
    <3> QED  BY <3>7 DEF r
  <2> QED  BY <2>2, <2>3
<1> HIDE DEF X
<1>5. Pipeline(NothingIn)[n] \in X
  BY <1>1, <1>2, <1>3, <1>4, PipelineKeeps
<1> QED  BY <1>5 DEF X, CacheAnswered

\* The name of every entry that was read is remembered.
LEMMA EntriesRemembered ==
    ASSUME NEW s \in Strings, NEW n \in 0 .. Instances, Serves(s, n),
           NEW f \in Function, NEW pos \in 1 .. Pipeline(s)[n].index[f]
    PROVE  Pipeline(s)[n].cache[s[f][pos].value[2]] > 0
<1> DEFINE X == {q \in Process : \A g \in Function : \A x \in 1 .. q.index[g] :
                   /\ x \in 1 .. Len(s[g]) /\ q.cache[s[g][x].value[2]] > 0}
<1>1. NewProcess \in X
  BY NewFacts
<1>2. \A q \in Process : q \in X => Fresh(q) \in X
  BY FreshFacts
<1>3. ASSUME NEW q \in Process, q \in X, NEW i \in Instance, NEW v \in Value,
             Visit(q, i, v, s).asked \subseteq Pipeline(s)[n].asked
      PROVE  Visit(q, i, v, s) \in X
  <2> DEFINE r == Visit(q, i, v, s)
             e == EntryFor(q, v, s)
             a == [instance |-> i, value |-> v, source |-> SourceFor(q, v, e), entry |-> e]
             at == q.index[v[1]]
  <2>1. r \in Process /\ v[1] \in Function /\ v[2] \in Name
    BY Sizes, VisitType
  <2>2. CASE ~MustAsk(q, i, v)
    BY <1>3, <2>2, SkipFacts
  <2>3. CASE MustAsk(q, i, v)
    <3>1. /\ r.index[v[1]] = at + 1
          /\ \A g \in Function : g # v[1] => r.index[g] = q.index[g]
          /\ e # None => r.cache[v[2]] = ChoiceFor(q, v, e)
          /\ \A m \in Name : m # v[2] \/ e = None => r.cache[m] = q.cache[m]
          /\ r.asked = q.asked \cup {a}
      BY <2>3, AskFacts
    <3>2. e # None /\ e.value = v
      <4>1. a \in Pipeline(s)[n].asked
        BY <1>3, <3>1
      <4>2. a.entry = e /\ a.value = v
        OBVIOUS
      <4> HIDE DEF a
      <4> QED  BY <4>1, <4>2 DEF Serves
    <3>3. e = s[v[1]][at + 1] /\ at + 1 \in 1 .. Len(s[v[1]])
      BY <3>2, EntryFacts
    <3>4. at \in Nat
      BY <2>1 DEF Process
    <3>5. ChoiceFor(q, v, e) > 0
      BY EntryFacts, ChoiceFacts
    <3> HIDE DEF a, e, r, at
    <3>6. r.cache[v[2]] > 0
      BY <3>1, <3>2, <3>5
    <3>7. ASSUME NEW g \in Function, NEW x \in 1 .. r.index[g]
          PROVE  x \in 1 .. Len(s[g]) /\ r.cache[s[g][x].value[2]] > 0
      <4>1. CASE g = v[1] /\ x = at + 1
        BY <3>2, <3>3, <3>6, <4>1
      <4>2. CASE ~(g = v[1] /\ x = at + 1)
        <5>1. x \in 1 .. q.index[g]
          BY <3>1, <3>4, <3>7, <4>2 DEF at
        <5>2. x \in 1 .. Len(s[g]) /\ q.cache[s[g][x].value[2]] > 0
          BY <1>3, <5>1
        <5>3. s[g][x].value[2] \in Name
          <6>1. s[g] \in Seq(Entry) /\ x \in 1 .. Len(s[g])
            BY <5>2 DEF Strings
          <6>2. s[g][x] \in Entry
            BY <6>1
          <6> QED  BY <6>2, Sizes DEF Entry
        <5> QED  BY <3>1, <3>6, <5>2, <5>3
      <4> QED  BY <4>1, <4>2
    <3>8. r \in X
      BY <2>1, <3>7
    <3> QED  BY <3>8 DEF r
  <2> QED  BY <2>2, <2>3
<1> HIDE DEF X
<1>4. Pipeline(s)[n] \in X
  BY <1>1, <1>2, <1>3, PipelineKeeps
<1> QED  BY <1>4 DEF X

Aligned(p) == \A a \in p.asked : a.entry # None => a.entry.value = a.value

\* A level that is used is among the options of its value.
LEMMA LevelsInRange ==
    ASSUME NEW s \in Strings, NEW n \in 0 .. Instances, EntriesInRange(s),
           Aligned(Pipeline(s)[n]), ~CacheAnswered(Pipeline(s)[n]), NEW w \in Value
    PROVE  Pipeline(s)[n].level[w] < NumChoices[w]
<1> DEFINE X == {q \in Process : \A u \in Value : q.level[u] < NumChoices[u]}
<1>1. NewProcess \in X
  BY NewFacts, Sizes
<1>2. \A q \in Process : q \in X => Fresh(q) \in X
  BY FreshFacts
<1>3. ASSUME NEW q \in Process, q \in X, NEW i \in Instance, NEW v \in Value,
             Visit(q, i, v, s).asked \subseteq Pipeline(s)[n].asked
      PROVE  Visit(q, i, v, s) \in X
  <2> DEFINE r == Visit(q, i, v, s)
             e == EntryFor(q, v, s)
             source == SourceFor(q, v, e)
             a == [instance |-> i, value |-> v, source |-> source, entry |-> e]
             pos == q.index[v[1]] + 1
  <2>1. r \in Process /\ v[1] \in Function
    BY Sizes, VisitType
  <2>2. CASE ~MustAsk(q, i, v)
    BY <1>3, <2>2, SkipFacts
  <2>3. CASE MustAsk(q, i, v)
    <3>1. /\ r.level[v] = ChoiceFor(q, v, e) - 1
          /\ \A u \in Value : u # v => r.level[u] = q.level[u]
          /\ r.asked = q.asked \cup {a}
      BY <2>3, AskFacts
    <3>2. a \in Pipeline(s)[n].asked /\ a.source = source /\ a.entry = e /\ a.value = v
      BY <1>3, <3>1
    <3>3. source # "cache" /\ (e # None => e.value = v)
      <4> HIDE DEF a, source, e
      <4> QED  BY <3>2 DEF Aligned, CacheAnswered
    <3>4. r.level[v] < NumChoices[v]
      <4>1. CASE e # None
        <5>1. e = s[v[1]][pos] /\ pos \in 1 .. Len(s[v[1]]) /\ e.level \in Nat
          BY <4>1, EntryFacts
        <5>2. ChoiceFor(q, v, e) = e.level + 1
          BY <4>1, EntryFacts, ChoiceFacts
        <5> HIDE DEF e, pos
        <5>3. e.level < NumChoices[v]
          BY <2>1, <3>3, <4>1, <5>1 DEF EntriesInRange
        <5>4. r.level[v] = e.level
          BY <3>1, <5>1, <5>2
        <5> QED  BY <5>3, <5>4
      <4>2. CASE e = None
        <5>1. source \in {"entry", "cache", "default"} /\ source # "entry"
          BY <4>2, EntryFacts, ChoiceFacts
        <5>2. source = "default"
          BY <3>3, <5>1
        <5>3. ChoiceFor(q, v, e) = 1
          BY <5>2, EntryFacts, ChoiceFacts
        <5> HIDE DEF e
        <5>4. r.level[v] = 0
          BY <3>1, <5>3
        <5> QED  BY <5>4, Sizes
      <4> QED  BY <4>1, <4>2
    <3>5. \A u \in Value : r.level[u] < NumChoices[u]
      BY <1>3, <3>1, <3>4
    <3> QED  BY <2>1, <3>5
  <2> QED  BY <2>2, <2>3
<1> HIDE DEF X
<1>4. Pipeline(s)[n] \in X
  BY <1>1, <1>2, <1>3, PipelineKeeps
<1> QED  BY <1>4 DEF X

-------------------------------------------------------------------------------
(* The next instance, after a string that served the ones before exactly *)

LEMMA NextInstance ==
    ASSUME NEW s \in Strings, NEW t \in Strings, NEW n \in Instance,
           Serves(s, n), Exact(s, n), ~CacheAnswered(Pipeline(s)[n + 1]),
           Continues(s, t, Pipeline(s)[n + 1].unspecified)
    PROVE  LET found == Pipeline(s)[n + 1].unspecified
           IN  /\ Aligned(Pipeline(t)[n + 1])
               /\ \A f \in Function :
                     Pipeline(t)[n + 1].index[f] = Len(s[f]) + Len(found[f])
               /\ Complete(s, t, found) => Serves(t, n + 1) /\ Exact(t, n + 1)
<1> DEFINE p == Pipeline(s)[n]
           found == Pipeline(s)[n + 1].unspecified
           A == RunOnModule(p, n, s)
           B == RunOnModule(p, n, t)
<1>1. /\ n \in 0 .. Instances /\ n + 1 \in 1 .. Instances /\ (n + 1) - 1 = n
      /\ n \in 0 .. n
  BY Sizes DEF Instance
<1>2. p \in Process /\ Pipeline(s)[n + 1] = A
  BY <1>1, PipelineDef
<1>3. Prolongs(s, t)
  BY DEF Continues
<1>4. Pipeline(t)[n + 1] = B
  <2>1. Pipeline(t)[n] = p
    BY <1>1, <1>3, Follow
  <2> QED  BY <1>1, <2>1, PipelineDef
<1>5. \A f \in Function : p.index[f] = Len(s[f])
  BY DEF Exact
<1>6. \A a \in A.asked : a.source # "cache"
  BY <1>2 DEF CacheAnswered
<1>7. found = A.unspecified
  BY <1>2
<1> HIDE DEF p, found
<1>8. Continues(s, t, found)
  BY DEF found
<1>9. Follows(p, s, t, found, Len(Order), A, B)
  BY <1>2, <1>5, <1>6, <1>7, <1>8, NextPass
<1>10. Found(p, s, Len(Order), A)
  <2>1. Len(Order) \in Steps
    BY Sizes DEF Steps
  <2> QED  BY <1>2, <1>5, <1>6, <2>1, Report DEF RunOnModule
<1>11. \A f \in Function : B.index[f] = Len(s[f]) + Len(found[f])
  BY <1>7, <1>9, <1>10 DEF Follows, Found
<1>12. \A a \in p.asked : a.entry # None /\ a.entry.value = a.value
  BY DEF Serves, p
<1>13. Aligned(B)
  BY <1>9, <1>12 DEF Follows, Aligned
<1>14. ASSUME Complete(s, t, found) PROVE Serves(t, n + 1) /\ Exact(t, n + 1)
  <2>1. \A a \in B.asked : a.entry # None /\ a.entry.value = a.value
    BY <1>9, <1>12, <1>14 DEF Follows
  <2>2. \A f \in Function : B.index[f] = Len(t[f])
    BY <1>11, <1>14 DEF Complete
  <2> HIDE DEF B
  <2> QED  BY <1>4, <2>1, <2>2 DEF Serves, Exact
<1> QED  BY <1>4, <1>11, <1>13, <1>14 DEF found

-------------------------------------------------------------------------------
(* The steps of the tuner *)

\* What the instances meet does not change, so that the next state's pipeline
\* is this one's with the next string.
LEMMA SamePipeline ==
    ASSUME meets' = meets, enough' = enough
    PROVE  Pipeline(control)' = Pipeline(control')
BY meets' = meets, enough' = enough
   DEF Pipeline, RunOnModule, Visits, Visit, MustAsk, Ask, EntryFor, SourceFor,
       ChoiceFor, Stored, NewProcess, NothingIn, Function, Name, Instance

LEMMA CutFacts ==
    ASSUME process \in Process, NEW last \in Function, NEW n \in 0 .. Counted[last]
    PROVE  /\ CutAt(last, n) \in [Function -> Nat]
           /\ \A f \in Function : CutAt(last, n)[f] <= Len(process.unspecified[f])
           /\ Counted \in [Function -> Nat]
           /\ \A f \in Function : Counted[f] = Len(process.unspecified[f])
<1>1. \A f \in Function : process.unspecified[f] \in Seq(Value)
  BY DEF Process
<1>2. Counted \in [Function -> Nat]
      /\ \A f \in Function : Counted[f] = Len(process.unspecified[f])
  BY <1>1 DEF Counted
<1>3. \A f \in Function : CutAt(last, n)[f] \in Nat /\ CutAt(last, n)[f] <= Counted[f]
  <2> HIDE DEF Counted
  <2> QED  BY <1>2 DEF CutAt
<1>4. CutAt(last, n) \in [Function -> Nat]
  <2>1. CutAt(last, n) = [f \in Function |-> CutAt(last, n)[f]]
    BY DEF CutAt
  <2> QED  BY <1>3, <2>1
<1> QED  BY <1>2, <1>3, <1>4

\* t is the string with an entry for each value reported before the cut.
Lengthened(cut, t) ==
    \A f \in Function :
        /\ Len(t[f]) = Len(control[f]) + cut[f]
        /\ \A k \in 1 .. Len(control[f]) : t[f][k] = control[f][k]
        /\ \A k \in 1 .. cut[f] :
              LET e == t[f][Len(control[f]) + k]
              IN  /\ e.value = process.unspecified[f][k]
                  /\ e.level < NumChoices[e.value]

LEMMA ConcatFacts ==
    ASSUME NEW X, NEW x \in Seq(X), NEW y \in Seq(X)
    PROVE  /\ x \o y \in Seq(X) /\ Len(x \o y) = Len(x) + Len(y)
           /\ \A k \in 1 .. Len(x) : (x \o y)[k] = x[k]
           /\ \A k \in 1 .. Len(y) : (x \o y)[Len(x) + k] = y[k]
<1>1. Len(x) \in Nat /\ Len(y) \in Nat
  OBVIOUS
<1>2. x \o y \in Seq(X) /\ Len(x \o y) = Len(x) + Len(y)
  OBVIOUS
<1>3. \A k \in 1 .. Len(x) : (x \o y)[k] = x[k]
  BY <1>1
<1>4. ASSUME NEW k \in 1 .. Len(y) PROVE (x \o y)[Len(x) + k] = y[k]
  <2>1. (Len(x) + k) - Len(x) = k /\ Len(x) + k \in 1 .. Len(x) + Len(y)
        /\ ~(Len(x) + k <= Len(x))
    BY <1>1
  <2> QED  BY <1>1, <2>1
<1> QED  BY <1>2, <1>3, <1>4

LEMMA AppendedFacts ==
    ASSUME control \in Strings, process \in Process, NEW cut \in [Function -> Nat],
           \A f \in Function : cut[f] <= Len(process.unspecified[f]),
           \A f \in Function : \A j \in 1 .. Len(process.unspecified[f]) :
               process.unspecified[f][j][1] = f,
           NEW level \in LevelsFor(Before(cut))
    PROVE  LET t == Appended(Entries(cut, level))
           IN  t \in Strings /\ Lengthened(cut, t)
<1> DEFINE t == Appended(Entries(cut, level))
           found == process.unspecified
           new == Entries(cut, level)
<1>1. found \in [Function -> Seq(Value)]
  BY DEF Process
<1>2. ASSUME NEW f \in Function, NEW k \in 1 .. cut[f]
      PROVE  /\ k \in 1 .. Len(found[f])
             /\ found[f][k] \in Value /\ found[f][k] \in Before(cut)
             /\ level[found[f][k]] \in Nat
             /\ level[found[f][k]] < NumChoices[found[f][k]]
  <2>1. k \in 1 .. Len(found[f])
    <3>1. Len(found[f]) \in Nat /\ cut[f] \in Nat /\ cut[f] <= Len(found[f])
      BY <1>1
    <3> HIDE DEF found
    <3> QED  BY <1>2, <3>1
  <2>2. found[f][k] \in Value
    BY <1>1, <2>1
  <2>3. found[f][k][1] = f
    BY <2>1
  <2>4. found[f][k] \in Before(cut)
    BY <1>2, <2>2, <2>3 DEF Before
  <2> HIDE DEF found
  <2>5. /\ level[found[f][k]] \in 0 .. MaxLevel
        /\ level[found[f][k]] < NumChoices[found[f][k]]
    BY <2>4 DEF LevelsFor
  <2> QED  BY <2>1, <2>2, <2>4, <2>5
<1>3. ASSUME NEW f \in Function
      PROVE  /\ new[f] \in Seq(Entry) /\ Len(new[f]) = cut[f]
             /\ \A k \in 1 .. cut[f] :
                   new[f][k] = [value |-> found[f][k], level |-> level[found[f][k]]]
  <2> DEFINE e(k) == [value |-> found[f][k], level |-> level[found[f][k]]]
  <2>1. new[f] = [k \in 1 .. cut[f] |-> e(k)]
    BY DEF Entries
  <2>2. \A k \in 1 .. cut[f] : e(k) \in Entry
    BY <1>2 DEF Entry
  <2>3. cut[f] \in Nat
    OBVIOUS
  <2> HIDE DEF e, new
  <2>4. new[f] \in Seq(Entry) /\ Len(new[f]) = cut[f]
    BY <2>1, <2>2, <2>3
  <2> QED  BY <2>1, <2>4 DEF e
<1> HIDE DEF new
<1>4. ASSUME NEW f \in Function
      PROVE  /\ t[f] \in Seq(Entry) /\ Len(t[f]) = Len(control[f]) + cut[f]
             /\ \A k \in 1 .. Len(control[f]) : t[f][k] = control[f][k]
             /\ \A k \in 1 .. cut[f] : t[f][Len(control[f]) + k] = new[f][k]
  <2>1. t[f] = control[f] \o new[f]
    BY DEF Appended, new
  <2>2. control[f] \in Seq(Entry) /\ Len(control[f]) \in Nat /\ cut[f] \in Nat
    BY DEF Strings
  <2> HIDE DEF t
  <2>3. /\ t[f] \in Seq(Entry) /\ Len(t[f]) = Len(control[f]) + Len(new[f])
        /\ \A k \in 1 .. Len(control[f]) : t[f][k] = control[f][k]
        /\ \A k \in 1 .. Len(new[f]) : t[f][Len(control[f]) + k] = new[f][k]
    <3> DEFINE x == control[f]
               y == new[f]
    <3>1. x \in Seq(Entry) /\ y \in Seq(Entry) /\ t[f] = x \o y
      BY <1>3, <2>1, <2>2
    <3> HIDE DEF x, y
    <3>2. /\ x \o y \in Seq(Entry) /\ Len(x \o y) = Len(x) + Len(y)
          /\ \A k \in 1 .. Len(x) : (x \o y)[k] = x[k]
          /\ \A k \in 1 .. Len(y) : (x \o y)[Len(x) + k] = y[k]
      BY <3>1, ConcatFacts
    <3> QED  BY <3>1, <3>2 DEF x, y
  <2>4. Len(new[f]) = cut[f]
    BY <1>3
  <2> QED  BY <2>3, <2>4
<1>5. t = [f \in Function |-> t[f]]
  BY DEF Appended
<1> HIDE DEF t
<1>6. t \in Strings
  BY <1>4, <1>5 DEF Strings
<1>7. ASSUME NEW f \in Function, NEW k \in 1 .. cut[f]
      PROVE  LET e == t[f][Len(control[f]) + k]
             IN  e.value = found[f][k] /\ e.level < NumChoices[e.value]
  <2>1. t[f][Len(control[f]) + k] = [value |-> found[f][k], level |-> level[found[f][k]]]
    <3> HIDE DEF found
    <3>1. t[f][Len(control[f]) + k] = new[f][k]
      BY <1>4, <1>7
    <3> QED  BY <1>3, <1>7, <3>1
  <2> HIDE DEF found
  <2> QED  BY <1>2, <1>7, <2>1
<1>8. Lengthened(cut, t)
  BY <1>4, <1>7 DEF Lengthened
<1> QED  BY <1>6, <1>8 DEF t

Adds(t) ==
    \A f \in Function : \A k \in 1 .. Len(t[f]) :
        \/ k \in 1 .. Len(control[f]) /\ t[f][k] = control[f][k]
        \/ \E j \in 1 .. Len(process.unspecified[f]) :
              /\ k = Len(control[f]) + j
              /\ t[f][k].value = process.unspecified[f][j]

LEMMA LengthenedFacts ==
    ASSUME control \in Strings, process \in Process, NEW cut \in [Function -> Nat],
           \A f \in Function : cut[f] <= Len(process.unspecified[f]),
           NEW t \in Strings, Lengthened(cut, t)
    PROVE  /\ Continues(control, t, process.unspecified)
           /\ cut = Counted => Complete(control, t, process.unspecified)
           /\ EntriesInRange(control) => EntriesInRange(t)
           /\ Adds(t)
<1> DEFINE found == process.unspecified
<1>1. \A f \in Function : /\ Len(control[f]) \in Nat /\ Len(t[f]) \in Nat
                          /\ Len(found[f]) \in Nat /\ cut[f] \in Nat
  <2>1. found \in [Function -> Seq(Value)]
    BY DEF Process
  <2> HIDE DEF found
  <2> QED  BY <2>1 DEF Strings
<1>2. \A f \in Function : /\ Len(t[f]) = Len(control[f]) + cut[f]
                          /\ cut[f] <= Len(found[f])
  BY DEF Lengthened
<1>3. \A f \in Function : \A k \in 1 .. Len(control[f]) : t[f][k] = control[f][k]
  BY DEF Lengthened
<1>4. \A f \in Function : \A k \in 1 .. cut[f] :
         /\ t[f][Len(control[f]) + k].value = found[f][k]
         /\ t[f][Len(control[f]) + k].level < NumChoices[t[f][Len(control[f]) + k].value]
  BY DEF Lengthened
<1>5. cut = Counted => Complete(control, t, found)
  BY <1>2 DEF Complete, Counted
<1> HIDE DEF found
<1>6. Prolongs(control, t)
  BY <1>1, <1>2, <1>3 DEF Prolongs
<1>7. Continues(control, t, found)
  <2> SUFFICES ASSUME NEW f \in Function
               PROVE  /\ Len(t[f]) <= Len(control[f]) + Len(found[f])
                      /\ \A j \in 1 .. Len(found[f]) : Len(control[f]) + j <= Len(t[f])
                            => t[f][Len(control[f]) + j].value = found[f][j]
    BY <1>6 DEF Continues
  <2>1. Len(t[f]) <= Len(control[f]) + Len(found[f])
    <3> DEFINE x == Len(control[f])
               y == Len(found[f])
    <3>1. Len(t[f]) = x + cut[f] /\ cut[f] <= y
      BY <1>2
    <3>2. x \in Nat /\ y \in Nat /\ cut[f] \in Nat
      BY <1>1
    <3> HIDE DEF x, y
    <3>3. x + cut[f] <= x + y
      BY <3>1, <3>2
    <3> QED  BY <3>1, <3>3 DEF x, y
  <2>2. ASSUME NEW j \in 1 .. Len(found[f]), Len(control[f]) + j <= Len(t[f])
        PROVE  t[f][Len(control[f]) + j].value = found[f][j]
    <3>1. j \in 1 .. cut[f]
      BY <1>1, <1>2, <2>2
    <3> QED  BY <1>4, <3>1
  <2> QED  BY <2>1, <2>2
<1>8. ASSUME NEW f \in Function, NEW k \in 1 .. Len(t[f])
      PROVE  \/ k \in 1 .. Len(control[f])
             \/ \E j \in 1 .. cut[f] : j \in 1 .. Len(found[f]) /\ k = Len(control[f]) + j
  <2>1. CASE k <= Len(control[f])
    BY <1>1, <1>8, <2>1
  <2>2. CASE ~(k <= Len(control[f]))
    <3> DEFINE j == k - Len(control[f])
    <3>1. j \in 1 .. cut[f] /\ j \in 1 .. Len(found[f]) /\ k = Len(control[f]) + j
      BY <1>1, <1>2, <1>8, <2>2
    <3> HIDE DEF j
    <3> QED  BY <3>1
  <2> QED  BY <2>1, <2>2
<1>9. ASSUME EntriesInRange(control) PROVE EntriesInRange(t)
  <2> SUFFICES ASSUME NEW f \in Function, NEW k \in 1 .. Len(t[f])
               PROVE  t[f][k].level < NumChoices[t[f][k].value]
    BY DEF EntriesInRange
  <2>1. CASE k \in 1 .. Len(control[f])
    <3>1. t[f][k] = control[f][k]
      BY <1>3, <2>1
    <3>2. control[f][k].level < NumChoices[control[f][k].value]
      BY <1>9, <2>1 DEF EntriesInRange
    <3> QED  BY <3>1, <3>2
  <2>2. CASE \E j \in 1 .. cut[f] : k = Len(control[f]) + j
    BY <1>4, <2>2
  <2> QED  BY <1>8, <2>1, <2>2
<1>10. ASSUME NEW f \in Function, NEW k \in 1 .. Len(t[f])
       PROVE  \/ k \in 1 .. Len(control[f]) /\ t[f][k] = control[f][k]
              \/ \E j \in 1 .. Len(found[f]) :
                    k = Len(control[f]) + j /\ t[f][k].value = found[f][j]
  BY <1>3, <1>4, <1>8, <1>10
<1> QED  BY <1>5, <1>7, <1>9, <1>10 DEF found, Adds

Once(s) ==
    \A f \in Function : \A i, j \in 1 .. Len(s[f]) :
        s[f][i].value = s[f][j].value => i = j

LEMMA StillOnce ==
    ASSUME control \in Strings, Once(control), NEW n \in Instance,
           Serves(control, n), Exact(control, n), process = Pipeline(control)[n + 1],
           ~CacheAnswered(process), NEW t \in Strings, Adds(t)
    PROVE  Once(t)
<1> DEFINE p == Pipeline(control)[n]
           found == process.unspecified
<1>1. n \in 0 .. Instances /\ n + 1 \in 1 .. Instances /\ (n + 1) - 1 = n
  <2>1. Instances \in Nat /\ n \in 0 .. Instances - 1
    BY Sizes DEF Instance
  <2> QED  BY <2>1
<1>2. p \in Process /\ process = RunOnModule(p, n, control)
  BY <1>1, PipelineDef
<1>3. \A f \in Function : p.index[f] = Len(control[f])
  BY DEF Exact
<1>4. \A f \in Function : \A k \in 1 .. Len(control[f]) :
         p.cache[control[f][k].value[2]] > 0
  BY <1>1, <1>3, EntriesRemembered
<1> HIDE DEF p
<1>5. Found(p, control, Len(Order), process)
  <2>1. Len(Order) \in Steps
    BY Sizes DEF Steps
  <2>2. \A a \in RunOnModule(p, n, control).asked : a.source # "cache"
    BY <1>2 DEF CacheAnswered
  <2>3. Found(p, control, Len(Order), Visits(p, n, control)[Len(Order)])
    BY <1>2, <1>3, <2>1, <2>2, Report
  <2> QED  BY <1>2, <2>3 DEF RunOnModule
<1>6. \A f \in Function : \A j \in 1 .. Len(found[f]) : p.cache[found[f][j][2]] = 0
  BY <1>5 DEF Found
<1>7. \A f \in Function : \A i, j \in 1 .. Len(found[f]) :
         found[f][i] = found[f][j] => i = j
  BY <1>5 DEF Found
<1>8. \A f \in Function : \A k \in 1 .. Len(t[f]) :
         \/ k \in 1 .. Len(control[f]) /\ t[f][k].value = control[f][k].value
         \/ \E j \in 1 .. Len(found[f]) :
               k = Len(control[f]) + j /\ t[f][k].value = found[f][j]
  BY DEF Adds
<1> HIDE DEF found
<1>9. ASSUME NEW f \in Function, NEW k \in 1 .. Len(control[f]),
              NEW j \in 1 .. Len(found[f])
       PROVE  control[f][k].value # found[f][j]
  <2>1. p.cache[control[f][k].value[2]] > 0 /\ p.cache[found[f][j][2]] = 0
    BY <1>4, <1>6
  <2> SUFFICES ASSUME control[f][k].value = found[f][j] PROVE FALSE
    OBVIOUS
  <2>2. ~(0 > 0)
    OBVIOUS
  <2> QED  BY <2>1, <2>2
<1> SUFFICES ASSUME NEW f \in Function, NEW x \in 1 .. Len(t[f]),
                    NEW y \in 1 .. Len(t[f]), t[f][x].value = t[f][y].value
             PROVE  x = y
  BY DEF Once
<1>10. CASE x \in 1 .. Len(control[f]) /\ t[f][x].value = control[f][x].value
  <2>1. CASE y \in 1 .. Len(control[f]) /\ t[f][y].value = control[f][y].value
    BY <1>10, <2>1 DEF Once
  <2>2. CASE \E j \in 1 .. Len(found[f]) : t[f][y].value = found[f][j]
    BY <1>10, <1>9, <2>2
  <2> QED  BY <1>8, <2>1, <2>2
<1>11. CASE \E j \in 1 .. Len(found[f]) :
               x = Len(control[f]) + j /\ t[f][x].value = found[f][j]
  <2>1. CASE y \in 1 .. Len(control[f]) /\ t[f][y].value = control[f][y].value
    BY <1>11, <1>9, <2>1
  <2>2. CASE \E j \in 1 .. Len(found[f]) :
                y = Len(control[f]) + j /\ t[f][y].value = found[f][j]
    BY <1>7, <1>11, <2>2
  <2> QED  BY <1>8, <2>1, <2>2
<1> QED  BY <1>8, <1>10, <1>11

\* What a scan finds, with a string that served the instances before.
LEMMA ScanFacts ==
    ASSUME NEW s \in Strings, NEW n \in Instance, Serves(s, n), Exact(s, n),
           ~CacheAnswered(Pipeline(s)[n + 1])
    PROVE  /\ Aligned(Pipeline(s)[n + 1])
           /\ Pipeline(s)[n + 1].unspecified = NothingIn
                 => Serves(s, n + 1) /\ Exact(s, n + 1)
<1> DEFINE found == Pipeline(s)[n + 1].unspecified
<1>1. \A f \in Function : Len(s[f]) \in Nat
  BY DEF Strings
<1>2. found \in [Function -> Seq(Value)]
  <2>1. Instances \in Nat /\ n \in 0 .. Instances - 1
    BY Sizes DEF Instance
  <2>2. n + 1 \in 0 .. Instances
    BY <2>1
  <2> QED  BY <2>2, PipelineDef DEF Process
<1>3. \A f \in Function : Len(found[f]) \in Nat
  <2> HIDE DEF found
  <2> QED  BY <1>2
<1> HIDE DEF found
<1>4. Continues(s, s, found)
  <2>1. Prolongs(s, s)
    BY <1>1 DEF Prolongs
  <2>2. ASSUME NEW f \in Function
        PROVE  /\ Len(s[f]) <= Len(s[f]) + Len(found[f])
               /\ \A j \in 1 .. Len(found[f]) : ~(Len(s[f]) + j <= Len(s[f]))
    <3> DEFINE x == Len(s[f])
               y == Len(found[f])
    <3>1. x \in Nat /\ y \in Nat
      BY <1>1, <1>3
    <3> HIDE DEF x, y
    <3>2. x <= x + y /\ \A j \in 1 .. y : ~(x + j <= x)
      BY <3>1
    <3> QED  BY <3>2 DEF x, y
  <2> QED  BY <2>1, <2>2 DEF Continues
<1>5. found = NothingIn => Complete(s, s, found)
  <2> SUFFICES ASSUME found = NothingIn, NEW f \in Function
               PROVE  Len(s[f]) = Len(s[f]) + Len(found[f])
    BY DEF Complete
  <2> DEFINE x == Len(s[f])
  <2>1. Len(found[f]) = 0 /\ x \in Nat
    BY <1>1, NewFacts
  <2> HIDE DEF x
  <2>2. x = x + 0
    BY <2>1
  <2> QED  BY <2>1, <2>2 DEF x
<1> QED  BY <1>4, <1>5, NextInstance DEF found

\* The lookups of the first instance are the same however many follow.
LEMMA FirstAligned ==
    ASSUME NEW s \in Strings, Aligned(Pipeline(s)[1]), NEW n \in 0 .. Instances,
           NEW a \in Pipeline(s)[n].asked, a.instance = 0, a.entry # None
    PROVE  a.entry.value = a.value
<1>1. CASE n = 0
  <2>1. Pipeline(s)[0].asked = {}
    BY PipelineDef, NewFacts
  <2> QED  BY <1>1, <2>1
<1>2. CASE n # 0
  <2>1. 1 \in 0 .. n
    BY <1>2, Sizes
  <2>2. a \in Pipeline(s)[1].asked
    BY <2>1, PipelineGrows
  <2> QED  BY <2>2 DEF Aligned
<1> QED  BY <1>1, <1>2

\* The string that a limit leaves when it ends the first search at once.
LEMMA NothingFacts ==
    /\ \A n \in 0 .. Instances : Aligned(Pipeline(NothingIn)[n])
    /\ EntriesInRange(NothingIn) /\ Once(NothingIn)
<1>1. \A n \in 0 .. Instances : Aligned(Pipeline(NothingIn)[n])
  BY NothingRemembered DEF Aligned
<1>2. \A f \in Function : 1 .. Len(NothingIn[f]) = {}
  BY NewFacts
<1> QED  BY <1>1, <1>2 DEF EntriesInRange, Once

-------------------------------------------------------------------------------
(* What the compilers of a scan and of a search do with their string *)

\* Every entry was read, a lookup each.
Used(s, p) == \A f \in Function : Len(s[f]) <= p.index[f]

LEMMA ExactIsUsed ==
    ASSUME NEW s \in Strings, NEW n \in Nat, Exact(s, n)
    PROVE  Used(s, Pipeline(s)[n])
<1>1. \A f \in Function : Len(s[f]) \in Nat
  BY DEF Strings
<1> QED  BY <1>1 DEF Exact, Used

\* The passes that follow leave nothing of it over again.
LEMMA StaysUsed ==
    ASSUME NEW s \in Strings, NEW m \in 0 .. Instances, Used(s, Pipeline(s)[m]),
           NEW n \in 0 .. Instances, m <= n
    PROVE  Used(s, Pipeline(s)[n])
<1> DEFINE h == Pipeline(s)
           S == {i \in 0 .. Instances : m <= i => Used(s, h[i])}
<1>1. /\ h \in [0 .. Instances -> Process]
      /\ \A i \in 1 .. Instances : h[i] = RunOnModule(h[i - 1], i - 1, s)
  BY PipelineDef
<1>2. Used(s, h[m])
  OBVIOUS
<1> HIDE DEF h
<1>3. 0 \in S
  <2>1. m <= 0 => m = 0
    OBVIOUS
  <2> QED  BY <1>2, <2>1, Sizes
<1>4. ASSUME NEW i \in Nat, i < Instances, i \in S PROVE i + 1 \in S
  <2>1. i + 1 \in 1 .. Instances /\ i + 1 \in 0 .. Instances /\ i \in 0 .. Instances
        /\ (i + 1) - 1 = i /\ i \in Instance
    BY <1>4, Sizes DEF Instance
  <2>2. h[i + 1] = RunOnModule(h[i], i, s) /\ h[i] \in Process
    BY <1>1, <2>1
  <2>3. CASE m <= i
    <3>1. \A f \in Function : Len(s[f]) <= h[i].index[f]
      BY <1>4, <2>3 DEF Used
    <3>2. \A f \in Function : Len(s[f]) <= h[i + 1].index[f]
      BY <2>1, <2>2, <3>1, PassExhausted
    <3> QED  BY <2>1, <3>2 DEF Used
  <2>4. CASE ~(m <= i)
    <3>1. m <= i + 1 => m = i + 1
      BY <2>1, <2>4
    <3> QED  BY <1>2, <2>1, <3>1
  <2> QED  BY <2>3, <2>4
<1> HIDE DEF S
<1>5. \A i \in 0 .. Instances : i \in S
  BY <1>3, <1>4, Sizes, InductUpTo
<1> QED  BY <1>5 DEF S, h

LEMMA NothingIsUsed ==
    ASSUME NEW n \in 0 .. Instances
    PROVE  Used(NothingIn, Pipeline(NothingIn)[n])
<1>1. NothingIn \in Strings /\ \A f \in Function : Len(NothingIn[f]) = 0
  BY NewFacts DEF NothingIn
<1>2. Pipeline(NothingIn)[n] \in Process
  BY <1>1, PipelineDef
<1>3. \A f \in Function : Pipeline(NothingIn)[n].index[f] \in Nat
  BY <1>2 DEF Process
<1> QED  BY <1>1, <1>3 DEF Used

\* What a compiler does with the string of a search.
LEMMA SearchFacts ==
    ASSUME TypeOK, BeforeSearch, phase = "search", NEW cut \in [Function -> Nat],
           \A f \in Function : cut[f] <= Len(process.unspecified[f]),
           NEW t \in Strings, Lengthened(cut, t)
    PROVE  /\ Aligned(Pipeline(t)[1])
           /\ cut = Counted => Serves(t, 1)
           /\ ~reused => /\ Aligned(Pipeline(t)[Instances])
                         /\ Used(t, Pipeline(t)[Instances])
                         /\ cut = Counted => Serves(t, round) /\ Exact(t, round)
<1> DEFINE n == round - 1
           found == process.unspecified
<1>1. /\ control \in Strings /\ process \in Process
      /\ Instances \in Nat /\ round \in 1 .. Instances
      /\ process = Pipeline(control)[round]
  BY Sizes DEF TypeOK, Strings, BeforeSearch
<1>2. n \in Instance /\ n + 1 = round /\ round \in 0 .. Instances
      /\ (round = 1 => n = 0) /\ (round # 1 => round > 1 /\ 1 \in 0 .. 1)
  BY <1>1 DEF Instance
<1>3. Continues(control, t, found) /\ (cut = Counted => Complete(control, t, found))
  BY <1>1, LengthenedFacts
<1>4. Prolongs(control, t)
  BY <1>3 DEF Continues
<1> HIDE DEF n, found
<1>5. ASSUME ~reused
      PROVE  /\ Aligned(Pipeline(t)[round])
             /\ \A f \in Function : Len(t[f]) <= Pipeline(t)[round].index[f]
             /\ cut = Counted => Serves(t, round) /\ Exact(t, round)
  <2>1. Serves(control, n) /\ Exact(control, n) /\ ~CacheAnswered(Pipeline(control)[n + 1])
    BY <1>1, <1>2, <1>5 DEF BeforeSearch, n
  <2>2. found = Pipeline(control)[n + 1].unspecified
    BY <1>1, <1>2 DEF found
  <2>3. /\ Aligned(Pipeline(t)[n + 1])
        /\ \A f \in Function :
              Pipeline(t)[n + 1].index[f] = Len(control[f]) + Len(found[f])
        /\ Complete(control, t, found) => Serves(t, n + 1) /\ Exact(t, n + 1)
    BY <1>1, <1>2, <1>3, <2>1, <2>2, NextInstance
  <2>4. \A f \in Function : Len(t[f]) <= Len(control[f]) + Len(found[f])
    BY <1>3 DEF Continues
  <2> QED  BY <1>2, <1>3, <2>3, <2>4
<1>6. Aligned(Pipeline(t)[1]) /\ (cut = Counted => Serves(t, 1))
  <2>1. CASE round = 1
    <3>1. ~reused
      BY <2>1 DEF BeforeSearch
    <3> QED  BY <1>5, <2>1, <3>1
  <2>2. CASE round # 1
    <3>1. Serves(control, 1) /\ 1 \in 0 .. Instances /\ 1 \in 0 .. 1
      BY <1>1, <1>2, <2>2 DEF BeforeSearch
    <3>2. Pipeline(t)[1] = Pipeline(control)[1]
      BY <1>1, <1>4, <3>1, Follow
    <3> QED  BY <3>1, <3>2 DEF Serves, Aligned
  <2> QED  BY <2>1, <2>2
<1>7. ASSUME ~reused PROVE Aligned(Pipeline(t)[Instances])
  <2>1. \A f \in Function : Len(t[f]) <= Pipeline(t)[round].index[f]
    BY <1>5, <1>7
  <2>2. \A a \in Pipeline(t)[Instances].asked :
           a \in Pipeline(t)[round].asked \/ a.entry = None
    BY <1>2, <2>1, Exhausted
  <2> QED  BY <1>5, <1>7, <2>2 DEF Aligned
<1>8. ASSUME ~reused PROVE Used(t, Pipeline(t)[Instances])
  <2>1. Used(t, Pipeline(t)[round])
    BY <1>5, <1>8 DEF Used
  <2>2. Instances \in 0 .. Instances /\ round <= Instances
    BY <1>1
  <2> QED  BY <1>2, <2>1, <2>2, StaysUsed
<1> QED  BY <1>5, <1>6, <1>7, <1>8

-------------------------------------------------------------------------------
(* The entries of a string that was read to its end *)

\* The entries that were read so far are the levels of their values, and their
\* names are in the cache.
InEffect(s, q, g, x) ==
    /\ s[g][x].value[1] = g
    /\ q.cache[s[g][x].value[2]] > 0
    /\ q.level[s[g][x].value] = s[g][x].level
ReadInEffect(s, q) ==
    \A g \in Function : \A x \in 1 .. Len(s[g]) :
        x <= q.index[g] => InEffect(s, q, g, x)

\* A lookup with an entry brings this entry into effect ...
LEMMA EntryInEffect ==
    ASSUME NEW s \in Strings, NEW q \in Process, NEW i \in Instance,
           NEW v \in Value, MustAsk(q, i, v), EntryFor(q, v, s) # None,
           EntryFor(q, v, s).value = v
    PROVE  /\ q.index[v[1]] + 1 \in 1 .. Len(s[v[1]])
           /\ s[v[1]][q.index[v[1]] + 1].value = v
           /\ InEffect(s, Visit(q, i, v, s), v[1], q.index[v[1]] + 1)
<1> DEFINE r == Visit(q, i, v, s)
           e == EntryFor(q, v, s)
           at == q.index[v[1]] + 1
<1>1. e = s[v[1]][at] /\ at \in 1 .. Len(s[v[1]]) /\ e.level \in Nat
  BY EntryFacts
<1>2. ChoiceFor(q, v, e) = e.level + 1
  BY EntryFacts, ChoiceFacts
<1>3. r.level[v] = ChoiceFor(q, v, e) - 1 /\ r.cache[v[2]] = ChoiceFor(q, v, e)
  BY AskFacts
<1> HIDE DEF e, r, at
<1>4. r.level[v] = e.level /\ r.cache[v[2]] > 0
  BY <1>1, <1>2, <1>3
<1>5. e.value = v
  BY DEF e
<1> QED  BY <1>1, <1>4, <1>5 DEF InEffect, r, at

\* ... and leaves those in effect that are about other values.
LEMMA OthersInEffect ==
    ASSUME NEW s \in Strings, NEW q \in Process, NEW i \in Instance,
           NEW v \in Value, MustAsk(q, i, v),
           NEW g \in Function, NEW x \in 1 .. Len(s[g]),
           InEffect(s, q, g, x), s[g][x].value # v
    PROVE  InEffect(s, Visit(q, i, v, s), g, x)
<1> DEFINE r == Visit(q, i, v, s)
           e == EntryFor(q, v, s)
           w == s[g][x].value
<1>1. /\ \A u \in Value : u # v => r.level[u] = q.level[u]
      /\ e # None => r.cache[v[2]] = ChoiceFor(q, v, e)
      /\ \A n \in Name : n # v[2] \/ e = None => r.cache[n] = q.cache[n]
  BY AskFacts
<1>2. ChoiceFor(q, v, e) > 0
  BY EntryFacts, ChoiceFacts
<1>3. w \in Value /\ w[2] \in Name
  <2>1. s[g] \in Seq(Entry)
    BY DEF Strings
  <2>2. s[g][x] \in Entry
    BY <2>1
  <2> QED  BY <2>2, Sizes DEF Entry
<1>4. w[1] = g /\ q.cache[w[2]] > 0 /\ q.level[w] = s[g][x].level /\ w # v
  BY DEF InEffect
<1> HIDE DEF e, r
<1>5. r.cache[w[2]] > 0
  BY <1>1, <1>2, <1>3, <1>4
<1>6. r.level[w] = q.level[w]
  BY <1>1, <1>3, <1>4
<1> QED  BY <1>4, <1>5, <1>6 DEF InEffect, r

\* A value whose entry was read is not asked for with another one, and one of
\* its lookups that finds no entry is answered by the cache.
LEMMA VisitInEffect ==
    ASSUME NEW s \in Strings, Once(s), NEW q \in Process, ReadInEffect(s, q),
           NEW i \in Instance, NEW v \in Value, MustAsk(q, i, v),
           EntryFor(q, v, s) # None => EntryFor(q, v, s).value = v,
           SourceFor(q, v, EntryFor(q, v, s)) # "cache"
    PROVE  ReadInEffect(s, Visit(q, i, v, s))
<1> DEFINE r == Visit(q, i, v, s)
           e == EntryFor(q, v, s)
           at == q.index[v[1]]
<1>1. v[1] \in Function /\ at \in Nat /\ \A g \in Function : Len(s[g]) \in Nat
  BY Sizes DEF Process, Strings
<1>2. r.index[v[1]] = at + 1 /\ \A g \in Function : g # v[1] => r.index[g] = q.index[g]
  BY AskFacts
<1>3. e # None => /\ at + 1 \in 1 .. Len(s[v[1]])
                  /\ s[v[1]][at + 1].value = v
                  /\ InEffect(s, r, v[1], at + 1)
  BY EntryInEffect
<1>4. e = None => ~(at + 1 <= Len(s[v[1]])) /\ q.cache[v[2]] = 0
  <2>1. SourceFor(q, v, e) = "default" <=> e = None /\ q.cache[v[2]] = 0
    BY EntryFacts, ChoiceFacts
  <2>2. /\ SourceFor(q, v, e) \in {"entry", "cache", "default"}
        /\ SourceFor(q, v, e) = "entry" <=> e # None
    BY EntryFacts, ChoiceFacts
  <2>3. e # None <=> at + 1 <= Len(s[v[1]])
    BY EntryFacts
  <2> QED  BY <2>1, <2>2, <2>3
<1> HIDE DEF e, r, at
<1>5. ASSUME NEW g \in Function, NEW x \in 1 .. Len(s[g]), x <= r.index[g]
      PROVE  InEffect(s, r, g, x)
  <2>1. CASE g = v[1] /\ x = at + 1
    <3>1. e # None
      BY <1>4, <2>1
    <3> QED  BY <1>3, <2>1, <3>1
  <2>2. CASE ~(g = v[1] /\ x = at + 1)
    <3>1. x <= q.index[g] /\ (g = v[1] => x # at + 1)
      BY <1>1, <1>2, <1>5, <2>2 DEF at
    <3>2. InEffect(s, q, g, x)
      BY <3>1 DEF ReadInEffect
    <3>3. s[g][x].value # v
      <4> SUFFICES ASSUME s[g][x].value = v PROVE FALSE
        OBVIOUS
      <4>1. g = v[1] /\ q.cache[v[2]] > 0
        BY <3>2 DEF InEffect
      <4>2. e # None
        BY <1>4, <4>1
      <4>3. at + 1 = x
        BY <1>3, <4>1, <4>2 DEF Once
      <4> QED  BY <3>1, <4>1, <4>3
    <3> QED  BY <3>2, <3>3, OthersInEffect DEF r
  <2> QED  BY <2>1, <2>2
<1> QED  BY <1>5 DEF ReadInEffect, r

\* All entries are in effect when the string was read to its end.
LEMMA AllInEffect ==
    ASSUME NEW s \in Strings, Once(s), NEW n \in 0 .. Instances,
           Aligned(Pipeline(s)[n]), ~CacheAnswered(Pipeline(s)[n]),
           Used(s, Pipeline(s)[n]),
           NEW f \in Function, NEW k \in 1 .. Len(s[f])
    PROVE  Pipeline(s)[n].level[s[f][k].value] = s[f][k].level
<1> DEFINE X == {q \in Process : ReadInEffect(s, q)}
<1>1. NewProcess \in X
  <2>1. NewProcess \in Process /\ \A g \in Function : NewProcess.index[g] = 0
    BY NewFacts
  <2>2. \A g \in Function : \A x \in 1 .. Len(s[g]) : ~(x <= NewProcess.index[g])
    BY <2>1
  <2> QED  BY <2>1, <2>2 DEF ReadInEffect
<1>2. \A q \in Process : q \in X => Fresh(q) \in X
  BY FreshFacts DEF ReadInEffect, InEffect
<1>3. ASSUME NEW q \in Process, q \in X, NEW i \in Instance, NEW v \in Value,
             Visit(q, i, v, s).asked \subseteq Pipeline(s)[n].asked
      PROVE  Visit(q, i, v, s) \in X
  <2>1. CASE ~MustAsk(q, i, v)
    BY <1>3, <2>1, SkipFacts
  <2>2. CASE MustAsk(q, i, v)
    <3> DEFINE e == EntryFor(q, v, s)
               source == SourceFor(q, v, e)
               a == [instance |-> i, value |-> v, source |-> source, entry |-> e]
    <3>1. a \in Pipeline(s)[n].asked
      BY <1>3, <2>2, AskFacts
    <3>2. a.source = source /\ a.entry = e /\ a.value = v
      OBVIOUS
    <3> HIDE DEF a, source, e
    <3>3. source # "cache" /\ (e # None => e.value = v)
      BY <3>1, <3>2 DEF Aligned, CacheAnswered
    <3>4. ReadInEffect(s, Visit(q, i, v, s))
      BY <1>3, <2>2, <3>3, VisitInEffect DEF source, e
    <3> QED  BY <3>4, VisitType
  <2> QED  BY <2>1, <2>2
<1> HIDE DEF X
<1>4. Pipeline(s)[n] \in X
  BY <1>1, <1>2, <1>3, PipelineKeeps
<1>5. ReadInEffect(s, Pipeline(s)[n]) /\ Pipeline(s)[n] \in Process
  BY <1>4 DEF X
<1>6. k <= Pipeline(s)[n].index[f]
  <2>1. Len(s[f]) <= Pipeline(s)[n].index[f] /\ Pipeline(s)[n].index[f] \in Nat
    BY <1>5 DEF Used, Process
  <2>2. Len(s[f]) \in Nat
    BY DEF Strings
  <2> QED  BY <2>1, <2>2
<1> QED  BY <1>5, <1>6 DEF ReadInEffect, InEffect

-------------------------------------------------------------------------------
(* The invariance proof *)

\* Both steps end with a compiler process.
LEMMA AfterCompile ==
    ASSUME meets' = meets, enough' = enough,
           control' \in Strings, NEW m \in 0 .. Instances,
           process' = Pipeline(control')[m], Aligned(Pipeline(control')[1]),
           reused' = (reused \/ CacheAnswered(process')),
           ~reused' => /\ Aligned(process') /\ Once(control')
                       /\ Used(control', process'),
           EntriesInRange(control')
    PROVE  /\ AlignedInFirstInstance' /\ AlignedUnlessReused'
           /\ ReportedOnce' /\ InRangeUnlessReused' /\ EntriesTakeEffect'
           /\ EntriesInRange(control)'
<1>1. AlignedInFirstInstance'
  <2>1. \A a \in process'.asked :
           a.instance = 0 /\ a.entry # None => a.entry.value = a.value
    BY FirstAligned
  <2> QED  BY <2>1 DEF AlignedInFirstInstance, AlignedAt
<1>2. AlignedUnlessReused'
  BY DEF AlignedUnlessReused, AlignedAt, Aligned
<1>3. ReportedOnce'
  <2>1. \A f \in Function : DOMAIN (control'[f]) = 1 .. Len(control'[f])
    BY DEF Strings
  <2> QED  BY <2>1 DEF ReportedOnce, Once
<1>4. InRangeUnlessReused'
  <2> SUFFICES ASSUME ~reused', NEW v \in Value PROVE process'.level[v] < NumChoices[v]
    BY DEF InRangeUnlessReused, LevelInRange
  <2>1. Aligned(Pipeline(control')[m]) /\ ~CacheAnswered(Pipeline(control')[m])
    OBVIOUS
  <2> QED  BY <2>1, LevelsInRange
<1>5. EntriesInRange(control)'
  BY DEF EntriesInRange
<1>6. EntriesTakeEffect'
  <2> SUFFICES ASSUME ~reused', NEW f \in Function, NEW k \in DOMAIN (control'[f])
               PROVE  process'.level[control'[f][k].value] = control'[f][k].level
    BY DEF EntriesTakeEffect, Function
  <2>1. k \in 1 .. Len(control'[f])
    BY DEF Strings
  <2>2. /\ Aligned(Pipeline(control')[m]) /\ ~CacheAnswered(Pipeline(control')[m])
        /\ Used(control', Pipeline(control')[m]) /\ Once(control')
    OBVIOUS
  <2> QED  BY <2>1, <2>2, AllInEffect
<1> QED  BY <1>1, <1>2, <1>3, <1>4, <1>5, <1>6

LEMMA NextServes ==
    ASSUME meets' = meets, enough' = enough
    PROVE  /\ Serves(control, 1)' <=> Serves(control', 1)
           /\ Serves(control, Turns)' <=> Serves(control', Turns')
           /\ Serves(control, round - 1)' <=> Serves(control', round' - 1)
           /\ Exact(control, Turns)' <=> Exact(control', Turns')
           /\ Exact(control, round - 1)' <=> Exact(control', round' - 1)
<1>1. Pipeline(control)' = Pipeline(control')
  BY SamePipeline
<1> QED  BY <1>1 DEF Serves, Exact

LEMMA InitIInv == Init => IInv
<1> SUFFICES ASSUME Init PROVE IInv  OBVIOUS
<1> USE DEF Init
<1>1. /\ NothingIn \in Strings /\ NewProcess \in Process
      /\ NewProcess.asked = {} /\ \A v \in Value : NewProcess.level[v] = 0
  BY NewFacts
<1>2. TypeOK
  <2>1. control \in [Function -> Seq(Entry)] /\ round \in 0 .. Rounds
    BY <1>1, Sizes DEF Strings
  <2> QED  BY <1>1, <2>1 DEF TypeOK
<1>3. AlignedInFirstInstance /\ AlignedUnlessReused
  BY <1>1 DEF AlignedInFirstInstance, AlignedUnlessReused, AlignedAt
<1>4. \A f \in Function : DOMAIN NothingIn[f] = {}
  BY DEF NothingIn
<1>5. ReportedOnce
  BY <1>4 DEF ReportedOnce
<1>6. InRangeUnlessReused
  BY <1>1, Sizes DEF InRangeUnlessReused, LevelInRange
<1>7. EntriesInRange(control) /\ EntriesTakeEffect
  BY <1>4, NothingFacts DEF EntriesTakeEffect
<1>8. BetweenSearches
  <2>1. Turns = 0
    BY Sizes DEF Turns
  <2>2. Pipeline(NothingIn)[0] = NewProcess
    BY <1>1, PipelineDef
  <2>3. Serves(control, 0) /\ Exact(control, 0)
    BY <1>1, <2>2, NewFacts DEF Serves, Exact
  <2> QED  BY <2>1, <2>3 DEF BetweenSearches
<1>9. BeforeSearch
  BY DEF BeforeSearch
<1> QED  BY <1>2, <1>3, <1>5, <1>6, <1>7, <1>8, <1>9 DEF IInv

LEMMA OnceNow ==
    ASSUME IInv, control \in Strings, ~reused
    PROVE  Once(control)
<1>1. \A f \in Function : DOMAIN (control[f]) = 1 .. Len(control[f])
  BY DEF Strings
<1> QED  BY <1>1 DEF IInv, ReportedOnce, Once

LEMMA ScanIInv ==
    ASSUME IInv, Scan
    PROVE  IInv'
<1> DEFINE n == round + 1
           m == IF n < Instances THEN n ELSE Instances
           q == Pipeline(control)[m]
<1>1. /\ TypeOK /\ BetweenSearches /\ EntriesInRange(control) /\ phase = "scan"
      /\ (round = 0 => control = NothingIn /\ ~reused)
  BY DEF IInv, Scan
<1>2. /\ control \in Strings /\ round \in Nat /\ round < Rounds
      /\ Instances \in Nat \ {0} /\ Rounds \in Nat
  BY <1>1, Sizes DEF TypeOK, Strings, Scan
<1>3. n \in 1 .. Rounds /\ m \in 1 .. Instances /\ m \in 0 .. Instances
  BY <1>2
<1>4. q \in Process
  BY <1>2, <1>3, PipelineDef
<1>5. /\ meets' = meets /\ enough' = enough
      /\ control' = control /\ round' = n /\ process' = q
      /\ phase' = (IF Reports(q, n) THEN "search" ELSE "scan")
      /\ reused' = (reused \/ CacheAnswered(q))
      /\ reused' = (reused \/ CacheAnswered(process'))
  BY DEF Scan, Compile
<1>6. TypeOK'
  <2>1. reused' \in BOOLEAN
    BY <1>1, <1>5 DEF TypeOK, CacheAnswered
  <2> HIDE DEF q, m, n
  <2> QED  BY <1>1, <1>3, <1>4, <1>5, <2>1 DEF TypeOK
<1>7. Pipeline(control)' = Pipeline(control)
  BY <1>5, SamePipeline
<1>8. Aligned(Pipeline(control)[1])
  <2>1. CASE round = 0
    BY <1>1, <1>2, <2>1, NothingFacts
  <2>2. CASE round # 0
    <3>1. Serves(control, 1)
      BY <1>1, <1>2, <2>2 DEF BetweenSearches
    <3> QED  BY <3>1 DEF Serves, Aligned
  <2> QED  BY <2>1, <2>2
<1>9. CASE n <= Instances
  <2>1. m = n /\ Turns = round /\ round \in Instance /\ round \in 0 .. Instances
    BY <1>2, <1>9 DEF Turns, Instance
  <2>2. ~reused' => /\ Aligned(q) /\ Serves(control, round) /\ Exact(control, round)
                    /\ q.unspecified = NothingIn => Serves(control, n) /\ Exact(control, n)
    <3> SUFFICES ASSUME ~reused'
                 PROVE  /\ Aligned(q) /\ Serves(control, round) /\ Exact(control, round)
                        /\ q.unspecified = NothingIn
                              => Serves(control, n) /\ Exact(control, n)
      OBVIOUS
    <3>1. Serves(control, round) /\ Exact(control, round) /\ ~CacheAnswered(q)
      BY <1>1, <1>5, <2>1 DEF BetweenSearches
    <3> QED  BY <1>2, <2>1, <3>1, ScanFacts
  <2>3. round = 0 => ~reused' /\ ~CacheAnswered(q)
    BY <1>1, <1>3, <1>5, NothingRemembered
  <2>4. ~reused' => Once(control')
    BY <1>2, <1>5, OnceNow
  <2>5. AlignedInFirstInstance' /\ AlignedUnlessReused' /\ ReportedOnce'
        /\ InRangeUnlessReused' /\ EntriesTakeEffect' /\ EntriesInRange(control)'
    <3> HIDE DEF n, m, q
    <3>1. process' = Pipeline(control')[m]
      BY <1>5 DEF q
    <3>2. ~reused' => Used(control', process')
      <4>1. ~reused' => Used(control, Pipeline(control)[round])
        BY <1>2, <2>2, ExactIsUsed
      <4>2. round <= m
        BY <1>2, <2>1 DEF n
      <4> QED  BY <1>2, <1>3, <1>5, <2>1, <3>1, <4>1, <4>2, StaysUsed
    <3> QED  BY <1>1, <1>2, <1>3, <1>5, <1>8, <2>2, <2>4, <3>1, <3>2, AfterCompile
  <2>6. phase' = "search" => q.unspecified # NothingIn
    BY <1>5 DEF Reports
  <2>7. phase' = "scan" => q.unspecified = NothingIn
    BY <1>5, <1>9 DEF Reports
  <2>8. round > 0 => Serves(control, 1)
    BY <1>1 DEF BetweenSearches
  <2>9. BeforeSearch'
    <3> SUFFICES ASSUME phase' = "search" PROVE BeforeSearch'
      BY DEF BeforeSearch
    <3>1. round' \in 1 .. Instances /\ process' = Pipeline(control)'[round']
      BY <1>3, <1>5, <1>7, <1>9, <2>1
    <3>2. round' - 1 = round /\ (round' = 1 => round = 0) /\ (round' > 1 => round > 0)
      BY <1>2, <1>5
    <3>3. round' = 1 => control' = NothingIn /\ ~reused'
      BY <1>1, <1>5, <2>3, <3>2
    <3>4. round' > 1 => Serves(control, 1)'
      BY <1>5, <2>8, <3>2, NextServes
    <3> HIDE DEF n, m, q
    <3>5. ~reused' => /\ Serves(control, round - 1)' /\ Exact(control, round - 1)'
                      /\ ~CacheAnswered(process)'
      <4>1. ~reused' => ~CacheAnswered(process)'
        BY <1>5 DEF CacheAnswered
      <4>2. Serves(control', round' - 1) <=> Serves(control, round)
        BY <1>5, <3>2
      <4>3. Exact(control', round' - 1) <=> Exact(control, round)
        BY <1>5, <3>2
      <4> QED  BY <1>5, <2>2, <4>1, <4>2, <4>3, NextServes
    <3>6. process'.unspecified # NothingIn
      BY <1>5, <2>6
    <3>7. NothingIn' = NothingIn
      BY DEF NothingIn, Function
    <3> QED  BY <3>1, <3>3, <3>4, <3>5, <3>6, <3>7 DEF BeforeSearch
  <2>10. BetweenSearches'
    <3> SUFFICES ASSUME phase' = "scan" PROVE BetweenSearches'
      BY DEF BetweenSearches
    <3>1. Turns' = n
      BY <1>2, <1>5, <1>9 DEF Turns
    <3>2. round = 0 => n = 1
      BY <1>2
    <3>3. Serves(control, 1)
      <4>1. CASE round = 0
        BY <2>2, <2>3, <2>7, <3>2, <4>1
      <4>2. CASE round # 0
        BY <1>2, <2>8, <4>2
      <4> QED  BY <4>1, <4>2
    <3> HIDE DEF n, m, q
    <3>4. Serves(control, 1)'
      BY <1>5, <3>3, NextServes
    <3>5. ~reused' => Serves(control, Turns)' /\ Exact(control, Turns)'
      BY <1>5, <2>2, <2>7, <3>1, NextServes
    <3> QED  BY <3>4, <3>5 DEF BetweenSearches
  <2>11. round' # 0
    BY <1>3, <1>5
  <2> QED  BY <1>6, <2>5, <2>9, <2>10, <2>11 DEF IInv
<1>10. CASE ~(n <= Instances)
  <2>1. m = Instances /\ Turns = Instances /\ Turns' = Instances /\ round > 0
        /\ phase' = "scan" /\ round' # 0
    BY <1>2, <1>5, <1>10 DEF Turns, Reports
  <2>2. Serves(control, 1) /\ (~reused => Serves(control, Turns) /\ Exact(control, Turns))
    BY <1>1, <2>1 DEF BetweenSearches
  <2>3. ~reused' => ~reused
    BY <1>1, <1>5 DEF TypeOK
  <2>4. ~reused' => Aligned(q)
    <3>1. ~reused' => Serves(control, m)
      BY <2>1, <2>2, <2>3
    <3> HIDE DEF m
    <3> QED  BY <3>1 DEF Serves, Aligned
  <2>5. ~reused' => Once(control')
    BY <1>2, <1>5, <2>3, OnceNow
  <2> HIDE DEF n, m, q
  <2>6. AlignedInFirstInstance' /\ AlignedUnlessReused' /\ ReportedOnce'
        /\ InRangeUnlessReused' /\ EntriesTakeEffect' /\ EntriesInRange(control)'
    <3>1. process' = Pipeline(control')[m]
      BY <1>5 DEF q
    <3>2. ~reused' => Used(control', process')
      BY <1>2, <1>5, <2>1, <2>2, <2>3, <3>1, ExactIsUsed
    <3> QED  BY <1>1, <1>2, <1>3, <1>5, <1>8, <2>4, <2>5, <3>1, <3>2, AfterCompile
  <2>7. BetweenSearches'
    <3>1. Serves(control, 1)'
      BY <1>5, <2>2, NextServes
    <3>2. ~reused' => Serves(control, Turns)' /\ Exact(control, Turns)'
      BY <1>5, <2>1, <2>2, <2>3, NextServes
    <3> QED  BY <3>1, <3>2 DEF BetweenSearches
  <2>8. BeforeSearch'
    BY <2>1 DEF BeforeSearch
  <2> QED  BY <1>6, <2>1, <2>6, <2>7, <2>8 DEF IInv
<1> QED  BY <1>9, <1>10

\* A report is not empty: some function has a value in it.
LEMMA SomethingCounted ==
    ASSUME process \in Process, process.unspecified # NothingIn
    PROVE  Counted # [f \in Function |-> 0]
<1> DEFINE found == process.unspecified
<1>1. found \in [Function -> Seq(Value)]
  BY DEF Process
<1> HIDE DEF found
<1>2. PICK f \in Function : found[f] # <<>>
  <2> SUFFICES ASSUME \A f \in Function : found[f] = <<>> PROVE FALSE
    OBVIOUS
  <2>1. found = NothingIn
    BY <1>1 DEF NothingIn
  <2> QED  BY <2>1 DEF found
<1>3. Len(found[f]) # 0
  BY <1>1, <1>2
<1>4. Counted[f] = Len(found[f])
  BY DEF Counted, found
<1> QED  BY <1>3, <1>4

LEMMA SearchIInv ==
    ASSUME IInv, Search
    PROVE  IInv'
<1>1. /\ TypeOK /\ BeforeSearch /\ EntriesInRange(control) /\ phase = "search"
      /\ round \in 1 .. Instances /\ process = Pipeline(control)[round]
      /\ process.unspecified # NothingIn
  BY DEF IInv, Search, BeforeSearch
<1>2. /\ control \in Strings /\ process \in Process
      /\ Instances \in Nat \ {0} /\ round \in 0 .. Instances /\ Instances \in 0 .. Instances
  BY <1>1, Sizes DEF TypeOK, Strings
<1>3. PICK last \in Function : \E n \in 0 .. Counted[last] :
        LET cut == CutAt(last, n)
        IN  /\ \E level \in LevelsFor(Before(cut)) :
                  control' = IF cut = [f \in Function |-> 0] THEN NothingIn
                             ELSE Appended(Entries(cut, level))
            /\ phase' \in IF cut = Counted THEN {"scan", "stopped"} ELSE {"stopped"}
  BY DEF Search
<1>4. PICK n \in 0 .. Counted[last] :
        LET cut == CutAt(last, n)
        IN  /\ \E level \in LevelsFor(Before(cut)) :
                  control' = IF cut = [f \in Function |-> 0] THEN NothingIn
                             ELSE Appended(Entries(cut, level))
            /\ phase' \in IF cut = Counted THEN {"scan", "stopped"} ELSE {"stopped"}
  BY <1>3
<1> DEFINE cut == CutAt(last, n)
<1>5. PICK level \in LevelsFor(Before(cut)) :
        control' = IF cut = [f \in Function |-> 0] THEN NothingIn
                   ELSE Appended(Entries(cut, level))
  BY <1>4
<1> DEFINE t == Appended(Entries(cut, level))
<1>6. /\ phase' \in {"scan", "stopped"} /\ (phase' = "scan" => cut = Counted)
      /\ control' = IF cut = [f \in Function |-> 0] THEN NothingIn ELSE t
  BY <1>4, <1>5
<1>7. /\ meets' = meets /\ enough' = enough
      /\ round' = round /\ process' = Pipeline(control')[Instances]
      /\ reused' = (reused \/ CacheAnswered(process'))
  BY <1>2 DEF Search, Compile
<1>8. /\ cut \in [Function -> Nat]
      /\ \A f \in Function : cut[f] <= Len(process.unspecified[f])
  BY <1>2, CutFacts
<1>9. t \in Strings /\ Lengthened(cut, t)
  <2>1. \A f \in Function : \A j \in 1 .. Len(process.unspecified[f]) :
           process.unspecified[f][j][1] = f
    BY <1>1, <1>2, ReportedByFunction
  <2> HIDE DEF cut
  <2> QED  BY <1>2, <1>5, <1>8, <2>1, AppendedFacts
<1> HIDE DEF cut, t
<1>10. ~reused' => ~reused
  BY <1>1, <1>7 DEF TypeOK
<1>11. /\ control' \in Strings /\ Aligned(Pipeline(control')[1])
       /\ EntriesInRange(control')
       /\ ~reused' => /\ Aligned(process') /\ Once(control')
                      /\ Used(control', process')
  <2>1. CASE cut = [f \in Function |-> 0]
    <3>1. control' = NothingIn /\ 1 \in 0 .. Instances
      BY <1>2, <1>6, <2>1
    <3>2. Used(NothingIn, Pipeline(NothingIn)[Instances])
      BY <1>2, NothingIsUsed
    <3> QED  BY <1>2, <1>7, <3>1, <3>2, NewFacts, NothingFacts
  <2>2. CASE cut # [f \in Function |-> 0]
    <3>1. control' = t
      BY <1>6, <2>2
    <3>2. EntriesInRange(t) /\ Adds(t)
      BY <1>1, <1>2, <1>8, <1>9, LengthenedFacts
    <3>3. /\ Aligned(Pipeline(t)[1])
          /\ ~reused => /\ Aligned(Pipeline(t)[Instances])
                        /\ Used(t, Pipeline(t)[Instances])
      BY <1>1, <1>8, <1>9, SearchFacts
    <3>4. ~reused => Once(t)
      <4> SUFFICES ASSUME ~reused PROVE Once(t)
        OBVIOUS
      <4>1. round - 1 \in Instance /\ (round - 1) + 1 = round
        BY <1>1, <1>2 DEF Instance
      <4>2. Serves(control, round - 1) /\ Exact(control, round - 1)
            /\ ~CacheAnswered(process)
        BY <1>1 DEF BeforeSearch
      <4>3. Once(control)
        BY <1>2, OnceNow
      <4> QED  BY <1>1, <1>2, <1>9, <3>2, <4>1, <4>2, <4>3, StillOnce
    <3> QED  BY <1>7, <1>9, <1>10, <3>1, <3>2, <3>3, <3>4
  <2> QED  BY <2>1, <2>2
<1>12. AlignedInFirstInstance' /\ AlignedUnlessReused' /\ ReportedOnce'
       /\ InRangeUnlessReused' /\ EntriesTakeEffect' /\ EntriesInRange(control)'
  BY <1>2, <1>7, <1>11, AfterCompile
<1>13. BeforeSearch'
  BY <1>6 DEF BeforeSearch
<1>14. BetweenSearches'
  <2> SUFFICES ASSUME phase' = "scan" PROVE BetweenSearches'
    BY DEF BetweenSearches
  <2>1. cut = Counted /\ control' = t
    BY <1>1, <1>2, <1>6, SomethingCounted
  <2>2. Serves(t, 1) /\ (~reused => Serves(t, round) /\ Exact(t, round))
    BY <1>1, <1>8, <1>9, <2>1, SearchFacts
  <2>3. Turns' = round
    BY <1>1, <1>2, <1>7 DEF Turns
  <2>4. Serves(control, 1)'
    BY <1>7, <2>1, <2>2, NextServes
  <2>5. ~reused' => Serves(control, Turns)' /\ Exact(control, Turns)'
    BY <1>7, <1>10, <2>1, <2>2, <2>3, NextServes
  <2> QED  BY <2>4, <2>5 DEF BetweenSearches
<1>15. TypeOK'
  <2>1. process' \in Process
    BY <1>2, <1>7, <1>11, PipelineDef
  <2>2. reused' \in BOOLEAN
    BY <1>1, <1>7 DEF TypeOK, CacheAnswered
  <2> QED  BY <1>1, <1>6, <1>7, <1>11, <2>1, <2>2 DEF TypeOK, Strings
<1> QED  BY <1>1, <1>7, <1>12, <1>13, <1>14, <1>15 DEF IInv

LEMMA StutterIInv ==
    ASSUME IInv, UNCHANGED vars
    PROVE  IInv'
<1>1. /\ meets' = meets /\ enough' = enough
      /\ round' = round /\ phase' = phase /\ control' = control
      /\ process' = process /\ reused' = reused
  BY DEF vars
<1>2. Turns' = Turns
  BY <1>1 DEF Turns
<1>3. /\ TypeOK' /\ EntriesInRange(control)'
      /\ ReportedOnce' /\ EntriesTakeEffect'
  BY <1>1 DEF IInv, TypeOK, EntriesInRange, ReportedOnce, EntriesTakeEffect
<1>4. AlignedInFirstInstance' /\ AlignedUnlessReused' /\ InRangeUnlessReused'
  BY <1>1 DEF IInv, AlignedInFirstInstance, AlignedUnlessReused, AlignedAt,
              InRangeUnlessReused, LevelInRange
<1>5. BetweenSearches'
  BY <1>1, <1>2, NextServes DEF IInv, BetweenSearches
<1>6. Pipeline(control)' = Pipeline(control)
  BY <1>1, SamePipeline
<1>7. BeforeSearch'
  BY <1>1, <1>6, NextServes DEF IInv, BeforeSearch, CacheAnswered
<1> QED  BY <1>1, <1>3, <1>4, <1>5, <1>7 DEF IInv

\* Between the searches the control string serves the annotator passes of all
\* rounds so far exactly, and in every state the parts of the invariant hold.
THEOREM Invariance == Spec => []IInv
<1>1. Init => IInv
  BY InitIInv
<1>2. IInv /\ [Next]_vars => IInv'
  BY ScanIInv, SearchIInv, StutterIInv DEF Next
<1> QED  BY <1>1, <1>2, PTL DEF Spec

\* The tables of the annotator and the control string keep their types: every
\* level is a number, every lookup one of an instance.
THEOREM TypeCorrect == Spec => []TypeOK
<1>1. IInv => TypeOK
  BY DEF IInv
<1> QED  BY <1>1, Invariance, PTL

\* The first annotator pass (the instance that makes nearly all lookups) reads
\* for each value the entry that was written for it, in every build and with
\* every way a search ends.
THEOREM FirstInstanceAligned == Spec => []AlignedInFirstInstance
<1>1. IInv => AlignedInFirstInstance
  BY DEF IInv
<1> QED  BY <1>1, Invariance, PTL

\* So do all annotator passes as long as the name cache answered no lookup.
THEOREM AllAligned == Spec => []AlignedUnlessReused
<1>1. IInv => AlignedUnlessReused
  BY DEF IInv
<1> QED  BY <1>1, Invariance, PTL

\* As long as it did not, no value has two entries in the control string.
THEOREM OneEntryEach == Spec => []ReportedOnce
<1>1. IInv => ReportedOnce
  BY DEF IInv
<1> QED  BY <1>1, Invariance, PTL

\* And every value is annotated with one of its options.
THEOREM LevelsAreOptions == Spec => []InRangeUnlessReused
<1>1. IInv => InRangeUnlessReused
  BY DEF IInv
<1> QED  BY <1>1, Invariance, PTL

\* And the level a value has after the passes is the one its entry says: what
\* the searches of all rounds chose is what every later build is compiled with.
THEOREM ChosenIsCompiled == Spec => []EntriesTakeEffect
<1>1. IInv => EntriesTakeEffect
  BY DEF IInv
<1> QED  BY <1>1, Invariance, PTL

===============================================================================
