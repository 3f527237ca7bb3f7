------------------------------- MODULE Annotations -------------------------------
(***************************************************************************)
(* What the annotator (Annotator.cpp) writes into the IR for the level of  *)
(* a choice, at each of its instances in the pass pipeline: runOnModule    *)
(* goes through the kinds of choices, and at the end of each instance      *)
(* verifies the module.                                                    *)
(*                                                                         *)
(* Most kinds are a flag or a size that a parameter, a function or an      *)
(* instruction has or has not: slots, one for each way they are asked for. *)
(* Kinds of their own are the memory effects of a function, the behaviour  *)
(* of a parameter, the returned parameter and the parallel loops.  The     *)
(* level of a choice is arbitrary; ChoiceMaps is about where it comes from. *)
(* What an instruction's kinds do does not depend on other kinds, so an    *)
(* input has a function of interest or loops of interest.                  *)
(***************************************************************************)
EXTENDS Integers, Sequences, FiniteSets

CONSTANTS
    NumParams,     \* pointer parameters of the type the function returns
    NumLoops,      \* loops of the function, outer loops before inner ones
    LoopInstance   \* the last instance, which annotates the loops; 7

Param == 1 .. NumParams
Loop == 1 .. NumLoops

\* A flag or a size of a parameter or function is asked for by instance 0,
\* one of an instruction by every instance, if it is not there; so is an
\* alignment, until it is the greatest.
Slot == {"parameter", "instruction", "alignment"}

ASSUME SizeAssumption ==
    NumParams \in Nat /\ NumLoops \in Nat /\ LoopInstance \in Nat \ {0}

VARIABLES
    instance,  \* Instance of the annotator
    kind,      \* the kind that runOnModule is at
    size,      \* the level of every slot, 0 is unknown
    assume,    \* is the function llvm.assume
    fn,        \* attributes of the function that its memory effects set
    behavior,  \* memory attributes of a parameter
    returned,  \* the parameters with the attribute returned
    parent,    \* the loop around a loop, 0 for none
    accesses,  \* the loops with loads, stores or calls in their own blocks
    ids,       \* the loops with a LoopID
    marks,     \* the loops that parallel_loop_access of these accesses lists
    parallel,  \* history: the loops whose level was 1
    before     \* history: ids and returned of the input

function == <<assume, fn, behavior, returned>>
loops == <<parent, accesses, ids, marks, parallel>>
vars == <<instance, kind, size, function, loops, before>>

-------------------------------------------------------------------------------
(* Memory attributes *)

Access == {"readonly", "writeonly"}
Ranges == {"argmemonly", "inaccessiblememonly", "inaccessiblemem_or_argmemonly"}

\* readnone and what is less, and that the function may be speculated.
FnAttribute == Access \cup Ranges \cup {"readnone", "speculatable"}

\* Verifier.cpp: what excludes each other on a function.  (Of a parameter the
\* same is not checked: these checks are commented out.)
Compatible(attributes) ==
    /\ "readnone" \in attributes =>
          attributes \cap (Access \cup Ranges) \subseteq {"argmemonly"}
    /\ ~(Access \subseteq attributes)

\* What a function with these attributes may do.
Permitted(attributes) ==
    {effect \in {"read", "write"} \X {"argument", "inaccessible", "other"} :
        /\ "readnone" \notin attributes
        /\ "readonly" \in attributes => effect[1] = "read"
        /\ "writeonly" \in attributes => effect[1] = "write"
        /\ "argmemonly" \in attributes => effect[2] = "argument"
        /\ "inaccessiblememonly" \in attributes => effect[2] = "inaccessible"
        /\ "inaccessiblemem_or_argmemonly" \in attributes => effect[2] # "other"}

\* (The definitions named Slip... are mistakes the code could have made in
\* the operator that follows: the properties below tell them apart.)

\* OCK_FUNCTION_MEM_EFFECTS, levels 1 to 13.
Adds ==
    LET ranges == << {"inaccessiblemem_or_argmemonly"}, {"argmemonly"},
                     {"inaccessiblememonly"} >>
        withAccess(a) == << {a}, {a} \cup ranges[1], {a} \cup ranges[2],
                            {a} \cup ranges[3] >>
    IN  [level \in 1 .. 13 |->
            IF level <= 3 THEN ranges[level]
            ELSE IF level <= 7 THEN withAccess("writeonly")[level - 3]
            ELSE IF level <= 11 THEN withAccess("readonly")[level - 7]
            ELSE IF level = 12 THEN {"readnone"}
            ELSE {"readnone", "speculatable"}]
SlipEffects(attributes, level) ==
    IF level = 0 THEN attributes ELSE attributes \cup Adds[level]
SlipOrder(attributes, level) ==
    IF level = 0 THEN attributes
    ELSE (attributes \ Access) \cup Adds[IF level \in {8, 9} THEN 17 - level ELSE level]
WithEffects(attributes, level) ==
    IF level = 0 THEN attributes ELSE (attributes \ Access) \cup Adds[level]

\* A function that may be speculated accesses no memory.
Speculated(attributes) ==
    IF "speculatable" \in attributes THEN attributes \cup {"readnone"}
                                     ELSE attributes

\* No level is asked for if a range is known.
SlipAsksForEffects == "readnone" \notin fn
AsksForEffects == fn \subseteq Access
EffectOptions == IF assume THEN 8 ELSE 14

\* OCK_PARAMETER_MEM_BEHAVIOR, levels 1 to 3
BehaviorAt == << {"writeonly"}, {"readonly"}, {"readnone"} >>

-------------------------------------------------------------------------------
(* Loops *)

Around(l) ==
    LET around[i \in 0 .. NumLoops] ==
            IF i = 0 THEN {} ELSE {i} \cup around[parent[i]]
    IN  around[l]
Within(l) == {i \in Loop : l \in Around(i)}
Innermost == {l \in Loop : Within(l) = {l}}

\* isAnnotatedParallel
IsParallel(l) == l \in ids /\ \A i \in Within(l) \cap accesses : l \in marks[i]

\* annotateLoops marks the accesses in the loops that were chosen, those of
\* an inner loop that was chosen as well not for the outer one: they get the
\* LoopIDs of all loops around the inner one, those that have one.
SlipIds(chosen) == ids \cup UNION {Around(l) : l \in chosen}
WithIds(chosen) == ids \cup chosen
MarkedFor(l, i, chosen) == i \in Within(l) /\ (i = l \/ i \notin chosen)
SlipMarks(chosen, withId) ==
    [i \in Loop |-> marks[i] \cup {l \in chosen : MarkedFor(l, i, chosen)}]
Marks(chosen, withId) ==
    [i \in Loop |-> marks[i] \cup
        UNION {Around(l) \cap withId : l \in {c \in chosen : MarkedFor(c, i, chosen)}}]

-------------------------------------------------------------------------------

\* The kinds in the order of OptimisticChoiceKind; "slots" stands for all of
\* the simple ones, "last" for the end of the instance.
Kinds == << "slots", "innermost", "outer", "returned", "behavior", "effects",
            "last" >>

TypeOK ==
    /\ instance \in 0 .. LoopInstance
    /\ kind \in 1 .. Len(Kinds)
    /\ size \in [Slot -> 0 .. 2]
    /\ assume \in BOOLEAN
    /\ fn \subseteq FnAttribute
    /\ behavior \subseteq Access \cup {"readnone"}
    /\ returned \subseteq Param
    /\ parent \in [Loop -> 0 .. NumLoops] /\ \A l \in Loop : parent[l] < l
    /\ accesses \cup ids \cup parallel \subseteq Loop
    /\ marks \in [Loop -> SUBSET ids]

\* Functions as clang and the passes before the annotator leave them: with at
\* most one parameter that is returned.  Speculatable are only intrinsics
\* without memory effects (Intrinsics.td).
AFunction ==
    /\ assume \in BOOLEAN
    /\ fn \in {attributes \in SUBSET FnAttribute :
                 /\ Compatible(attributes)
                 /\ "speculatable" \in attributes => "readnone" \in attributes
                 /\ assume => attributes = {}}
    /\ behavior \in {{}, {"readnone"}, {"readonly"}, {"writeonly"}}
    /\ returned \in {{}} \cup {{p} : p \in Param}
NoFunction ==
    assume = FALSE /\ fn = {"readnone"} /\ behavior = {"readnone"} /\ returned = {}

\* Loops with LoopIDs that a pragma or another pass gave them.
SomeLoops ==
    /\ parent \in {around \in [Loop -> 0 .. NumLoops] : \A l \in Loop : around[l] < l}
    /\ accesses \in SUBSET Loop
    /\ ids \in SUBSET Loop
NoLoops ==
    parent = [l \in Loop |-> 0] /\ accesses = {} /\ ids = {}

Init ==
    /\ instance = 0
    /\ kind = 1
    /\ \/ AFunction /\ NoLoops /\ size = [s \in Slot |-> 2]
       \/ NoFunction /\ SomeLoops /\ size = [s \in Slot |-> 2]
       \/ NoFunction /\ NoLoops /\ size \in [Slot -> 0 .. 2]
    /\ marks = [l \in Loop |-> {}]
    /\ parallel = {}
    /\ before = [ids |-> ids, returned |-> returned]

At(k) == Kinds[kind] = k /\ kind' = kind + 1

\* Nothing is asked twice: neither what the IR says already, nor what an
\* earlier instance annotated.
IsAsked(s) ==
    CASE s = "parameter" -> instance = 0 /\ size[s] = 0
      [] s = "instruction" -> size[s] = 0
      [] s = "alignment" -> size[s] < 2
Larger(a, b) == IF a > b THEN a ELSE b
SlipSize(s, level) == size[s] + level
Size(s, level) == IF s = "alignment" THEN Larger(size[s], level) ELSE level

AnnotateSlots ==
    /\ At("slots")
    /\ \E level \in [Slot -> 0 .. 2] :
          size' = [s \in Slot |-> IF IsAsked(s) THEN Size(s, level[s]) ELSE size[s]]
    /\ fn' = IF instance = 0 THEN Speculated(fn) ELSE fn
    /\ UNCHANGED <<instance, assume, behavior, returned, loops, before>>

\* Loops of both kinds are asked for with their metadata or without.
AnnotateLoops ==
    /\ \/ At("innermost")
       \/ At("outer")
    /\ \E chosen \in SUBSET IF Kinds[kind] = "innermost" THEN Innermost
                                                      ELSE Loop \ Innermost :
          /\ instance < LoopInstance => chosen = {}
          /\ parallel' = parallel \cup chosen
          /\ ids' = WithIds(chosen)
          /\ marks' = Marks(chosen, ids')
    /\ UNCHANGED <<instance, size, function, parent, accesses, before>>

\* Decision k is the k-th last of the parameters; that one of them has the
\* attribute already is not looked at.
AnnotateReturned ==
    /\ At("returned")
    /\ \/ \E p \in Param : instance = 0 /\ returned' = returned \cup {p}
       \/ UNCHANGED returned
    /\ UNCHANGED <<instance, size, assume, fn, behavior, loops, before>>

AnnotateBehavior ==
    /\ At("behavior")
    /\ \/ \E level \in 1 .. 3 :
             instance = 0 /\ behavior = {} /\ behavior' = BehaviorAt[level]
       \/ UNCHANGED behavior
    /\ UNCHANGED <<instance, size, assume, fn, returned, loops, before>>

AnnotateEffects ==
    /\ At("effects")
    /\ \/ \E level \in 1 .. EffectOptions - 1 :
             instance = 0 /\ AsksForEffects /\ fn' = WithEffects(fn, level)
       \/ UNCHANGED fn
    /\ UNCHANGED <<instance, size, assume, behavior, returned, loops, before>>

NextInstance ==
    /\ Kinds[kind] = "last"
    /\ instance < LoopInstance
    /\ instance' = instance + 1
    /\ kind' = 1
    /\ UNCHANGED <<size, function, loops, before>>

Next ==
    \/ AnnotateSlots \/ AnnotateLoops \/ AnnotateReturned \/ AnnotateBehavior
    \/ AnnotateEffects \/ NextInstance

Spec == Init /\ [][Next]_vars

-------------------------------------------------------------------------------
(* Properties *)

\* verifyModule accepts what the annotator made of the module, so that the
\* llvm_unreachable of line 568 is not reached: unless a parameter had the
\* attribute returned before (PostOrderFunctionAttrs runs first) and another
\* one was chosen.
ModuleVerifies ==
    /\ Compatible(fn)
    /\ before.returned = {} => Cardinality(returned) <= 1

\* What was known of the program stays known.  The one exception are functions
\* of which only that is known that they read only or write only: any level of
\* their memory effects removes that first, against what PresentIsKept says.
KnownIsKept ==
    [][/\ fn \cap Access = {} \/ fn \cap Ranges # {} =>
             Permitted(fn') \subseteq Permitted(fn)
       /\ Permitted(behavior') \subseteq Permitted(behavior)
       /\ returned \subseteq returned'
       /\ \A s \in Slot : size'[s] >= size[s]]_vars

\* ISC19.pdf, page 10: "we do not add annotations if any of the possible
\* optimistic choices is already present in the code".  Each attribute of fn and
\* of behavior is one of their levels, and to be returned is one of a parameter.
\* The code keeps this of the behavior only: it looks neither for readonly and
\* writeonly (lines 709-724) nor for the attribute of another parameter (896).
PresentIsKept ==
    [][/\ fn # {} => fn' = fn
       /\ behavior # {} => behavior' = behavior
       /\ returned # {} => returned' = returned]_vars

\* The tuner goes down from the highest level and stays at the first that is
\* accepted: no lower level says strictly more than a higher one.
StrongestFirst ==
    AsksForEffects =>
        \A high \in 0 .. EffectOptions - 1 : \A low \in 0 .. high - 1 :
            LET p == Permitted(WithEffects(fn, low))
                q == Permitted(WithEffects(fn, high))
            IN  ~(p \subseteq q /\ p # q)

\* The assertion of annotateLoops, also after the outer loops of an inner one
\* were annotated: a loop that was chosen is parallel to the passes that
\* follow.
ChosenIsParallel == \A l \in parallel : IsParallel(l)

\* A loop whose level is 0 does not become parallel with the loops in it,
\* unless it had a LoopID before: the accesses of an inner loop are marked for
\* all loops around it, whether these were chosen or not.
ParallelIsChosen == \A l \in Loop \ before.ids : IsParallel(l) => l \in parallel

-------------------------------------------------------------------------------
(* The inductive invariant *)

\* One instance chooses the returned parameter, once.  A LoopID is one of the
\* input or that of a chosen loop.
IInv ==
    /\ TypeOK
    /\ Compatible(fn)
    /\ "speculatable" \in fn => "readnone" \in fn
    /\ instance = 0 /\ kind <= 4 => returned = before.returned
    /\ before.returned = {} => \E p \in Param \cup {0} : returned \subseteq {p}
    /\ ids = before.ids \cup parallel
    /\ ChosenIsParallel

===============================================================================
