---------------------------- MODULE ChoiceExplorer ----------------------------
(***************************************************************************)
(* The search of optimistic_tuner.py: class ChoiceExplorer, whose          *)
(* generator() yields one control string after the other and is sent TRUE  *)
(* or FALSE for each (compileSourceOptimistically's answer).               *)
(*                                                                         *)
(* A choice is named by its index in optimistic_choices, the dummy choice  *)
(* appended by __init__ is index N.  A control string is the function of   *)
(* the levels it encodes, defined on the choices it mentions; the "#f" and *)
(* "#c" headers and the strings of earlier annotator runs in front of it   *)
(* (carried) have no part in the search.  An answer is arbitrary here;     *)
(* VerifiedSearch fixes what it depends on.                                *)
(*                                                                         *)
(* An assertion that fails, and an index out of range, raise an exception  *)
(* that ends the search: pc = "failed".                                    *)
(***************************************************************************)
EXTENDS Integers, Sequences, FiniteSets

CONSTANTS
    N,             \* len(optimistic_choices) handed to __init__, > 0
    MaxOptions,    \* max_options of every choice
    MaxTries,      \* max_tries of the experiment, or None
    HasDeadline,   \* is max_time set, so that time_end may pass
    None

Choice == 0 .. N - 1

ASSUME NAssumption == N \in Nat \ {0}
ASSUME OptionsAssumption ==
    MaxOptions \in [Choice -> Nat] /\ \A i \in Choice : MaxOptions[i] >= 2
ASSUME LimitAssumption ==
    MaxTries \in Nat \cup {None} /\ None \notin Nat /\ HasDeadline \in BOOLEAN

VARIABLES
    value,      \* OptimisticChoice.value
    fixed,      \* OptimisticChoice.fixed
    control,    \* self.control_string
    carried,    \* does it still start with initial_control_string
    firstPos,   \* self.first_pos
    cur,        \* current_first_pos
    dist,       \* current_distance
    problems,   \* problems: <<position, distance>>, the top is the last
    changed,    \* changed_since_problem
    tries,      \* tries
    pc,         \* "head": the loop condition is next; "verify": yielded
    accepted    \* history: the assignment of the last build answered TRUE

searchVars == <<value, fixed, control, carried, firstPos>>
blockVars == <<cur, dist, problems, changed>>
vars == <<searchVars, blockVars, tries, pc, accepted>>

-------------------------------------------------------------------------------

Assignment == [Choice -> Nat]

\* A control string: the levels of the first n choices, for some n.
IsString(s) == \E n \in 0 .. N : s \in [0 .. n - 1 -> Nat]

End(problem) == problem[1] + problem[2]

\* (The definitions named Slip... are mistakes the code could have made in
\* the operator that follows: the properties below tell them apart.)
SlipPrefix(n) == [i \in DOMAIN control \cap 0 .. n |-> control[i]]

\* self.control_string cut after the choices 0 .. n - 1
Prefix(n) == [i \in DOMAIN control \cap 0 .. n - 1 |-> control[i]]

\* The levels a control string stands for: a choice it does not mention is
\* not annotated, which is level 0.
Levels(string) ==
    [i \in Choice |-> IF i \in DOMAIN string THEN string[i] ELSE 0]

\* The string yielded reaches up to and includes the choice at
\* current_last_pos, one more than a positive answer decides.
LastPos == cur + dist
SlipProbePast == Levels(Prefix(LastPos + 2))
SlipProbeShort == Levels(Prefix(LastPos))
Probe == Levels(Prefix(LastPos + 1))

\* int(current_distance / 2), never applied to 1
SlipTwo(d) == IF d > 4 THEN d \div 2 ELSE 2
Half(d) == d \div 2

\* The pop loops: problems that end at or before position p leave the top
\* of the stack; depth of them remain.
SlipOpenDepth(p, depth) ==
    /\ depth > 0 => End(problems[depth]) >= p
    /\ \A k \in depth + 1 .. Len(problems) : End(problems[k]) < p
IsOpenDepth(p, depth) ==
    /\ depth > 0 => End(problems[depth]) > p
    /\ \A k \in depth + 1 .. Len(problems) : End(problems[k]) <= p

\* advance(n): fix the n next choices at their level.  It fails on a choice
\* that is fixed already and past the dummy choice.
CanAdvance(n) ==
    /\ firstPos + n <= N
    /\ \A i \in firstPos .. firstPos + n - 1 : ~fixed[i]

SlipForget(n) ==
    /\ firstPos' = firstPos + n
    /\ fixed' = [i \in Choice |-> i \in firstPos .. firstPos + n - 1]
SlipShort(n) ==
    /\ firstPos' = firstPos + n - 1
    /\ fixed' = [i \in Choice |-> fixed[i] \/ i \in firstPos .. firstPos + n - 2]
Advance(n) ==
    /\ firstPos' = firstPos + n
    /\ fixed' = [i \in Choice |-> fixed[i] \/ i \in firstPos .. firstPos + n - 1]

-------------------------------------------------------------------------------

TypeOK ==
    /\ value \in Assignment
    /\ fixed \in [Choice -> BOOLEAN]
    /\ IsString(control)
    /\ carried \in BOOLEAN
    /\ firstPos \in 0 .. N
    /\ cur \in 0 .. N
    /\ dist \in 1 .. N
    /\ problems \in Seq(Choice \X (1 .. N))
    /\ changed \in BOOLEAN
    /\ tries \in Nat
    /\ pc \in {"head", "verify", "resolved", "limited", "failed"}
    /\ accepted \in Assignment

Init ==
    /\ value = [i \in Choice |-> MaxOptions[i] - 1]
    /\ fixed = [i \in Choice |-> FALSE]
    /\ control = value
    /\ carried = TRUE
    /\ firstPos = 0
    /\ cur = 0
    /\ dist = N
    /\ problems = <<>>
    /\ changed = TRUE
    /\ tries = 0
    /\ pc = "head"
    /\ accepted = [i \in Choice |-> 0]

-------------------------------------------------------------------------------
(* The head of the loop *)

TriesLeft == MaxTries # None => tries < MaxTries

\* A try begins: solved problems are dropped and a control string yielded.
Propose ==
    /\ pc = "head"
    /\ TriesLeft
    /\ firstPos < N
    /\ tries' = tries + 1
    /\ \E depth \in 0 .. Len(problems) :
          /\ IsOpenDepth(cur, depth)
          /\ problems' = SubSeq(problems, 1, depth)
    /\ pc' = "verify"
    /\ UNCHANGED <<searchVars, cur, dist, changed, accepted>>

\* Nothing is left to decide: return (tries, False).
Resolve ==
    /\ pc = "head"
    /\ TriesLeft
    /\ firstPos >= N
    /\ pc' = "resolved"
    /\ UNCHANGED <<searchVars, blockVars, tries, accepted>>

\* The tries or the time are used up: undecided choices are fixed at 0 and
\* cut from the control string, with all of it when none is decided.
CutOff ==
    /\ pc = "head"
    /\ ~TriesLeft \/ HasDeadline
    /\ pc' = IF \A i \in Choice : fixed[i] <=> i < firstPos
             THEN "limited" ELSE "failed"
    /\ fixed' = [i \in Choice |-> TRUE]
    /\ value' = [i \in Choice |-> IF i < firstPos THEN value[i] ELSE 0]
    /\ control' = Prefix(firstPos)
    /\ carried' = (carried /\ firstPos > 0)
    /\ UNCHANGED <<firstPos, blockVars, tries, accepted>>

-------------------------------------------------------------------------------
(* The answer to the yielded control string *)

\* The distance after an accepted block: up to the end of the innermost open
\* problem, half of that while nothing was lowered since it was met.
SlipHalf(open) == (End(open[Len(open)]) - LastPos) \div 2
NextDist(open) ==
    LET gap == End(open[Len(open)]) - LastPos
    IN  IF changed \/ gap = 1 THEN gap ELSE Half(gap)

\* send(True): the block cur .. LastPos - 1 is fixed and the search moves on.
Accept ==
    /\ pc = "verify"
    /\ accepted' = Probe
    /\ Advance(dist)
    /\ cur' = firstPos'
    /\ \E depth \in 0 .. Len(problems) :
          /\ IsOpenDepth(cur', depth)
          /\ problems' = SubSeq(problems, 1, depth)
    /\ dist' = IF problems' = <<>> THEN dist ELSE NextDist(problems')
    /\ pc' = IF /\ CanAdvance(dist)
                /\ IF problems' = <<>>
                   THEN firstPos' >= N
                   ELSE End(problems'[Len(problems')]) > LastPos /\ dist' > 0
             THEN "head" ELSE "failed"
    /\ UNCHANGED <<value, control, carried, changed, tries>>

\* send(False) for more than one choice: remember the block, try its half.
Bisect ==
    /\ pc = "verify"
    /\ dist > 1
    /\ changed' = FALSE
    /\ problems' = Append(problems, <<cur, dist>>)
    /\ dist' = Half(dist)
    /\ pc' = "head"
    /\ UNCHANGED <<searchVars, cur, tries, accepted>>

\* send(False) for one choice: findAndLimitNextOptimisticChoice lowers it,
\* in the object and in the string, and fixes it when it reaches 0.
LimitChoice ==
    /\ pc = "verify"
    /\ dist = 1
    /\ LET level == control[cur] - 1
           ok == value[cur] > 0 /\ value[cur] = control[cur] /\ ~fixed[cur]
       IN  /\ value' = [value EXCEPT ![cur] = level]
           /\ control' = [control EXCEPT ![cur] = level]
           /\ IF level = 0 THEN Advance(1) ELSE UNCHANGED <<firstPos, fixed>>
           /\ pc' = IF ok /\ (level = 0 => CanAdvance(1))
                    THEN "head" ELSE "failed"
    /\ cur' = IF cur >= firstPos' THEN cur ELSE firstPos'
    /\ changed' = TRUE
    /\ UNCHANGED <<carried, dist, problems, tries, accepted>>

-------------------------------------------------------------------------------

Next == Propose \/ Resolve \/ CutOff \/ Accept \/ Bisect \/ LimitChoice

\* The driver loop of optimizeAndRun sends an answer to every string (each
\* run of the program has a timeout) and resumes the generator at once.
Spec == Init /\ [][Next]_vars /\ WF_vars(Next)

-------------------------------------------------------------------------------
(* Properties *)

\* None of the assertions of generator(), advance(), fix() and
\* findAndLimitNextOptimisticChoice() (lines 94, 98, 274, 278, 284, 312, 314,
\* 327, 330) can fail and no index leaves the list, whatever the answers.
NoAssertionFails == pc # "failed"

\* When the search returns, its control string and its OptimisticChoice
\* objects say the same: the decided choices are those the string mentions,
\* at the same levels.  optimizeAndRun hands the one to the compiler and the
\* other to writeControl (lines 616-617).
StringMatchesChoices ==
    pc \in {"resolved", "limited"} =>
        /\ \A i \in Choice : fixed[i] <=> (pc = "limited" \/ i < firstPos)
        /\ DOMAIN control = 0 .. firstPos - 1
        /\ Levels(control) = value

\* The strings of the earlier annotator runs leave the control string only
\* when the search is cut off before it decided anything (lines 317-318): a
\* part of the invariant; Tuner shows what becomes of it.
CarriedUnlessNothingDecided == ~carried => pc = "limited" /\ firstPos = 0

\* A choice the search has decided keeps its level for good, and the decided
\* choices are always a prefix that grows (advance, fix).
DecidedIsFinal ==
    [][/\ firstPos' >= firstPos
       /\ \A i \in 0 .. firstPos - 1 : fixed'[i] /\ value'[i] = value[i]]_vars

\* generator() implements the promise of OptimisticSearch.
Promise == INSTANCE OptimisticSearch WITH
    level <- value,
    decided <- firstPos,
    confirmed <- accepted,
    searching <- pc \in {"head", "verify"}

ImplementsPromise == Promise!Init /\ [][Promise!Next]_(Promise!vars)

\* What the search would return at any moment is the last build answered
\* TRUE with at most one of its choices dropped to level 0 (the choice that
\* string included beyond the block being tested).
NothingUnconfirmed == Promise!NothingUnconfirmed

\* The search returns: bisecting and lowering cannot go on for ever, even if
\* nothing limits the tries and every answer is as bad as can be.
Returns == <>(pc \in {"resolved", "limited"})

\* The options of the first n choices together.
OptionsBefore[n \in 0 .. N] ==
    IF n = 0 THEN 0 ELSE OptionsBefore[n - 1] + MaxOptions[n - 1]

\* The whole search takes fewer tries than the choices have options together,
\* whatever is answered; a try is a build and a run of the benchmark.  (This
\* is not the price of testing the choices one by one, which takes a try for
\* each option above the first at most: seven choices of two options that are
\* all rejected take nine tries here, and seven one by one.)
EffortBound == tries < OptionsBefore[N]

-------------------------------------------------------------------------------
(* The inductive invariants *)

Searching == pc \in {"head", "verify"}

\* Where the search stands: the choices before firstPos are fixed, the others
\* still have optimism to give up, the string agrees with the objects, and
\* the outermost open problem, or the block itself, ends at N.
LoopInv ==
    /\ cur = firstPos
    /\ carried
    /\ control = value
    /\ \A i \in Choice : fixed[i] <=> i < firstPos
    /\ \A i \in Choice : i >= firstPos => value[i] > 0
    /\ \A k \in 1 .. Len(problems) : End(problems[k]) <= N
    /\ firstPos < N =>
          /\ cur + dist <= N
          /\ IF problems = <<>> THEN cur + dist = N ELSE End(problems[1]) = N
    /\ pc = "verify" => firstPos < N

\* The last accepted assignment reaches up to some decided choice p, or the
\* first undecided one; what was decided after that was decided against.
AcceptedUpTo(p) ==
    /\ \A i \in Choice : i < p => accepted[i] = value[i]
    /\ \A i \in Choice : i > p => accepted[i] = 0
    /\ \A i \in Choice : p <= i /\ i < firstPos => value[i] = 0

\* Everything that is needed to carry the properties above from one step to
\* the next (SearchProofs).
IInv ==
    /\ TypeOK
    /\ NoAssertionFails
    /\ Searching => LoopInv
    /\ \E p \in 0 .. firstPos : AcceptedUpTo(p)
    /\ StringMatchesChoices
    /\ CarriedUnlessNothingDecided

\* Where the block that is tried and the open problems end.
OpenEnds ==
    {cur + dist}
        \cup {End(problems[k]) :
                 k \in {j \in 1 .. Len(problems) : End(problems[j]) > cur}}

\* Every try is paid for: by an option of a choice up to the current one, or
\* by a position where an open problem ends, which bisecting a block adds and
\* accepting its first half takes away again.  Problems are nested, so that
\* the block that is tried ends where the innermost one does, or before.
EffortInv ==
    /\ EffortBound
    /\ Searching /\ cur < N =>
          /\ \A i \in Choice : i > cur => value[i] = MaxOptions[i] - 1
          /\ \A j, k \in 1 .. Len(problems) :
                j <= k => End(problems[k]) <= End(problems[j])
          /\ \A k \in 1 .. Len(problems) :
                End(problems[k]) > cur => End(problems[k]) >= cur + dist
          /\ pc = "verify" /\ problems # <<>> =>
                End(problems[Len(problems)]) > cur
          /\ tries + value[cur] + (IF pc = "head" THEN 2 ELSE 1)
                <= OptionsBefore[cur + 1] + Cardinality(OpenEnds)

===============================================================================
