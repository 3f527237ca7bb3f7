------------------------------- MODULE ChoiceMaps -------------------------------
(***************************************************************************)
(* How the annotator (Annotator.cpp) finds the level of a choice in the     *)
(* control string, and how the rounds of the tuner extend that string.     *)
(*                                                                         *)
(* The annotator stands at several places of the compiler's pipeline; each  *)
(* of these instances asks for the level of every value it could annotate. *)
(* All its tables are per kind of choice, so one kind is modelled.          *)
(*                                                                         *)
(* Which instances meet a value is an input, chosen at the start: an        *)
(* optimization may create it late or remove it, parameters and functions   *)
(* are met by the first instance alone and loops by the last one.  So is    *)
(* the level from which a value is not asked for again: 1 where the         *)
(* annotation is an attribute that is there or not, the greatest one for    *)
(* alignments (lines 1138, 1224), none for the constants of createSpecu-    *)
(* lativeAssumptions (line 1052), which asks at every level.                *)
(*                                                                         *)
(* A control string is, for each function, the sequence of its entries: the *)
(* "#f" and "#c" headers select the sequence and have no other part.  What  *)
(* the compiler does in one process is a function of its command line.      *)
(***************************************************************************)
EXTENDS Integers, SequencesExt

CONSTANTS
    NumFunctions, NumNames,   \* functions and names
    Value,                    \* what has a level, see below
    Order,                    \* the values as a pass visits them
    Instances,                \* annotator passes in the pipeline
    Rounds,                   \* tuning rounds, 14 in the code
    NumChoices,               \* options of each value, levels 0 to that less 1
    None

Function == 1 .. NumFunctions
Name == 1 .. NumNames
Instance == 0 .. Instances - 1
Entry == [value : Value, level : Nat]

\* A value has a function, a name and a number: a name may stand for several
\* values of its function (stores through one pointer, line 309).
ASSUME ValueAssumption == Value \subseteq Function \X Name \X Nat
ASSUME SizeAssumption ==
    /\ NumFunctions \in Nat \ {0} /\ NumNames \in Nat \ {0}
    /\ Instances \in Nat \ {0} /\ Rounds \in Nat /\ None \notin Entry
ASSUME OrderAssumption ==
    /\ Order \in Seq(Value) /\ ToSet(Order) = Value
    /\ \A i, j \in 1 .. Len(Order) :
          i < j => Order[i] # Order[j] /\ Order[i][1] <= Order[j][1]
ASSUME ChoicesAssumption ==
    NumChoices \in [Value -> Nat] /\ \A v \in Value : NumChoices[v] >= 2

MaxLevel == CHOOSE m \in {NumChoices[v] - 1 : v \in Value} :
                \A v \in Value : NumChoices[v] <= m + 1

VARIABLES
    meets,     \* the instances that meet a value
    enough,    \* the level from which a value is not asked for again
    round,     \* self.annotation_run
    phase,     \* "scan", "search" or "stopped" by a limit
    control,   \* the control string, per function
    process,   \* the tables of the last compiler process when it ended
    reused     \* history: did the name cache ever answer

vars == <<meets, enough, round, phase, control, process, reused>>

-------------------------------------------------------------------------------
(* One process of the compiler *)

\* A lookup, and what answered it.
Lookup == [instance : Instance, value : Value,
           source : {"entry", "cache", "default"}, entry : {None} \cup Entry]

Process == [index : [Function -> Nat], cache : [Name -> Nat],
            level : [Value -> Nat], asked : SUBSET Lookup,
            unspecified : [Function -> Seq(Value)]]

NothingIn == [f \in Function |-> <<>>]

NewProcess ==
    [index |-> [f \in Function |-> 0],        \* ChoiceIndices
     cache |-> [n \in Name |-> 0],            \* NameCache, 0 is unset
     level |-> [v \in Value |-> 0],           \* what its last lookup gave a value
     asked |-> {},                            \* history: every lookup
     unspecified |-> NothingIn]               \* what the last pass printed

\* (The definitions named Slip... are mistakes the code could have made in
\* the operator that follows: the properties below tell them apart.)

\* getControlCharChoice: a table holds 0 for what the string does not say,
\* and a level with one added.
SlipStored(level) == level
Stored(level) == level + 1

\* getOptimisticChoice: the next entry of the function's string, else what
\* its name got before, else level 0, which is printed as an opportunity.
EntryFor(p, v, string) ==
    LET pos == p.index[v[1]] + 1
    IN  IF pos <= Len(string[v[1]]) THEN string[v[1]][pos] ELSE None

SourceFor(p, v, entry) ==
    IF entry # None THEN "entry"
    ELSE IF p.cache[v[2]] > 0 THEN "cache" ELSE "default"

ChoiceFor(p, v, entry) ==
    CASE SourceFor(p, v, entry) = "entry"   -> Stored(entry.level)
      [] SourceFor(p, v, entry) = "cache"   -> p.cache[v[2]]
      [] SourceFor(p, v, entry) = "default" -> Stored(0)

\* The value is annotated with the choice.
Ask(p, instance, v, entry) ==
    LET source == SourceFor(p, v, entry)
        choice == ChoiceFor(p, v, entry)
    IN  [index |-> [p.index EXCEPT ![v[1]] = @ + 1],
         cache |-> IF source = "entry" THEN [p.cache EXCEPT ![v[2]] = choice]
                   ELSE p.cache,
         level |-> [p.level EXCEPT ![v] = choice - 1],
         asked |-> p.asked \cup {[instance |-> instance, value |-> v,
                                  source |-> source, entry |-> entry]},
         unspecified |->
             IF source = "default"
             THEN [p.unspecified EXCEPT ![v[1]] = Append(@, v)]
             ELSE p.unspecified]

\* The annotate functions skip a value that is annotated as far as it can be.
MustAsk(p, instance, v) == instance \in meets[v] /\ p.level[v] < enough

Visit(p, instance, v, string) ==
    IF MustAsk(p, instance, v) THEN Ask(p, instance, v, EntryFor(p, v, string))
    ELSE p

\* One instance of the annotator does its work.
Visits(p, instance, string) ==
    LET after[k \in 0 .. Len(Order)] ==
            IF k = 0 THEN [p EXCEPT !.unspecified = NothingIn]
            ELSE Visit(after[k - 1], instance, Order[k], string)
    IN  after
RunOnModule(p, instance, string) == Visits(p, instance, string)[Len(Order)]

\* The pipeline with a control string, after each of its annotator passes.
Pipeline(string) ==
    LET after[i \in 0 .. Instances] ==
            IF i = 0 THEN NewProcess ELSE RunOnModule(after[i - 1], i - 1, string)
    IN  after

\* The first runs instances work, the others return at once.
Compile(string, runs) ==
    Pipeline(string)[IF runs < Instances THEN runs ELSE Instances]

\* Only the last of the runs requested prints what it finds unspecified.
Reports(p, runs) == runs <= Instances /\ p.unspecified # NothingIn

CacheAnswered(p) == \E a \in p.asked : a.source = "cache"

-------------------------------------------------------------------------------

TypeOK ==
    /\ meets \in [Value -> SUBSET Instance]
    /\ enough \in 1 .. MaxLevel + 1
    /\ round \in 0 .. Rounds
    /\ phase \in {"scan", "search", "stopped"}
    /\ control \in [Function -> Seq(Entry)]
    /\ process \in Process
    /\ reused \in BOOLEAN

Init ==
    /\ meets \in [Value -> SUBSET Instance]
    /\ enough \in 1 .. MaxLevel + 1
    /\ round = 0
    /\ phase = "scan"
    /\ control = NothingIn
    /\ process = NewProcess
    /\ reused = FALSE

\* determineOptimisticChoices: compile with one more annotator pass and read
\* what it reports; with nothing reported the next round follows.
SlipScan ==
    /\ phase = "scan"
    /\ round < Rounds
    /\ round' = round + 1
    /\ process' = Compile(NothingIn, round')
    /\ phase' = IF Reports(process', round') THEN "search" ELSE "scan"
    /\ reused' = (reused \/ CacheAnswered(process'))
    /\ UNCHANGED <<meets, enough, control>>
Scan ==
    /\ phase = "scan"
    /\ round < Rounds
    /\ round' = round + 1
    /\ process' = Compile(control, round')
    /\ phase' = IF Reports(process', round') THEN "search" ELSE "scan"
    /\ reused' = (reused \/ CacheAnswered(process'))
    /\ UNCHANGED <<meets, enough, control>>

\* The report goes function by function: what it says before some place, per
\* function.
Counted == [f \in Function |-> Len(process.unspecified[f])]
CutAt(last, n) ==
    [f \in Function |-> IF f < last THEN Counted[f] ELSE IF f = last THEN n ELSE 0]

\* Levels for the values reported before a cut, out of their options.
Before(cut) ==
    {v \in Value : \E k \in 1 .. cut[v[1]] : process.unspecified[v[1]][k] = v}
LevelsFor(values) ==
    {level \in [values -> 0 .. MaxLevel] :
        \A v \in values : level[v] < NumChoices[v]}

\* ChoiceExplorer.__init__ appends an entry for every reported choice, in the
\* order of the report.
Entries(cut, level) ==
    [f \in Function |->
        [k \in 1 .. cut[f] |-> [value |-> process.unspecified[f][k],
                                level |-> level[process.unspecified[f][k]]]]]
SlipInFront(entries) == [f \in Function |-> entries[f] \o control[f]]
Appended(entries) == [f \in Function |-> control[f] \o entries[f]]

\* The string a search ends with is compiled by all passes.  Any level may
\* come out of it; a limit cuts it after some of the new entries, or leaves
\* an empty string, and ends the tuning of the file.
Search ==
    /\ phase = "search"
    /\ \E last \in Function : \E n \in 0 .. Counted[last] :
       LET cut == CutAt(last, n)
       IN  /\ \E level \in LevelsFor(Before(cut)) :
                 control' = IF cut = [f \in Function |-> 0] THEN NothingIn
                            ELSE Appended(Entries(cut, level))
           /\ phase' \in IF cut = Counted THEN {"scan", "stopped"} ELSE {"stopped"}
    /\ process' = Compile(control', Instances)
    /\ reused' = (reused \/ CacheAnswered(process'))
    /\ UNCHANGED <<meets, enough, round>>

Next == Scan \/ Search

Spec == Init /\ [][Next]_vars

-------------------------------------------------------------------------------
(* Properties *)

AlignedAt(instances) ==
    \A a \in process.asked :
        a.instance \in instances /\ a.entry # None => a.entry.value = a.value

\* An entry of the string is counted off by lookups, in the scan that reports
\* a choice and in every later build.  The first instance reads for each
\* value the entry that was written for it.
AlignedInFirstInstance == AlignedAt({0})

\* So do all instances as long as the name cache has answered no lookup: a
\* lookup it answers takes a position, but is not reported and has no entry
\* in the string.
AlignedUnlessReused == ~reused => AlignedAt(Instance)

\* Each choice is reported in one round only, so that its function's string
\* has one entry for it.
ReportedOnce ==
    ~reused => \A f \in Function : \A i, j \in DOMAIN control[f] :
                   control[f][i].value = control[f][j].value => i = j

\* A level that is used has been chosen among the options of the value, and
\* createSpeculativeAssumptions asserts it before it takes the constant with
\* that number (Annotator.cpp, line 1062).  Its values have as many options as
\* there are constants they are compared with.
LevelInRange == \A v \in Value : process.level[v] < NumChoices[v]

\* Only a lookup the name cache answers can break that, and does: it gives a
\* value the level of another one with the same name.
InRangeUnlessReused == ~reused => LevelInRange

\* What was chosen is what is compiled: in every process the values have the
\* levels of all entries, those of earlier rounds included, although later
\* instances look the same values up again.  (A lookup the cache answers could
\* take the place of an entry, and a value's last lookup decides.)
EntriesTakeEffect ==
    ~reused => \A f \in Function : \A k \in DOMAIN control[f] :
                   process.level[control[f][k].value] = control[f][k].level

-------------------------------------------------------------------------------
(* The inductive invariant *)

\* The first n instances find the right entry for every value they ask for,
\* and leave none over.
Serves(string, n) ==
    \A a \in Pipeline(string)[n].asked : a.entry # None /\ a.entry.value = a.value
Exact(string, n) ==
    \A f \in Function : Pipeline(string)[n].index[f] = Len(string[f])

\* The instances that a scan of this round lets work.
Turns == IF round < Instances THEN round ELSE Instances

\* Every entry is a level among the options of its value.
EntriesInRange(string) ==
    \A f \in Function : \A k \in 1 .. Len(string[f]) :
        string[f][k].level < NumChoices[string[f][k].value]

\* Between the searches the string serves the first instance, and as long as
\* no name was reused it serves those of all rounds exactly.
BetweenSearches ==
    phase = "scan" =>
        /\ round > 0 => Serves(control, 1)
        /\ ~reused => Serves(control, Turns) /\ Exact(control, Turns)

\* A search has to do with what the next instance found unspecified.
BeforeSearch ==
    phase = "search" =>
        /\ round \in 1 .. Instances
        /\ process = Pipeline(control)[round] /\ process.unspecified # NothingIn
        /\ round = 1 => control = NothingIn /\ ~reused
        /\ round > 1 => Serves(control, 1)
        /\ ~reused => /\ Serves(control, round - 1) /\ Exact(control, round - 1)
                      /\ ~CacheAnswered(process)

IInv ==
    /\ TypeOK
    /\ AlignedInFirstInstance /\ AlignedUnlessReused
    /\ ReportedOnce /\ InRangeUnlessReused /\ EntriesTakeEffect
    /\ EntriesInRange(control)
    /\ round = 0 => control = NothingIn /\ ~reused
    /\ BetweenSearches /\ BeforeSearch

===============================================================================
