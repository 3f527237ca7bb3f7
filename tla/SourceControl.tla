----------------------------- MODULE SourceControl -----------------------------
(***************************************************************************)
(* Choices that live in a source file.  At the end of an experiment        *)
(* writeControl stores the levels of a file in the file itself, two lines  *)
(* for each function:                                                      *)
(*    static const char *f_OptimisticChoices = "...";                      *)
(*    const char **KeepAlive_f_file = &f_OptimisticChoices;                *)
(* The next compilation finds them there (initializeChoiceMaps), and an    *)
(* experiment on the annotated file adds to them.                          *)
(*                                                                         *)
(* The lines of a function are searched by text, so that they are mistaken *)
(* for lines of another function whose name they contain.  Of a name only  *)
(* that matters: EndsWith and StartsWith relate a name to those it ends    *)
(* and starts with ("sprintf" to "printf", "residual_and_restriction" to   *)
(* "residual": sources of PathFinder and miniGMG).  Of a control string     *)
(* only the levels matter that it has for each kind ("#c"), in their order. *)
(***************************************************************************)
EXTENDS Integers, SequencesExt

CONSTANTS
    Function, Kind, Level,
    EndsWith, StartsWith,  \* <<g, f>>: the name g ends, starts with f, g # f
    Newlines,              \* may the source end with a newline, or without
    CodeLines,             \* lines of the source as the user wrote it
    MaxChoices,            \* choices one experiment adds to a file, at most
    MaxExperiments,        \* experiments on the file
    None

ASSUME NamesAssumption ==
    /\ EndsWith \cup StartsWith \subseteq
         {pair \in Function \X Function : pair[1] # pair[2]}
    /\ None \notin Function \cup Nat
ASSUME SourceAssumption == Newlines \subseteq BOOLEAN /\ CodeLines \in Nat \ {0}
ASSUME BoundAssumption == MaxChoices \in Nat /\ MaxExperiments \in Nat

Choice == [function : Function, kind : Kind, level : Level]
ControlString == [Kind -> Seq(Level)]
NoString == [k \in Kind |-> <<>>]

VARIABLES
    file,       \* the lines of the source file
    pending,    \* the lines writeControl is about to write
    phase,      \* "idle", "writing" (the file is truncated), "crashed"
    crashes,    \* history: how often a write was cut short
    experiments,
    newline,    \* did the source end with a newline
    tuned       \* history: the strings of the last verified build

vars == <<file, pending, phase, crashes, experiments, newline, tuned>>

\* A line has code of the user, the definition of a string (def, string), a
\* reference to one that keeps it alive (ref), or code and a definition.
SourceLine == [code : 1 .. CodeLines \cup {None}, def : Function \cup {None},
               string : ControlString, ref : Function \cup {None}, eol : BOOLEAN]
Line(code, def, string, ref, eol) ==
    [code |-> code, def |-> def, string |-> string, ref |-> ref, eol |-> eol]
Source == [i \in 1 .. CodeLines |->
              Line(i, None, NoString, None, i < CodeLines \/ newline)]

-------------------------------------------------------------------------------
(* What the compiler finds *)

HasCode(lines, i) == \E n \in DOMAIN lines : lines[n].code = i
HasDef(lines, f) == \E n \in DOMAIN lines : lines[n].def = f
HasRef(lines, f) == \E n \in DOMAIN lines : lines[n].ref = f

\* Every reference needs its definition, the code has to be complete.  (That no
\* function has two is a part of TypeOK.)
Compiles ==
    /\ \A f \in Function : HasRef(file, f) => HasDef(file, f)
    /\ \A i \in 1 .. CodeLines : HasCode(file, i)

\* initializeChoiceMaps: the string of a function, if something keeps it
\* alive.  (A static variable that is not used is not emitted.)
InSource(lines, f) ==
    IF HasRef(lines, f) /\ HasDef(lines, f)
    THEN lines[CHOOSE n \in DOMAIN lines : lines[n].def = f].string
    ELSE NoString

\* An empty string is not a ConstantDataArray: the function returns, before it
\* reads the string of the command line.
ReturnsEarly ==
    \E f \in Function : /\ HasRef(file, f) /\ HasDef(file, f)
                       /\ InSource(file, f) = NoString

\* The elements of s that are in S, in their order (SelectSeq for a set).
Only(s, S) ==
    LET only[n \in 0 .. Len(s)] ==
            IF n = 0 THEN <<>>
            ELSE IF s[n] \in S THEN Append(only[n - 1], s[n]) ELSE only[n - 1]
    IN  only[Len(s)]

\* The levels that choices of one function and kind end with.
NewLevels(choices, f, k) ==
    LET these == Only(choices, [function : {f}, kind : {k}, level : Level])
    IN  [n \in DOMAIN these |-> these[n].level]

\* The string of a function in a build: what the source has before what the
\* command line has, for each kind.
InBuild(f, choices) ==
    IF ReturnsEarly THEN InSource(file, f)
    ELSE [k \in Kind |-> InSource(file, f)[k] \o NewLevels(choices, f, k)]

-------------------------------------------------------------------------------
(* writeControl *)

\* The keys of f2_c2cs: the functions of the choices as they occur first.
Functions(choices) ==
    LET firsts == {n \in DOMAIN choices :
                      \A m \in 1 .. n - 1 : choices[m].function # choices[n].function}
        order == Only([n \in DOMAIN choices |-> n], firsts)
    IN  [n \in DOMAIN order |-> choices[order[n]].function]

\* (The definitions named Slip... are mistakes the code could have made in
\* the operator that follows: the properties below tell them apart.)

\* KeepAlive_{f} occurs in the line, or {f}_OptimisticChoices = "
SlipMatches(line, f) ==
    line.ref # None /\ (line.ref = f \/ <<line.ref, f>> \in StartsWith)
Matches(line, f) ==
    \/ line.ref # None /\ (line.ref = f \/ <<line.ref, f>> \in StartsWith)
    \/ line.def # None /\ (line.def = f \/ <<line.def, f>> \in EndsWith)

\* A line is taken for the first function that matches.
IsTakenFor(line, functions, n) ==
    /\ Matches(line, functions[n])
    /\ \A m \in 1 .. n - 1 : ~ Matches(line, functions[m])

Kept(functions) ==
    Only(file, {line \in ToSet(file) :
                   \A n \in DOMAIN functions : ~ Matches(line, functions[n])})

\* c2cs[-1]: the string of the last definition that is taken for a function
Earlier(functions, n) ==
    LET at == {i \in DOMAIN file :
                  file[i].def # None /\ IsTakenFor(file[i], functions, n)}
    IN  IF at = {} THEN NoString ELSE file[Max(at)].string

\* The new string of a function: what it had, then the choices by kind.
SlipString(functions, n, choices) ==
    [k \in Kind |->
        NewLevels(choices, functions[n], k) \o Earlier(functions, n)[k]]
String(functions, n, choices) ==
    [k \in Kind |->
        Earlier(functions, n)[k] \o NewLevels(choices, functions[n], k)]

\* The two lines of each function.
NewLines(functions, choices) ==
    [m \in 1 .. 2 * Len(functions) |->
        LET n == (m + 1) \div 2
        IN  IF m = 2 * n THEN Line(None, None, NoString, functions[n], TRUE)
            ELSE Line(None, functions[n], String(functions, n, choices), None, TRUE)]

\* The lines are joined as they are: after a last line without newline the
\* first definition continues that line.
Continued(kept) == kept # <<>> /\ ~ Last(kept).eol
SlipJoined(kept, new) ==
    IF kept = <<>> THEN new
    ELSE [kept EXCEPT ![Len(kept)] = [new[1] EXCEPT !.code = Last(kept).code]]
             \o Tail(new)
Joined(kept, new) ==
    LET n == IF Continued(kept) THEN Len(kept) - 1 ELSE Len(kept)
    IN  [i \in 1 .. n + Len(new) |->
            IF i <= n THEN kept[i]
            ELSE IF i = Len(kept) THEN [new[1] EXCEPT !.code = Last(kept).code]
            ELSE new[i - n]]

Written(choices) ==
    LET functions == Functions(choices)
    IN  Joined(Kept(functions), NewLines(functions, choices))

-------------------------------------------------------------------------------

\* No function is defined or kept alive twice; a line that is not ended is the
\* user's last one.
WellFormed(lines) ==
    /\ lines \in Seq(SourceLine)
    /\ \A i \in DOMAIN lines :
          /\ lines[i].string # NoString <=> lines[i].def # None
          /\ lines[i].code # None => lines[i].ref = None
          /\ lines[i].code = None => (lines[i].def = None) # (lines[i].ref = None)
          /\ ~ lines[i].eol => i = Len(lines) /\ lines[i].code = CodeLines
                                /\ lines[i].def = None /\ ~ newline
    /\ \A i, j \in DOMAIN lines :
          /\ lines[i].def = lines[j].def => i = j \/ lines[i].def = None
          /\ lines[i].ref = lines[j].ref => i = j \/ lines[i].ref = None

TypeOK ==
    /\ WellFormed(file) /\ WellFormed(pending)
    /\ phase \in {"idle", "writing", "crashed"}
    /\ crashes \in Nat
    /\ experiments \in 0 .. MaxExperiments
    /\ newline \in BOOLEAN
    /\ tuned \in [Function -> ControlString]

Init ==
    /\ newline \in Newlines
    /\ file = Source
    /\ pending = <<>>
    /\ phase = "idle"
    /\ crashes = 0
    /\ experiments = 0
    /\ tuned = [f \in Function |-> NoString]

\* An experiment whose initial build succeeded finds choices; the file is
\* read and opened for writing, which truncates it.
Experiment ==
    /\ phase \in {"idle", "crashed"}
    /\ experiments < MaxExperiments
    /\ Compiles
    /\ experiments' = experiments + 1
    /\ \E choices \in SeqOf(Choice, MaxChoices) \ {<<>>} :
          /\ tuned' = [f \in Function |-> InBuild(f, choices)]
          /\ pending' = Written(choices)
    /\ file' = <<>>
    /\ phase' = "writing"
    /\ UNCHANGED <<crashes, newline>>

FinishWriting ==
    /\ phase = "writing"
    /\ file' = pending
    /\ pending' = <<>>
    /\ phase' = "idle"
    /\ UNCHANGED <<crashes, experiments, newline, tuned>>

\* The tuner is killed, or the disk is full: a part of the lines is there.  (A
\* broken last line is no better than a missing one.)
Crash ==
    /\ phase = "writing"
    /\ \E n \in 0 .. Len(pending) - 1 : file' = SubSeq(pending, 1, n)
    /\ pending' = <<>>
    /\ phase' = "crashed"
    /\ crashes' = crashes + 1
    /\ UNCHANGED <<experiments, newline, tuned>>

Next == Experiment \/ FinishWriting \/ Crash

Spec == Init /\ [][Next]_vars

-------------------------------------------------------------------------------
(* Properties *)

\* A compilation of the file finds the levels that were verified.
Found(f) == InSource(file, f) = tuned[f]

\* "we automatically accumulate optimistic static program annotations under
\* which the program remains valid" (ISC19.pdf, page 2): what was written
\* compiles, to the choices that were verified.  (After a crash nobody expects
\* it: a definition without its reference is dead until the next experiment
\* reads its string into the new one, which was verified without it.)
StandsForTuned ==
    phase = "idle" /\ crashes = 0 =>
        Compiles /\ \A f \in Function : Found(f)

\* A name that neither is part of another name nor has one as its part keeps
\* its choices over all experiments, whatever happens to the other functions;
\* the first crash leaves it all of them or none.
Apart(f) ==
    \A pair \in EndsWith \cup StartsWith : f \notin {pair[1], pair[2]}
ApartKeepsChoices ==
    \A f \in Function :
        Apart(f) =>
            /\ phase = "idle" /\ crashes = 0 => Found(f)
            /\ phase = "crashed" /\ crashes = 1 => Found(f) \/ InSource(file, f) = NoString

\* Lines of the user that stay: nothing is appended to them.
Safe(i) == i < CodeLines \/ newline
HasSafeCode(lines) == \A i \in 1 .. CodeLines : Safe(i) => HasCode(lines, i)

\* The code is in its order, no line of it twice.
InOrder(lines) ==
    \A m, n \in DOMAIN lines :
        m < n /\ lines[m].code # None /\ lines[n].code # None =>
            lines[m].code < lines[n].code

\* After a line of code that is missing there is no code.
OnlyEndIsLost(lines) ==
    \A i, j \in 1 .. CodeLines :
        Safe(i) /\ ~ HasCode(lines, i) /\ i < j => ~ HasCode(lines, j)

\* The user's code through experiments and crashes (lines 388-427).  Once the
\* file is truncated it is in memory only, and all of it is there; a file that
\* was written to its end has all of it; and a crash loses the end of the code
\* (all of it, if nothing was written), never a line before one that is left.
\* Nothing is moved or doubled.  (A last line without newline is not Safe: the
\* first definition continues it, and the next experiment drops that line with
\* the definition, lines 395-409.)
CodeSurvives ==
    /\ InOrder(file)
    /\ phase = "idle" => HasSafeCode(file)
    /\ phase = "writing" => HasSafeCode(pending)
    /\ phase = "crashed" => OnlyEndIsLost(file)

-------------------------------------------------------------------------------
(* The inductive invariant *)

\* A line of the user that stays has nothing else in it.
CodeIsApart(lines) ==
    \A n \in DOMAIN lines :
        \A i \in 1 .. CodeLines :
            lines[n].code = i /\ Safe(i) => lines[n].def = None

\* What is there of a function is what was verified with it.
Complete(lines, f) ==
    /\ HasDef(lines, f) <=> HasRef(lines, f)
    /\ InSource(lines, f) = tuned[f]

IInv ==
    /\ TypeOK
    /\ CodeIsApart(file) /\ CodeIsApart(pending)
    /\ CodeSurvives /\ InOrder(pending)
    /\ phase = "crashed" => crashes > 0
    /\ crashes = 0 /\ phase = "idle" =>
          \A f \in Function : Apart(f) => Complete(file, f)
    /\ crashes = 0 /\ phase = "writing" =>
          \A f \in Function : Apart(f) => Complete(pending, f)
    /\ ApartKeepsChoices

===============================================================================
