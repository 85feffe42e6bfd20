------------------------------- MODULE Templates -------------------------------
(***************************************************************************)
(* The parser of an Archipelago option template                             *)
(* (internal/templateparser/parser.go), a line at a time.  A line is what   *)
(* the parser tells apart by its indentation and its text:                  *)
(*                                                                          *)
(*   "section"  indent 0, "Game:" other than a top-level key                *)
(*   "top"      indent 0, anything else                                     *)
(*   "group"    indent 2, a comment                                         *)
(*   "key"      indent 2, "key:"                                            *)
(*   "odd"      indent 2 with another text, or an indentation of 1 or 3     *)
(*   "min", "max"  indent 4 or more, "# Minimum value is n"                 *)
(*   "hint", "text", "blank"  indent 4 or more, another comment             *)
(*   "value"    indent 4 or more, "key: weight # equivalent to n"           *)
(*   "junk"     indent 4 or more, a value without a weight                  *)
(*                                                                          *)
(* Numbers written as text are the numbers; quotes around a key are gone.   *)
(* Empty lines are skipped by the code and left out.                        *)
(***************************************************************************)
EXTENDS Integers, Sequences, Filters

CONSTANTS
    Layouts,    \* the templates tried: [opening, lines, max], the lines read
                \* first, those that may follow and how many lines at most
    None        \* nil

Text(lay) == lay.lines \cup {lay.opening[i] : i \in DOMAIN lay.opening}

\* A key has a text, a value a weight.
ASSUME TemplatesAssumption ==
    \A lay \in Layouts :
       /\ lay.opening \in Seq(Text(lay))
       /\ \A l \in Text(lay) :
             /\ l.kind = "key" => l.key # None
             /\ l.kind = "value" => l.weight \in Int

VARIABLES
    layout,         \* the layout of this execution
    lines,          \* the lines read
    inGameSection, curKey, curComments, curValues,  \* of Parse
    result,         \* the options found
    parsed          \* the end was reached

templateVars == <<layout, lines, inGameSection, curKey, curComments, curValues, result, parsed>>

Comment == {"min", "max", "hint", "text", "blank"}

------------------------------------------------------------------------------
\* parseValueLines: a line without a weight is no value.
ParseValueLines(values) == Filter(values, LAMBDA l : l.kind = "value")

Concrete(pairs) == Filter(pairs, LAMBDA p : ~p.random)
Number(p) == IF p.int # None THEN p.int ELSE p.equiv

\* The first of the pairs of the highest weight, if any is not negative.
FirstHeaviest(pairs) ==
    CHOOSE i \in DOMAIN pairs : \A j \in DOMAIN pairs :
        pairs[j].weight < pairs[i].weight \/ (pairs[j].weight = pairs[i].weight /\ i <= j)

\* For a mutant: the weight of a value with an equivalent is not looked at.
RangeDefaultUnweighted(pairs) ==
    LET named == Filter(Concrete(pairs), LAMBDA p : p.equiv # None)
        ints == Filter(Concrete(pairs), LAMBDA p : p.int # None)
    IN  IF named # <<>> THEN named[1].equiv
        ELSE IF ints # <<>> THEN ints[FirstHeaviest(ints)].int ELSE None

\* The equivalent of the first value that can be rolled, else the heaviest integer.
RangeDefault(pairs) ==
    LET named == Filter(Concrete(pairs), LAMBDA p : p.equiv # None /\ p.weight > 0)
        ints == Filter(Concrete(pairs), LAMBDA p : p.int # None /\ p.weight >= 0)
    IN  IF named # <<>> THEN named[1].equiv
        ELSE IF ints # <<>> THEN ints[FirstHeaviest(ints)].int ELSE None

IsToggle(pairs) ==
    /\ {pairs[i].key : i \in DOMAIN pairs} = {"true", "false"}
    /\ Concrete(pairs) = pairs

Weights(pairs) ==
    [k \in {pairs[i].key : i \in DOMAIN pairs} |->
        pairs[CHOOSE i \in DOMAIN pairs :
                /\ pairs[i].key = k
                /\ \A j \in DOMAIN pairs : j > i => pairs[j].key # k].weight]

\* A minimum in the comments makes a range whatever the keys are.
InferType(pairs, rangeMin) ==
    IF pairs = <<>> \/ (rangeMin = None /\ Concrete(pairs) = <<>>)
    THEN [type |-> "text", default |-> None, valid |-> <<>>, weights |-> <<>>]
    ELSE IF rangeMin # None \/ \A i \in DOMAIN Concrete(pairs) : Concrete(pairs)[i].int # None
    THEN [type |-> "range", default |-> RangeDefault(pairs), valid |-> <<>>, weights |-> <<>>]
    ELSE IF IsToggle(pairs)
    THEN [type |-> "toggle",
          default |-> IF \E i \in DOMAIN pairs : pairs[i].key = "true" /\ pairs[i].weight > 0
                      THEN "true" ELSE "false",
          valid |-> <<>>, weights |-> Weights(pairs)]
    ELSE [type |-> "choice",
          default |-> IF \E i \in DOMAIN pairs : pairs[i].weight >= 0
                      THEN pairs[FirstHeaviest(pairs)].key ELSE None,
          valid |-> [i \in DOMAIN pairs |-> pairs[i].key], weights |-> Weights(pairs)]

\* The bound a comment states, the first one if several do.
Bound(comments, kind) ==
    LET stated == Filter(comments, LAMBDA l : l.kind = kind)
    IN  IF stated = <<>> THEN None ELSE stated[1].bound

\* The comments that explain the option, without blank lines around them.
BuildDescription(comments) ==
    LET told == Filter(comments, LAMBDA l : l.kind \in {"text", "blank"})
        texts == {i \in DOMAIN told : told[i].kind = "text"}
    IN  IF texts = {} THEN <<>>
        ELSE SubSeq(told, CHOOSE i \in texts : \A j \in texts : i <= j,
                          CHOOSE i \in texts : \A j \in texts : i >= j)

BuildOption(key, comments, values) ==
    LET rangeMin == Bound(comments, "min")
        inferred == InferType(ParseValueLines(values), rangeMin)
    IN  [key |-> key, description |-> BuildDescription(comments),
         type |-> inferred.type, default |-> inferred.default,
         valid |-> inferred.valid, weights |-> inferred.weights,
         min |-> rangeMin,
         max |-> IF rangeMin # None THEN Bound(comments, "max") ELSE None]

------------------------------------------------------------------------------
TemplateInit ==
    /\ layout \in Layouts
    /\ lines = <<>> /\ inGameSection = FALSE
    /\ curKey = None /\ curComments = <<>> /\ curValues = <<>>
    /\ result = <<>> /\ parsed = FALSE

Flushed ==
    IF curKey = None THEN result ELSE Append(result, BuildOption(curKey, curComments, curValues))

\* The option under way, if there is one, is finished; key is the next one.
Flush(key) ==
    /\ result' = Flushed
    /\ curKey' = key
    /\ curComments' = <<>> /\ curValues' = <<>>

\* A line without indentation opens a game section, or ends the one read: a
\* comment in the first column does, too.
Unindented(l) ==
    /\ l.kind \in {"section", "top"}
    /\ IF l.kind = "section" \/ inGameSection
       THEN Flush(None) ELSE UNCHANGED <<result, curKey, curComments, curValues>>
    /\ inGameSection' = (l.kind = "section")

\* For a mutant: a group separator is passed over.
HeadingByKey(l) ==
    /\ l.kind \in {"group", "key"} /\ inGameSection
    /\ IF l.kind = "key" THEN Flush(l.key) ELSE UNCHANGED <<result, curKey, curComments, curValues>>
    /\ UNCHANGED inGameSection

\* A group separator finishes the option; a key starts the next one.
Heading(l) ==
    /\ l.kind \in {"group", "key"} /\ inGameSection
    /\ Flush(IF l.kind = "key" THEN l.key ELSE None)
    /\ UNCHANGED inGameSection

\* A comment or a value of the option under way.
Detail(l) ==
    /\ l.kind \in Comment \cup {"value", "junk"} /\ inGameSection /\ curKey # None
    /\ IF l.kind \in Comment
       THEN curComments' = Append(curComments, l) /\ UNCHANGED curValues
       ELSE curValues' = Append(curValues, l) /\ UNCHANGED curComments
    /\ UNCHANGED <<inGameSection, curKey, result>>

\* Everything else is passed over.
Passed(l) ==
    /\ \/ l.kind = "odd"
       \/ l.kind \notin {"section", "top"} /\ ~inGameSection
       \/ l.kind \in Comment \cup {"value", "junk"} /\ curKey = None
    /\ UNCHANGED <<inGameSection, curKey, curComments, curValues, result>>

ReadLine(l) ==
    /\ ~parsed /\ Len(lines) < layout.max
    /\ lines' = Append(lines, l)
    /\ Unindented(l) \/ Heading(l) \/ Detail(l) \/ Passed(l)
    /\ UNCHANGED <<layout, parsed>>

\* The input ends: the last option is finished.
EndOfTemplate ==
    /\ ~parsed /\ Len(lines) >= Len(layout.opening)
    /\ Flush(None) /\ parsed' = TRUE
    /\ UNCHANGED <<layout, lines, inGameSection>>

TemplateNext ==
    \/ \E l \in IF Len(lines) < Len(layout.opening)
                THEN {layout.opening[Len(lines) + 1]} ELSE layout.lines : ReadLine(l)
    \/ EndOfTemplate

------------------------------------------------------------------------------
\* The lines of keys of a game section, and the lines between a key and the
\* next heading or the end of its section, defined on the whole text.
Heads == {i \in DOMAIN lines :
            /\ lines[i].kind = "key"
            /\ \E s \in 1..i : /\ lines[s].kind = "section"
                               /\ \A j \in s..i : lines[j].kind # "top"}
BlockEnd(i) ==
    CHOOSE e \in i..Len(lines) :
       /\ \A j \in (i + 1)..e : lines[j].kind \notin {"section", "top", "group", "key"}
       /\ e < Len(lines) => lines[e + 1].kind \in {"section", "top", "group", "key"}
Block(i) == SubSeq(lines, i + 1, BlockEnd(i))

\* Each key of a game section, and nothing else, becomes one option, in the
\* order of the template, made of its own comments and values and of no other
\* option's, whatever ends it: a key, a separator, a section, the end of the
\* text (parser.go:36-99).
OptionsAreTheSections ==
    parsed =>
      LET heads == Ascending(Heads)
      IN  result = [n \in DOMAIN heads |->
                      BuildOption(lines[heads[n]].key,
                                  Filter(Block(heads[n]), LAMBDA l : l.kind \in Comment),
                                  Filter(Block(heads[n]), LAMBDA l : l.kind \in {"value", "junk"}))]

PairsOf(i) == ParseValueLines(Block(i))
Rolled(pairs) == {i \in DOMAIN pairs : pairs[i].weight > 0}

\* The default shown for an option is one a generation of the template could
\* roll, if a value of it can be: a weight of 0 is never the default when
\* another value has a positive one.  For a range the values are its numbers
\* (parser.go:165-284).
DefaultCanBeRolled ==
    parsed =>
      LET heads == Ascending(Heads)
      IN  \A n \in DOMAIN result :
            LET pairs == PairsOf(heads[n])
                numbers == Filter(Concrete(pairs), LAMBDA p : Number(p) # None)
            IN  /\ result[n].type = "range" /\ Rolled(numbers) # {} =>
                      \E i \in Rolled(numbers) : result[n].default \in {numbers[i].int, numbers[i].equiv}
                /\ result[n].type \in {"toggle", "choice"} /\ Rolled(pairs) # {} =>
                      \E i \in Rolled(pairs) : result[n].default = pairs[i].key
================================================================================
