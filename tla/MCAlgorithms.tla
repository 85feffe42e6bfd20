----------------------------- MODULE MCAlgorithms -----------------------------
(* Small instances for TLC of the program's pure algorithms, each on every    *)
(* input of the sets below, and of the inputs of a generation: one of these   *)
(* in an execution.                                                           *)
EXTENDS SlotNames, Templates, Artifacts, Inputs, TLC

VARIABLE task  \* the algorithm of this execution

vars == <<task, namesVars, templateVars, artifactVars, inputsVars>>

Init ==
    /\ task \in {"names", "template", "output", "inputs"}
    /\ NamesInit /\ TemplateInit /\ ArtifactsInit /\ InputsInit
    /\ task # "template" => layout = CHOOSE l \in Layouts : TRUE

Next ==
    /\ \/ task = "names" /\ NamesNext /\ UNCHANGED <<templateVars, artifactVars, inputsVars>>
       \/ task = "template" /\ TemplateNext /\ UNCHANGED <<namesVars, artifactVars, inputsVars>>
       \/ task = "output" /\ ArtifactsNext /\ UNCHANGED <<namesVars, templateVars, inputsVars>>
       \/ task = "inputs" /\ InputsNext /\ UNCHANGED <<namesVars, templateVars, artifactVars>>
    /\ UNCHANGED task

Spec == Init /\ [][Next]_vars

Symmetry == Permutations(Slot) \cup Permutations(Configurer)

------------------------------------------------------------------------------
\* Two players alike but for their ends, one without a letter; games whose
\* abbreviations are "G", "G1", "T" (a stop word alone) and none.
Word(c) == [initial |-> c, stop |-> FALSE]
Stop(c) == [initial |-> c, stop |-> TRUE]
Players == {<<"a", "b", "c">>, <<"a", "b", "-", "d">>, <<"-">>}
Games == {<<Stop("T"), Word("G")>>, <<Word("G"), Word("1")>>, <<Stop("T")>>, <<>>}
Letters == {"a", "b", "c", "d"}
Nobody == <<"P", "l", "a", "y", "e", "r">>

------------------------------------------------------------------------------
Line(kind) == [kind |-> kind]
Key(k) == [kind |-> "key", key |-> k]
Minimum(n) == [kind |-> "min", bound |-> n]
Maximum(n) == [kind |-> "max", bound |-> n]
Value(k, int, weight, equiv) ==
    [kind |-> "value", key |-> k, int |-> int, weight |-> weight, equiv |-> equiv, random |-> FALSE]
Random(weight) ==
    [kind |-> "value", key |-> "random", int |-> None, weight |-> weight, equiv |-> None, random |-> TRUE]

\* Where options begin and end; what the values of one option make of it.
Shapes == [opening |-> <<>>, max |-> 5,
           lines |-> {Line("section"), Line("top"), Line("group"), Key("a"), Key("b"), Line("odd"),
                      Line("text"), Value("red", None, 50, None)}]
Values == [opening |-> <<Line("section"), Key("a")>>, max |-> 6,
           lines |-> {Value("true", None, 50, None), Value("true", None, 0, None),
                      Value("false", None, 50, None), Value("false", None, 0, None),
                      Value("red", None, 50, None), Value("5", 5, 0, None), Value("7", 7, 50, None),
                      Value("low", None, 0, 1), Value("high", None, 50, 9),
                      Random(50), Line("junk"), Minimum(0), Maximum(9)}]
Comments == [opening |-> <<Line("section"), Key("a"), Value("5", 5, 50, None)>>, max |-> 7,
             lines |-> {Minimum(0), Minimum(1), Maximum(9), Line("hint"), Line("text"), Line("blank")}]
AllLayouts == {Shapes, Values, Comments}

------------------------------------------------------------------------------
File(folder, stem, ext, data) ==
    [dir |-> FALSE, folder |-> folder, stem |-> stem, ext |-> ext, data |-> data]
Folder(name) == [dir |-> TRUE, folder |-> name, stem |-> "", ext |-> "", data |-> [plain |-> ""]]
Plain(x) == [plain |-> x]
Bundle == [zip |-> <<File("", "AP", "archipelago", Plain("x")), Folder("d"),
                     File("d", "AP", "apsave", Plain("y")), File("", "P1", "patch", Plain("y"))>>]
Outputs == {File("", "AP", "archipelago", Plain("x")), File("", "P1", "patch", Plain("x")),
            File("d", "P1", "patch", Plain("y")), File("", "AP", "apsave", Plain("x")),
            File("", "AP", "zip", Bundle), Folder("d")}
Imports == {[stem |-> "AP", ext |-> "archipelago", data |-> Plain("x")],
            [stem |-> "AP", ext |-> "archipelago", data |-> Bundle],
            [stem |-> "AP", ext |-> "zip", data |-> Bundle],
            [stem |-> "AP", ext |-> "zip", data |-> Plain("x")],
            [stem |-> "AP", ext |-> "apsave", data |-> Plain("x")],
            [stem |-> "AP", ext |-> "apsave", data |-> Bundle]}

------------------------------------------------------------------------------
\* Two players and two worlds: the players exchange worlds, share one, come, go,
\* and one of them is given twice.
Plays(player, world) == [player |-> player, world |-> world]
Rooms == {<<Plays("p1", "w1")>>, <<Plays("p2", "w2"), Plays("p1", "w1")>>,
          <<Plays("p1", "w2"), Plays("p2", "w2")>>, <<Plays("p1", "w1"), Plays("p1", "w2")>>}
================================================================================
