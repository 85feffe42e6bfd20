------------------------------ MODULE SlotNames ------------------------------
(***************************************************************************)
(* The names proposed for the slots of a session                            *)
(* (internal/preflight/preflight.go, GenerateSlotNames).  A text is a       *)
(* sequence of characters, because two names collide as texts: through a    *)
(* truncated player, or a digit that ends an abbreviation.  The initial of  *)
(* a word of a game is upper case already.  Base is 10 in the code; a       *)
(* smaller one makes counters of several digits with few slots.             *)
(***************************************************************************)
EXTENDS Naturals, Sequences, FiniteSets, Filters

CONSTANTS
    Slot,           \* slot ids
    Player,         \* names of players
    Game,           \* names of games: sequences of words [initial, stop]
    Alphanumeric,   \* the characters sanitizePlayerName keeps
    DefaultPlayer,  \* "Player"
    SlotMaxLen,     \* slotMaxLen
    Base            \* of the counter's numeral

ASSUME SlotNamesAssumption ==
    /\ SlotMaxLen \in Nat \ {0}
    /\ Base \in 2..10
    /\ \A p \in Player : p \in Seq(STRING)
    /\ \A g \in Game : g \in Seq([initial : STRING, stop : BOOLEAN])
    /\ DefaultPlayer \in Seq(STRING)

VARIABLES
    used,     \* the names given
    perPair,  \* how often each pair of player and abbreviation was met
    names     \* the result: slot id -> name

namesVars == <<used, perPair, names>>

Digit == <<"0", "1", "2", "3", "4", "5", "6", "7", "8", "9">>
Numeral[n \in Nat] ==
    IF n < Base THEN <<Digit[n + 1]>> ELSE Append(Numeral[n \div Base], Digit[(n % Base) + 1])

Prefix(s, n) == IF Len(s) > n THEN SubSeq(s, 1, n) ELSE s
LastOf(s, n) == IF Len(s) > n THEN SubSeq(s, Len(s) - n + 1, Len(s)) ELSE s

\* The initials of the words that are not stop words, of all the words if
\* they all are; four at most; "G" for a name without a word.
AbbreviateGame(game) ==
    LET significant == Filter(game, LAMBDA w : ~w.stop)
        chosen == IF significant = <<>> THEN game ELSE significant
    IN  IF chosen = <<>> THEN <<"G">>
        ELSE Prefix([i \in DOMAIN chosen |-> chosen[i].initial], 4)

SanitizePlayerName(name) ==
    LET kept == Filter(name, LAMBDA c : c \in Alphanumeric)
    IN  IF kept = <<>> THEN DefaultPlayer ELSE kept

\* For a mutant: a suffix as long as the limit passes, and the player keeps
\* a character.
BuildSlotNameOffByOne(player, abbr, n) ==
    LET suffix == <<"_">> \o abbr \o Numeral[n]
    IN  IF Len(suffix) <= SlotMaxLen
        THEN Prefix(player, IF Len(suffix) < SlotMaxLen THEN SlotMaxLen - Len(suffix) ELSE 1) \o suffix
        ELSE LastOf(Numeral[n], SlotMaxLen)

\* The suffix gives up the abbreviation, then the player, when it is too long.
BuildSlotName(player, abbr, n) ==
    LET long == <<"_">> \o abbr \o Numeral[n]
        suffix == IF Len(long) < SlotMaxLen THEN long ELSE <<"_">> \o Numeral[n]
    IN  IF Len(suffix) < SlotMaxLen
        THEN Prefix(player, SlotMaxLen - Len(suffix)) \o suffix
        ELSE LastOf(Numeral[n], SlotMaxLen)

Met(pair) == IF pair \in DOMAIN perPair THEN perPair[pair] ELSE 0
Put(f, x, y) == [z \in DOMAIN f \cup {x} |-> IF z = x THEN y ELSE f[z]]

\* For a mutant: the counter of the pair is taken to make the name free.
FirstFreeByPair(player, abbr, idx, n) == n = idx

\* The first counter from idx on whose name is free.
FirstFree(player, abbr, idx, n) ==
    /\ BuildSlotName(player, abbr, n) \notin used
    /\ \A k \in idx..(n - 1) : BuildSlotName(player, abbr, k) \in used

------------------------------------------------------------------------------
NamesInit == used = {} /\ perPair = <<>> /\ names = <<>>

\* One turn of the loop.
NameSlot(slot, player, game) ==
    LET base == SanitizePlayerName(player)
        abbr == AbbreviateGame(game)
        idx == Met(<<base, abbr>>) + 1
    IN  \E n \in idx..(idx + Cardinality(used)) :
          /\ FirstFree(base, abbr, idx, n)
          /\ perPair' = Put(perPair, <<base, abbr>>, idx)
          /\ used' = used \cup {BuildSlotName(base, abbr, n)}
          /\ names' = Put(names, slot, BuildSlotName(base, abbr, n))

NamesNext ==
    \E slot \in Slot \ DOMAIN names, player \in Player, game \in Game : NameSlot(slot, player, game)

NamesSpec == NamesInit /\ [][NamesNext]_namesVars

------------------------------------------------------------------------------
NamesTypeOK ==
    /\ DOMAIN names \subseteq Slot
    /\ used = {names[slot] : slot \in DOMAIN names}

\* No two slots are proposed the same name, whatever is cut off their
\* players and however their abbreviations end (preflight.go:87, "unique").
UniqueNames ==
    \A a, b \in DOMAIN names : names[a] = names[b] => a = b

\* A name is at least one character and at most SlotMaxLen (preflight.go:87),
\* for players and games of any length and counters of several digits.
ShortNames == \A slot \in DOMAIN names : Len(names[slot]) \in 1..SlotMaxLen
==============================================================================
