--------------------------- MODULE MCPageAnalysis ---------------------------
(* PageAnalysis for TLC: up to four of five boxes, two of which overlap a    *)
(* third by just the threshold, and up to two tokens.                       *)
EXTENDS PageAnalysis, SequencesExt

Box(x, y, w, h) == [x |-> x, y |-> y, width |-> w, height |-> h]

Boxes == { Box(0, 0, 4, 4), Box(1, 0, 4, 4), Box(2, 0, 4, 4), Box(8, 0, 3, 3), Box(4, 6, 4, 4) }

BySize(s) == \A i, j \in DOMAIN s : i < j => Area(s[j]) <= Area(s[i])

Tok(x, y, text, confidence) == [at |-> [x |-> x, y |-> y], text |-> text, confidence |-> confidence]

Tokens == { Tok(8, 3, <<"P">>, 90), Tok(12, 6, <<"P", "I", "C">>, 90), Tok(12, 6, <<"T", "K">>, 50),
            Tok(14, 8, <<"P", "T">>, 90), Tok(8, 3, <<"P">>, 40) }

TokenLists == {<<>>} \cup {<<t>> : t \in Tokens} \cup {<<t, u>> : t, u \in Tokens}
                \cup {<<Tok(8, 3, <<"P">>, 90), Tok(18, 3, <<"P", "T">>, 90), Tok(12, 14, <<"P">>, 90)>>}

MCPages == [candidates : {s \in SetToAllKPermutations(Boxes) : BySize(s) /\ Len(s) <= 4},
            tokens : TokenLists]
=============================================================================
