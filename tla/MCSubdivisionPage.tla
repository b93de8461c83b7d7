-------------------------- MODULE MCSubdivisionPage --------------------------
(* Answers of up to three rows with labels that trouble a CSV, and one-row  *)
(* answers with every pair of English names of up to three characters.      *)
EXTENDS SubdivisionPage, TLC

MCCharacters ==
    Special \cup {"a", "A", "acute", "blank", "a_acute", "hyphen", "X", "Y", "1", "2", "3", "9", "Q1", "Q2", "en", "zh", "fr"}
MCCountries == {"X", "Y"}
MCContainment ==
    <<"X">> :> {<<"X", "1">>, <<"X", "2">>} @@ <<"X", "2">> :> {<<"X", "3">>} @@ <<"Y">> :> {<<"Y", "1">>}

Texts(chars, length) == UNION {[1..n -> chars] : n \in 0..length}
Row(item, label, code, language) == <<<<item>>, label, code, <<language>>>>
Code(c, n) == <<c, "hyphen", n>>

(* X2 and Y1 have no English name, X9 is below no country.                  *)
Named == (<<"X", "1">> :> <<"a">>) @@ (<<"X", "3">> :> <<"A">>) @@ (<<"X", "9">> :> <<"a">>)

Rows(labels, codes, languages) ==
    {Row(i, l, c, g) : i \in {"Q1", "Q2"}, l \in labels, c \in codes, g \in languages}
AllCodes == {Code("X", n) : n \in {"1", "2", "3", "9"}} \cup {Code("Y", "1"), <<"1">>}
Awkward == {<< >>, <<"quote">>, <<"CR", "LF">>}

Many ==
    UNION {[1..n -> Rows({<<"a">>, <<"CR">>}, {Code("X", "1"), Code("X", "2")}, {"en", "zh"})] : n \in {0, 3}}
      \cup [1..2 -> Rows(Awkward, AllCodes, {"en", "fr"})]
      \cup {<<Row("Q1", l, Code("X", "1"), "en")>> : l \in Texts(Special \cup {"a"}, 4)}

(* The accent is a mark in Wikidata's names and part of the letter in CLDR's. *)
Wikidata == {"a", "A", "acute", "blank", "hyphen"}
Cldrs == {"a", "a_acute", "blank", "hyphen"}
Pairs ==
    {<< <<Row("Q1", w, Code("X", "1"), "en")>>, <<"X", "1">> :> c >> :
        w \in Texts(Wikidata, 3), c \in Texts(Cldrs, 3) \ {<< >>}}

MCInputs == {<<a, Named>> : a \in Many} \cup Pairs
=============================================================================
