--------------------------- MODULE NameDifference ----------------------------
(***************************************************************************)
(* How the page compares the English names of a subdivision                *)
(* (render_html.js): the two cells become one, or the characters in which  *)
(* they differ are highlighted, or the shorter one is.                     *)
(*                                                                         *)
(* A name is a sequence of characters: letters with and without an accent, *)
(* the accent as a combining mark, and separators.  A difference is the    *)
(* sets of positions to highlight, or Nothing.                             *)
(***************************************************************************)
EXTENDS Naturals, Sequences, SequencesExt

Composed == [a |-> "a_acute", A |-> "A_acute"]
LowerCase == [A |-> "a", A_acute |-> "a_acute"]
Letters == {"a", "A", "a_acute", "A_acute"}
Marks == {"acute"}
Blank == "blank"

Nfc(s) ==
    LET Compose(t, c) == IF c \in Marks /\ t # << >> /\ Last(t) \in DOMAIN Composed
                           THEN Append(Front(t), Composed[Last(t)]) ELSE Append(t, c)
    IN  FoldLeft(Compose, << >>, s)
Lower(s) == [i \in DOMAIN s |-> IF s[i] \in DOMAIN LowerCase THEN LowerCase[s[i]] ELSE s[i]]
Trim(s) ==
    LET solid == {i \in DOMAIN s : s[i] # Blank}
    IN  IF solid = {} THEN << >> ELSE SubSeq(s, Min(solid), Max(solid))
Canonical(s) == Lower(Nfc(s))

Nothing == [wikidata |-> {}, cldr |-> {}]
IsBlank(name) == Trim(name) = << >>

-----------------------------------------------------------------------------
(* The same name but for case and surrounding blanks, the shorter one when  *)
(* it begins or ends the other, or neither.                                 *)
compareEnglishNames(wikidataName, cldrName) ==
    LET wikidata == Lower(Trim(Nfc(wikidataName)))
        cldr == Lower(Trim(Nfc(cldrName)))
        Shorter(s, t) == Len(s) < Len(t) /\ (IsPrefix(s, t) \/ IsSuffix(s, t))
    IN  CASE IsBlank(wikidataName) -> "neither"
          [] ~IsBlank(wikidataName) /\ wikidata = cldr -> "same"
          [] ~IsBlank(wikidataName) /\ Shorter(wikidata, cldr) -> "wikidata"
          [] ~IsBlank(wikidataName) /\ Shorter(cldr, wikidata) -> "cldr"
          [] OTHER -> "neither"

(* The letters of a name, each with its marks, and the separators in front  *)
(* of, between and after them, with their positions.                        *)
splitLettersAndSeparators(value) ==
    LET Split(p, i) ==
            LET c == value[i] n == Len(p.letters)
            IN  IF c \in Letters
                  THEN [letters |-> Append(p.letters, Canonical(<<c>>)),
                        separators |-> Append(p.separators, << >>)]
                ELSE IF c \in Marks /\ n > 0
                  THEN [p EXCEPT !.letters[n] = Canonical(Append(@, c))]
                ELSE [p EXCEPT !.separators[n + 1] = Append(@, i)]
    IN  FoldLeft(Split, [letters |-> << >>, separators |-> << << >> >>], [i \in DOMAIN value |-> i])

(* Two runs of separators, given by their positions in the names: how much  *)
(* they have in common from a place <<i, j>> on.                            *)
Places(left, right) == (1..Len(left) + 1) \X (1..Len(right) + 1)
Alike(w, c, left, right, i, j) == i <= Len(left) /\ j <= Len(right) /\ w[left[i]] = c[right[j]]
lengths(w, c, left, right) ==
    LET from[p \in Places(left, right)] ==
            LET i == p[1] j == p[2]
            IN  IF i > Len(left) \/ j > Len(right) THEN 0
                ELSE IF Alike(w, c, left, right, i, j) THEN from[<<i + 1, j + 1>>] + 1
                ELSE Max({from[<<i + 1, j>>], from[<<i, j + 1>>]})
    IN  from

(* The walk along it.                                                       *)
markSeparatorDifferences_Other(w, c, left, right) ==
    LET common == lengths(w, c, left, right)
        walk[p \in Places(left, right)] ==
            LET i == p[1] j == p[2]
            IN  IF i > Len(left) /\ j > Len(right) THEN Nothing
                ELSE IF Alike(w, c, left, right, i, j) THEN walk[<<i + 1, j + 1>>]
                ELSE IF j > Len(right) \/ (i <= Len(left) /\ common[<<i + 1, j>>] <= common[<<i, j + 1>>])
                  THEN [walk[<<i + 1, j>>] EXCEPT !.wikidata = @ \cup {left[i]}]
                ELSE [walk[<<i, j + 1>>] EXCEPT !.cldr = @ \cup {right[j]}]
    IN  walk[<<1, 1>>]

markSeparatorDifferences(w, c, left, right) ==
    LET common == lengths(w, c, left, right)
        walk[p \in Places(left, right)] ==
            LET i == p[1] j == p[2]
            IN  IF i > Len(left) /\ j > Len(right) THEN Nothing
                ELSE IF Alike(w, c, left, right, i, j) THEN walk[<<i + 1, j + 1>>]
                ELSE IF j > Len(right) \/ (i <= Len(left) /\ common[<<i + 1, j>>] >= common[<<i, j + 1>>])
                  THEN [walk[<<i + 1, j>>] EXCEPT !.wikidata = @ \cup {left[i]}]
                ELSE [walk[<<i, j + 1>>] EXCEPT !.cldr = @ \cup {right[j]}]
    IN  walk[<<1, 1>>]

(* Names with the same letters: the separators in which they differ.        *)
nonAlphabeticDifference(wikidataName, cldrName) ==
    LET wikidata == splitLettersAndSeparators(wikidataName)
        cldr == splitLettersAndSeparators(cldrName)
        parts == {markSeparatorDifferences(wikidataName, cldrName,
                                           wikidata.separators[i], cldr.separators[i]) :
                      i \in DOMAIN wikidata.separators}
    IN  IF IsBlank(wikidataName) \/ wikidata.letters # cldr.letters THEN Nothing
        ELSE [wikidata |-> UNION {p.wikidata : p \in parts}, cldr |-> UNION {p.cldr : p \in parts}]

(* Names that differ in one character: another one, or one too many.        *)
FirstDifference_End(s, t) == Len(s) + 1

FirstDifference(s, t) ==
    Min({i \in 1..Len(s) + 1 : i = Len(s) + 1 \/ s[i] # t[i]})

singleCharacterDifference(wikidata, cldr) ==
    LET differing == {i \in DOMAIN wikidata : wikidata[i] # cldr[i]}
        OneMore(s, t) ==
            Len(s) + 1 = Len(t) /\ SubSeq(s, FirstDifference(s, t), Len(s))
                                     = SubSeq(t, FirstDifference(s, t) + 1, Len(t))
    IN  CASE IsBlank(wikidata) -> Nothing
          [] ~IsBlank(wikidata) /\ Len(wikidata) = Len(cldr) ->
                IF \E i \in differing : differing = {i}
                  THEN [wikidata |-> differing, cldr |-> differing] ELSE Nothing
          [] ~IsBlank(wikidata) /\ OneMore(wikidata, cldr) ->
                [Nothing EXCEPT !.cldr = {FirstDifference(wikidata, cldr)}]
          [] ~IsBlank(wikidata) /\ OneMore(cldr, wikidata) ->
                [Nothing EXCEPT !.wikidata = {FirstDifference(cldr, wikidata)}]
          [] OTHER -> Nothing

Difference(wikidataName, cldrName) ==
    IF nonAlphabeticDifference(wikidataName, cldrName) # Nothing
      THEN nonAlphabeticDifference(wikidataName, cldrName)
      ELSE singleCharacterDifference(wikidataName, cldrName)
=============================================================================
