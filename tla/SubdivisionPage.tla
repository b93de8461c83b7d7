--------------------------- MODULE SubdivisionPage ---------------------------
(***************************************************************************)
(* From Wikidata's answer to the page of subdivision names:                *)
(* query_wikidata.js writes the answer as CSV, and render_html.js reads    *)
(* the CSV, keeps the subdivisions that CLDR knows, adds those that        *)
(* Wikidata left out, and compares the English names.                      *)
(*                                                                         *)
(* A row of the answer is a tuple of four texts: item, label, code and     *)
(* language.  In a code the country is one character, as in X-1; its key   *)
(* in CLDR is X1.  Sorting, markup and the MCA annotations are left out.   *)
(***************************************************************************)
EXTENDS Csv, NameDifference, FiniteSets

CONSTANTS
    Characters,         \* what texts are made of
    Inputs,             \* pairs of an answer (a sequence of rows) and CLDR_NAMES
    Countries,          \* the characters that stand for a country
    CLDR_CONTAINMENT    \* the keys that a country or a key directly contains

(* A row has the four texts that the query selects, and its item is not     *)
(* empty: the query binds it in every row (query_wikidata.js:22, 58-60).    *)
ASSUME AnswersAssumption ==
    \A input \in Inputs :
        /\ input[1] \in Seq(Seq(Characters) \X Seq(Characters) \X Seq(Characters) \X Seq(Characters))
        /\ \A n \in DOMAIN input[1] : input[1][n][1] # << >>

(* A key of CLDR has no hyphen, names a text, and begins with the country   *)
(* that it is below; there are finitely many.                               *)
IsKey(key) == key \in Seq(Characters) /\ key # << >> /\ \A i \in DOMAIN key : key[i] # "hyphen"
ASSUME KeysAssumption ==
    /\ \A input \in Inputs : \A key \in DOMAIN input[2] : IsKey(key) /\ input[2][key] \in Seq(Characters)
    /\ IsFiniteSet(UNION {CLDR_CONTAINMENT[k] : k \in DOMAIN CLDR_CONTAINMENT})
    /\ \A k \in DOMAIN CLDR_CONTAINMENT : \A child \in CLDR_CONTAINMENT[k] :
           IsKey(child) /\ k # << >> /\ child[1] = k[1]

VARIABLES
    answer,         \* what Wikidata answers
    CLDR_NAMES,     \* the English name of each named key
    csv,            \* the text of wikiSubdivisionLanguages.csv, or NoFile
    page            \* what the page shows, once it is written

vars == <<answer, CLDR_NAMES, csv, page>>

NoFile == <<"no file">>
NoPage == [status |-> "none", rows |-> {}, skipped |-> 0]
Failed == [NoPage EXCEPT !.status = "failed"]
HEADERS == << <<"item">>, <<"label">>, <<"code">>, <<"codeLabel">> >>
LANGUAGES == {<<"en">>, <<"zh">>}

-----------------------------------------------------------------------------
NoCountry == "none"
CountryOf(code) ==
    IF Len(code) >= 2 /\ code[1] \in Countries /\ code[2] = "hyphen" THEN code[1] ELSE NoCountry
codeToCldrKey(code) ==
    FlattenSeq([i \in DOMAIN code |-> IF code[i] = "hyphen" THEN << >> ELSE <<code[i]>>])

(* Everything below a country, however deep, each key visited once.         *)
containedSubdivisionKeys(country) ==
    LET Children(k) == IF k \in DOMAIN CLDR_CONTAINMENT THEN CLDR_CONTAINMENT[k] ELSE {}
        All == UNION {CLDR_CONTAINMENT[k] : k \in DOMAIN CLDR_CONTAINMENT}
        visit[keys \in SUBSET All] ==
            LET more == keys \cup UNION {Children(k) : k \in keys}
            IN  IF more = keys THEN keys ELSE visit[more]
    IN  visit[Children(<<country>>)]

(* Those of them that have a name.                                         *)
Listed(cldr, country) == containedSubdivisionKeys(country) \cap DOMAIN cldr

(* A map after m.set(k, v).                                                 *)
Set(m, k, v) == [x \in DOMAIN m \cup {k} |-> IF x = k THEN v ELSE m[x]]

(* One row of the CSV: its country is seen even when the row is skipped.    *)
ReadRow_AnyLanguage(cldr, p, values) ==
    LET item == values[1] label == values[2] code == values[3] language == values[4]
        country == CountryOf(code)
        key == <<code, item>>
        names == IF key \in DOMAIN p.names THEN p.names[key] ELSE << >>
        seen == [p EXCEPT !.countries = @ \cup ({country} \ {NoCountry})]
    IN  IF country = NoCountry \/ codeToCldrKey(code) \notin Listed(cldr, country)
          THEN [seen EXCEPT !.skipped = @ + 1]
          ELSE [seen EXCEPT !.names = Set(@, key, Set(names, language, label))]

ReadRow(cldr, p, values) ==
    LET item == values[1] label == values[2] code == values[3] language == values[4]
        country == CountryOf(code)
        key == <<code, item>>
        names == IF key \in DOMAIN p.names THEN p.names[key] ELSE << >>
        seen == [p EXCEPT !.countries = @ \cup ({country} \ {NoCountry})]
    IN  IF country = NoCountry \/ codeToCldrKey(code) \notin Listed(cldr, country)
          THEN [seen EXCEPT !.skipped = @ + 1]
          ELSE [seen EXCEPT !.names = Set(@, key, IF language \in LANGUAGES
                                                    THEN Set(names, language, label) ELSE names)]

(* The subdivisions with the names of each, and those of the countries seen *)
(* that have no row.                                                        *)
renderRows(cldr, rows) ==
    LET Read(p, values) == ReadRow(cldr, p, values)
        read == FoldLeft(Read, [countries |-> {}, names |-> << >>, skipped |-> 0], rows)
        present == {k[1] : k \in DOMAIN read.names}
        Code(country, child) == <<country, "hyphen">> \o Tail(child)
        added == (UNION {{Code(x, child) : child \in Listed(cldr, x)} : x \in read.countries}) \ present
    IN  [subdivisions |-> {[code |-> k[1], item |-> k[2], names |-> read.names[k]] : k \in DOMAIN read.names}
                            \cup {[code |-> code, item |-> << >>, names |-> << >>] : code \in added},
         skipped |-> read.skipped]

(* The two cells with the English names: one cell, or what they highlight.  *)
EnglishName(names) == IF <<"en">> \in DOMAIN names THEN names[<<"en">>] ELSE << >>
EnglishCells(wikidata, cldrName) ==
    LET match == compareEnglishNames(wikidata, cldrName)
    IN  IF match = "same" THEN [shown |-> "merged", marked |-> Nothing]
        ELSE [shown |-> match, marked |-> Difference(wikidata, cldrName)]

renderHtml(cldr, subdivisions) ==
    {[code |-> s.code, item |-> s.item, names |-> s.names,
      english |-> EnglishCells(EnglishName(s.names), cldr[codeToCldrKey(s.code)])] :
          s \in subdivisions}

Rendered(cldr, rows) ==
    LET rendered == renderRows(cldr, rows)
    IN  [status |-> "written", rows |-> renderHtml(cldr, rendered.subdivisions), skipped |-> rendered.skipped]

-----------------------------------------------------------------------------
Init ==
    /\ \E input \in Inputs : answer = input[1] /\ CLDR_NAMES = input[2]
    /\ csv = NoFile
    /\ page = NoPage

(* main of query_wikidata.js, once an answer has come.                      *)
WriteCsv ==
    /\ csv = NoFile
    /\ csv' = csvText(<<HEADERS>> \o answer)
    /\ UNCHANGED <<answer, CLDR_NAMES, page>>

(* main of render_html.js: a CSV that cannot be read ends it with an error. *)
Render ==
    /\ csv # NoFile
    /\ page.status = "none"
    /\ LET read == parseCsv(csv)
           wrong == \/ read.unfinished \/ read.rows = << >> \/ ~IsPrefix(HEADERS, read.rows[1])
                    \/ \E n \in DOMAIN read.rows : n > 1 /\ Len(read.rows[n]) # Len(HEADERS)
       IN  page' = IF wrong THEN Failed ELSE Rendered(CLDR_NAMES, Tail(read.rows))
    /\ UNCHANGED <<answer, CLDR_NAMES, csv>>

Next == WriteCsv \/ Render

Spec == Init /\ [][Next]_vars

-----------------------------------------------------------------------------
(* A row has names in the configured languages only, and marks only         *)
(* characters that the names have (render_html.js:331, 411-412).            *)
TypeOK ==
    /\ page.status \in {"none", "written", "failed"} /\ page.skipped \in 0..Len(answer)
    /\ \A r \in page.rows :
         /\ DOMAIN r.names \subseteq LANGUAGES
         /\ r.english.shown \in {"merged", "wikidata", "cldr", "neither"}
         /\ r.english.marked.wikidata \subseteq DOMAIN EnglishName(r.names)
         /\ r.english.marked.cldr \subseteq DOMAIN CLDR_NAMES[codeToCldrKey(r.code)]

(* What the page must show of an answer, said without the CSV: the last     *)
(* label in each language of each item, for the codes below their country;  *)
(* and every named code of a country that the answer mentions at all.       *)
Below(country) ==
    LET All == UNION {CLDR_CONTAINMENT[k] : k \in DOMAIN CLDR_CONTAINMENT}
        Closed(S) == \A k \in DOMAIN CLDR_CONTAINMENT :
                         k \in S \/ k = <<country>> => CLDR_CONTAINMENT[k] \subseteq S
    IN  {k \in All : \A S \in SUBSET All : Closed(S) => k \in S}
Shown(cldr, row) ==
    LET country == CountryOf(row[3])
    IN  country # NoCountry /\ codeToCldrKey(row[3]) \in Below(country) \cap DOMAIN cldr
LastLabel(rows, row, language) ==
    LET same == {n \in DOMAIN rows : rows[n][1] = row[1] /\ rows[n][3] = row[3] /\ rows[n][4] = language}
    IN  rows[CHOOSE n \in same : \A m \in same : m <= n][2]
Labels(rows, row) ==
    [language \in LANGUAGES \cap {r[4] : r \in {s \in ToSet(rows) : s[1] = row[1] /\ s[3] = row[3]}}
        |-> LastLabel(rows, row, language)]
Expected(cldr, rows) ==
    LET found == {[code |-> r[3], item |-> r[1], names |-> Labels(rows, r)] :
                      r \in {s \in ToSet(rows) : Shown(cldr, s)}}
        missing == {[code |-> <<x, "hyphen">> \o Tail(k), item |-> << >>, names |-> << >>] :
                        x \in {CountryOf(r[3]) : r \in ToSet(rows)} \ {NoCountry}, k \in DOMAIN cldr}
    IN  found \cup {m \in missing : /\ codeToCldrKey(m.code) \in Below(m.code[1]) \cap DOMAIN cldr
                                   /\ m.code \notin {f.code : f \in found}}

(* Whatever characters the labels have, the page is written and shows the   *)
(* answer: no row is split, merged or lost on the way through the CSV, and  *)
(* no subdivision of a country that was seen is left out, not even when all *)
(* the rows of that country were skipped (query_wikidata.js:32,             *)
(* render_html.js:34-76, 316, 333-344).                                     *)
PageShowsAnswer ==
    page.status # "none" =>
        /\ page.status = "written"
        /\ {[code |-> r.code, item |-> r.item, names |-> r.names] : r \in page.rows} = Expected(CLDR_NAMES, answer)

-----------------------------------------------------------------------------
Unmerged == {r \in page.rows : r.english.shown # "merged" /\ ~IsBlank(EnglishName(r.names))}
Cldr(r) == CLDR_NAMES[codeToCldrKey(r.code)]
Without(s, positions) ==
    FlattenSeq([i \in DOMAIN s |-> IF i \in positions THEN << >> ELSE <<s[i]>>])
(* A mark belongs to the letter right before it.                            *)
WellFormed(s) == \A i \in DOMAIN s : s[i] \in Marks => i > 1 /\ s[i - 1] \in Letters \cup Marks
Separators(s) == {i \in DOMAIN s : s[i] \notin Letters \cup Marks}
SameLetters(s, t) == Canonical(Without(s, Separators(s))) = Canonical(Without(t, Separators(t)))

(* When two names have the same letters, what is highlighted in them is     *)
(* exactly what keeps them apart: without it they are the same name, and no *)
(* fewer separators do (the walk along the longest common subsequence,      *)
(* render_html.js:194-218).                                                 *)
SmallestDifference ==
    \A r \in Unmerged :
        LET w == EnglishName(r.names) c == Cldr(r)
            Equal(v, d) == Canonical(Without(w, v)) = Canonical(Without(c, d))
            Size(v, d) == Cardinality(v) + Cardinality(d)
        IN  WellFormed(w) /\ WellFormed(c) /\ SameLetters(w, c) =>
                /\ Equal(r.english.marked.wikidata, r.english.marked.cldr)
                /\ \A v \in SUBSET Separators(w), d \in SUBSET Separators(c) :
                       Equal(v, d) => Size(v, d) >= Size(r.english.marked.wikidata, r.english.marked.cldr)

(* When the letters differ, the names are highlighted if and only if one    *)
(* character replaced, added or dropped makes the one of the other, and the *)
(* highlighted character is such a one (render_html.js:240-268).            *)
OneEdit ==
    \A r \in Unmerged :
        LET w == EnglishName(r.names) c == Cldr(r)
            Edit(v, d) == Cardinality(v) <= 1 /\ Cardinality(d) <= 1 /\ Without(w, v) = Without(c, d)
                            /\ (Len(w) = Len(c) => v = d)
            marked == r.english.marked
        IN  WellFormed(w) /\ WellFormed(c) /\ ~SameLetters(w, c) =>
                IF \E v \in SUBSET DOMAIN w, d \in SUBSET DOMAIN c : Edit(v, d)
                  THEN marked # Nothing /\ Edit(marked.wikidata, marked.cldr)
                  ELSE marked = Nothing
=============================================================================
