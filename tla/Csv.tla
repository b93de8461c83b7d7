--------------------------------- MODULE Csv ---------------------------------
(***************************************************************************)
(* The CSV that query_wikidata.js writes and render_html.js reads.  A text *)
(* is a sequence of characters; a character that is none of the four       *)
(* special ones is whatever the user of this module takes for one.         *)
(***************************************************************************)
EXTENDS Naturals, Sequences, SequencesExt

Special == {"quote", "comma", "CR", "LF"}

csvField_NoCR(value) ==
    IF ToSet(value) \cap (Special \ {"CR"}) = {} THEN value
    ELSE <<"quote">> \o FlattenSeq([i \in DOMAIN value |->
             IF value[i] = "quote" THEN <<"quote", "quote">> ELSE <<value[i]>>]) \o <<"quote">>

(* A field with a special character is quoted, and its quotes are doubled.  *)
csvField(value) ==
    IF ToSet(value) \cap Special = {} THEN value
    ELSE <<"quote">> \o FlattenSeq([i \in DOMAIN value |->
             IF value[i] = "quote" THEN <<"quote", "quote">> ELSE <<value[i]>>]) \o <<"quote">>

(* The fields of a row with commas between them, a line feed after each row.*)
Between(fields) ==
    FlattenSeq([i \in DOMAIN fields |-> IF i = 1 THEN fields[i] ELSE <<"comma">> \o fields[i]])
csvText(rows) ==
    FlattenSeq([n \in DOMAIN rows |->
        Append(Between([i \in DOMAIN rows[n] |-> csvField(rows[n][i])]), "LF")])

-----------------------------------------------------------------------------
(* parseCsv, one character at a time; skip tells that the character was     *)
(* taken together with the one before.                                      *)
EndField(p) == [p EXCEPT !.row = Append(@, p.field), !.field = << >>]

EndRow(p) ==
    LET row == Append(p.row, p.field)
    IN  [p EXCEPT !.rows = IF \E i \in DOMAIN row : row[i] # << >> THEN Append(@, row) ELSE @,
                  !.row = << >>, !.field = << >>]

Take(p, c) == [p EXCEPT !.field = Append(@, c)]

ParseCharacter(p, c, next) ==
    CASE p.skip -> [p EXCEPT !.skip = FALSE]
      [] ~p.skip /\ p.quoted ->
            IF c # "quote" THEN Take(p, c)
            ELSE IF next = "quote" THEN [Take(p, c) EXCEPT !.skip = TRUE]
            ELSE [p EXCEPT !.quoted = FALSE]
      [] ~p.skip /\ ~p.quoted ->
            IF c = "quote" /\ p.field = << >> THEN [p EXCEPT !.quoted = TRUE]
            ELSE IF c = "comma" THEN EndField(p)
            ELSE IF c \in {"CR", "LF"} THEN [EndRow(p) EXCEPT !.skip = c = "CR" /\ next = "LF"]
            ELSE Take(p, c)

(* The rows that are not blank; unfinished tells that the text ends inside  *)
(* a quoted field, which is an error.  The byte order mark that parseCsv    *)
(* drops from the front of a text is left out: query_wikidata.js writes     *)
(* none, its text begins with the header.                                   *)
parseCsv(text) ==
    LET Step(p, i) == ParseCharacter(p, text[i], IF i < Len(text) THEN text[i + 1] ELSE "end")
        start == [rows |-> << >>, row |-> << >>, field |-> << >>, quoted |-> FALSE, skip |-> FALSE]
        end == FoldLeft(Step, start, [i \in DOMAIN text |-> i])
        whole == IF end.field # << >> \/ end.row # << >> THEN EndRow(end) ELSE end
    IN  [rows |-> whole.rows, unfinished |-> end.quoted]
=============================================================================
