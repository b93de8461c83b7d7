----------------------- MODULE SubdivisionPage_proofs ------------------------
(***************************************************************************)
(* Theorems about SubdivisionPage: for any answers and any data of CLDR,   *)
(* the page is written, shows the answer, and highlights the one character *)
(* that makes an English name another, or a smallest set of separators     *)
(* that does.                                                              *)
(***************************************************************************)
EXTENDS SubdivisionPage, Csv_proofs, FiniteSetTheorems

(* A row of an answer, as four texts.                                       *)
AnswerRow(row) ==
    /\ row \in Seq(Seq(Characters)) /\ Len(row) = 4
    /\ row = <<row[1], row[2], row[3], row[4]>> /\ row[1] # << >>

AnswerRows(rows) == rows \in Seq(Seq(Seq(Characters))) /\ \A n \in DOMAIN rows : AnswerRow(rows[n])

LEMMA InputRows ==
    \A input \in Inputs : AnswerRows(input[1])
<1> TAKE input \in Inputs
<1>1. PICK rows : rows = input[1]
  OBVIOUS
<1> DEFINE Texts == Seq(Characters)
<1>2. rows \in Seq(Texts \X Texts \X Texts \X Texts) /\ \A n \in DOMAIN rows : rows[n][1] # << >>
  BY <1>1, AnswersAssumption
<1>3. PICK n \in Nat : n = Len(rows) /\ DOMAIN rows = 1..n
  BY <1>2, LenProperties
<1> HIDE DEF Texts
<1>4. ASSUME NEW i \in 1..n PROVE AnswerRow(rows[i])
  <2>1. PICK row : row = rows[i]
    OBVIOUS
  <2>2. row \in Texts \X Texts \X Texts \X Texts /\ row[1] # << >>
    BY <1>2, <1>3, <2>1
  <2>3. PICK a \in Texts, b \in Texts, c \in Texts, d \in Texts : row = <<a, b, c, d>>
    BY <2>2
  <2>4. row \in Seq(Texts) /\ Len(row) = 4 /\ row = <<row[1], row[2], row[3], row[4]>>
    BY <2>3
  <2> QED
    BY <2>1, <2>2, <2>4 DEF AnswerRow, Texts
<1>5. rows \in [1..n -> Seq(Texts)]
  <2>1. \A i \in 1..n : rows[i] \in Seq(Texts)
    BY <1>4 DEF AnswerRow, Texts
  <2> QED
    BY <1>2, <1>3, <2>1
<1>6. rows \in Seq(Seq(Texts))
  BY <1>3, <1>5, SequenceOf
<1> QED
  BY <1>1, <1>3, <1>4, <1>6 DEF AnswerRows, Texts

-----------------------------------------------------------------------------
(* The texts of the header, with every character a character.               *)
AllCharacters == Characters \cup {"item", "label", "code", "codeLabel"}
Written(rows) == <<HEADERS>> \o rows

LEMMA WrittenIs ==
    ASSUME NEW rows, AnswerRows(rows)
    PROVE  /\ Written(rows) \in Seq(Seq(Seq(AllCharacters))) /\ Len(Written(rows)) = Len(rows) + 1
           /\ Written(rows)[1] = HEADERS /\ Tail(Written(rows)) = rows
           /\ \A n \in DOMAIN Written(rows) :
                  Len(Written(rows)[n]) = 4 /\ Written(rows)[n][1] # << >> /\ 1 \in DOMAIN Written(rows)[n]
<1> DEFINE C == AllCharacters
           T == Seq(Seq(C))
<1>1. PICK h \in T : h = HEADERS
  <2>1. /\ <<"item">> \in Seq(C) /\ <<"label">> \in Seq(C)
        /\ <<"code">> \in Seq(C) /\ <<"codeLabel">> \in Seq(C)
    BY DEF AllCharacters
  <2> HIDE DEF C
  <2>2. << <<"item">>, <<"label">>, <<"code">>, <<"codeLabel">> >> \in T
    BY <2>1
  <2> QED
    BY <2>2 DEF HEADERS
<1>2. Len(h) = 4 /\ h[1] # << >>
  BY <1>1 DEF HEADERS
<1>3. rows \in Seq(T)
  <2>1. Characters \subseteq C
    BY DEF AllCharacters
  <2>2. Seq(Characters) \subseteq Seq(C)
    BY <2>1, SeqMonotonic
  <2>3. Seq(Seq(Characters)) \subseteq T
    BY <2>2, SeqMonotonic
  <2> QED
    BY <2>3, SeqMonotonic DEF AnswerRows
<1> HIDE DEF T
<1>4. PICK n \in Nat : n = Len(rows) /\ DOMAIN rows = 1..n
  BY <1>3, LenProperties
<1>5. PICK s \in Seq(T) : s = <<h>>
  <2>1. <<h>> \in Seq(T)
    OBVIOUS
  <2> QED
    BY <2>1
<1>6. Len(s) = 1 /\ s[1] = h
  BY <1>5
<1>7. PICK w \in Seq(T) : w = s \o rows
  BY <1>3, ConcatProperties
<1>8. /\ Len(w) = 1 + n /\ DOMAIN w = 1..n + 1 /\ Len(w) = n + 1
      /\ \A j \in 1..1 + n : w[j] = IF j <= 1 THEN s[j] ELSE rows[j - 1]
  <2>1. Len(w) = 1 + n /\ \A j \in 1..1 + n : w[j] = IF j <= 1 THEN s[j] ELSE rows[j - 1]
    BY <1>3, <1>4, <1>6, <1>7, ConcatProperties
  <2>2. DOMAIN w = 1..Len(w) /\ 1 + n = n + 1
    BY <1>4, LenProperties
  <2> QED
    BY <2>1, <2>2
<1>9. w[1] = h /\ \A j \in 1..n : w[j + 1] = rows[j]
  <2>1. 1 \in 1..1 + n /\ \A j \in 1..n : j + 1 \in 1..1 + n /\ ~(j + 1 <= 1) /\ (j + 1) - 1 = j
    BY <1>4
  <2> QED
    BY <1>6, <1>8, <2>1
<1>10. Tail(w) = rows
  <2>1. PICK t : t = Tail(w)
    OBVIOUS
  <2>2. t \in Seq(T) /\ Len(t) = n /\ \A j \in 1..n : t[j] = w[j + 1]
    BY <1>4, <1>8, <2>1
  <2>3. \A j \in 1..n : t[j] = rows[j]
    BY <1>9, <2>2
  <2> QED
    BY <1>3, <1>4, <2>1, <2>2, <2>3, SeqEqual
<1>11. ASSUME NEW j \in 1..n + 1 PROVE Len(w[j]) = 4 /\ w[j][1] # << >> /\ 1 \in DOMAIN w[j]
  <2>1. CASE j = 1
    <3>1. DOMAIN h = 1..Len(h)
      BY DEF T
    <3> QED
      BY <1>2, <1>9, <2>1, <3>1
  <2>2. CASE j # 1
    <3>1. j - 1 \in 1..n /\ (j - 1) + 1 = j
      BY <1>4, <2>2
    <3>2. w[j] = rows[j - 1] /\ AnswerRow(rows[j - 1])
      BY <1>4, <1>9, <3>1 DEF AnswerRows
    <3>3. Len(w[j]) = 4 /\ w[j][1] # << >> /\ w[j] \in Seq(Seq(Characters))
      BY <3>2 DEF AnswerRow
    <3>4. DOMAIN w[j] = 1..Len(w[j])
      BY <3>3
    <3> QED
      BY <3>3, <3>4
  <2> QED
    BY <2>1, <2>2
<1>12. w = Written(rows)
  BY <1>1, <1>5, <1>7 DEF Written
<1> QED
  BY <1>1, <1>4, <1>8, <1>9, <1>10, <1>11, <1>12 DEF T

LEMMA ReadBack ==
    ASSUME NEW rows, AnswerRows(rows)
    PROVE  parseCsv(csvText(Written(rows))) = [rows |-> Written(rows), unfinished |-> FALSE]
<1>1. PICK w : w = Written(rows) /\ w \in Seq(Seq(Seq(AllCharacters)))
  BY WrittenIs
<1>2. \A n \in DOMAIN w : \E i \in DOMAIN w[n] : w[n][i] # << >>
  BY <1>1, WrittenIs
<1> QED
  BY <1>1, <1>2, ReadAsWritten

(* The CSV between the two programs changes nothing: the page is never an   *)
(* error, and it is what the answer itself gives.                           *)
PInv ==
    /\ AnswerRows(answer)
    /\ \A key \in DOMAIN CLDR_NAMES : IsKey(key) /\ CLDR_NAMES[key] \in Seq(Characters)
    /\ csv \in {NoFile, csvText(Written(answer))}
    /\ page \in {NoPage, Rendered(CLDR_NAMES, answer)}

(* Whatever the answer is, the CSV that query_wikidata.js writes of it is   *)
(* read without an error, and the page is the one of the answer's own rows. *)
THEOREM PageOfTheAnswer == Spec => []PInv
<1>1. Init => PInv
  <2> SUFFICES ASSUME Init PROVE PInv
    OBVIOUS
  <2>1. PICK input \in Inputs : answer = input[1] /\ CLDR_NAMES = input[2]
    BY DEF Init
  <2>2. AnswerRows(answer)
    BY <2>1, InputRows
  <2>3. \A key \in DOMAIN CLDR_NAMES : IsKey(key) /\ CLDR_NAMES[key] \in Seq(Characters)
    BY <2>1, KeysAssumption
  <2> QED
    BY <2>2, <2>3 DEF Init, PInv
<1>2. PInv /\ [Next]_vars => PInv'
  <2> SUFFICES ASSUME PInv, [Next]_vars PROVE PInv'
    OBVIOUS
  <2>1. CASE WriteCsv
    <3>1. csv' = csvText(Written(answer)) /\ UNCHANGED <<answer, CLDR_NAMES, page>>
      BY <2>1 DEF WriteCsv, Written
    <3> QED
      BY <3>1 DEF PInv
  <2>2. CASE Render
    <3>1. UNCHANGED <<answer, CLDR_NAMES, csv>> /\ csv = csvText(Written(answer)) /\ AnswerRows(answer)
      BY <2>2 DEF Render, PInv
    <3>2. PICK w : w = Written(answer)
      OBVIOUS
    <3>3. /\ w # << >> /\ w[1] = HEADERS /\ Tail(w) = answer /\ Len(HEADERS) = 4
          /\ \A n \in DOMAIN w : Len(w[n]) = 4
      <4>1. Len(w) = Len(answer) + 1 /\ Len(answer) \in Nat
        BY <3>1, <3>2, WrittenIs DEF AnswerRows
      <4>2. w # << >> /\ Len(HEADERS) = 4
        BY <4>1 DEF HEADERS
      <4> QED
        BY <3>1, <3>2, <4>2, WrittenIs
    <3>4. PICK read : read = parseCsv(csv)
      OBVIOUS
    <3>5. read.rows = w /\ read.unfinished = FALSE
      <4>1. read = [rows |-> w, unfinished |-> FALSE]
        BY <3>1, <3>2, <3>4, ReadBack
      <4> QED
        BY <4>1
    <3>6. page' = IF \/ read.unfinished \/ read.rows = << >> \/ ~IsPrefix(HEADERS, read.rows[1])
                     \/ \E n \in DOMAIN read.rows : n > 1 /\ Len(read.rows[n]) # Len(HEADERS)
                    THEN Failed ELSE Rendered(CLDR_NAMES, Tail(read.rows))
      BY <2>2, <3>4 DEF Render
    <3>7. /\ ~(\E n \in DOMAIN w : n > 1 /\ Len(w[n]) # Len(HEADERS))
          /\ IsPrefix(HEADERS, HEADERS)
      <4>1. HEADERS = SubSeq(HEADERS, 1, Len(HEADERS))
        BY DEF HEADERS
      <4> QED
        BY <3>3, <4>1 DEF IsPrefix
    <3>8. page' = Rendered(CLDR_NAMES, Tail(w))
      <4>1. /\ ~read.unfinished /\ read.rows # << >> /\ IsPrefix(HEADERS, read.rows[1])
            /\ ~(\E n \in DOMAIN read.rows : n > 1 /\ Len(read.rows[n]) # Len(HEADERS))
        BY <3>3, <3>5, <3>7, Zenon
      <4>2. page' = Rendered(CLDR_NAMES, Tail(read.rows))
        BY <3>6, <4>1, Zenon
      <4> QED
        BY <3>5, <4>2, Zenon
    <3> QED
      BY <3>1, <3>3, <3>8 DEF PInv
  <2>3. CASE UNCHANGED vars
    <3> QED
      BY <2>3 DEF vars, PInv
  <2> QED
    BY <2>1, <2>2, <2>3 DEF Next
<1> QED
  BY <1>1, <1>2, PTL DEF Spec
-----------------------------------------------------------------------------
(* The keys below a country: the visit from key to key ends in the smallest *)
(* set that is closed under containment.                                    *)
Children(k) == IF k \in DOMAIN CLDR_CONTAINMENT THEN CLDR_CONTAINMENT[k] ELSE {}
AllKeys == UNION {CLDR_CONTAINMENT[k] : k \in DOMAIN CLDR_CONTAINMENT}
More(keys) == keys \cup UNION {Children(k) : k \in keys}
Visits(visit) == visit = [keys \in SUBSET AllKeys |-> IF More(keys) = keys THEN keys ELSE visit[More(keys)]]
ClosedKeys == {S \in SUBSET AllKeys : \A k \in S : Children(k) \subseteq S}
Closure(keys) == {k \in AllKeys : \A S \in ClosedKeys : keys \subseteq S => k \in S}

LEMMA VisitIs ==
    \A country : containedSubdivisionKeys(country) = (CHOOSE visit : Visits(visit))[Children(<<country>>)]
  BY DEF containedSubdivisionKeys, Visits, More, Children, AllKeys

LEMMA ChildrenAreKeys == \A k : Children(k) \in SUBSET AllKeys
  BY DEF Children, AllKeys

LEMMA MoreKeys ==
    ASSUME NEW keys \in SUBSET AllKeys
    PROVE  /\ More(keys) \in SUBSET AllKeys /\ keys \subseteq More(keys)
           /\ Closure(More(keys)) = Closure(keys)
           /\ More(keys) = keys => Closure(keys) = keys
<1>1. \A k \in keys : Children(k) \subseteq More(keys)
  BY DEF More
<1>2. More(keys) \in SUBSET AllKeys /\ keys \subseteq More(keys)
  BY ChildrenAreKeys DEF More
<1>3. ASSUME NEW S \in ClosedKeys PROVE keys \subseteq S <=> More(keys) \subseteq S
  BY <1>2 DEF More, ClosedKeys
<1>4. Closure(More(keys)) = Closure(keys)
  BY <1>3 DEF Closure
<1>5. ASSUME More(keys) = keys PROVE Closure(keys) = keys
  <2>1. keys \in ClosedKeys
    BY <1>1, <1>5 DEF ClosedKeys
  <2> QED
    BY <2>1 DEF Closure
<1> QED
  BY <1>2, <1>4, <1>5

LEMMA ClosureVisits == Visits([keys \in SUBSET AllKeys |-> Closure(keys)])
<1> DEFINE f == [keys \in SUBSET AllKeys |-> Closure(keys)]
<1>1. ASSUME NEW keys \in SUBSET AllKeys
      PROVE  f[keys] = IF More(keys) = keys THEN keys ELSE f[More(keys)]
  BY MoreKeys
<1>2. f = [keys \in SUBSET AllKeys |-> IF More(keys) = keys THEN keys ELSE f[More(keys)]]
  BY <1>1
<1> HIDE DEF f
<1>3. Visits(f)
  BY <1>2 DEF Visits
<1> QED
  BY <1>3 DEF f

(* A visit that went wrong somewhere would have gone wrong from more keys   *)
(* too, and there are finitely many.                                        *)
LEMMA VisitsClosure ==
    ASSUME NEW visit, Visits(visit)
    PROVE  \A keys \in SUBSET AllKeys : visit[keys] = Closure(keys)
<1>1. IsFiniteSet(AllKeys)
  BY KeysAssumption DEF AllKeys
<1> DEFINE Left(keys) == Cardinality(AllKeys \ keys)
           Wrong == {keys \in SUBSET AllKeys : visit[keys] # Closure(keys)}
<1>2. \A keys \in SUBSET AllKeys : Left(keys) \in Nat
  BY <1>1, FS_Difference, FS_CardinalityType
<1> SUFFICES ASSUME Wrong # {} PROVE FALSE
  OBVIOUS
<1>3. PICK n \in {Left(keys) : keys \in Wrong} : \A m \in {Left(keys) : keys \in Wrong} : n <= m
  <2>1. {Left(keys) : keys \in Wrong} \in SUBSET Nat /\ {Left(keys) : keys \in Wrong} # {}
    BY <1>2
  <2> HIDE DEF Left, Wrong
  <2> QED
    BY <2>1, Least
<1>4. PICK keys \in Wrong : n = Left(keys)
  BY <1>3
<1>5. visit[keys] = IF More(keys) = keys THEN keys ELSE visit[More(keys)]
  BY <1>4 DEF Visits
<1>6. More(keys) # keys
  BY <1>4, <1>5, MoreKeys
<1>7. More(keys) \in Wrong
  BY <1>4, <1>5, <1>6, MoreKeys
<1>8. Left(More(keys)) < Left(keys)
  <2>1. AllKeys \ More(keys) \subseteq AllKeys \ keys /\ AllKeys \ More(keys) # AllKeys \ keys
    BY <1>4, <1>6, MoreKeys
  <2>2. IsFiniteSet(AllKeys \ keys)
    BY <1>1, FS_Difference
  <2> QED
    BY <2>1, <2>2, FS_Subset, FS_CardinalityType
<1>9. n <= Left(More(keys)) /\ n \in Nat /\ Left(More(keys)) \in Nat
  BY <1>2, <1>3, <1>4, <1>7
<1> QED
  BY <1>4, <1>8, <1>9

LEMMA Contained ==
    \A country : containedSubdivisionKeys(country) = Below(country)
<1> TAKE country
<1>1. PICK keys \in SUBSET AllKeys : keys = Children(<<country>>)
  BY ChildrenAreKeys
<1>2. containedSubdivisionKeys(country) = Closure(keys)
  <2>1. PICK visit : visit = CHOOSE v : Visits(v)
    OBVIOUS
  <2>2. Visits(visit)
    BY <2>1, ClosureVisits
  <2> QED
    BY <1>1, <2>1, <2>2, VisitIs, VisitsClosure
<1>3. Below(country) = Closure(keys)
  <2> DEFINE Closed(S) == \A k \in DOMAIN CLDR_CONTAINMENT :
                              k \in S \/ k = <<country>> => CLDR_CONTAINMENT[k] \subseteq S
  <2>1. \A S \in SUBSET AllKeys : Closed(S) <=> keys \subseteq S /\ S \in ClosedKeys
    BY <1>1 DEF ClosedKeys, Children
  <2>2. Below(country) = {k \in AllKeys : \A S \in SUBSET AllKeys : Closed(S) => k \in S}
    BY DEF Below, AllKeys
  <2> HIDE DEF Closed
  <2>3. \A k \in AllKeys : (\A S \in SUBSET AllKeys : Closed(S) => k \in S)
                           <=> (\A S \in ClosedKeys : keys \subseteq S => k \in S)
    BY <2>1 DEF ClosedKeys
  <2> QED
    BY <2>2, <2>3 DEF Closure
<1> QED
  BY <1>2, <1>3

(* A key begins with the country that it is below.                          *)
LEMMA BelowIs ==
    \A country : \A key \in Below(country) : IsKey(key) /\ key[1] = country
<1> TAKE country
<1> DEFINE S == {key \in AllKeys : IsKey(key) /\ key[1] = country}
<1>1. \A k \in DOMAIN CLDR_CONTAINMENT : k \in S \/ k = <<country>> => CLDR_CONTAINMENT[k] \subseteq S
  <2> TAKE k \in DOMAIN CLDR_CONTAINMENT
  <2> HAVE k \in S \/ k = <<country>>
  <2>1. k[1] = country
    OBVIOUS
  <2>2. \A child \in CLDR_CONTAINMENT[k] : child \in AllKeys /\ IsKey(child) /\ child[1] = k[1]
    BY KeysAssumption DEF AllKeys
  <2> QED
    BY <2>1, <2>2
<1>2. S \in SUBSET AllKeys
  OBVIOUS
<1> HIDE DEF S
<1>3. Below(country) \subseteq S
  BY <1>1, <1>2 DEF Below, AllKeys
<1> QED
  BY <1>3 DEF S

-----------------------------------------------------------------------------
(* The code of a key has the key back.                                      *)
Code(country, key) == <<country, "hyphen">> \o Tail(key)
Pieces(code) == [i \in DOMAIN code |-> IF code[i] = "hyphen" THEN << >> ELSE <<code[i]>>]

Follows(code, key) == \A i \in 2..Len(key) : code[i + 1] = key[i]

LEMMA CodeIs ==
    ASSUME NEW x, NEW key, IsKey(key)
    PROVE  /\ key[1] \in Characters /\ key[1] # "hyphen" /\ Len(key) \in Nat \ {0}
           /\ Code(x, key) \in Seq(Characters \cup {"hyphen", x}) /\ Len(Code(x, key)) = Len(key) + 1
           /\ Code(x, key)[1] = x /\ Code(x, key)[2] = "hyphen"
           /\ Follows(Code(x, key), key)
<1>1. key \in Seq(Characters) /\ key # << >> /\ \A i \in DOMAIN key : key[i] # "hyphen"
  BY Zenon DEF IsKey
<1>2. PICK n \in Nat : n = Len(key) /\ DOMAIN key = 1..n /\ n # 0
  <2>1. Len(key) \in Nat /\ DOMAIN key = 1..Len(key)
    BY <1>1, LenProperties
  <2>2. Len(key) # 0
    BY <1>1, EmptySeq
  <2> QED
    BY <2>1, <2>2
<1>3. 1 \in 1..n
  BY <1>2
<1>4. key[1] \in Characters /\ key[1] # "hyphen"
  BY <1>1, <1>2, <1>3
<1>5. PICK C : C = Characters \cup {"hyphen", x}
  OBVIOUS
<1>6. PICK h \in Seq(C) : h = <<x, "hyphen">>
  <2>1. <<x, "hyphen">> \in Seq(C)
    BY <1>5
  <2> QED
    BY <2>1
<1>7. Len(h) = 2 /\ h[1] = x /\ h[2] = "hyphen"
  BY <1>6
<1>8. PICK t \in Seq(C) : t = Tail(key) /\ Len(t) = n - 1 /\ \A j \in 1..n - 1 : t[j] = key[j + 1]
  <2>1. Tail(key) \in Seq(Characters) /\ Len(Tail(key)) = n - 1 /\ \A j \in 1..n - 1 : Tail(key)[j] = key[j + 1]
    BY <1>1, <1>2, HeadTailProperties
  <2>2. Seq(Characters) \subseteq Seq(C)
    BY <1>5, SeqMonotonic
  <2> QED
    BY <2>1, <2>2
<1>9. PICK c \in Seq(C) : c = h \o t
  BY ConcatProperties
<1>10. Len(c) = 2 + (n - 1) /\ \A j \in 1..2 + (n - 1) : c[j] = IF j <= 2 THEN h[j] ELSE t[j - 2]
  <2>1. Len(c) = Len(h) + Len(t) /\ \A j \in 1..Len(h) + Len(t) : c[j] = IF j <= Len(h) THEN h[j] ELSE t[j - Len(h)]
    BY <1>9, ConcatProperties
  <2>2. Len(h) = 2 /\ Len(t) = n - 1
    BY <1>7, <1>8
  <2> QED
    BY <2>1, <2>2
<1>11. Len(c) = n + 1 /\ c[1] = x /\ c[2] = "hyphen"
  <2>1. 2 + (n - 1) = n + 1 /\ 1 \in 1..2 + (n - 1) /\ 2 \in 1..2 + (n - 1)
    BY <1>2
  <2> QED
    BY <1>7, <1>10, <2>1
<1>12. ASSUME NEW i \in 2..n PROVE c[i + 1] = key[i]
  <2>1. i + 1 \in 1..2 + (n - 1) /\ ~(i + 1 <= 2) /\ (i + 1) - 2 \in 1..n - 1 /\ (i + 1) - 2 = i - 1 /\ (i - 1) + 1 = i
    BY <1>2
  <2>2. c[i + 1] = t[i - 1] /\ t[i - 1] = key[(i - 1) + 1]
    BY <1>8, <1>10, <2>1
  <2> QED
    BY <2>1, <2>2
<1>13. c = Code(x, key)
  BY <1>6, <1>8, <1>9 DEF Code
<1>14. Follows(c, key)
  BY <1>2, <1>12 DEF Follows
<1> QED
  <2>1. Len(key) \in Nat \ {0} /\ Len(Code(x, key)) = Len(key) + 1
    BY <1>2, <1>11, <1>13
  <2>2. Code(x, key) \in Seq(Characters \cup {"hyphen", x})
    BY <1>5, <1>9, <1>13, Zenon
  <2>3. Code(x, key)[1] = x /\ Code(x, key)[2] = "hyphen" /\ Follows(Code(x, key), key)
    BY <1>11, <1>13, <1>14, Zenon
  <2> QED
    BY <1>4, <2>1, <2>2, <2>3, Zenon

LEMMA KeyOfCode ==
    \A x : \A key : IsKey(key) /\ key[1] = x => codeToCldrKey(Code(x, key)) = key
<1> TAKE x
<1> TAKE key
<1> HAVE IsKey(key) /\ key[1] = x
<1>1. PICK C : C = Characters \cup {"hyphen", x}
  OBVIOUS
<1>2. PICK n \in Nat : n = Len(key) /\ n # 0
  BY CodeIs
<1>3. PICK c \in Seq(C) :
         /\ c = Code(x, key) /\ Len(c) = n + 1 /\ c[1] = x /\ c[2] = "hyphen" /\ x # "hyphen"
         /\ \A i \in 2..n : c[i + 1] = key[i]
  <2>1. PICK c : c = Code(x, key)
    OBVIOUS
  <2>2. c \in Seq(C)
    BY <1>1, <2>1, CodeIs
  <2>3. Len(c) = n + 1 /\ c[1] = x /\ c[2] = "hyphen" /\ x # "hyphen"
    BY <1>2, <2>1, CodeIs
  <2>4. \A i \in 2..n : c[i + 1] = key[i]
    <3>1. Follows(c, key)
      BY <2>1, CodeIs
    <3> QED
      BY <1>2, <3>1 DEF Follows
  <2> QED
    BY <2>1, <2>2, <2>3, <2>4
<1>4. DOMAIN c = 1..n + 1 /\ \A i \in 1..n + 1 : c[i] \in C
  <2>1. DOMAIN c = 1..n + 1
    BY <1>3, LenProperties
  <2> QED
    BY <2>1, ElementOfSeq, <1>3
<1>5. PICK s : s = Pieces(c)
  OBVIOUS
<1>6. s \in Seq(Seq(C)) /\ Len(s) = n + 1
  <2>1. \A i \in 1..n + 1 : s[i] \in Seq(C)
    BY <1>4, <1>5 DEF Pieces
  <2>2. s \in [1..n + 1 -> Seq(C)]
    BY <1>4, <1>5, <2>1 DEF Pieces
  <2>3. n + 1 \in Nat
    BY <1>2
  <2> QED
    BY <2>2, <2>3, SequenceOf
<1>7. PICK t, off : t \in Seq(C) /\ t = FlattenSeq(s) /\ Parts(s, off, t)
  BY <1>6, FlattenParts
<1>8. /\ Len(s[1]) = 1 /\ s[1][1] = x /\ Len(s[2]) = 0
      /\ \A i \in 2..n : Len(s[i + 1]) = 1 /\ s[i + 1][1] = key[i]
  <2>1. 1 \in DOMAIN c /\ 2 \in DOMAIN c /\ \A i \in 2..n : i + 1 \in DOMAIN c
    BY <1>2, <1>4
  <2>2. s[1] = <<x>> /\ s[2] = << >>
    BY <1>3, <1>5, <2>1 DEF Pieces
  <2>3. ASSUME NEW i \in 2..n PROVE s[i + 1] = <<key[i]>>
    <3>1. key[i] # "hyphen"
      <4>1. i \in DOMAIN key
        BY <1>2, LenProperties DEF IsKey
      <4> QED
        BY <4>1 DEF IsKey
    <3>2. i + 1 \in DOMAIN c /\ c[i + 1] = key[i]
      BY <1>3, <2>1
    <3> QED
      BY <1>5, <3>1, <3>2 DEF Pieces
  <2>4. Len(s[1]) = 1 /\ s[1][1] = x /\ Len(s[2]) = 0
    BY <2>2
  <2>5. ASSUME NEW i \in 2..n PROVE Len(s[i + 1]) = 1 /\ s[i + 1][1] = key[i]
    <3>1. PICK e : e = key[i]
      OBVIOUS
    <3>2. Len(<<e>>) = 1 /\ <<e>>[1] = e
      OBVIOUS
    <3>3. s[i + 1] = <<e>>
      BY <2>3, <3>1
    <3> QED
      BY <3>1, <3>2, <3>3, Zenon
  <2> QED
    BY <2>4, <2>5
<1>9. /\ off[0] = 0 /\ off[n + 1] = Len(t)
      /\ \A i \in 1..n + 1 : /\ off[i] = off[i - 1] + Len(s[i])
                             /\ \A j \in 1..Len(s[i]) : t[off[i - 1] + j] = s[i][j]
  BY <1>6, <1>7 DEF Parts
<1>10. off[1] = 1 /\ off[2] = 1 /\ t[1] = x
  <2>1. 1 \in 1..n + 1 /\ 2 \in 1..n + 1 /\ 1 - 1 = 0 /\ 2 - 1 = 1 /\ 1 \in 1..1 /\ 0 + 1 = 1 /\ 1 + 0 = 1
    BY <1>2
  <2>2. off[1] = off[0] + Len(s[1]) /\ off[2] = off[1] + Len(s[2]) /\ t[off[0] + 1] = s[1][1]
    BY <1>8, <1>9, <2>1
  <2> QED
    BY <1>8, <1>9, <2>1, <2>2
<1>11. \A i \in Nat : i <= n - 1 => off[i + 2] = i + 1
  <2> DEFINE P == {i \in Nat : i <= n - 1 => off[i + 2] = i + 1}
  <2>1. 0 \in P
    BY <1>2, <1>10
  <2>2. ASSUME NEW i \in P PROVE i + 1 \in P
    <3> SUFFICES ASSUME i + 1 <= n - 1 PROVE off[(i + 1) + 2] = (i + 1) + 1
      OBVIOUS
    <3>1. i + 3 \in 1..n + 1 /\ (i + 3) - 1 = i + 2 /\ (i + 2) + 1 = i + 3 /\ i + 2 \in 2..n /\ (i + 1) + 2 = i + 3
      BY <1>2
    <3>2. off[i + 2] = i + 1
      BY <1>2
    <3>3. off[i + 3] = off[i + 2] + Len(s[i + 3]) /\ Len(s[i + 3]) = 1
      <4>1. off[i + 3] = off[(i + 3) - 1] + Len(s[i + 3])
        BY <1>9, <3>1
      <4>2. Len(s[(i + 2) + 1]) = 1
        BY <1>8, <3>1
      <4> QED
        BY <3>1, <4>1, <4>2
    <3> QED
      BY <3>1, <3>2, <3>3
  <2> HIDE DEF P
  <2>3. P \in SUBSET Nat => P = Nat
    BY <2>1, <2>2, ByInduction
  <2> QED
    BY <2>3 DEF P
<1>12. Len(t) = n
  <2>1. n - 1 \in Nat /\ (n - 1) + 2 = n + 1 /\ (n - 1) + 1 = n
    BY <1>2
  <2>2. off[(n - 1) + 2] = (n - 1) + 1
    BY <1>11, <2>1
  <2> QED
    BY <1>9, <2>1, <2>2
<1>13. ASSUME NEW i \in 2..n PROVE t[i] = key[i]
  <2>1. i - 2 \in Nat /\ i - 2 <= n - 1 /\ (i - 2) + 2 = i /\ (i - 2) + 1 = i - 1 /\ (i - 1) + 1 = i
        /\ i + 1 \in 1..n + 1 /\ (i + 1) - 1 = i
    BY <1>2
  <2>2. off[i] = i - 1
    BY <1>11, <2>1
  <2>3. t[off[(i + 1) - 1] + 1] = s[i + 1][1]
    <3>1. Len(s[i + 1]) = 1
      BY <1>8
    <3>2. 1 \in 1..Len(s[i + 1])
      BY <3>1
    <3> QED
      BY <1>9, <2>1, <3>2
  <2>4. s[i + 1][1] = key[i]
    BY <1>8
  <2> QED
    BY <2>1, <2>2, <2>3, <2>4
<1>14. t = key
  <2>1. \A i \in 1..n : t[i] = key[i]
    <3> TAKE i \in 1..n
    <3>1. i = 1 \/ i \in 2..n
      BY <1>2
    <3> QED
      BY <1>10, <1>13, <3>1
  <2>2. key \in Seq(C)
    <3>1. key \in Seq(Characters) /\ Characters \subseteq C
      BY <1>1 DEF IsKey
    <3> QED
      BY <3>1, SeqMonotonic
  <2> QED
    BY <1>2, <1>7, <1>12, <2>1, <2>2, SeqEqual
<1> QED
  BY <1>3, <1>5, <1>7, <1>14 DEF codeToCldrKey, Pieces

-----------------------------------------------------------------------------
(* What renderRows has read after each row.                                 *)
ReadStart == [countries |-> {}, names |-> << >>, skipped |-> 0]
Reads(cldr, rows, st) ==
    /\ st[0] = ReadStart
    /\ \A n \in 1..Len(rows) : st[n] = ReadRow(cldr, st[n - 1], rows[n])
FoldsRows(cldr, rows, D, it) ==
    it = [s \in SUBSET D |-> IF s = {} THEN ReadStart
                             ELSE ReadRow(cldr, it[s \ {Max(s)}], rows[Max(s)])]
CodesOf(read) == {k[1] : k \in DOMAIN read.names}
Added(cldr, read) ==
    (UNION {{Code(x, child) : child \in Listed(cldr, x)} : x \in read.countries}) \ CodesOf(read)
RowsOf(cldr, read) ==
    [subdivisions |-> {[code |-> k[1], item |-> k[2], names |-> read.names[k]] : k \in DOMAIN read.names}
                        \cup {[code |-> code, item |-> << >>, names |-> << >>] : code \in Added(cldr, read)},
     skipped |-> read.skipped]

LEMMA RenderRowsIs ==
    \A cldr, rows : renderRows(cldr, rows)
        = RowsOf(cldr, (CHOOSE it : FoldsRows(cldr, rows, DOMAIN rows, it))[DOMAIN rows])
  BY DEF renderRows, FoldLeft, MapThenFoldSet, FoldsRows, ReadStart, RowsOf, Added, CodesOf, Code

LEMMA FoldsRowsExists ==
    ASSUME NEW cldr, NEW rows, DOMAIN rows = 1..Len(rows), Len(rows) \in Nat
    PROVE  \A n \in Nat : n <= Len(rows) => \E it : FoldsRows(cldr, rows, 1..n, it)
<1> DEFINE P == {n \in Nat : n <= Len(rows) => \E it : FoldsRows(cldr, rows, 1..n, it)}
<1>1. 0 \in P
  <2>1. 1..0 = {} /\ SUBSET {} = {{}}
    OBVIOUS
  <2>2. FoldsRows(cldr, rows, 1..0, [s \in SUBSET (1..0) |-> ReadStart])
    BY <2>1 DEF FoldsRows
  <2> QED
    BY <2>2
<1>2. ASSUME NEW n \in P PROVE n + 1 \in P
  <2> SUFFICES ASSUME n + 1 <= Len(rows) PROVE \E it : FoldsRows(cldr, rows, 1..n + 1, it)
    OBVIOUS
  <2>1. n \in Nat /\ n + 1 \in 1..Len(rows) /\ n <= Len(rows)
    OBVIOUS
  <2>2. PICK a : FoldsRows(cldr, rows, 1..n, a)
    BY <2>1
  <2> DEFINE next(s) == ReadRow(cldr, a[s \ {n + 1}], rows[n + 1])
             b == [s \in SUBSET (1..n + 1) |-> IF n + 1 \in s THEN next(s) ELSE a[s]]
  <2>3. \A s \in SUBSET (1..n) : a[s] = IF s = {} THEN ReadStart
                                         ELSE ReadRow(cldr, a[s \ {Max(s)}], rows[Max(s)])
    BY <2>2 DEF FoldsRows
  <2>4. ASSUME NEW s \in SUBSET (1..n + 1)
        PROVE  b[s] = IF s = {} THEN ReadStart ELSE ReadRow(cldr, b[s \ {Max(s)}], rows[Max(s)])
    <3>1. CASE n + 1 \in s
      <4>1. Max(s) = n + 1
        <5>1. s \in SUBSET Int /\ \A x \in s : x <= n + 1
          BY <2>1
        <5> QED
          BY <3>1, <5>1, MaxIs
      <4>2. b[s] = next(s)
        BY <3>1
      <4>3. s \ {n + 1} \in SUBSET (1..n + 1) /\ n + 1 \notin s \ {n + 1}
        OBVIOUS
      <4>4. b[s \ {n + 1}] = a[s \ {n + 1}]
        BY <4>3
      <4> QED
        BY <3>1, <4>1, <4>2, <4>4
    <3>2. CASE n + 1 \notin s
      <4>1. s \in SUBSET (1..n)
        BY <2>1, <3>2
      <4>2. b[s] = a[s]
        BY <3>2
      <4>3. PICK r : r = s \ {Max(s)}
        OBVIOUS
      <4>4. r \in SUBSET (1..n + 1) /\ n + 1 \notin r
        BY <3>2, <4>3
      <4>5. b[r] = a[r]
        BY <4>4
      <4> HIDE DEF b
      <4> QED
        BY <2>3, <4>1, <4>2, <4>3, <4>5
    <3> QED
      BY <3>1, <3>2
  <2>5. b = [s \in SUBSET (1..n + 1) |-> IF s = {} THEN ReadStart
                                         ELSE ReadRow(cldr, b[s \ {Max(s)}], rows[Max(s)])]
    BY <2>4
  <2> HIDE DEF b
  <2>6. FoldsRows(cldr, rows, 1..n + 1, b)
    BY <2>5 DEF FoldsRows
  <2> QED
    BY <2>6
<1> HIDE DEF P
<1>3. P \in SUBSET Nat => P = Nat
  BY <1>1, <1>2, ByInduction
<1> QED
  BY <1>3 DEF P

LEMMA ReadsExists ==
    \A cldr, rows : \A n \in Nat : n = Len(rows) /\ DOMAIN rows = 1..n =>
        \E st : Reads(cldr, rows, st) /\ renderRows(cldr, rows) = RowsOf(cldr, st[n])
<1> TAKE cldr, rows
<1> TAKE n \in Nat
<1> HAVE n = Len(rows) /\ DOMAIN rows = 1..n
<1>1. PICK it : FoldsRows(cldr, rows, 1..n, it) /\ renderRows(cldr, rows) = RowsOf(cldr, it[1..n])
  <2>1. n <= Len(rows) /\ Len(rows) \in Nat /\ DOMAIN rows = 1..Len(rows)
    OBVIOUS
  <2>2. \E it : FoldsRows(cldr, rows, 1..n, it)
    BY <2>1, FoldsRowsExists
  <2> QED
    BY <2>2, RenderRowsIs
<1>2. PICK st : st = [i \in 0..n |-> it[1..i]]
  OBVIOUS
<1>3. st[0] = ReadStart
  <2>1. 0 \in 0..n /\ 1..0 = {}
    OBVIOUS
  <2> QED
    BY <1>1, <1>2, <2>1 DEF FoldsRows
<1>4. ASSUME NEW i \in 1..n PROVE st[i] = ReadRow(cldr, st[i - 1], rows[i])
  <2>1. i \in 0..n /\ i - 1 \in 0..n /\ 1..i \in SUBSET (1..n) /\ 1..i # {}
    <3>1. i \in Nat /\ 1 <= i /\ i <= n
      OBVIOUS
    <3>2. \A x \in 1..i : x \in 1..n
      BY <3>1
    <3>3. i \in 1..i
      BY <3>1
    <3> QED
      BY <3>1, <3>2, <3>3
  <2>2. Max(1..i) = i
    <3>1. 1..i \in SUBSET Int /\ i \in 1..i /\ \A x \in 1..i : x <= i
      BY <2>1
    <3> QED
      BY <3>1, MaxIs
  <2>3. (1..i) \ {i} = 1..i - 1
    BY <2>1
  <2>4. it[1..i] = ReadRow(cldr, it[1..i - 1], rows[i])
    BY <1>1, <2>1, <2>2, <2>3 DEF FoldsRows
  <2> QED
    BY <1>2, <2>1, <2>4
<1>5. st[n] = it[1..n]
  BY <1>2
<1> QED
  BY <1>1, <1>3, <1>4, <1>5 DEF Reads

-----------------------------------------------------------------------------
(* What one row does.                                                       *)
Country(row) == CountryOf(row[3])
Id(row) == <<row[3], row[1]>>
Kept(cldr, row) == Country(row) # NoCountry /\ codeToCldrKey(row[3]) \in Listed(cldr, Country(row))
WithLabel(names, row) == IF row[4] \in LANGUAGES THEN Set(names, row[4], row[2]) ELSE names

LEMMA KeptIsShown == \A cldr, row : Kept(cldr, row) <=> Shown(cldr, row)
<1> TAKE cldr, row
<1>1. PICK country : country = CountryOf(row[3])
  OBVIOUS
<1>2. Listed(cldr, country) = Below(country) \cap DOMAIN cldr
  BY Contained DEF Listed
<1> QED
  BY <1>1, <1>2 DEF Kept, Shown, Country

Read(C, N, k) == [countries |-> C, names |-> N, skipped |-> k]

Earlier(N, id) == IF id \in DOMAIN N THEN N[id] ELSE << >>

LEMMA ReadRowKept ==
    ASSUME NEW cldr, NEW row, Kept(cldr, row), NEW C, NEW N, NEW k
    PROVE  ReadRow(cldr, Read(C, N, k), row)
             = Read(C \cup {Country(row)}, Set(N, Id(row), WithLabel(Earlier(N, Id(row)), row)), k)
<1>1. {Country(row)} \ {NoCountry} = {Country(row)}
  BY DEF Kept
<1> QED
  BY <1>1 DEF ReadRow, Kept, Country, Id, WithLabel, Read, Earlier

LEMMA ReadRowSkipped ==
    ASSUME NEW cldr, NEW row, ~Kept(cldr, row), NEW C, NEW N, NEW k, NEW l, l = k + 1
    PROVE  ReadRow(cldr, Read(C, N, k), row) = Read(C \cup ({Country(row)} \ {NoCountry}), N, l)
  BY DEF ReadRow, Kept, Country, Id, Read

-----------------------------------------------------------------------------
(* What the first n rows say of a subdivision, said without their order.    *)
Same(a, id, language, n) == {m \in 1..n : Id(a[m]) = id /\ a[m][4] = language}
LastIn(S) == CHOOSE m \in S : \A i \in S : i <= m
Languages(a, id, n) == LANGUAGES \cap {a[m][4] : m \in {i \in 1..n : Id(a[i]) = id}}
NamesUpTo(a, id, n) ==
    [language \in Languages(a, id, n) |-> a[LastIn(Same(a, id, language, n))][2]]
IdsUpTo(cldr, a, n) == {Id(a[m]) : m \in {i \in 1..n : Kept(cldr, a[i])}}
AllNames(cldr, a, n) == [id \in IdsUpTo(cldr, a, n) |-> NamesUpTo(a, id, n)]
Seen(a, n) == {Country(a[m]) : m \in 1..n} \ {NoCountry}

LEMMA LastIs ==
    ASSUME NEW S \in SUBSET Int, NEW m \in S, \A x \in S : x <= m
    PROVE  LastIn(S) = m
<1>1. \A x \in S : (\A y \in S : y <= x) => x = m
  <2> TAKE x \in S
  <2> HAVE \A y \in S : y <= x
  <2>1. m <= x /\ x <= m /\ x \in Int /\ m \in Int
    OBVIOUS
  <2> QED
    BY <2>1
<1> QED
  BY <1>1 DEF LastIn

LEMMA NoNames ==
    ASSUME NEW a, NEW id, NEW n \in Nat, \A m \in 1..n : Id(a[m]) # id
    PROVE  NamesUpTo(a, id, n) = << >>
<1>1. Languages(a, id, n) = {}
  BY DEF Languages
<1>2. PICK f : f = NamesUpTo(a, id, n)
  OBVIOUS
<1>3. f \in [1..0 -> {0}]
  <2>1. 1..0 = {}
    OBVIOUS
  <2> QED
    BY <1>1, <1>2, <2>1 DEF NamesUpTo
<1>4. f \in Seq({0}) /\ Len(f) = 0
  BY <1>3, SequenceOf
<1> QED
  BY <1>2, <1>4, EmptySeq

LEMMA NamesGoOn ==
    ASSUME NEW a, NEW id, NEW n \in Nat, NEW j, j = n + 1
    PROVE  /\ Id(a[j]) # id => NamesUpTo(a, id, j) = NamesUpTo(a, id, n)
           /\ Id(a[j]) = id => NamesUpTo(a, id, j) = WithLabel(NamesUpTo(a, id, n), a[j])
<1>1. 1..j = 1..n \cup {j} /\ j \in Nat /\ j \notin 1..n /\ \A m \in 1..n : m <= j /\ j <= j
  OBVIOUS
<1>2. ASSUME Id(a[j]) # id PROVE NamesUpTo(a, id, j) = NamesUpTo(a, id, n)
  <2>1. Languages(a, id, j) = Languages(a, id, n)
    BY <1>1, <1>2 DEF Languages
  <2>2. \A language : Same(a, id, language, j) = Same(a, id, language, n)
    BY <1>1, <1>2 DEF Same
  <2> QED
    BY <2>1, <2>2 DEF NamesUpTo
<1>3. ASSUME Id(a[j]) = id PROVE NamesUpTo(a, id, j) = WithLabel(NamesUpTo(a, id, n), a[j])
  <2>1. PICK g : g = a[j][4]
    OBVIOUS
  <2>2. Languages(a, id, j) = Languages(a, id, n) \cup (LANGUAGES \cap {g})
    BY <1>1, <1>3, <2>1 DEF Languages
  <2>3. \A language : language # g => Same(a, id, language, j) = Same(a, id, language, n)
    BY <1>1, <2>1 DEF Same
  <2>4. LastIn(Same(a, id, g, j)) = j
    <3>1. /\ Same(a, id, g, j) \in SUBSET Int /\ j \in Same(a, id, g, j)
          /\ \A x \in Same(a, id, g, j) : x <= j
      BY <1>1, <1>3, <2>1 DEF Same
    <3> QED
      BY <3>1, LastIs
  <2>5. CASE g \in LANGUAGES
    <3>1. WithLabel(NamesUpTo(a, id, n), a[j]) = Set(NamesUpTo(a, id, n), g, a[j][2])
      BY <2>1, <2>5 DEF WithLabel
    <3>2. PICK L : L = Languages(a, id, n)
      OBVIOUS
    <3>3. Languages(a, id, j) = L \cup {g}
      BY <2>2, <2>5, <3>2
    <3>4. \A language \in L \cup {g} :
             a[LastIn(Same(a, id, language, j))][2]
               = IF language = g THEN a[j][2] ELSE a[LastIn(Same(a, id, language, n))][2]
      BY <2>3, <2>4
    <3>5. PICK f : f = NamesUpTo(a, id, n)
      OBVIOUS
    <3>6. DOMAIN f = L /\ \A language \in L : f[language] = a[LastIn(Same(a, id, language, n))][2]
      BY <3>2, <3>5 DEF NamesUpTo
    <3>7. NamesUpTo(a, id, j) = [language \in L \cup {g} |-> a[LastIn(Same(a, id, language, j))][2]]
      BY <3>3 DEF NamesUpTo
    <3>8. Set(f, g, a[j][2]) = [language \in L \cup {g} |-> IF language = g THEN a[j][2] ELSE f[language]]
      BY <3>6 DEF Set
    <3>9. \A language \in L \cup {g} :
             a[LastIn(Same(a, id, language, j))][2] = IF language = g THEN a[j][2] ELSE f[language]
      BY <3>4, <3>6
    <3> QED
      BY <3>1, <3>5, <3>7, <3>8, <3>9
  <2>6. CASE g \notin LANGUAGES
    <3>1. Languages(a, id, j) = Languages(a, id, n) /\ g \notin Languages(a, id, n)
      BY <2>2, <2>6 DEF Languages
    <3>2. NamesUpTo(a, id, j) = NamesUpTo(a, id, n)
      BY <2>3, <3>1 DEF NamesUpTo
    <3> QED
      BY <2>1, <2>6, <3>2 DEF WithLabel
  <2> QED
    BY <2>5, <2>6
<1> QED
  BY <1>2, <1>3

LEMMA AllNamesGoOn ==
    ASSUME NEW cldr, NEW a, NEW n \in Nat, NEW j, j = n + 1, NEW row, row = a[j]
    PROVE  /\ ~Kept(cldr, row) => AllNames(cldr, a, j) = AllNames(cldr, a, n)
           /\ Kept(cldr, row) =>
                AllNames(cldr, a, j)
                  = Set(AllNames(cldr, a, n), Id(row),
                        WithLabel(Earlier(AllNames(cldr, a, n), Id(row)), row))
<1>1. 1..j = 1..n \cup {j} /\ j \in Nat
  OBVIOUS
<1>2. PICK ids : ids = IdsUpTo(cldr, a, n)
  OBVIOUS
<1>3. \A m \in 1..n : Id(a[m]) = Id(row) => (Kept(cldr, a[m]) <=> Kept(cldr, row))
  <2> TAKE m \in 1..n
  <2> HAVE Id(a[m]) = Id(row)
  <2>1. a[m][3] = row[3]
    BY DEF Id
  <2> QED
    BY <2>1 DEF Kept, Country
<1>4. \A id : id # Id(row) => NamesUpTo(a, id, j) = NamesUpTo(a, id, n)
  BY NamesGoOn
<1>5. ASSUME ~Kept(cldr, row) PROVE AllNames(cldr, a, j) = AllNames(cldr, a, n)
  <2>1. IdsUpTo(cldr, a, j) = ids
    BY <1>1, <1>2, <1>5 DEF IdsUpTo
  <2>2. Id(row) \notin ids
    BY <1>2, <1>3, <1>5 DEF IdsUpTo
  <2>3. \A id \in ids : NamesUpTo(a, id, j) = NamesUpTo(a, id, n)
    BY <1>4, <2>2
  <2> QED
    BY <1>2, <2>1, <2>3 DEF AllNames
<1>6. ASSUME Kept(cldr, row)
      PROVE  AllNames(cldr, a, j)
               = Set(AllNames(cldr, a, n), Id(row),
                     WithLabel(Earlier(AllNames(cldr, a, n), Id(row)), row))
  <2>1. IdsUpTo(cldr, a, j) = ids \cup {Id(row)}
    BY <1>1, <1>2, <1>6 DEF IdsUpTo
  <2>2. PICK names : names = Earlier(AllNames(cldr, a, n), Id(row))
    OBVIOUS
  <2>3. names = NamesUpTo(a, Id(row), n)
    <3>1. CASE Id(row) \in ids
      BY <1>2, <2>2, <3>1 DEF AllNames, Earlier
    <3>2. CASE Id(row) \notin ids
      <4>1. \A m \in 1..n : Id(a[m]) # Id(row)
        BY <1>2, <1>3, <1>6, <3>2 DEF IdsUpTo
      <4> QED
        BY <1>2, <2>2, <3>2, <4>1, NoNames DEF AllNames, Earlier
    <3> QED
      BY <3>1, <3>2
  <2>4. PICK new : new = WithLabel(names, row)
    OBVIOUS
  <2>5. NamesUpTo(a, Id(row), j) = new
    BY <2>3, <2>4, NamesGoOn
  <2>6. PICK f : f = AllNames(cldr, a, n)
    OBVIOUS
  <2>7. DOMAIN f = ids /\ \A id \in ids : f[id] = NamesUpTo(a, id, n)
    BY <1>2, <2>6 DEF AllNames
  <2>8. \A id \in ids \cup {Id(row)} : NamesUpTo(a, id, j) = IF id = Id(row) THEN new ELSE f[id]
    BY <1>4, <2>5, <2>7
  <2>9. AllNames(cldr, a, j) = [id \in ids \cup {Id(row)} |-> IF id = Id(row) THEN new ELSE f[id]]
    BY <2>1, <2>8 DEF AllNames
  <2>10. Set(f, Id(row), new) = [id \in ids \cup {Id(row)} |-> IF id = Id(row) THEN new ELSE f[id]]
    BY <2>7 DEF Set
  <2>11. AllNames(cldr, a, j) = Set(f, Id(row), new)
    BY <2>9, <2>10
  <2> QED
    BY <1>2, <2>2, <2>4, <2>6, <2>11
<1> QED
  BY <1>5, <1>6

ReadUpTo(cldr, a, p, n) == \E k \in 0..n : p = Read(Seen(a, n), AllNames(cldr, a, n), k)

LEMMA ReadGoesOn ==
    ASSUME NEW cldr, NEW a, NEW n \in Nat, NEW j, j = n + 1, NEW p, ReadUpTo(cldr, a, p, n)
    PROVE  ReadUpTo(cldr, a, ReadRow(cldr, p, a[j]), j)
<1>1. PICK k \in 0..n : p = Read(Seen(a, n), AllNames(cldr, a, n), k)
  BY DEF ReadUpTo
<1>2. PICK row : row = a[j]
  OBVIOUS
<1>3. Seen(a, j) = Seen(a, n) \cup ({Country(row)} \ {NoCountry})
  <2>1. 1..j = 1..n \cup {j}
    OBVIOUS
  <2> QED
    BY <1>2, <2>1 DEF Seen
<1>4. k \in 0..j /\ k + 1 \in 0..j
  OBVIOUS
<1> DEFINE C == Seen(a, n)
           N == AllNames(cldr, a, n)
           new == WithLabel(Earlier(N, Id(row)), row)
<1> HIDE DEF C, N, new
<1>5. CASE Kept(cldr, row)
  <2>1. {Country(row)} \ {NoCountry} = {Country(row)}
    BY <1>5 DEF Kept
  <2>3. ReadRow(cldr, Read(C, N, k), row) = Read(C \cup {Country(row)}, Set(N, Id(row), new), k)
    BY <1>5, ReadRowKept DEF new
  <2>4. AllNames(cldr, a, j) = Set(N, Id(row), new)
    BY <1>2, <1>5, AllNamesGoOn DEF new, N
  <2>5. ReadRow(cldr, p, row) = Read(Seen(a, j), AllNames(cldr, a, j), k)
    BY <1>1, <1>3, <2>1, <2>3, <2>4 DEF C, N
  <2> QED
    BY <1>2, <1>4, <2>5 DEF ReadUpTo
<1>6. CASE ~Kept(cldr, row)
  <2>1. PICK l \in 0..j : l = k + 1
    BY <1>4
  <2>2. ReadRow(cldr, Read(C, N, k), row) = Read(C \cup ({Country(row)} \ {NoCountry}), N, l)
    BY <1>6, <2>1, ReadRowSkipped
  <2>3. AllNames(cldr, a, j) = N
    BY <1>2, <1>6, AllNamesGoOn DEF N
  <2>4. ReadRow(cldr, p, row) = Read(Seen(a, j), AllNames(cldr, a, j), l)
    BY <1>1, <1>3, <2>2, <2>3 DEF C, N
  <2> QED
    BY <1>2, <2>4 DEF ReadUpTo
<1> QED
  BY <1>5, <1>6

(* What renderRows makes of all the rows.                                   *)
LEMMA RowsRead ==
    \A cldr, a : \A n \in Nat : n = Len(a) /\ DOMAIN a = 1..n =>
        \E p : ReadUpTo(cldr, a, p, n) /\ renderRows(cldr, a) = RowsOf(cldr, p)
<1> TAKE cldr, a
<1> TAKE n \in Nat
<1> HAVE n = Len(a) /\ DOMAIN a = 1..n
<1>1. PICK st : Reads(cldr, a, st) /\ renderRows(cldr, a) = RowsOf(cldr, st[n])
  BY ReadsExists
<1> DEFINE P == {m \in Nat : m <= n => ReadUpTo(cldr, a, st[m], m)}
<1>2. 0 \in P
  <2>1. 1..0 = {} /\ 0 \in 0..0
    OBVIOUS
  <2>2. Seen(a, 0) = {} /\ IdsUpTo(cldr, a, 0) = {}
    BY <2>1 DEF Seen, IdsUpTo
  <2>3. AllNames(cldr, a, 0) = << >>
    <3>1. PICK f : f = AllNames(cldr, a, 0)
      OBVIOUS
    <3>2. f \in [1..0 -> {0}]
      BY <2>1, <2>2, <3>1 DEF AllNames
    <3>3. f \in Seq({0}) /\ Len(f) = 0
      BY <3>2, SequenceOf
    <3> QED
      BY <3>1, <3>3, EmptySeq
  <2>4. st[0] = Read(Seen(a, 0), AllNames(cldr, a, 0), 0)
    BY <1>1, <2>2, <2>3 DEF Reads, ReadStart, Read
  <2> QED
    BY <2>1, <2>4 DEF ReadUpTo
<1>3. ASSUME NEW m \in P PROVE m + 1 \in P
  <2> SUFFICES ASSUME m + 1 <= n PROVE ReadUpTo(cldr, a, st[m + 1], m + 1)
    OBVIOUS
  <2>1. PICK j \in 1..n : j = m + 1
    OBVIOUS
  <2>2. m \in Nat /\ m <= n /\ j - 1 = m
    BY <2>1
  <2>3. st[j] = ReadRow(cldr, st[m], a[j])
    BY <1>1, <2>1, <2>2 DEF Reads
  <2>4. ReadUpTo(cldr, a, st[m], m)
    BY <2>2
  <2> HIDE DEF P
  <2>5. ReadUpTo(cldr, a, st[j], j)
    BY <2>1, <2>2, <2>3, <2>4, ReadGoesOn
  <2> QED
    BY <2>1, <2>5
<1> HIDE DEF P
<1>4. P \in SUBSET Nat => P = Nat
  BY <1>2, <1>3, ByInduction
<1>5. ReadUpTo(cldr, a, st[n], n)
  <2>1. n <= n
    OBVIOUS
  <2> QED
    BY <1>4, <2>1 DEF P
<1> QED
  BY <1>1, <1>5

-----------------------------------------------------------------------------
(* The page of an answer has the rows that it must have.                    *)
Entry(code, item, names) == [code |-> code, item |-> item, names |-> names]
Unnamed(code) == Entry(code, << >>, << >>)
Found(cldr, rows) == {Entry(r[3], r[1], Labels(rows, r)) : r \in {s \in ToSet(rows) : Shown(cldr, s)}}
Missing(cldr, rows) ==
    {Unnamed(Code(x, k)) : x \in {CountryOf(r[3]) : r \in ToSet(rows)} \ {NoCountry}, k \in DOMAIN cldr}

LEMMA ExpectedIs ==
    \A cldr, rows :
        Expected(cldr, rows) = Found(cldr, rows) \cup
            {m \in Missing(cldr, rows) : /\ codeToCldrKey(m.code) \in Below(m.code[1]) \cap DOMAIN cldr
                                         /\ m.code \notin {f.code : f \in Found(cldr, rows)}}
  BY DEF Expected, Found, Missing, Unnamed, Entry, Code

Numbered(a, n) == n \in Nat /\ DOMAIN a = 1..n

LEMMA LabelsAre ==
    ASSUME NEW a, NEW n, Numbered(a, n), NEW row
    PROVE  NamesUpTo(a, Id(row), n) = Labels(a, row)
<1> USE DEF Numbered
<1>1. ToSet(a) = {a[i] : i \in 1..n}
  BY DEF ToSet
<1>2. \A i : Id(a[i]) = Id(row) <=> a[i][1] = row[1] /\ a[i][3] = row[3]
  BY DEF Id
<1>3. Languages(a, Id(row), n)
        = LANGUAGES \cap {r[4] : r \in {s \in ToSet(a) : s[1] = row[1] /\ s[3] = row[3]}}
  BY <1>1, <1>2 DEF Languages
<1>4. \A g : a[LastIn(Same(a, Id(row), g, n))][2] = LastLabel(a, row, g)
  <2> TAKE g
  <2>1. Same(a, Id(row), g, n) = {m \in DOMAIN a : a[m][1] = row[1] /\ a[m][3] = row[3] /\ a[m][4] = g}
    BY <1>2 DEF Same
  <2> QED
    BY <2>1 DEF LastLabel, LastIn
<1> QED
  BY <1>3, <1>4 DEF NamesUpTo, Labels

LEMMA FoundIs ==
    ASSUME NEW cldr, NEW a, NEW n, Numbered(a, n), NEW N, N = AllNames(cldr, a, n)
    PROVE  /\ {Entry(k[1], k[2], N[k]) : k \in DOMAIN N} = Found(cldr, a)
           /\ {k[1] : k \in DOMAIN N} = {f.code : f \in Found(cldr, a)}
<1>1. ToSet(a) = {a[i] : i \in 1..n}
  BY DEF ToSet, Numbered
<1>2. DOMAIN N = {Id(r) : r \in {s \in ToSet(a) : Shown(cldr, s)}}
  BY <1>1, KeptIsShown DEF AllNames, IdsUpTo
<1>3. \A r \in ToSet(a) : Shown(cldr, r) => N[Id(r)] = Labels(a, r)
  BY <1>2, LabelsAre DEF AllNames
<1>4. PICK S : S = {s \in ToSet(a) : Shown(cldr, s)}
  OBVIOUS
<1>5. /\ DOMAIN N = {Id(r) : r \in S} /\ \A r \in S : N[Id(r)] = Labels(a, r)
      /\ Found(cldr, a) = {Entry(r[3], r[1], Labels(a, r)) : r \in S}
  BY <1>2, <1>3, <1>4 DEF Found
<1>6. \A r : Id(r)[1] = r[3] /\ Id(r)[2] = r[1]
  BY DEF Id
<1>7. {Entry(k[1], k[2], N[k]) : k \in DOMAIN N} = {Entry(r[3], r[1], Labels(a, r)) : r \in S}
  BY <1>5, <1>6
<1>8. {k[1] : k \in DOMAIN N} = {r[3] : r \in S}
  BY <1>5, <1>6
<1>9. {f.code : f \in Found(cldr, a)} = {r[3] : r \in S}
  <2>1. \A code, item, names : Entry(code, item, names).code = code
    BY DEF Entry
  <2> QED
    BY <1>5, <2>1
<1> QED
  BY <1>5, <1>7, <1>8, <1>9

(* A key whose country is replaced has the same code otherwise.             *)
LEMMA OtherCountry ==
    ASSUME NEW x \in Characters, x # "hyphen", NEW key, IsKey(key)
    PROVE  \E other : IsKey(other) /\ other[1] = x /\ Code(x, other) = Code(x, key)
<1>1. key \in Seq(Characters) /\ \A i \in DOMAIN key : key[i] # "hyphen"
  BY DEF IsKey
<1>2. PICK n \in Nat : n = Len(key) /\ n # 0 /\ DOMAIN key = 1..n
  BY <1>1, CodeIs, LenProperties
<1>3. PICK other : other = [key EXCEPT ![1] = x]
  OBVIOUS
<1>4. /\ other \in [1..n -> Characters] /\ other[1] = x
      /\ \A i \in 1..n : i # 1 => other[i] = key[i]
  BY <1>1, <1>2, <1>3
<1>5. other \in Seq(Characters) /\ Len(other) = n /\ DOMAIN other = 1..n
  BY <1>2, <1>4, SequenceOf
<1>6. IsKey(other)
  <2>1. other # << >>
    BY <1>2, <1>5
  <2>2. \A i \in 1..n : other[i] # "hyphen"
    BY <1>1, <1>2, <1>4
  <2> QED
    BY <1>5, <2>1, <2>2 DEF IsKey
<1>7. Tail(other) = Tail(key)
  <2>1. PICK s, t : s = Tail(other) /\ t = Tail(key)
    OBVIOUS
  <2>2. /\ s \in Seq(Characters) /\ Len(s) = n - 1 /\ \A j \in 1..n - 1 : s[j] = other[j + 1]
        /\ t \in Seq(Characters) /\ Len(t) = n - 1 /\ \A j \in 1..n - 1 : t[j] = key[j + 1]
    BY <1>1, <1>2, <1>5, <2>1, <1>6, HeadTailProperties DEF IsKey
  <2>3. \A j \in 1..n - 1 : s[j] = t[j]
    BY <1>2, <1>4, <2>2
  <2> QED
    BY <2>1, <2>2, <2>3, SeqEqual
<1> QED
  BY <1>4, <1>6, <1>7 DEF Code

LEMMA AddedIs ==
    ASSUME NEW cldr, NEW p
    PROVE  \A code : code \in Added(cldr, p)
             <=> /\ \E x \in p.countries : \E child \in Below(x) \cap DOMAIN cldr : code = Code(x, child)
                 /\ code \notin CodesOf(p)
<1>1. \A x : Listed(cldr, x) = Below(x) \cap DOMAIN cldr
  BY Contained DEF Listed
<1> DEFINE U == UNION {{Code(x, child) : child \in Listed(cldr, x)} : x \in p.countries}
<1>2. Added(cldr, p) = U \ CodesOf(p)
  BY DEF Added
<1>3. \A code : code \in U <=> \E x \in p.countries : \E child \in Below(x) \cap DOMAIN cldr : code = Code(x, child)
  BY <1>1
<1> HIDE DEF U
<1> QED
  BY <1>2, <1>3

LEMMA MissingIs ==
    ASSUME NEW cldr, \A key \in DOMAIN cldr : IsKey(key),
           NEW a, NEW n, Numbered(a, n), NEW p, p.countries = Seen(a, n), NEW present, present = CodesOf(p)
    PROVE  {Unnamed(code) : code \in Added(cldr, p)}
             = {m \in Missing(cldr, a) : /\ codeToCldrKey(m.code) \in Below(m.code[1]) \cap DOMAIN cldr
                                         /\ m.code \notin present}
<1>2. Seen(a, n) = {CountryOf(r[3]) : r \in ToSet(a)} \ {NoCountry}
  BY DEF Seen, Country, ToSet, Numbered
<1>3. \A code : code \in Added(cldr, p)
        <=> /\ \E x \in Seen(a, n) : \E child \in Below(x) \cap DOMAIN cldr : code = Code(x, child)
            /\ code \notin present
  BY AddedIs
<1>4. Missing(cldr, a) = {Unnamed(Code(x, k)) : x \in Seen(a, n), k \in DOMAIN cldr}
  BY <1>2 DEF Missing
<1>5. \A code : Unnamed(code).code = code
  BY DEF Unnamed, Entry
<1>6. ASSUME NEW x \in Seen(a, n), NEW child \in Below(x) \cap DOMAIN cldr, Code(x, child) \notin present
      PROVE  /\ Unnamed(Code(x, child)) \in Missing(cldr, a)
             /\ codeToCldrKey(Code(x, child)) \in Below(Code(x, child)[1]) \cap DOMAIN cldr
  <2>1. IsKey(child) /\ child[1] = x
    BY BelowIs
  <2>2. codeToCldrKey(Code(x, child)) = child /\ Code(x, child)[1] = x
    BY <2>1, KeyOfCode, CodeIs
  <2> QED
    BY <1>4, <2>2
<1>7. ASSUME NEW x \in Seen(a, n), NEW k \in DOMAIN cldr,
             codeToCldrKey(Code(x, k)) \in Below(Code(x, k)[1]) \cap DOMAIN cldr, Code(x, k) \notin present
      PROVE  Code(x, k) \in Added(cldr, p)
  <2>1. IsKey(k) /\ Code(x, k)[1] = x
    BY CodeIs
  <2>2. PICK child \in Below(x) \cap DOMAIN cldr : child = codeToCldrKey(Code(x, k))
    BY <1>7, <2>1
  <2>3. IsKey(child) /\ child[1] = x
    BY BelowIs
  <2>4. x \in Characters /\ x # "hyphen"
    BY <2>3, CodeIs
  <2>5. PICK other : IsKey(other) /\ other[1] = x /\ Code(x, other) = Code(x, k)
    BY <2>1, <2>4, OtherCountry
  <2>6. other = child
    BY <2>2, <2>5, KeyOfCode
  <2> QED
    BY <1>3, <1>7, <2>5, <2>6
<1>8. PICK M : M = {m \in Missing(cldr, a) : /\ codeToCldrKey(m.code) \in Below(m.code[1]) \cap DOMAIN cldr
                                             /\ m.code \notin present}
  OBVIOUS
<1>9. ASSUME NEW code \in Added(cldr, p) PROVE Unnamed(code) \in M
  <2>1. code \notin present /\ \E x \in Seen(a, n) : \E child \in Below(x) \cap DOMAIN cldr : code = Code(x, child)
    BY <1>3
  <2>2. PICK x \in Seen(a, n) : \E child \in Below(x) \cap DOMAIN cldr : code = Code(x, child)
    BY <2>1
  <2>3. PICK child \in Below(x) \cap DOMAIN cldr : code = Code(x, child)
    BY <2>2
  <2> QED
    BY <1>5, <1>6, <1>8, <2>1, <2>3
<1>10. ASSUME NEW m \in M PROVE \E code \in Added(cldr, p) : m = Unnamed(code)
  <2>1. PICK x \in Seen(a, n), k \in DOMAIN cldr : m = Unnamed(Code(x, k))
    BY <1>4, <1>8
  <2>2. m.code = Code(x, k)
    BY <1>5, <2>1
  <2>3. Code(x, k) \in Added(cldr, p)
    BY <1>7, <1>8, <2>2
  <2> QED
    BY <2>1, <2>3
<1> QED
  BY <1>8, <1>9, <1>10

LEMMA RenderedIsExpected ==
    ASSUME NEW cldr, \A key \in DOMAIN cldr : IsKey(key), NEW a, AnswerRows(a), NEW rendered,
           rendered = Rendered(cldr, a)
    PROVE  /\ rendered.status = "written" /\ rendered.skipped \in 0..Len(a)
           /\ rendered.rows = renderHtml(cldr, Expected(cldr, a))
           /\ {[code |-> r.code, item |-> r.item, names |-> r.names] : r \in rendered.rows} = Expected(cldr, a)
<1>1. PICK n : n = Len(a) /\ Numbered(a, n)
  BY LenProperties DEF AnswerRows, Numbered
<1>2. PICK p : ReadUpTo(cldr, a, p, n) /\ renderRows(cldr, a) = RowsOf(cldr, p)
  BY <1>1, RowsRead DEF Numbered
<1>3. p.countries = Seen(a, n) /\ p.names = AllNames(cldr, a, n) /\ p.skipped \in 0..n
  BY <1>2 DEF ReadUpTo, Read
<1>4. PICK N : N = p.names
  OBVIOUS
<1>5. /\ {Entry(k[1], k[2], N[k]) : k \in DOMAIN N} = Found(cldr, a)
      /\ {k[1] : k \in DOMAIN N} = {f.code : f \in Found(cldr, a)}
  BY <1>1, <1>3, <1>4, FoundIs
<1>6. PICK S : S = Found(cldr, a) \cup {Unnamed(code) : code \in Added(cldr, p)}
  OBVIOUS
<1>7. S = Expected(cldr, a)
  <2>1. PICK present : present = {f.code : f \in Found(cldr, a)}
    OBVIOUS
  <2>2. present = CodesOf(p)
    BY <1>4, <1>5, <2>1 DEF CodesOf
  <2>3. {Unnamed(code) : code \in Added(cldr, p)}
          = {m \in Missing(cldr, a) : /\ codeToCldrKey(m.code) \in Below(m.code[1]) \cap DOMAIN cldr
                                      /\ m.code \notin present}
    BY <1>1, <1>3, <2>2, MissingIs
  <2> QED
    BY <1>6, <2>1, <2>3, ExpectedIs
<1>8. RowsOf(cldr, p) = [subdivisions |-> S, skipped |-> p.skipped]
  BY <1>4, <1>5, <1>6 DEF RowsOf, Unnamed, Entry
<1>9. rendered.status = "written" /\ rendered.skipped = p.skipped /\ rendered.rows = renderHtml(cldr, S)
  BY <1>2, <1>8 DEF Rendered
<1>10. \A s \in S : Entry(s.code, s.item, s.names) = s
  <2>1. \A s \in S : \E code, item, names : s = Entry(code, item, names)
    BY <1>6 DEF Found, Unnamed
  <2> QED
    BY <2>1 DEF Entry
<1> DEFINE E(s) == EnglishCells(EnglishName(s.names), cldr[codeToCldrKey(s.code)])
           RowOf(s, e) == [code |-> s.code, item |-> s.item, names |-> s.names, english |-> e]
<1>11. renderHtml(cldr, S) = {RowOf(s, E(s)) : s \in S}
  BY DEF renderHtml
<1>12. \A s, e : /\ RowOf(s, e).code = s.code /\ RowOf(s, e).item = s.item /\ RowOf(s, e).names = s.names
  OBVIOUS
<1> HIDE DEF E, RowOf
<1>13. {Entry(r.code, r.item, r.names) : r \in renderHtml(cldr, S)} = S
  BY <1>10, <1>11, <1>12
<1> QED
  BY <1>1, <1>3, <1>7, <1>9, <1>13 DEF Entry

(* Whatever the answer and the data of CLDR are, the page is written and    *)
(* shows the answer: no row is split, merged or lost on its way through the *)
(* CSV, and no subdivision of a country that was seen is left out.          *)
THEOREM AnswerShown == Spec => []PageShowsAnswer
<1>1. PInv => PageShowsAnswer
  <2> SUFFICES ASSUME PInv, page.status # "none" 
               PROVE  /\ page.status = "written"
                      /\ {[code |-> r.code, item |-> r.item, names |-> r.names] : r \in page.rows}
                           = Expected(CLDR_NAMES, answer)
    BY DEF PageShowsAnswer
  <2>1. page = Rendered(CLDR_NAMES, answer)
    BY DEF PInv, NoPage
  <2> QED
    BY <2>1, RenderedIsExpected DEF PInv
<1> QED
  BY <1>1, PageOfTheAnswer, PTL

-----------------------------------------------------------------------------
(* The walk along two runs of separators, given what they have in common.   *)
WalkFrom(w, c, left, right, common, f, p) ==
    IF p[1] > Len(left) /\ p[2] > Len(right) THEN Nothing
    ELSE IF Alike(w, c, left, right, p[1], p[2]) THEN f[<<p[1] + 1, p[2] + 1>>]
    ELSE IF p[2] > Len(right) \/ (p[1] <= Len(left) /\ common[<<p[1] + 1, p[2]>>] >= common[<<p[1], p[2] + 1>>])
      THEN [f[<<p[1] + 1, p[2]>>] EXCEPT !.wikidata = @ \cup {left[p[1]]}]
    ELSE [f[<<p[1], p[2] + 1>>] EXCEPT !.cldr = @ \cup {right[p[2]]}]
Walks(w, c, left, right, common, f) ==
    f = [p \in Places(left, right) |-> WalkFrom(w, c, left, right, common, f, p)]

LEMMA MarkIs ==
    \A w, c, left, right : markSeparatorDifferences(w, c, left, right)
        = (CHOOSE f : Walks(w, c, left, right, lengths(w, c, left, right), f))[<<1, 1>>]
  BY DEF markSeparatorDifferences, Walks, WalkFrom

(* The places after one of them, and how far one is from the end.           *)
Beyond(left, right, p, q) ==
    \/ p[1] <= Len(left) /\ p[2] <= Len(right) /\ q = <<p[1] + 1, p[2] + 1>>
    \/ p[1] <= Len(left) /\ q = <<p[1] + 1, p[2]>>
    \/ p[2] <= Len(right) /\ q = <<p[1], p[2] + 1>>
ToGo(left, right, p) == (Len(left) + 1 - p[1]) + (Len(right) + 1 - p[2])
Near(left, right, d) == {p \in Places(left, right) : ToGo(left, right, p) <= d}

(* A walk reads the places beyond only, ...                                 *)
LEMMA WalkReads ==
    ASSUME NEW w, NEW c, NEW left, NEW right, NEW common, Len(left) \in Nat, Len(right) \in Nat,
           NEW p \in Places(left, right), NEW f, NEW g,
           \A q : Beyond(left, right, p, q) => f[q] = g[q]
    PROVE  WalkFrom(w, c, left, right, common, f, p) = WalkFrom(w, c, left, right, common, g, p)
<1>1. p[1] \in 1..Len(left) + 1 /\ p[2] \in 1..Len(right) + 1
  BY DEF Places
<1>2. p[1] <= Len(left) => f[<<p[1] + 1, p[2]>>] = g[<<p[1] + 1, p[2]>>]
  BY DEF Beyond
<1>3. p[2] <= Len(right) => f[<<p[1], p[2] + 1>>] = g[<<p[1], p[2] + 1>>]
  BY DEF Beyond
<1>4. p[1] <= Len(left) /\ p[2] <= Len(right) => f[<<p[1] + 1, p[2] + 1>>] = g[<<p[1] + 1, p[2] + 1>>]
  BY DEF Beyond
<1>5. CASE p[1] > Len(left) /\ p[2] > Len(right)
  BY <1>5 DEF WalkFrom
<1>6. CASE ~(p[1] > Len(left) /\ p[2] > Len(right)) /\ Alike(w, c, left, right, p[1], p[2])
  <2>1. p[1] <= Len(left) /\ p[2] <= Len(right)
    BY <1>6 DEF Alike
  <2> QED
    BY <1>4, <1>6, <2>1 DEF WalkFrom
<1>7. CASE /\ ~(p[1] > Len(left) /\ p[2] > Len(right)) /\ ~Alike(w, c, left, right, p[1], p[2])
           /\ p[2] > Len(right) \/ (p[1] <= Len(left) /\ common[<<p[1] + 1, p[2]>>] >= common[<<p[1], p[2] + 1>>])
  <2>1. p[1] <= Len(left)
    BY <1>1, <1>7
  <2> QED
    BY <1>2, <1>7, <2>1 DEF WalkFrom
<1>8. CASE /\ ~(p[1] > Len(left) /\ p[2] > Len(right)) /\ ~Alike(w, c, left, right, p[1], p[2])
           /\ ~(p[2] > Len(right) \/ (p[1] <= Len(left) /\ common[<<p[1] + 1, p[2]>>] >= common[<<p[1], p[2] + 1>>]))
  <2>1. p[2] <= Len(right)
    BY <1>1, <1>8
  <2> QED
    BY <1>3, <1>8, <2>1 DEF WalkFrom
<1> QED
  BY <1>5, <1>6, <1>7, <1>8

(* ... and these are nearer to the end.                                     *)
LEMMA BeyondIsNearer ==
    ASSUME NEW left, NEW right, Len(left) \in Nat, Len(right) \in Nat,
           NEW p \in Places(left, right), NEW q, Beyond(left, right, p, q)
    PROVE  /\ q \in Places(left, right)
           /\ ToGo(left, right, q) \in Nat /\ ToGo(left, right, p) \in Nat
           /\ ToGo(left, right, q) < ToGo(left, right, p)
<1>1. PICK i \in 1..Len(left) + 1 : p[1] = i
  BY DEF Places
<1>2. PICK j \in 1..Len(right) + 1 : p[2] = j
  BY DEF Places
<1>3. CASE i <= Len(left) /\ j <= Len(right) /\ q = <<i + 1, j + 1>>
  <2>1. q[1] = i + 1 /\ q[2] = j + 1
    BY <1>3
  <2> QED
    BY <1>1, <1>2, <1>3, <2>1 DEF Places, ToGo
<1>4. CASE i <= Len(left) /\ q = <<i + 1, j>>
  <2>1. q[1] = i + 1 /\ q[2] = j
    BY <1>4
  <2> QED
    BY <1>1, <1>2, <1>4, <2>1 DEF Places, ToGo
<1>5. CASE j <= Len(right) /\ q = <<i, j + 1>>
  <2>1. q[1] = i /\ q[2] = j + 1
    BY <1>5
  <2> QED
    BY <1>1, <1>2, <1>5, <2>1 DEF Places, ToGo
<1> QED
  BY <1>1, <1>2, <1>3, <1>4, <1>5 DEF Beyond

(* So there is a walk.                                                      *)
LEMMA WalkExists ==
    ASSUME NEW w, NEW c, NEW left, NEW right, NEW common, Len(left) \in Nat, Len(right) \in Nat
    PROVE  \E f : Walks(w, c, left, right, common, f)
<1> DEFINE F(d, f) == [p \in Near(left, right, d) |-> WalkFrom(w, c, left, right, common, f, p)]
           P == {d \in Nat : \E f : f = F(d, f)}
<1>1. \A p \in Places(left, right) :
          ToGo(left, right, p) \in Nat /\ ToGo(left, right, p) <= Len(left) + Len(right)
  BY DEF Places, ToGo
<1>2. ASSUME NEW d \in Nat, NEW f,
             \A q \in Places(left, right) :
                 ToGo(left, right, q) < d => f[q] = WalkFrom(w, c, left, right, common, f, q)
      PROVE  d \in P
  <2>1. PICK g : g = F(d, f)
    OBVIOUS
  <2>2. ASSUME NEW p \in Near(left, right, d), NEW q, Beyond(left, right, p, q) PROVE f[q] = g[q]
    <3>1. p \in Places(left, right) /\ ToGo(left, right, p) <= d
      BY DEF Near
    <3>2. /\ q \in Places(left, right) /\ ToGo(left, right, q) \in Nat /\ ToGo(left, right, p) \in Nat
          /\ ToGo(left, right, q) < ToGo(left, right, p)
      BY <2>2, <3>1, BeyondIsNearer
    <3>3. ToGo(left, right, q) < d /\ q \in Near(left, right, d)
      BY <3>1, <3>2 DEF Near
    <3> QED
      BY <1>2, <2>1, <3>2, <3>3
  <2>3. ASSUME NEW p \in Near(left, right, d)
        PROVE  WalkFrom(w, c, left, right, common, f, p) = WalkFrom(w, c, left, right, common, g, p)
    <3>1. p \in Places(left, right)
      BY DEF Near
    <3> QED
      BY <2>2, <3>1, WalkReads
  <2>4. g = F(d, g)
    BY <2>1, <2>3
  <2> QED
    BY <2>4
<1>3. 0 \in P
  <2>1. \A q \in Places(left, right) : ~(ToGo(left, right, q) < 0)
    BY <1>1
  <2> QED
    BY <1>2, <2>1
<1>4. ASSUME NEW d \in P PROVE d + 1 \in P
  <2>1. PICK f : f = F(d, f)
    OBVIOUS
  <2>2. ASSUME NEW q \in Places(left, right), ToGo(left, right, q) < d + 1
        PROVE  f[q] = WalkFrom(w, c, left, right, common, f, q)
    <3>1. q \in Near(left, right, d)
      BY <1>1, <2>2 DEF Near
    <3> QED
      BY <2>1, <3>1
  <2>3. d + 1 \in Nat
    OBVIOUS
  <2> HIDE DEF P, F
  <2> QED
    BY <1>2, <2>2, <2>3
<1>5. PICK d \in Nat : d = Len(left) + Len(right)
  OBVIOUS
<1>6. d \in P
  <2>1. P \in SUBSET Nat
    OBVIOUS
  <2> HIDE DEF P
  <2> QED
    BY <1>3, <1>4, <2>1, ByInduction
<1>7. Near(left, right, d) = Places(left, right)
  BY <1>1, <1>5 DEF Near
<1> QED
  BY <1>6, <1>7 DEF Walks

(* Whatever the walk marks are separators of its two runs.                  *)
Values(s) == {s[i] : i \in DOMAIN s}
Marking(left, right) == [wikidata : SUBSET Values(left), cldr : SUBSET Values(right)]
LEMMA WalkMarks ==
    ASSUME NEW w, NEW c, NEW left, NEW right, NEW common,
           DOMAIN left = 1..Len(left), DOMAIN right = 1..Len(right), Len(left) \in Nat, Len(right) \in Nat,
           NEW f, NEW p \in Places(left, right),
           \A q : Beyond(left, right, p, q) => f[q] \in Marking(left, right)
    PROVE  WalkFrom(w, c, left, right, common, f, p) \in Marking(left, right)
<1>1. p[1] \in 1..Len(left) + 1 /\ p[2] \in 1..Len(right) + 1
  BY DEF Places
<1>2. p[1] <= Len(left) => /\ f[<<p[1] + 1, p[2]>>] \in Marking(left, right)
                           /\ left[p[1]] \in Values(left)
  BY <1>1 DEF Beyond, Values
<1>3. p[2] <= Len(right) => /\ f[<<p[1], p[2] + 1>>] \in Marking(left, right)
                            /\ right[p[2]] \in Values(right)
  BY <1>1 DEF Beyond, Values
<1>4. p[1] <= Len(left) /\ p[2] <= Len(right) => f[<<p[1] + 1, p[2] + 1>>] \in Marking(left, right)
  BY DEF Beyond
<1>5. CASE p[1] > Len(left) /\ p[2] > Len(right)
  BY <1>5 DEF WalkFrom, Nothing, Marking
<1>6. CASE ~(p[1] > Len(left) /\ p[2] > Len(right)) /\ Alike(w, c, left, right, p[1], p[2])
  <2>1. p[1] <= Len(left) /\ p[2] <= Len(right)
    BY <1>6 DEF Alike
  <2> QED
    BY <1>4, <1>6, <2>1 DEF WalkFrom
<1>7. CASE /\ ~(p[1] > Len(left) /\ p[2] > Len(right)) /\ ~Alike(w, c, left, right, p[1], p[2])
           /\ p[2] > Len(right) \/ (p[1] <= Len(left) /\ common[<<p[1] + 1, p[2]>>] >= common[<<p[1], p[2] + 1>>])
  <2>1. p[1] <= Len(left)
    BY <1>1, <1>7
  <2>2. WalkFrom(w, c, left, right, common, f, p)
          = [f[<<p[1] + 1, p[2]>>] EXCEPT !.wikidata = @ \cup {left[p[1]]}]
    BY <1>7 DEF WalkFrom
  <2> QED
    BY <1>2, <2>1, <2>2 DEF Marking
<1>8. CASE /\ ~(p[1] > Len(left) /\ p[2] > Len(right)) /\ ~Alike(w, c, left, right, p[1], p[2])
           /\ ~(p[2] > Len(right) \/ (p[1] <= Len(left) /\ common[<<p[1] + 1, p[2]>>] >= common[<<p[1], p[2] + 1>>]))
  <2>1. p[2] <= Len(right)
    BY <1>1, <1>8
  <2>2. WalkFrom(w, c, left, right, common, f, p)
          = [f[<<p[1], p[2] + 1>>] EXCEPT !.cldr = @ \cup {right[p[2]]}]
    BY <1>8 DEF WalkFrom
  <2> QED
    BY <1>3, <2>1, <2>2 DEF Marking
<1> QED
  BY <1>5, <1>6, <1>7, <1>8

LEMMA MarksSeparators ==
    ASSUME NEW w, NEW c, NEW left, NEW right,
           DOMAIN left = 1..Len(left), DOMAIN right = 1..Len(right), Len(left) \in Nat, Len(right) \in Nat
    PROVE  markSeparatorDifferences(w, c, left, right) \in Marking(left, right)
<1>1. PICK common : common = lengths(w, c, left, right)
  OBVIOUS
<1>2. PICK f : Walks(w, c, left, right, common, f) /\ markSeparatorDifferences(w, c, left, right) = f[<<1, 1>>]
  BY <1>1, MarkIs, WalkExists
<1> DEFINE P == {d \in Nat : \A p \in Near(left, right, d) : f[p] \in Marking(left, right)}
<1>3. \A p \in Places(left, right) :
          ToGo(left, right, p) \in Nat /\ ToGo(left, right, p) <= Len(left) + Len(right)
  BY DEF Places, ToGo
<1>4. ASSUME NEW d \in Nat,
             \A q \in Places(left, right) : ToGo(left, right, q) < d => f[q] \in Marking(left, right)
      PROVE  d \in P
  <2>1. ASSUME NEW p \in Near(left, right, d) PROVE f[p] \in Marking(left, right)
    <3>1. p \in Places(left, right) /\ ToGo(left, right, p) <= d
      BY DEF Near
    <3>2. ASSUME NEW q, Beyond(left, right, p, q) PROVE f[q] \in Marking(left, right)
      <4>1. /\ q \in Places(left, right) /\ ToGo(left, right, q) \in Nat /\ ToGo(left, right, p) \in Nat
            /\ ToGo(left, right, q) < ToGo(left, right, p)
        BY <3>1, <3>2, BeyondIsNearer
      <4> QED
        BY <1>4, <3>1, <4>1
    <3>3. WalkFrom(w, c, left, right, common, f, p) \in Marking(left, right)
      BY <3>1, <3>2, WalkMarks
    <3> QED
      BY <1>2, <3>1, <3>3 DEF Walks
  <2> QED
    BY <2>1
<1>5. 0 \in P
  <2>1. \A q \in Places(left, right) : ~(ToGo(left, right, q) < 0)
    BY <1>3
  <2> QED
    BY <1>4, <2>1
<1>6. ASSUME NEW d \in P PROVE d + 1 \in P
  <2>1. \A p \in Near(left, right, d) : f[p] \in Marking(left, right)
    OBVIOUS
  <2>2. ASSUME NEW q \in Places(left, right), ToGo(left, right, q) < d + 1
        PROVE  q \in Near(left, right, d)
    BY <1>3, <2>2 DEF Near
  <2>3. d + 1 \in Nat
    OBVIOUS
  <2> HIDE DEF P
  <2> QED
    BY <1>4, <2>1, <2>2, <2>3
<1>7. PICK d \in Nat : d = Len(left) + Len(right)
  OBVIOUS
<1>8. d \in P
  <2>1. P \in SUBSET Nat
    OBVIOUS
  <2> HIDE DEF P
  <2> QED
    BY <1>5, <1>6, <2>1, ByInduction
<1>9. <<1, 1>> \in Near(left, right, d)
  <2>1. <<1, 1>> \in Places(left, right)
    BY DEF Places
  <2> QED
    BY <1>3, <1>7, <2>1 DEF Near
<1> QED
  BY <1>2, <1>8, <1>9

-----------------------------------------------------------------------------
(* The letters and separators after each character of a name.               *)
SplitStart == [letters |-> << >>, separators |-> << << >> >>]
SplitNext(value, p, i) ==
    IF value[i] \in Letters
      THEN [letters |-> Append(p.letters, Canonical(<<value[i]>>)),
            separators |-> Append(p.separators, << >>)]
    ELSE IF value[i] \in Marks /\ Len(p.letters) > 0
      THEN [p EXCEPT !.letters[Len(p.letters)] = Canonical(Append(@, value[i]))]
    ELSE [p EXCEPT !.separators[Len(p.letters) + 1] = Append(@, i)]
Splits(value, st) ==
    /\ st[0] = SplitStart
    /\ \A n \in 1..Len(value) : st[n] = SplitNext(value, st[n - 1], n)
FoldsSplit(value, D, it) ==
    it = [s \in SUBSET D |-> IF s = {} THEN SplitStart
                             ELSE SplitNext(value, it[s \ {Max(s)}], Numbers(value)[Max(s)])]

LEMMA SplitIs ==
    \A value : splitLettersAndSeparators(value) =
        (CHOOSE it : FoldsSplit(value, DOMAIN Numbers(value), it))[DOMAIN Numbers(value)]
  BY DEF splitLettersAndSeparators, FoldLeft, MapThenFoldSet, FoldsSplit, SplitStart, SplitNext, Numbers

LEMMA SplitsExist ==
    ASSUME NEW value, DOMAIN value = 1..Len(value), Len(value) \in Nat
    PROVE  \A n \in Nat : n <= Len(value) => \E it : FoldsSplit(value, 1..n, it)
<1> DEFINE P == {n \in Nat : n <= Len(value) => \E it : FoldsSplit(value, 1..n, it)}
<1>1. 0 \in P
  <2>1. 1..0 = {} /\ SUBSET {} = {{}}
    OBVIOUS
  <2>2. FoldsSplit(value, 1..0, [s \in SUBSET (1..0) |-> SplitStart])
    BY <2>1 DEF FoldsSplit
  <2> QED
    BY <2>2
<1>2. ASSUME NEW n \in P PROVE n + 1 \in P
  <2> SUFFICES ASSUME n + 1 <= Len(value) PROVE \E it : FoldsSplit(value, 1..n + 1, it)
    OBVIOUS
  <2>1. n \in Nat /\ n + 1 \in 1..Len(value) /\ n <= Len(value)
    OBVIOUS
  <2>2. PICK a : FoldsSplit(value, 1..n, a)
    BY <2>1
  <2>3. Numbers(value)[n + 1] = n + 1
    BY <2>1 DEF Numbers
  <2> DEFINE next(s) == SplitNext(value, a[s \ {n + 1}], n + 1)
             b == [s \in SUBSET (1..n + 1) |-> IF n + 1 \in s THEN next(s) ELSE a[s]]
  <2>4. \A s \in SUBSET (1..n) : a[s] = IF s = {} THEN SplitStart
                                         ELSE SplitNext(value, a[s \ {Max(s)}], Numbers(value)[Max(s)])
    BY <2>2 DEF FoldsSplit
  <2>5. ASSUME NEW s \in SUBSET (1..n + 1)
        PROVE  b[s] = IF s = {} THEN SplitStart ELSE SplitNext(value, b[s \ {Max(s)}], Numbers(value)[Max(s)])
    <3>1. CASE n + 1 \in s
      <4>1. Max(s) = n + 1
        <5>1. s \in SUBSET Int /\ \A x \in s : x <= n + 1
          BY <2>1
        <5> QED
          BY <3>1, <5>1, MaxIs
      <4>2. b[s] = next(s)
        BY <3>1
      <4>3. s \ {n + 1} \in SUBSET (1..n + 1) /\ n + 1 \notin s \ {n + 1}
        OBVIOUS
      <4>4. b[s \ {n + 1}] = a[s \ {n + 1}]
        BY <4>3
      <4> QED
        BY <2>3, <3>1, <4>1, <4>2, <4>4
    <3>2. CASE n + 1 \notin s
      <4>1. s \in SUBSET (1..n)
        BY <2>1, <3>2
      <4>2. b[s] = a[s]
        BY <3>2
      <4>3. PICK r : r = s \ {Max(s)}
        OBVIOUS
      <4>4. r \in SUBSET (1..n + 1) /\ n + 1 \notin r
        BY <3>2, <4>3
      <4>5. b[r] = a[r]
        BY <4>4
      <4> HIDE DEF b
      <4> QED
        BY <2>4, <4>1, <4>2, <4>3, <4>5
    <3> QED
      BY <3>1, <3>2
  <2>6. b = [s \in SUBSET (1..n + 1) |-> IF s = {} THEN SplitStart
                                         ELSE SplitNext(value, b[s \ {Max(s)}], Numbers(value)[Max(s)])]
    BY <2>5
  <2> HIDE DEF b
  <2>7. FoldsSplit(value, 1..n + 1, b)
    BY <2>6 DEF FoldsSplit
  <2> QED
    BY <2>7
<1> HIDE DEF P
<1>3. P \in SUBSET Nat => P = Nat
  BY <1>1, <1>2, ByInduction
<1> QED
  BY <1>3 DEF P

LEMMA SplitRun ==
    ASSUME NEW S, NEW value \in Seq(S)
    PROVE  \E st : Splits(value, st) /\ splitLettersAndSeparators(value) = st[Len(value)]
<1>1. PICK n \in Nat : n = Len(value) /\ DOMAIN value = 1..n
  BY LenProperties
<1>2. DOMAIN Numbers(value) = 1..n
  BY <1>1 DEF Numbers
<1>3. PICK it : FoldsSplit(value, 1..n, it) /\ splitLettersAndSeparators(value) = it[1..n]
  <2>1. n <= Len(value) /\ Len(value) \in Nat /\ DOMAIN value = 1..Len(value)
    BY <1>1
  <2>2. \E it : FoldsSplit(value, 1..n, it)
    BY <2>1, SplitsExist
  <2> QED
    BY <1>2, <2>2, SplitIs
<1>4. PICK st : st = [i \in 0..n |-> it[1..i]]
  OBVIOUS
<1>5. st[0] = SplitStart
  <2>1. 0 \in 0..n /\ 1..0 = {}
    BY <1>1
  <2> QED
    BY <1>3, <1>4, <2>1 DEF FoldsSplit
<1>6. ASSUME NEW i \in 1..n PROVE st[i] = SplitNext(value, st[i - 1], i)
  <2>1. i \in 0..n /\ i - 1 \in 0..n /\ 1..i \in SUBSET (1..n) /\ 1..i # {}
    <3>1. i \in Nat /\ 1 <= i /\ i <= n
      BY <1>1
    <3>2. \A x \in 1..i : x \in 1..n
      BY <1>1, <3>1
    <3>3. i \in 1..i
      BY <3>1
    <3> QED
      BY <1>1, <3>1, <3>2, <3>3
  <2>2. Max(1..i) = i
    <3>1. 1..i \in SUBSET Int /\ i \in 1..i /\ \A x \in 1..i : x <= i
      BY <2>1
    <3> QED
      BY <3>1, MaxIs
  <2>3. (1..i) \ {i} = 1..i - 1
    BY <2>1
  <2>4. Numbers(value)[i] = i
    BY <1>1 DEF Numbers
  <2>5. it[1..i] = SplitNext(value, it[1..i - 1], i)
    BY <1>3, <2>1, <2>2, <2>3, <2>4 DEF FoldsSplit
  <2> QED
    BY <1>4, <2>1, <2>5
<1>7. st[n] = it[1..n]
  BY <1>1, <1>4
<1> QED
  BY <1>1, <1>3, <1>5, <1>6, <1>7 DEF Splits


(* There is one run of separators more than there are letters, and they are *)
(* positions in the name.                                                   *)
Splitting(L, R) == [letters |-> L, separators |-> R]
Shaped(D, p) ==
    \E T, L, R : p = Splitting(L, R) /\ L \in Seq(T) /\ R \in Seq(Seq(D)) /\ Len(R) = Len(L) + 1

LEMMA SplitStarts == \A D : Shaped(D, SplitStart)
<1> TAKE D
<1>1. << >> \in Seq({}) /\ Len(<< >>) = 0
  OBVIOUS
<1>2. << << >> >> \in Seq(Seq(D)) /\ Len(<< << >> >>) = 1
  OBVIOUS
<1>3. SplitStart = Splitting(<< >>, << << >> >>)
  BY DEF SplitStart, Splitting
<1>4. 1 = 0 + 1
  OBVIOUS
<1> QED
  BY <1>1, <1>2, <1>3, <1>4, Zenon DEF Shaped

LEMMA SplitGoesOn ==
    ASSUME NEW value, NEW D, NEW i \in D, NEW p, Shaped(D, p)
    PROVE  Shaped(D, SplitNext(value, p, i))
<1>1. PICK T, L, R : p = Splitting(L, R) /\ L \in Seq(T) /\ R \in Seq(Seq(D)) /\ Len(R) = Len(L) + 1
  BY DEF Shaped
<1>2. PICK c : c = value[i]
  OBVIOUS
<1>3. p.letters = L /\ p.separators = R
  BY <1>1 DEF Splitting
<1>4. CASE c \in Letters
  <2>1. PICK e : e = Canonical(<<c>>)
    OBVIOUS
  <2>2. SplitNext(value, p, i) = Splitting(Append(L, e), Append(R, << >>))
    BY <1>2, <1>3, <1>4, <2>1 DEF SplitNext, Splitting
  <2>3. L \in Seq(T \cup {e})
    <3>1. T \subseteq T \cup {e}
      OBVIOUS
    <3> QED
      BY <1>1, <3>1, SeqMonotonic
  <2>4. Append(L, e) \in Seq(T \cup {e}) /\ Len(Append(L, e)) = Len(L) + 1
    BY <2>3
  <2>5. Append(R, << >>) \in Seq(Seq(D)) /\ Len(Append(R, << >>)) = Len(R) + 1
    <3>1. << >> \in Seq(D)
      OBVIOUS
    <3> QED
      BY <1>1, <3>1
  <2> QED
    BY <1>1, <2>2, <2>4, <2>5 DEF Shaped
<1>5. CASE c \notin Letters /\ c \in Marks /\ Len(L) > 0
  <2>1. PICK e : e = Canonical(Append(L[Len(L)], c))
    OBVIOUS
  <2>2. PICK M : M = [L EXCEPT ![Len(L)] = e]
    OBVIOUS
  <2>3. SplitNext(value, p, i) = Splitting(M, R)
    BY <1>1, <1>2, <1>3, <1>5, <2>1, <2>2 DEF SplitNext, Splitting
  <2>4. L \in Seq(T \cup {e})
    <3>1. T \subseteq T \cup {e}
      OBVIOUS
    <3> QED
      BY <1>1, <3>1, SeqMonotonic
  <2>5. M \in Seq(T \cup {e}) /\ Len(M) = Len(L)
    <3>1. Len(L) \in 1..Len(L) /\ e \in T \cup {e}
      BY <1>1, <1>5
    <3> QED
      BY <2>2, <2>4, <3>1, ExceptSeq
  <2> QED
    BY <1>1, <2>3, <2>5 DEF Shaped
<1>6. CASE c \notin Letters /\ ~(c \in Marks /\ Len(L) > 0)
  <2>1. PICK n \in Nat : n = Len(L) + 1
    BY <1>1
  <2>2. PICK e : e = Append(R[n], i)
    OBVIOUS
  <2>3. PICK S : S = [R EXCEPT ![n] = e]
    OBVIOUS
  <2>4. SplitNext(value, p, i) = Splitting(L, S)
    BY <1>1, <1>2, <1>3, <1>6, <2>1, <2>2, <2>3 DEF SplitNext, Splitting
  <2>5. e \in Seq(D)
    <3>1. n \in 1..Len(R)
      BY <1>1, <2>1
    <3>2. R[n] \in Seq(D)
      BY <1>1, <3>1, ElementOfSeq
    <3> QED
      BY <2>2, <3>2
  <2>6. S \in Seq(Seq(D)) /\ Len(S) = Len(R)
    <3>1. n \in 1..Len(R)
      BY <1>1, <2>1
    <3> QED
      BY <1>1, <2>3, <2>5, <3>1, ExceptSeq
  <2> QED
    BY <1>1, <2>4, <2>6 DEF Shaped
<1> QED
  BY <1>4, <1>5, <1>6

LEMMA SplitShape ==
    ASSUME NEW S, NEW value \in Seq(S)
    PROVE  Shaped(DOMAIN value, splitLettersAndSeparators(value))
<1>1. PICK n \in Nat : n = Len(value) /\ DOMAIN value = 1..n
  BY LenProperties
<1>2. PICK st : Splits(value, st) /\ splitLettersAndSeparators(value) = st[n]
  BY <1>1, SplitRun
<1>3. PICK D : D = DOMAIN value
  OBVIOUS
<1> DEFINE P == {m \in Nat : m <= n => Shaped(D, st[m])}
<1>4. 0 \in P
  BY <1>2, SplitStarts DEF Splits
<1>5. ASSUME NEW m \in P PROVE m + 1 \in P
  <2> SUFFICES ASSUME m + 1 <= n PROVE Shaped(D, st[m + 1])
    OBVIOUS
  <2>1. PICK i \in D : i = m + 1 /\ i \in 1..n /\ m = i - 1
    BY <1>1, <1>3
  <2>2. st[i] = SplitNext(value, st[i - 1], i)
    BY <1>1, <1>2, <2>1 DEF Splits
  <2>3. PICK p : p = st[m] /\ Shaped(D, p)
    OBVIOUS
  <2> HIDE DEF P
  <2>4. Shaped(D, SplitNext(value, p, i))
    BY <2>3, SplitGoesOn
  <2> QED
    BY <2>1, <2>2, <2>3, <2>4
<1>6. P \in SUBSET Nat
  OBVIOUS
<1> HIDE DEF P
<1>7. P = Nat
  BY <1>4, <1>5, <1>6, ByInduction
<1> QED
  BY <1>1, <1>2, <1>3, <1>7 DEF P

-----------------------------------------------------------------------------
(* What is highlighted in two names are characters of theirs.               *)
Highlights(w, c) == [wikidata : SUBSET DOMAIN w, cldr : SUBSET DOMAIN c]

LEMMA NoHighlights == \A w, c : Nothing \in Highlights(w, c)
  BY DEF Nothing, Highlights

LEMMA RunsMarked ==
    ASSUME NEW w, NEW c, NEW D, NEW E, NEW left \in Seq(D), NEW right \in Seq(E)
    PROVE  markSeparatorDifferences(w, c, left, right) \in [wikidata : SUBSET D, cldr : SUBSET E]
<1>1. /\ DOMAIN left = 1..Len(left) /\ Len(left) \in Nat
      /\ DOMAIN right = 1..Len(right) /\ Len(right) \in Nat
  BY LenProperties
<1>2. PICK x : x = markSeparatorDifferences(w, c, left, right)
  OBVIOUS
<1>3. x \in Marking(left, right)
  BY <1>1, <1>2, MarksSeparators
<1>4. Values(left) \subseteq D /\ Values(right) \subseteq E
  BY <1>1, ElementOfSeq DEF Values
<1> QED
  BY <1>2, <1>3, <1>4 DEF Marking

LEMMA NonAlphabetic ==
    ASSUME NEW S, NEW T, NEW w \in Seq(S), NEW c \in Seq(T)
    PROVE  nonAlphabeticDifference(w, c) \in Highlights(w, c)
<1>1. PICK a : a = splitLettersAndSeparators(w) /\ Shaped(DOMAIN w, a)
  BY SplitShape
<1>2. PICK b : b = splitLettersAndSeparators(c) /\ Shaped(DOMAIN c, b)
  BY SplitShape
<1>3. PICK K, L, R : a = Splitting(L, R) /\ L \in Seq(K) /\ R \in Seq(Seq(DOMAIN w)) /\ Len(R) = Len(L) + 1
  BY <1>1 DEF Shaped
<1>4. PICK J, M, Q : b = Splitting(M, Q) /\ M \in Seq(J) /\ Q \in Seq(Seq(DOMAIN c)) /\ Len(Q) = Len(M) + 1
  BY <1>2 DEF Shaped
<1>5. a.letters = L /\ a.separators = R /\ b.letters = M /\ b.separators = Q
  BY <1>3, <1>4 DEF Splitting
<1>6. CASE IsBlank(w) \/ L # M
  <2>1. nonAlphabeticDifference(w, c) = Nothing
    BY <1>1, <1>2, <1>5, <1>6 DEF nonAlphabeticDifference
  <2> QED
    BY <2>1, NoHighlights
<1>7. CASE ~(IsBlank(w) \/ L # M)
  <2>1. PICK parts : parts = {markSeparatorDifferences(w, c, R[i], Q[i]) : i \in DOMAIN R}
    OBVIOUS
  <2>2. nonAlphabeticDifference(w, c)
          = [wikidata |-> UNION {p.wikidata : p \in parts}, cldr |-> UNION {p.cldr : p \in parts}]
    BY <1>1, <1>2, <1>5, <1>7, <2>1 DEF nonAlphabeticDifference
  <2>3. ASSUME NEW i \in DOMAIN R
        PROVE  markSeparatorDifferences(w, c, R[i], Q[i]) \in [wikidata : SUBSET DOMAIN w, cldr : SUBSET DOMAIN c]
    <3>1. DOMAIN R = 1..Len(R) /\ DOMAIN Q = 1..Len(Q) /\ Len(R) = Len(Q)
      BY <1>3, <1>4, <1>7, LenProperties
    <3>2. R[i] \in Seq(DOMAIN w) /\ Q[i] \in Seq(DOMAIN c)
      BY <1>3, <1>4, <3>1, ElementOfSeq
    <3>3. PICK left, right, D, E : left = R[i] /\ right = Q[i] /\ D = DOMAIN w /\ E = DOMAIN c
      OBVIOUS
    <3>4. left \in Seq(D) /\ right \in Seq(E)
      BY <3>2, <3>3
    <3>5. markSeparatorDifferences(w, c, left, right) \in [wikidata : SUBSET D, cldr : SUBSET E]
      BY <3>4, RunsMarked, Zenon
    <3> QED
      BY <3>3, <3>5
  <2>4. \A p \in parts : p.wikidata \subseteq DOMAIN w /\ p.cldr \subseteq DOMAIN c
    BY <2>1, <2>3
  <2> QED
    BY <2>2, <2>4 DEF Highlights
<1> QED
  BY <1>6, <1>7

LEMMA FirstDifferenceIs ==
    ASSUME NEW S, NEW T, NEW s \in Seq(S), NEW t \in Seq(T)
    PROVE  /\ FirstDifference(s, t) \in 1..Len(s) + 1
           /\ FirstDifference(s, t) = Len(s) + 1 \/ s[FirstDifference(s, t)] # t[FirstDifference(s, t)]
           /\ \A i \in 1..Len(s) : i < FirstDifference(s, t) => s[i] = t[i]
<1>1. PICK Q : Q = {i \in 1..Len(s) + 1 : i = Len(s) + 1 \/ s[i] # t[i]}
  OBVIOUS
<1>2. Len(s) \in Nat /\ Q \in SUBSET Nat
  BY <1>1
<1>3. Len(s) + 1 \in Q
  BY <1>1, <1>2
<1>4. PICK n \in Q : \A m \in Q : n <= m
  BY <1>2, <1>3, Least
<1>5. Min(Q) = n
  <2>1. \A x \in Q : (\A y \in Q : x <= y) => x = n
    <3> TAKE x \in Q
    <3> HAVE \A y \in Q : x <= y
    <3>1. x <= n /\ n <= x /\ x \in Nat /\ n \in Nat
      BY <1>2, <1>4
    <3> QED
      BY <3>1
  <2>2. (CHOOSE x \in Q : \A y \in Q : x <= y) = n
    BY <1>4, <2>1
  <2> QED
    BY <2>2 DEF Min
<1>6. FirstDifference(s, t) = n
  BY <1>1, <1>5 DEF FirstDifference
<1>7. n \in 1..Len(s) + 1 /\ (n = Len(s) + 1 \/ s[n] # t[n])
  BY <1>1
<1>8. ASSUME NEW i \in 1..Len(s), i < n PROVE s[i] = t[i]
  <2>1. i \notin Q
    BY <1>1, <1>4, <1>8
  <2> QED
    BY <1>1, <2>1
<1> QED
  BY <1>6, <1>7, <1>8

LEMMA SingleCharacter ==
    ASSUME NEW S, NEW T, NEW w \in Seq(S), NEW c \in Seq(T)
    PROVE  singleCharacterDifference(w, c) \in Highlights(w, c)
<1>1. DOMAIN w = 1..Len(w) /\ DOMAIN c = 1..Len(c) /\ Len(w) \in Nat /\ Len(c) \in Nat
  BY LenProperties
<1> DEFINE differing == {i \in DOMAIN w : w[i] # c[i]}
           OneMore(s, t) ==
               Len(s) + 1 = Len(t) /\ SubSeq(s, FirstDifference(s, t), Len(s))
                                        = SubSeq(t, FirstDifference(s, t) + 1, Len(t))
<1>2. singleCharacterDifference(w, c) \in
          {Nothing} \cup (IF Len(w) = Len(c) THEN {[wikidata |-> differing, cldr |-> differing]} ELSE {})
            \cup (IF OneMore(w, c) THEN {[Nothing EXCEPT !.cldr = {FirstDifference(w, c)}]} ELSE {})
            \cup (IF OneMore(c, w) THEN {[Nothing EXCEPT !.wikidata = {FirstDifference(c, w)}]} ELSE {})
  BY DEF singleCharacterDifference
<1>3. Len(w) = Len(c) => [wikidata |-> differing, cldr |-> differing] \in Highlights(w, c)
  BY <1>1 DEF Highlights
<1>4. OneMore(w, c) => [Nothing EXCEPT !.cldr = {FirstDifference(w, c)}] \in Highlights(w, c)
  <2> SUFFICES ASSUME Len(w) + 1 = Len(c)
               PROVE  [Nothing EXCEPT !.cldr = {FirstDifference(w, c)}] \in Highlights(w, c)
    OBVIOUS
  <2>1. FirstDifference(w, c) \in DOMAIN c
    BY <1>1, FirstDifferenceIs
  <2> QED
    BY <2>1 DEF Highlights, Nothing
<1>5. OneMore(c, w) => [Nothing EXCEPT !.wikidata = {FirstDifference(c, w)}] \in Highlights(w, c)
  <2> SUFFICES ASSUME Len(c) + 1 = Len(w)
               PROVE  [Nothing EXCEPT !.wikidata = {FirstDifference(c, w)}] \in Highlights(w, c)
    OBVIOUS
  <2>1. FirstDifference(c, w) \in DOMAIN w
    BY <1>1, FirstDifferenceIs
  <2> QED
    BY <2>1 DEF Highlights, Nothing
<1> HIDE DEF differing, OneMore
<1> QED
  BY <1>2, <1>3, <1>4, <1>5, NoHighlights

LEMMA DifferenceIs ==
    ASSUME NEW S, NEW T, NEW w \in Seq(S), NEW c \in Seq(T)
    PROVE  Difference(w, c) \in Highlights(w, c)
  BY NonAlphabetic, SingleCharacter DEF Difference

-----------------------------------------------------------------------------
(* The cells with the English names of a row.                               *)
LEMMA CellsOfNames ==
    ASSUME NEW S, NEW T, NEW w \in Seq(S), NEW c \in Seq(T)
    PROVE  /\ EnglishCells(w, c).shown \in {"merged", "wikidata", "cldr", "neither"}
           /\ EnglishCells(w, c).marked \in Highlights(w, c)
<1>1. compareEnglishNames(w, c) \in {"same", "wikidata", "cldr", "neither"}
  BY DEF compareEnglishNames
<1>2. PICK match \in {"same", "wikidata", "cldr", "neither"} : match = compareEnglishNames(w, c)
  BY <1>1
<1>3. PICK marked \in Highlights(w, c) : marked = Difference(w, c)
  BY DifferenceIs
<1>4. EnglishCells(w, c) = IF match = "same" THEN [shown |-> "merged", marked |-> Nothing]
                           ELSE [shown |-> match, marked |-> marked]
  BY <1>2, <1>3 DEF EnglishCells
<1> QED
  BY <1>4, NoHighlights

LEMMA Greatest ==
    ASSUME NEW n \in Nat, NEW S \in SUBSET (1..n), S # {}
    PROVE  \E m \in S : \A i \in S : i <= m
<1>1. PICK Q : Q = {n - i : i \in S}
  OBVIOUS
<1>2. Q \in SUBSET Nat /\ Q # {}
  <2>1. \A i \in S : n - i \in Nat
    OBVIOUS
  <2> QED
    BY <1>1, <2>1
<1>3. PICK k \in Q : \A q \in Q : k <= q
  BY <1>2, Least
<1>4. PICK m \in S : k = n - m
  BY <1>1
<1>5. \A i \in S : n - m <= n - i
  BY <1>1, <1>3, <1>4
<1> QED
  BY <1>5

(* A label on the page is a text of the answer.                             *)
LEMMA LabelsAreTexts ==
    ASSUME NEW a, AnswerRows(a), NEW row, NEW language \in DOMAIN Labels(a, row)
    PROVE  Labels(a, row)[language] \in Seq(Characters)
<1>1. PICK n \in Nat : DOMAIN a = 1..n
  BY LenProperties DEF AnswerRows
<1>2. PICK same : same = {m \in 1..n : a[m][1] = row[1] /\ a[m][3] = row[3] /\ a[m][4] = language}
  OBVIOUS
<1>3. same # {}
  <2>1. language \in {r[4] : r \in {s \in ToSet(a) : s[1] = row[1] /\ s[3] = row[3]}}
    BY DEF Labels
  <2>2. PICK r \in ToSet(a) : r[1] = row[1] /\ r[3] = row[3] /\ r[4] = language
    BY <2>1
  <2> QED
    BY <1>1, <1>2, <2>2 DEF ToSet
<1>4. same \in SUBSET (1..n)
  BY <1>2
<1>5. \E m \in same : \A i \in same : i <= m
  BY <1>3, <1>4, Greatest
<1>6. PICK m \in same : m = CHOOSE k \in same : \A i \in same : i <= k
  BY <1>5
<1>7. Labels(a, row)[language] = a[m][2]
  BY <1>1, <1>2, <1>6 DEF Labels, LastLabel
<1>8. PICK r : r = a[m] /\ AnswerRow(r)
  BY <1>1, <1>4 DEF AnswerRows
<1>9. r[2] \in Seq(Characters)
  <2>1. r \in Seq(Seq(Characters)) /\ 2 \in 1..Len(r)
    BY <1>8 DEF AnswerRow
  <2> QED
    BY <2>1, ElementOfSeq
<1> QED
  BY <1>7, <1>8, <1>9

LEMMA ExpectedTypes ==
    ASSUME NEW cldr, NEW a, AnswerRows(a), NEW s \in Expected(cldr, a)
    PROVE  /\ DOMAIN s.names \subseteq LANGUAGES
           /\ EnglishName(s.names) \in Seq(Characters)
           /\ codeToCldrKey(s.code) \in DOMAIN cldr
<1>1. CASE s \in Found(cldr, a)
  <2>1. PICK row : Shown(cldr, row) /\ s = Entry(row[3], row[1], Labels(a, row))
    BY <1>1 DEF Found
  <2>2. s.code = row[3] /\ s.names = Labels(a, row)
    BY <2>1 DEF Entry
  <2>3. codeToCldrKey(s.code) \in DOMAIN cldr
    BY <2>1, <2>2 DEF Shown
  <2>4. DOMAIN s.names \subseteq LANGUAGES
    BY <2>2 DEF Labels
  <2>5. EnglishName(s.names) \in Seq(Characters)
    <3>1. << >> \in Seq(Characters)
      OBVIOUS
    <3> QED
      BY <2>2, <3>1, LabelsAreTexts DEF EnglishName
  <2> QED
    BY <2>3, <2>4, <2>5
<1>2. CASE s \notin Found(cldr, a)
  <2>1. s \in Missing(cldr, a) /\ codeToCldrKey(s.code) \in DOMAIN cldr
    BY <1>2, ExpectedIs
  <2>2. s.names = << >>
    BY <2>1 DEF Missing, Unnamed, Entry
  <2>3. DOMAIN << >> = {} /\ << >> \in Seq(Characters)
    OBVIOUS
  <2> QED
    BY <2>1, <2>2, <2>3 DEF EnglishName
<1> QED
  BY <1>1, <1>2

(* A row of the page has names in the configured languages only, and what   *)
(* is highlighted in a name are characters of that name: the walk along     *)
(* the separators never leaves them (render_html.js renderHtml, renderName, *)
(* markSeparatorDifferences).                                               *)
THEOREM TypesOfAPage == Spec => []TypeOK
<1>1. PInv => TypeOK
  <2> SUFFICES ASSUME PInv PROVE TypeOK
    OBVIOUS
  <2>1. CASE page = NoPage
    <3>1. Len(answer) \in Nat
      BY DEF PInv, AnswerRows
    <3> QED
      BY <2>1, <3>1 DEF NoPage, TypeOK
  <2>2. CASE page = Rendered(CLDR_NAMES, answer)
    <3>1. /\ page.status = "written" /\ page.skipped \in 0..Len(answer)
          /\ page.rows = renderHtml(CLDR_NAMES, Expected(CLDR_NAMES, answer))
      BY <2>2, RenderedIsExpected DEF PInv
    <3>2. ASSUME NEW r \in page.rows
          PROVE  /\ DOMAIN r.names \subseteq LANGUAGES
                 /\ r.english.shown \in {"merged", "wikidata", "cldr", "neither"}
                 /\ r.english.marked.wikidata \subseteq DOMAIN EnglishName(r.names)
                 /\ r.english.marked.cldr \subseteq DOMAIN CLDR_NAMES[codeToCldrKey(r.code)]
      <4>1. PICK s \in Expected(CLDR_NAMES, answer) :
                /\ r.code = s.code /\ r.names = s.names
                /\ r.english = EnglishCells(EnglishName(s.names), CLDR_NAMES[codeToCldrKey(s.code)])
        BY <3>1 DEF renderHtml
      <4>2. PICK w, c : w = EnglishName(s.names) /\ c = CLDR_NAMES[codeToCldrKey(s.code)]
        OBVIOUS
      <4>3. DOMAIN s.names \subseteq LANGUAGES /\ w \in Seq(Characters) /\ codeToCldrKey(s.code) \in DOMAIN CLDR_NAMES
        BY <4>2, ExpectedTypes DEF PInv
      <4>4. c \in Seq(Characters)
        BY <4>2, <4>3 DEF PInv
      <4>5. /\ r.english.shown \in {"merged", "wikidata", "cldr", "neither"}
            /\ r.english.marked \in Highlights(w, c)
        BY <4>1, <4>2, <4>3, <4>4, CellsOfNames
      <4> QED
        BY <4>1, <4>2, <4>3, <4>5 DEF Highlights
    <3> QED
      BY <3>1, <3>2 DEF TypeOK
  <2> QED
    BY <2>1, <2>2 DEF PInv
<1> QED
  BY <1>1, PageOfTheAnswer, PTL

-----------------------------------------------------------------------------
(* A flattened sequence grows at its end.                                   *)
LEMMA FlattensOnce ==
    ASSUME NEW seqs, NEW n \in Nat, NEW a, NEW b, Flattens(seqs, n, a), Flattens(seqs, n, b)
    PROVE  a = b
<1> DEFINE P == {i \in Nat : i + 1 \in 1..n => a[i + 1] = b[i + 1]}
<1>1. /\ \A i \in 1..n : a[i] = IF i = 1 THEN seqs[i] ELSE a[i - 1] \o seqs[i]
      /\ \A i \in 1..n : b[i] = IF i = 1 THEN seqs[i] ELSE b[i - 1] \o seqs[i]
  BY DEF Flattens
<1>2. 0 \in P
  BY <1>1
<1>3. ASSUME NEW i \in P PROVE i + 1 \in P
  <2> SUFFICES ASSUME i + 1 + 1 \in 1..n PROVE a[i + 1 + 1] = b[i + 1 + 1]
    OBVIOUS
  <2>1. i \in Nat /\ i + 1 \in 1..n /\ (i + 1 + 1) - 1 = i + 1 /\ i + 1 + 1 # 1
    OBVIOUS
  <2>2. a[i + 1] = b[i + 1]
    BY <2>1
  <2> QED
    BY <1>1, <2>1, <2>2
<1> HIDE DEF P
<1>4. P \in SUBSET Nat => P = Nat
  BY <1>2, <1>3, ByInduction
<1>5. \A i \in 1..n : a[i] = b[i]
  <2> TAKE i \in 1..n
  <2>1. i - 1 \in Nat /\ (i - 1) + 1 = i
    OBVIOUS
  <2> QED
    BY <1>4, <2>1 DEF P
<1> QED
  BY <1>5 DEF Flattens

LEMMA FlattenAppend ==
    ASSUME NEW S, NEW seqs \in Seq(Seq(S)), NEW s \in Seq(S)
    PROVE  FlattenSeq(Append(seqs, s)) = FlattenSeq(seqs) \o s
<1>1. PICK n \in Nat : n = Len(seqs)
  OBVIOUS
<1>2. PICK more : more = Append(seqs, s)
  OBVIOUS
<1>3. Len(more) = n + 1 /\ more[n + 1] = s /\ \A i \in 1..n : more[i] = seqs[i]
  BY <1>1, <1>2
<1>4. PICK it : Flattens(more, n + 1, it) /\ FlattenSeq(more) = it[n + 1]
  <2>1. n + 1 \in Nat \ {0}
    OBVIOUS
  <2> QED
    BY <1>3, <2>1, FlattenIs, FlattensExists
<1>5. \A i \in 1..n + 1 : it[i] = IF i = 1 THEN more[i] ELSE it[i - 1] \o more[i]
  BY <1>4 DEF Flattens
<1>6. CASE n = 0
  <2>1. seqs = << >> /\ FlattenSeq(seqs) = << >>
    <3>1. seqs = << >>
      BY <1>1, <1>6, EmptySeq
    <3> QED
      BY <3>1 DEF FlattenSeq
  <2>2. it[1] = s
    BY <1>3, <1>5, <1>6
  <2> QED
    BY <1>2, <1>4, <1>6, <2>1, <2>2
<1>7. CASE n # 0
  <2>1. PICK b : b = [i \in 1..n |-> it[i]]
    OBVIOUS
  <2>2. \A i \in 1..n : b[i] = IF i = 1 THEN seqs[i] ELSE b[i - 1] \o seqs[i]
    <3> TAKE i \in 1..n
    <3>1. i \in 1..n + 1 /\ (i # 1 => i - 1 \in 1..n)
      OBVIOUS
    <3> QED
      BY <1>3, <1>5, <2>1, <3>1
  <2>3. Flattens(seqs, n, b)
    BY <2>1, <2>2 DEF Flattens
  <2>4. FlattenSeq(seqs) = b[n]
    <3>1. PICK c : Flattens(seqs, n, c) /\ FlattenSeq(seqs) = c[n]
      BY <1>1, <1>7, FlattenIs, FlattensExists
    <3> QED
      BY <2>3, <3>1, FlattensOnce
  <2>5. it[n + 1] = it[n] \o s
    <3>1. n + 1 \in 1..n + 1 /\ n + 1 # 1 /\ (n + 1) - 1 = n
      BY <1>7
    <3> QED
      BY <1>3, <1>5, <3>1
  <2>6. it[n] = b[n]
    BY <1>7, <2>1
  <2> QED
    BY <1>2, <1>4, <2>4, <2>5, <2>6
<1> QED
  BY <1>6, <1>7

-----------------------------------------------------------------------------
(* The normal form after each character of a name.                          *)
Compose(t, c) ==
    IF c \in Marks /\ t # << >> /\ Last(t) \in DOMAIN Composed
      THEN Append(Front(t), Composed[Last(t)]) ELSE Append(t, c)
Composes(s, n, st) ==
    /\ st[0] = << >>
    /\ \A i \in 1..n : st[i] = Compose(st[i - 1], s[i])
FoldsNfc(s, D, it) ==
    it = [S \in SUBSET D |-> IF S = {} THEN << >> ELSE Compose(it[S \ {Max(S)}], s[Max(S)])]

LEMMA NfcIs ==
    \A s : Nfc(s) = (CHOOSE it : FoldsNfc(s, DOMAIN s, it))[DOMAIN s]
  BY DEF Nfc, FoldLeft, MapThenFoldSet, FoldsNfc, Compose

LEMMA NfcExists ==
    ASSUME NEW s
    PROVE  \A n \in Nat : \E it : FoldsNfc(s, 1..n, it)
<1> DEFINE P == {n \in Nat : \E it : FoldsNfc(s, 1..n, it)}
<1>1. 0 \in P
  <2>1. 1..0 = {} /\ SUBSET {} = {{}}
    OBVIOUS
  <2>2. FoldsNfc(s, 1..0, [S \in SUBSET (1..0) |-> << >>])
    BY <2>1 DEF FoldsNfc
  <2> QED
    BY <2>2
<1>2. ASSUME NEW n \in P PROVE n + 1 \in P
  <2>1. n \in Nat
    OBVIOUS
  <2>2. PICK a : FoldsNfc(s, 1..n, a)
    OBVIOUS
  <2> DEFINE next(S) == Compose(a[S \ {n + 1}], s[n + 1])
             b == [S \in SUBSET (1..n + 1) |-> IF n + 1 \in S THEN next(S) ELSE a[S]]
  <2>3. \A S \in SUBSET (1..n) : a[S] = IF S = {} THEN << >> ELSE Compose(a[S \ {Max(S)}], s[Max(S)])
    BY <2>2 DEF FoldsNfc
  <2>4. ASSUME NEW S \in SUBSET (1..n + 1)
        PROVE  b[S] = IF S = {} THEN << >> ELSE Compose(b[S \ {Max(S)}], s[Max(S)])
    <3>1. CASE n + 1 \in S
      <4>1. Max(S) = n + 1
        <5>1. S \in SUBSET Int /\ \A x \in S : x <= n + 1
          BY <2>1
        <5> QED
          BY <3>1, <5>1, MaxIs
      <4>2. b[S] = next(S)
        BY <3>1
      <4>3. S \ {n + 1} \in SUBSET (1..n + 1) /\ n + 1 \notin S \ {n + 1}
        OBVIOUS
      <4>4. b[S \ {n + 1}] = a[S \ {n + 1}]
        BY <4>3
      <4> QED
        BY <3>1, <4>1, <4>2, <4>4
    <3>2. CASE n + 1 \notin S
      <4>1. S \in SUBSET (1..n)
        BY <2>1, <3>2
      <4>2. b[S] = a[S]
        BY <3>2
      <4>3. PICK r : r = S \ {Max(S)}
        OBVIOUS
      <4>4. r \in SUBSET (1..n + 1) /\ n + 1 \notin r
        BY <3>2, <4>3
      <4>5. b[r] = a[r]
        BY <4>4
      <4> HIDE DEF b
      <4> QED
        BY <2>3, <4>1, <4>2, <4>3, <4>5
    <3> QED
      BY <3>1, <3>2
  <2>5. b = [S \in SUBSET (1..n + 1) |-> IF S = {} THEN << >> ELSE Compose(b[S \ {Max(S)}], s[Max(S)])]
    BY <2>4
  <2> HIDE DEF b
  <2>6. FoldsNfc(s, 1..n + 1, b)
    BY <2>5 DEF FoldsNfc
  <2> QED
    BY <2>1, <2>6
<1> HIDE DEF P
<1>3. P \in SUBSET Nat => P = Nat
  BY <1>1, <1>2, ByInduction
<1> QED
  BY <1>3 DEF P

LEMMA NfcRun ==
    ASSUME NEW S, NEW s \in Seq(S)
    PROVE  \E st : Composes(s, Len(s), st) /\ Nfc(s) = st[Len(s)]
<1>1. PICK n \in Nat : n = Len(s) /\ DOMAIN s = 1..n
  BY LenProperties
<1>2. PICK it : FoldsNfc(s, 1..n, it) /\ Nfc(s) = it[1..n]
  <2>1. \E it : FoldsNfc(s, 1..n, it)
    BY NfcExists
  <2> QED
    BY <1>1, <2>1, NfcIs
<1>3. PICK st : st = [i \in 0..n |-> it[1..i]]
  OBVIOUS
<1>4. st[0] = << >>
  <2>1. 0 \in 0..n /\ 1..0 = {}
    BY <1>1
  <2> QED
    BY <1>2, <1>3, <2>1 DEF FoldsNfc
<1>5. ASSUME NEW i \in 1..n PROVE st[i] = Compose(st[i - 1], s[i])
  <2>1. i \in 0..n /\ i - 1 \in 0..n /\ 1..i \in SUBSET (1..n) /\ 1..i # {}
    <3>1. i \in Nat /\ 1 <= i /\ i <= n
      BY <1>1
    <3>2. \A x \in 1..i : x \in 1..n
      BY <1>1, <3>1
    <3>3. i \in 1..i
      BY <3>1
    <3>4. i \in 0..n /\ i - 1 \in 0..n
      BY <1>1, <3>1
    <3> QED
      BY <3>2, <3>3, <3>4, Zenon
  <2>2. Max(1..i) = i
    <3>1. 1..i \in SUBSET Int /\ i \in 1..i /\ \A x \in 1..i : x <= i
      BY <2>1
    <3> QED
      BY <3>1, MaxIs
  <2>3. (1..i) \ {i} = 1..i - 1
    BY <2>1
  <2>4. it[1..i] = Compose(it[1..i - 1], s[i])
    BY <1>2, <2>1, <2>2, <2>3 DEF FoldsNfc
  <2> QED
    BY <1>3, <2>1, <2>4
<1>6. st[n] = it[1..n]
  BY <1>1, <1>3
<1> QED
  BY <1>1, <1>2, <1>4, <1>5, <1>6 DEF Composes

LEMMA ComposesOnce ==
    ASSUME NEW s, NEW n \in Nat, NEW a, NEW b, Composes(s, n, a), Composes(s, n, b)
    PROVE  a[n] = b[n]
<1> DEFINE P == {i \in Nat : i <= n => a[i] = b[i]}
<1>1. 0 \in P
  BY DEF Composes
<1>2. ASSUME NEW i \in P PROVE i + 1 \in P
  <2> SUFFICES ASSUME i + 1 <= n PROVE a[i + 1] = b[i + 1]
    OBVIOUS
  <2>1. i + 1 \in 1..n /\ (i + 1) - 1 = i /\ a[i] = b[i]
    OBVIOUS
  <2> QED
    BY <2>1 DEF Composes
<1> HIDE DEF P
<1>3. P \in SUBSET Nat => P = Nat
  BY <1>1, <1>2, ByInduction
<1> QED
  BY <1>3 DEF P

(* One more character.                                                      *)
LEMMA NfcAppend ==
    ASSUME NEW S, NEW s \in Seq(S), NEW c \in S
    PROVE  /\ Nfc(<< >>) = << >>
           /\ Nfc(Append(s, c)) = Compose(Nfc(s), c)
<1>1. Nfc(<< >>) = << >>
  <2>1. << >> \in Seq(S) /\ Len(<< >>) = 0
    OBVIOUS
  <2> QED
    BY <2>1, NfcRun DEF Composes
<1>2. PICK n \in Nat : n = Len(s)
  OBVIOUS
<1>3. PICK t \in Seq(S) : t = Append(s, c)
  BY AppendProperties
<1>4. Len(t) = n + 1 /\ t[n + 1] = c /\ \A i \in 1..n : t[i] = s[i]
  BY <1>2, <1>3
<1>5. PICK a : Composes(s, n, a) /\ Nfc(s) = a[n]
  BY <1>2, NfcRun
<1>6. PICK b : Composes(t, n + 1, b) /\ Nfc(t) = b[n + 1]
  BY <1>4, NfcRun
<1>7. Composes(s, n, b)
  <2> SUFFICES ASSUME NEW i \in 1..n PROVE b[i] = Compose(b[i - 1], s[i])
    BY <1>6 DEF Composes
  <2>1. i \in 1..n + 1
    OBVIOUS
  <2> QED
    BY <1>4, <1>6, <2>1 DEF Composes
<1>8. b[n + 1] = Compose(b[n], c)
  <2>1. n + 1 \in 1..n + 1 /\ (n + 1) - 1 = n
    OBVIOUS
  <2> QED
    BY <1>4, <1>6, <2>1 DEF Composes
<1>9. a[n] = b[n]
  BY <1>5, <1>7, ComposesOnce
<1> QED
  BY <1>1, <1>3, <1>5, <1>6, <1>8, <1>9

-----------------------------------------------------------------------------
(* What is left of the first n characters without some positions.           *)
KeptPiece(s, V, i) == IF i \in V THEN << >> ELSE <<s[i]>>
KeptPieces(s, V, n) == [i \in 1..n |-> KeptPiece(s, V, i)]
Keep(s, V, n) == FlattenSeq(KeptPieces(s, V, n))

LEMMA WithoutIs ==
    ASSUME NEW s, NEW n, DOMAIN s = 1..n
    PROVE  \A V : Without(s, V) = Keep(s, V, n)
  BY DEF Without, Keep, KeptPieces, KeptPiece

LEMMA KeptPiecesAre ==
    ASSUME NEW S, NEW s \in Seq(S), NEW V, NEW n \in Nat, n <= Len(s)
    PROVE  /\ KeptPieces(s, V, n) \in Seq(Seq(S)) /\ Len(KeptPieces(s, V, n)) = n
           /\ \A i \in 1..n : KeptPieces(s, V, n)[i] = KeptPiece(s, V, i)
<1>1. ASSUME NEW i \in 1..n PROVE KeptPiece(s, V, i) \in Seq(S)
  <2>1. s[i] \in S
    <3>1. i \in 1..Len(s)
      OBVIOUS
    <3> QED
      BY <3>1, ElementOfSeq
  <2>2. <<s[i]>> \in Seq(S) /\ << >> \in Seq(S)
    BY <2>1
  <2> QED
    BY <2>2 DEF KeptPiece
<1>2. PICK p : p = KeptPieces(s, V, n)
  OBVIOUS
<1>3. p \in [1..n -> Seq(S)] /\ \A i \in 1..n : p[i] = KeptPiece(s, V, i)
  BY <1>1, <1>2 DEF KeptPieces
<1> QED
  BY <1>2, <1>3, SequenceOf
  
LEMMA KeepGrows ==
    ASSUME NEW S, NEW s \in Seq(S), NEW V, NEW n \in Nat, n <= Len(s)
    PROVE  /\ Keep(s, V, 0) = << >>
           /\ Keep(s, V, n) \in Seq(S)
           /\ \A m : m = n + 1 /\ m <= Len(s) =>
                  Keep(s, V, m) = IF m \in V THEN Keep(s, V, n) ELSE Append(Keep(s, V, n), s[m])
<1>1. PICK p \in Seq(Seq(S)) : p = KeptPieces(s, V, n) /\ Len(p) = n /\ \A i \in 1..n : p[i] = KeptPiece(s, V, i)
  BY KeptPiecesAre
<1>2. Keep(s, V, n) = FlattenSeq(p) /\ FlattenSeq(p) \in Seq(S)
  BY <1>1, FlattenParts DEF Keep
<1>3. Keep(s, V, 0) = << >>
  <2>1. KeptPieces(s, V, 0) = << >>
    BY DEF KeptPieces
  <2> QED
    BY <2>1 DEF Keep, FlattenSeq
<1>4. ASSUME NEW m, m = n + 1, m <= Len(s)
      PROVE  Keep(s, V, m) = IF m \in V THEN Keep(s, V, n) ELSE Append(Keep(s, V, n), s[m])
  <2>1. PICK q \in Seq(Seq(S)) : q = KeptPieces(s, V, m) /\ Len(q) = m /\ \A i \in 1..m : q[i] = KeptPiece(s, V, i)
    <3>1. m \in Nat
      BY <1>4
    <3> QED
      BY <1>4, <3>1, KeptPiecesAre
  <2>2. PICK e \in Seq(S) : e = KeptPiece(s, V, m)
    <3>1. m \in 1..m /\ m \in 1..Len(q)
      BY <1>4, <2>1
    <3>2. q[m] = KeptPiece(s, V, m) /\ q[m] \in Seq(S)
      BY <2>1, <3>1, ElementOfSeq
    <3> QED
      BY <3>2
  <2>3. q = Append(p, e)
    <3>1. Append(p, e) \in Seq(Seq(S)) /\ Len(Append(p, e)) = n + 1
      BY <1>1
    <3>2. ASSUME NEW i \in 1..m PROVE q[i] = Append(p, e)[i]
      <4>1. CASE i = m
        <5>1. Append(p, e)[n + 1] = e
          BY <1>1
        <5> QED
          BY <1>4, <2>1, <2>2, <4>1, <5>1
      <4>2. CASE i # m
        <5>1. i \in 1..n
          BY <1>4, <4>2
        <5>2. Append(p, e)[i] = p[i]
          BY <1>1, <5>1
        <5>3. q[i] = KeptPiece(s, V, i) /\ p[i] = KeptPiece(s, V, i)
          BY <1>1, <2>1, <5>1
        <5> QED
          BY <5>2, <5>3
      <4> QED
        BY <4>1, <4>2
    <3> QED
      BY <1>4, <2>1, <3>1, <3>2, SeqEqual
  <2>4. Keep(s, V, m) = FlattenSeq(p) \o e
    BY <2>1, <2>3, FlattenAppend DEF Keep
  <2>5. CASE m \in V
    <3>1. e = << >>
      BY <2>2, <2>5 DEF KeptPiece
    <3> QED
      BY <1>2, <2>4, <2>5, <3>1, ConcatEmptySeq
  <2>6. CASE m \notin V
    <3>1. e = <<s[m]>>
      BY <2>2, <2>6 DEF KeptPiece
    <3>2. s[m] \in S
      BY <1>4, ElementOfSeq
    <3>3. FlattenSeq(p) \o <<s[m]>> = Append(FlattenSeq(p), s[m])
      BY <1>2, <3>2, AppendIsConcat
    <3> QED
      BY <1>2, <2>4, <2>6, <3>1, <3>3
  <2> QED
    BY <2>5, <2>6
<1> QED
  BY <1>2, <1>3, <1>4

-----------------------------------------------------------------------------
(* The characters that change.                                              *)
LowerOf(x) == IF x \in DOMAIN LowerCase THEN LowerCase[x] ELSE x

LEMMA Alphabet ==
    /\ DOMAIN Composed = {"a", "A"} /\ Composed["a"] = "a_acute" /\ Composed["A"] = "A_acute"
    /\ DOMAIN LowerCase = {"A", "A_acute"} /\ LowerCase["A"] = "a" /\ LowerCase["A_acute"] = "a_acute"
  BY DEF Composed, LowerCase

LEMMA LowerOfIs ==
    /\ LowerOf("a") = "a" /\ LowerOf("A") = "a"
    /\ LowerOf("a_acute") = "a_acute" /\ LowerOf("A_acute") = "a_acute"
    /\ \A x : LowerOf(x) = "a" <=> x \in {"a", "A"}
    /\ \A x : x \notin Letters => LowerOf(x) = x
    /\ \A x : LowerOf(LowerOf(x)) = LowerOf(x)
    /\ \A x : LowerOf(x) = x \/ LowerOf(x) \in Letters
  BY Alphabet DEF LowerOf, Letters

-----------------------------------------------------------------------------
(* Lower case, character by character.                                      *)
LEMMA LowerIs ==
    ASSUME NEW S, Letters \subseteq S, NEW s \in Seq(S)
    PROVE  /\ Lower(s) \in Seq(S) /\ Len(Lower(s)) = Len(s)
           /\ \A i \in 1..Len(s) : Lower(s)[i] = LowerOf(s[i])
<1>1. PICK n \in Nat : n = Len(s) /\ DOMAIN s = 1..n
  BY LenProperties
<1>2. Lower(s) = [i \in 1..n |-> LowerOf(s[i])]
  BY <1>1 DEF Lower, LowerOf
<1>3. \A i \in 1..n : LowerOf(s[i]) \in S
  <2> TAKE i \in 1..n
  <2>1. s[i] \in S
    BY <1>1, ElementOfSeq
  <2> QED
    BY <2>1, LowerOfIs
<1>4. PICK l : l = Lower(s)
  OBVIOUS
<1>5. l \in [1..n -> S] /\ \A i \in 1..n : l[i] = LowerOf(s[i])
  BY <1>2, <1>3, <1>4
<1> QED
  BY <1>1, <1>4, <1>5, SequenceOf

LEMMA LowerAppend ==
    ASSUME NEW S, Letters \subseteq S, NEW s \in Seq(S), NEW c \in S
    PROVE  /\ LowerOf(c) \in S
           /\ Lower(Append(s, c)) = Append(Lower(s), LowerOf(c))
<1>1. PICK n \in Nat : n = Len(s)
  OBVIOUS
<1>2. PICK t \in Seq(S) : t = Append(s, c)
  BY AppendProperties
<1>3. Len(t) = n + 1 /\ t[n + 1] = c /\ \A i \in 1..n : t[i] = s[i]
  BY <1>1, <1>2, AppendProperties
<1>4. PICK l \in Seq(S) : l = Lower(s) /\ Len(l) = n /\ \A i \in 1..n : l[i] = LowerOf(s[i])
  BY <1>1, LowerIs
<1>5. PICK m \in Seq(S) : m = Lower(t) /\ Len(m) = n + 1 /\ \A i \in 1..n + 1 : m[i] = LowerOf(t[i])
  <2>1. Lower(t) \in Seq(S) /\ Len(Lower(t)) = Len(t) /\ \A i \in 1..Len(t) : Lower(t)[i] = LowerOf(t[i])
    BY LowerIs
  <2> QED
    BY <1>3, <2>1
<1>6. LowerOf(c) \in S
  BY LowerOfIs
<1>7. PICK k \in Seq(S) : k = Append(l, LowerOf(c))
  BY <1>6, AppendProperties
<1>8. Len(k) = n + 1 /\ k[n + 1] = LowerOf(c) /\ \A i \in 1..n : k[i] = l[i]
  BY <1>4, <1>6, <1>7
<1>9. ASSUME NEW i \in 1..n + 1 PROVE m[i] = k[i]
  <2>1. CASE i = n + 1
    BY <1>3, <1>5, <1>8, <2>1
  <2>2. CASE i # n + 1
    <3>1. i \in 1..n
      BY <2>2
    <3> QED
      BY <1>3, <1>4, <1>5, <1>8, <3>1
  <2> QED
    BY <2>1, <2>2
<1>10. m = k
  BY <1>5, <1>8, <1>9, SeqEqual
<1> QED
  BY <1>2, <1>4, <1>5, <1>6, <1>7, <1>10

(* The last character, and what is before it.                               *)
LEMMA LastOf ==
    ASSUME NEW S, NEW s \in Seq(S), NEW c \in S
    PROVE  /\ Append(s, c) # << >>
           /\ Last(Append(s, c)) = c
           /\ Front(Append(s, c)) = s
<1>1. PICK n \in Nat : n = Len(s)
  OBVIOUS
<1>2. PICK t \in Seq(S) : t = Append(s, c)
  BY AppendProperties
<1>3. Len(t) = n + 1 /\ t[n + 1] = c /\ (\A i \in 1..n : t[i] = s[i]) /\ t # << >>
  BY <1>1, <1>2
<1>4. Last(t) = c
  BY <1>3 DEF Last
<1>5. Front(t) = s
  <2>1. Front(t) = SubSeq(t, 1, n)
    BY <1>1, <1>3 DEF Front
  <2>2. SubSeq(t, 1, n) \in Seq(S) /\ Len(SubSeq(t, 1, n)) = n /\ \A i \in 1..n : SubSeq(t, 1, n)[i] = t[i]
    BY <1>1, <1>2, <1>3
  <2>3. SubSeq(t, 1, n) = s
    BY <1>1, <1>3, <2>2, SeqEqual
  <2> QED
    BY <2>1, <2>3
<1> QED
  BY <1>2, <1>3, <1>4, <1>5

(* What a combining mark does to a text: it composes with the last letter,  *)
(* or comes after it.                                                       *)
Composable == {"a", "A"}
ComposedOf(x) == Composed[x]

LEMMA ComposeFirst == \A c : Compose(<< >>, c) = <<c>>
  BY DEF Compose

LEMMA ComposeOther == \A t : \A c : c \notin Marks => Compose(t, c) = Append(t, c)
  BY DEF Compose

LEMMA ComposeAfter ==
    ASSUME NEW c, NEW S, NEW s \in Seq(S), NEW x \in S, x \notin Composable, NEW t, t = Append(s, x)
    PROVE  Compose(t, c) = Append(t, c)
<1>1. t # << >> /\ Last(t) = x /\ Front(t) = s
  BY LastOf
<1>2. Composable = DOMAIN Composed
  BY Alphabet DEF Composable
<1> QED
  BY <1>1, <1>2 DEF Compose

LEMMA ComposeWith ==
    ASSUME NEW c \in Marks, NEW S, NEW s \in Seq(S), NEW x \in S, x \in Composable, NEW t, t = Append(s, x)
    PROVE  Compose(t, c) = Append(s, ComposedOf(x))
<1>1. t # << >> /\ Last(t) = x /\ Front(t) = s
  BY LastOf
<1>2. Composable = DOMAIN Composed
  BY Alphabet DEF Composable
<1> QED
  BY <1>1, <1>2 DEF Compose, ComposedOf

LEMMA ComposedIs ==
    \A x \in Composable : ComposedOf(x) \in Letters /\ LowerOf(ComposedOf(x)) = "a_acute"
  BY Alphabet, LowerOfIs DEF Composable, ComposedOf, Letters

LEMMA ComposeTypes ==
    ASSUME NEW S, Letters \subseteq S, NEW t \in Seq(S), NEW c \in S
    PROVE  Compose(t, c) \in Seq(S)
<1>1. CASE t = << >>
  <2>1. <<c>> \in Seq(S)
    OBVIOUS
  <2> QED
    BY <1>1, <2>1, ComposeFirst
<1>2. CASE t # << >>
  <2>1. PICK u \in Seq(S), x \in S : t = Append(u, x)
    BY <1>2, SequenceEmptyOrAppend
  <2>2. x \notin Composable => Compose(t, c) = Append(t, c)
    BY <2>1, ComposeAfter
  <2>3. c \in Marks /\ x \in Composable => Compose(t, c) = Append(u, ComposedOf(x))
    BY <2>1, ComposeWith
  <2>4. c \notin Marks => Compose(t, c) = Append(t, c)
    BY ComposeOther
  <2>5. x \in Composable => ComposedOf(x) \in S
    BY ComposedIs
  <2>6. Append(t, c) \in Seq(S) /\ (x \in Composable => Append(u, ComposedOf(x)) \in Seq(S))
    BY <2>5, AppendProperties
  <2> QED
    BY <2>2, <2>3, <2>4, <2>6
<1> QED
  BY <1>1, <1>2

LEMMA NfcTypes ==
    ASSUME NEW S, Letters \subseteq S, NEW s \in Seq(S)
    PROVE  Nfc(s) \in Seq(S)
<1>1. PICK n \in Nat : n = Len(s)
  OBVIOUS
<1>2. PICK st : Composes(s, n, st) /\ Nfc(s) = st[n]
  BY <1>1, NfcRun
<1> DEFINE P == {i \in Nat : i <= n => st[i] \in Seq(S)}
<1>3. 0 \in P
  <2>1. st[0] = << >> /\ << >> \in Seq(S)
    BY <1>2 DEF Composes
  <2> QED
    BY <2>1
<1>4. ASSUME NEW i \in P PROVE i + 1 \in P
  <2> SUFFICES ASSUME i + 1 <= n PROVE st[i + 1] \in Seq(S)
    OBVIOUS
  <2>1. i + 1 \in 1..n /\ (i + 1) - 1 = i /\ st[i] \in Seq(S)
    OBVIOUS
  <2>2. s[i + 1] \in S
    BY <1>1, <2>1, ElementOfSeq
  <2>3. st[i + 1] = Compose(st[i], s[i + 1])
    BY <1>2, <2>1 DEF Composes
  <2> QED
    BY <2>1, <2>2, <2>3, ComposeTypes
<1> HIDE DEF P
<1>5. P \in SUBSET Nat => P = Nat
  BY <1>3, <1>4, ByInduction
<1> QED
  BY <1>2, <1>5 DEF P

-----------------------------------------------------------------------------
(* A letter with its marks, in the form in which letters are compared: a    *)
(* bare a, or a text that a further mark only makes longer.                 *)
Closed(S, t, u, x) == t = Append(u, x) /\ x \notin Composable /\ Nfc(t) = t /\ Lower(t) = t
Whole(S, t) == t = <<"a">> \/ \E u \in Seq(S), x \in S : Closed(S, t, u, x)
Alphabetic(S) == Letters \subseteq S /\ Marks \subseteq S

LEMMA OneCharacter ==
    ASSUME NEW S, Alphabetic(S), NEW c \in S
    PROVE  <<c>> = Append(<< >>, c) /\ Nfc(<<c>>) = <<c>> /\ Lower(<<c>>) = <<LowerOf(c)>>
<1>1. << >> \in Seq(S) /\ <<c>> = Append(<< >>, c) /\ <<LowerOf(c)>> = Append(<< >>, LowerOf(c))
  OBVIOUS
<1>2. Nfc(<< >>) = << >> /\ Nfc(Append(<< >>, c)) = Compose(Nfc(<< >>), c)
  BY <1>1, NfcAppend
<1>3. Lower(<< >>) = << >>
  BY DEF Lower
<1>4. Lower(Append(<< >>, c)) = Append(Lower(<< >>), LowerOf(c))
  BY <1>1, LowerAppend DEF Alphabetic
<1> QED
  BY <1>1, <1>2, <1>3, <1>4, ComposeFirst

LEMMA LetterIsWhole ==
    ASSUME NEW S, Alphabetic(S), NEW c \in Letters
    PROVE  /\ Canonical(<<c>>) = <<LowerOf(c)>>
           /\ <<LowerOf(c)>> \in Seq(S) /\ Whole(S, <<LowerOf(c)>>)
<1>1. c \in S /\ LowerOf(c) \in Letters /\ LowerOf(c) \in S
  BY LowerOfIs DEF Alphabetic, Letters
<1>2. Canonical(<<c>>) = <<LowerOf(c)>>
  BY <1>1, OneCharacter DEF Canonical
<1>3. <<LowerOf(c)>> \in Seq(S)
  BY <1>1
<1>4. PICK d \in S : d = LowerOf(c) /\ LowerOf(d) = d
  BY <1>1, LowerOfIs
<1>5. d = "a" \/ d \notin Composable
  BY <1>4, LowerOfIs DEF Composable
<1>6. Whole(S, <<d>>)
  <2>1. CASE d = "a"
    BY <2>1 DEF Whole
  <2>2. CASE d \notin Composable
    <3>1. << >> \in Seq(S)
      OBVIOUS
    <3>2. <<d>> = Append(<< >>, d) /\ Nfc(<<d>>) = <<d>> /\ Lower(<<d>>) = <<d>>
      BY <1>4, OneCharacter
    <3>3. Closed(S, <<d>>, << >>, d)
      BY <2>2, <3>2, Zenon DEF Closed
    <3> QED
      BY <3>1, <3>3, Zenon DEF Whole
  <2> QED
    BY <1>5, <2>1, <2>2
<1> QED
  BY <1>2, <1>3, <1>4, <1>6

(* Texts that are not empty have a last character, in lower case too.       *)
EndsIn(S, N, F, x) == \E M \in Seq(S), y \in S : N = Append(M, y) /\ Lower(M) = F /\ LowerOf(y) = x

LEMMA LowerEnds ==
    ASSUME NEW S, Alphabetic(S), NEW N \in Seq(S), NEW F \in Seq(S), NEW x \in S, Lower(N) = Append(F, x)
    PROVE  EndsIn(S, N, F, x)
<1>1. N # << >>
  <2>1. Len(Append(F, x)) # 0
    BY AppendProperties
  <2>2. Len(Lower(N)) = Len(N)
    BY LowerIs DEF Alphabetic
  <2>3. Len(<< >>) = 0
    OBVIOUS
  <2> QED
    BY <2>1, <2>2, <2>3
<1>2. PICK M \in Seq(S), y \in S : N = Append(M, y)
  BY <1>1, SequenceEmptyOrAppend
<1>3. Lower(N) = Append(Lower(M), LowerOf(y)) /\ LowerOf(y) \in S
  BY <1>2, LowerAppend DEF Alphabetic
<1>4. Lower(M) \in Seq(S)
  BY LowerIs DEF Alphabetic
<1>5. PICK l \in Seq(S), z \in S : l = Lower(M) /\ z = LowerOf(y) /\ Append(l, z) = Append(F, x)
  BY <1>3, <1>4
<1>6. l = F /\ z = x
  <2>1. Append(l, z) = Append(F, x) <=> l = F /\ z = x
    BY AppendInjective
  <2> QED
    BY <1>5, <2>1, Zenon
<1> QED
  BY <1>2, <1>5, <1>6 DEF EndsIn

Ends(s, F, t) == Lower(s) = F \o t
Marked(t, c) == Canonical(Append(t, c))

(* Three texts one after the other.                                         *)
Associates(x, y, z) == (x \o y) \o z = x \o (y \o z)

LEMMA Associative ==
    ASSUME NEW S, NEW x \in Seq(S), NEW y \in Seq(S), NEW z \in Seq(S)
    PROVE  Associates(x, y, z)
  BY ConcatAssociative DEF Associates

LEMMA MarkedLetter ==
    ASSUME NEW S, Alphabetic(S), NEW t \in Seq(S), Whole(S, t), NEW c \in Marks,
           NEW N \in Seq(S), NEW F \in Seq(S), Ends(N, F, t)
    PROVE  /\ Marked(t, c) \in Seq(S) /\ Whole(S, Marked(t, c))
           /\ Ends(Compose(N, c), F, Marked(t, c))
<1> SUFFICES ASSUME NEW e, e = Marked(t, c)
             PROVE  e \in Seq(S) /\ Whole(S, e) /\ Ends(Compose(N, c), F, e)
  OBVIOUS
<1>1. c \in S /\ c \notin Letters /\ c \notin Composable /\ LowerOf(c) = c
  BY LowerOfIs DEF Alphabetic, Marks, Letters, Composable
<1>2. Letters \subseteq S
  BY DEF Alphabetic
<1>3. e = Lower(Compose(Nfc(t), c))
  BY <1>1, NfcAppend DEF Canonical, Marked
<1>4. CASE t = <<"a">>
  <2>1. "a" \in S /\ "a" \in Composable /\ "a_acute" \in S /\ "a_acute" \in Letters
    BY <1>2 DEF Letters, Composable
  <2>2. PICK b \in S : b = ComposedOf("a") /\ LowerOf(b) = "a_acute"
    BY <1>2, <2>1, ComposedIs
  <2>3. << >> \in Seq(S) /\ <<"a">> = Append(<< >>, "a") /\ <<b>> = Append(<< >>, b)
    OBVIOUS
  <2>4. Nfc(t) = t /\ Compose(t, c) = Append(<< >>, b)
    <3>1. Nfc(<<"a">>) = <<"a">>
      BY <2>1, OneCharacter
    <3>2. Compose(t, c) = Append(<< >>, ComposedOf("a"))
      <4>1. t = Append(<< >>, "a") /\ << >> \in Seq(S)
        BY <1>4, <2>3, Zenon
      <4> QED
        BY <2>1, <4>1, ComposeWith
    <3> QED
      BY <1>4, <2>2, <3>1, <3>2
  <2>5. e = <<"a_acute">>
    <3>1. Lower(<<b>>) = <<"a_acute">>
      BY <2>2, OneCharacter
    <3> QED
      BY <1>3, <2>3, <2>4, <3>1
  <2>6. e \in Seq(S) /\ Whole(S, e)
    <3>1. LowerOf("a_acute") = "a_acute"
      BY LowerOfIs
    <3> QED
      BY <2>1, <2>5, <3>1, LetterIsWhole
  <2>7. Lower(N) = Append(F, "a")
    BY <1>4, <2>1, AppendIsConcat DEF Ends
  <2>8. PICK M \in Seq(S), y \in S : N = Append(M, y) /\ Lower(M) = F /\ LowerOf(y) = "a"
    <3>1. EndsIn(S, N, F, "a")
      BY <2>1, <2>7, LowerEnds
    <3> QED
      BY <3>1 DEF EndsIn
  <2>9. y \in Composable
    BY <2>8, LowerOfIs DEF Composable
  <2>10. Compose(N, c) = Append(M, ComposedOf(y))
    BY <2>8, <2>9, ComposeWith
  <2>11. ComposedOf(y) \in S /\ LowerOf(ComposedOf(y)) = "a_acute"
    BY <1>2, <2>9, ComposedIs
  <2>12. Lower(Append(M, ComposedOf(y))) = Append(F, "a_acute")
    BY <1>2, <2>8, <2>11, LowerAppend
  <2>13. Append(F, "a_acute") = F \o <<"a_acute">>
    BY <2>1, AppendIsConcat
  <2> QED
    BY <2>5, <2>6, <2>10, <2>12, <2>13 DEF Ends
<1>5. ASSUME NEW u \in Seq(S), NEW x \in S, Closed(S, t, u, x)
      PROVE  e \in Seq(S) /\ Whole(S, e) /\ Ends(Compose(N, c), F, e)
  <2>1. t = Append(u, x) /\ x \notin Composable /\ Nfc(t) = t /\ Lower(t) = t
    BY <1>5 DEF Closed
  <2>2. Compose(t, c) = Append(t, c)
    BY <2>1, ComposeAfter
  <2>3. PICK d \in Seq(S) : d = Append(t, c)
    BY <1>1, AppendProperties
  <2>4. Lower(d) = d
    <3>1. Lower(Append(t, c)) = Append(Lower(t), LowerOf(c))
      BY <1>1, <1>2, LowerAppend
    <3> QED
      BY <1>1, <2>1, <2>3, <3>1
  <2>5. e = d
    BY <1>3, <2>1, <2>2, <2>3, <2>4
  <2>6. Nfc(d) = d
    BY <1>1, <2>1, <2>2, <2>3, NfcAppend
  <2>7. Closed(S, d, t, c)
    BY <1>1, <2>3, <2>4, <2>6 DEF Closed
  <2>8. Whole(S, d)
    BY <1>1, <2>7 DEF Whole
  <2>9. F \o u \in Seq(S) /\ F \o t = Append(F \o u, x)
    <3>1. <<x>> \in Seq(S) /\ t = u \o <<x>>
      BY <2>1, AppendIsConcat
    <3>2. F \o u \in Seq(S)
      BY ConcatProperties
    <3>3. (F \o u) \o <<x>> = F \o (u \o <<x>>)
      <4>1. Associates(F, u, <<x>>)
        BY <3>1, Associative
      <4> QED
        BY <4>1 DEF Associates
    <3>4. Append(F \o u, x) = (F \o u) \o <<x>>
      BY <3>2, AppendIsConcat
    <3> QED
      BY <3>1, <3>2, <3>3, <3>4
  <2>10. PICK M \in Seq(S), y \in S : N = Append(M, y) /\ LowerOf(y) = x
    <3>1. PICK v \in Seq(S) : v = F \o u
      BY <2>9
    <3>2. Lower(N) = Append(v, x)
      BY <2>9, <3>1 DEF Ends
    <3>3. EndsIn(S, N, v, x)
      BY <3>2, LowerEnds
    <3> QED
      BY <3>3 DEF EndsIn
  <2>11. y \notin Composable
    BY <2>1, <2>10, LowerOfIs DEF Composable
  <2>12. Compose(N, c) = Append(N, c)
    BY <2>10, <2>11, ComposeAfter
  <2>13. Lower(Append(N, c)) = Append(F \o t, c)
    <3>1. Lower(Append(N, c)) = Append(Lower(N), LowerOf(c))
      BY <1>1, <1>2, LowerAppend
    <3> QED
      BY <1>1, <3>1 DEF Ends
  <2>14. Append(F \o t, c) = F \o d
    <3>1. <<c>> \in Seq(S) /\ d = t \o <<c>>
      BY <1>1, <2>3, AppendIsConcat
    <3>2. F \o t \in Seq(S)
      BY ConcatProperties
    <3>3. (F \o t) \o <<c>> = F \o (t \o <<c>>)
      <4>1. Associates(F, t, <<c>>)
        BY <3>1, Associative
      <4> QED
        BY <4>1 DEF Associates
    <3>4. Append(F \o t, c) = (F \o t) \o <<c>>
      BY <1>1, <3>2, AppendIsConcat
    <3> QED
      BY <3>1, <3>3, <3>4
  <2> QED
    BY <2>3, <2>5, <2>8, <2>12, <2>13, <2>14 DEF Ends
<1> QED
  BY <1>4, <1>5 DEF Whole

-----------------------------------------------------------------------------
(* The letters of the first n characters, one after the other, are their    *)
(* canonical form without the separators.                                   *)
Spelling(S, value, n, L) ==
    /\ \A i \in 1..Len(L) : Whole(S, L[i])
    /\ Canonical(Keep(value, Separators(value), n)) = FlattenSeq(L)
    /\ n > 0 /\ value[n] \in Letters \cup Marks => L # << >>
Lettered(S, value, p, n) ==
    \E L \in Seq(Seq(S)) : \E R : p = Splitting(L, R) /\ Spelling(S, value, n, L)

LEMMA LetteredStarts ==
    ASSUME NEW S, Alphabetic(S), NEW value \in Seq(S)
    PROVE  Lettered(S, value, SplitStart, 0)
<1>1. << >> \in Seq(Seq(S)) /\ Len(<< >>) = 0 /\ FlattenSeq(<< >>) = << >>
  BY DEF FlattenSeq
<1>2. SplitStart = Splitting(<< >>, << << >> >>)
  BY DEF SplitStart, Splitting
<1>3. Canonical(Keep(value, Separators(value), 0)) = << >>
  <2>1. Keep(value, Separators(value), 0) = << >>
    BY DEF Keep, KeptPieces, FlattenSeq
  <2>2. PICK c \in S : c = "a"
    BY DEF Alphabetic, Letters
  <2>3. Nfc(<< >>) = << >>
    <3>1. << >> \in Seq(S)
      OBVIOUS
    <3> QED
      BY <2>2, <3>1, NfcAppend
  <2>4. Lower(<< >>) = << >>
    BY DEF Lower
  <2> QED
    BY <2>1, <2>3, <2>4 DEF Canonical
<1>4. Spelling(S, value, 0, << >>)
  <2>1. \A i \in 1..Len(<< >>) : FALSE
    BY <1>1
  <2>2. ~(0 > 0)
    OBVIOUS
  <2> QED
    BY <1>1, <1>3, <2>1, <2>2, Zenon DEF Spelling
<1> QED
  BY <1>1, <1>2, <1>4, Zenon DEF Lettered

LEMMA LetteredGoesOn ==
    ASSUME NEW S, Alphabetic(S), NEW value \in Seq(S), WellFormed(value),
           NEW n \in Nat, NEW i \in 1..Len(value), i = n + 1,
           NEW p, Lettered(S, value, p, n)
    PROVE  Lettered(S, value, SplitNext(value, p, i), i)
<1>0. PICK L \in Seq(Seq(S)) : \E R : p = Splitting(L, R) /\ Spelling(S, value, n, L)
  BY DEF Lettered
<1>1. PICK R : p = Splitting(L, R) /\ Spelling(S, value, n, L)
  BY <1>0
<1>2. p.letters = L /\ p.separators = R
  BY <1>1 DEF Splitting
<1>3. PICK c \in S : c = value[i]
  BY ElementOfSeq
<1>4. PICK V : V = Separators(value)
  OBVIOUS
<1>5. i \in V <=> c \notin Letters \cup Marks
  BY <1>3, <1>4, LenProperties DEF Separators
<1>6. PICK K \in Seq(S) : /\ K = Keep(value, V, n)
                          /\ Keep(value, V, i) = IF i \in V THEN K ELSE Append(K, c)
  <2>1. n <= Len(value) /\ i <= Len(value)
    BY LenProperties
  <2> QED
    <3>1. /\ Keep(value, V, n) \in Seq(S)
          /\ \A m : m = n + 1 /\ m <= Len(value) =>
                 Keep(value, V, m) = IF m \in V THEN Keep(value, V, n) ELSE Append(Keep(value, V, n), value[m])
      BY <2>1, KeepGrows
    <3> QED
      BY <1>3, <2>1, <3>1
<1>7. PICK F \in Seq(S) : F = FlattenSeq(L)
  BY FlattenParts
<1>8. PICK N \in Seq(S) : N = Nfc(K) /\ Lower(N) = F
  BY <1>1, <1>4, <1>6, <1>7, NfcTypes DEF Canonical, Alphabetic, Spelling
<1>9. Nfc(Append(K, c)) = Compose(N, c)
  BY <1>8, NfcAppend
<1>10. CASE c \in Letters
  <2>1. PICK e \in Seq(S) : e = Canonical(<<c>>) /\ e = <<LowerOf(c)>> /\ Whole(S, e)
    BY <1>10, LetterIsWhole
  <2>2. SplitNext(value, p, i) = Splitting(Append(L, e), Append(R, << >>))
    BY <1>2, <1>3, <1>10, <2>1 DEF SplitNext, Splitting
  <2>3. PICK M \in Seq(Seq(S)) : M = Append(L, e)
    BY AppendProperties
  <2>4. M # << >> /\ \A j \in 1..Len(M) : Whole(S, M[j])
    <3>1. Len(M) = Len(L) + 1 /\ M[Len(L) + 1] = e /\ M # << >> /\ \A j \in 1..Len(L) : M[j] = L[j]
      BY <2>3, AppendProperties
    <3>2. \A j \in 1..Len(M) : j = Len(L) + 1 \/ j \in 1..Len(L)
      BY <3>1
    <3> QED
      BY <1>1, <2>1, <3>1, <3>2 DEF Spelling
  <2>5. Canonical(Keep(value, V, i)) = FlattenSeq(M)
    <3>1. c \notin Marks
      BY <1>10 DEF Letters, Marks
    <3>2. Keep(value, V, i) = Append(K, c)
      BY <1>5, <1>6, <1>10
    <3>3. Compose(N, c) = Append(N, c)
      BY <3>1, ComposeOther
    <3>4. Lower(Append(N, c)) = Append(F, LowerOf(c)) /\ LowerOf(c) \in S
      BY <1>8, LowerAppend DEF Alphabetic
    <3>5. Append(F, LowerOf(c)) = F \o e
      BY <2>1, <3>4, AppendIsConcat
    <3>6. FlattenSeq(M) = F \o e
      BY <1>7, <2>3, FlattenAppend
    <3> QED
      BY <1>9, <3>2, <3>3, <3>4, <3>5, <3>6 DEF Canonical
  <2> QED
    <3>1. Spelling(S, value, i, M)
      BY <1>4, <2>4, <2>5 DEF Spelling
    <3>2. PICK Q : Q = Append(R, << >>)
      OBVIOUS
    <3>3. SplitNext(value, p, i) = Splitting(M, Q)
      BY <2>2, <2>3, <3>2
    <3> QED
      BY <3>1, <3>3, Zenon DEF Lettered
<1>11. CASE c \in Marks
  <2>1. L # << >>
    <3>1. i \in DOMAIN value
      BY LenProperties
    <3>2. i > 1 /\ value[i - 1] \in Letters \cup Marks
      BY <1>3, <1>11, <3>1 DEF WellFormed
    <3> QED
      BY <1>1, <3>2 DEF Spelling
  <2>2. PICK L0 \in Seq(Seq(S)), t \in Seq(S) : L = Append(L0, t)
    BY <2>1, SequenceEmptyOrAppend
  <2>3. PICK k \in Nat : k = Len(L0)
    OBVIOUS
  <2>4. Len(L) = k + 1 /\ L[k + 1] = t /\ \A j \in 1..k : L[j] = L0[j]
    BY <2>2, <2>3
  <2>5. Whole(S, t)
    <3>1. k + 1 \in 1..Len(L)
      BY <2>4
    <3> QED
      BY <1>1, <2>4, <3>1 DEF Spelling
  <2>6. PICK F0 \in Seq(S) : F0 = FlattenSeq(L0)
    BY FlattenParts
  <2>7. Ends(N, F0, t)
    BY <1>7, <1>8, <2>2, <2>6, FlattenAppend DEF Ends
  <2>8. PICK e : e = Marked(t, c) /\ e = Canonical(Append(t, c))
    BY DEF Marked
  <2>9. e \in Seq(S) /\ Whole(S, e) /\ Lower(Compose(N, c)) = F0 \o e
    <3>1. e \in Seq(S) /\ Whole(S, e) /\ Ends(Compose(N, c), F0, e)
      BY <1>11, <2>5, <2>7, <2>8, MarkedLetter
    <3> QED
      BY <3>1 DEF Ends
  <2>10. PICK M : M = [L EXCEPT ![k + 1] = e]
    OBVIOUS
  <2>11. SplitNext(value, p, i) = Splitting(M, R)
    <3>1. c \notin Letters /\ Len(L) > 0 /\ Len(L) = k + 1
      BY <1>11, <2>4 DEF Letters, Marks
    <3> QED
      BY <1>1, <1>2, <1>3, <1>11, <2>4, <2>8, <2>10, <3>1 DEF SplitNext, Splitting
  <2>12. PICK A \in Seq(Seq(S)) :
             /\ A = Append(L0, e) /\ A # << >> /\ Len(A) = k + 1 /\ A[k + 1] = e
             /\ \A j \in 1..k : A[j] = L0[j]
    <3>1. PICK A \in Seq(Seq(S)) : A = Append(L0, e)
      BY <2>9, AppendProperties
    <3>2. A # << >>
      BY <2>9, <3>1, AppendProperties
    <3>3. Len(A) = k + 1 /\ A[k + 1] = e /\ \A j \in 1..k : A[j] = L0[j]
      BY <2>3, <2>9, <3>1
    <3> QED
      BY <3>1, <3>2, <3>3
  <2>13. M = A
    <3>1. k + 1 \in 1..Len(L)
      BY <2>4
    <3>2. /\ M \in Seq(Seq(S)) /\ Len(M) = k + 1
          /\ \A j \in 1..k + 1 : M[j] = IF j = k + 1 THEN e ELSE L[j]
      BY <2>4, <2>9, <2>10, <3>1, ExceptSeq
    <3>3. \A j \in 1..k + 1 : j = k + 1 \/ j \in 1..k
      OBVIOUS
    <3>4. \A j \in 1..k + 1 : M[j] = A[j]
      BY <2>4, <2>12, <3>2, <3>3
    <3> QED
      BY <2>12, <3>2, <3>4, SeqEqual
  <2>14. A # << >> /\ \A j \in 1..Len(A) : Whole(S, A[j])
    <3>1. \A j \in 1..k + 1 : j = k + 1 \/ j \in 1..k
      OBVIOUS
    <3>2. A # << >>
      BY <2>12
    <3>3. \A j \in 1..k : j \in 1..Len(L) /\ Whole(S, L[j]) /\ A[j] = L[j]
      <4>1. \A j \in 1..Len(L) : Whole(S, L[j])
        BY <1>1 DEF Spelling
      <4>2. \A j \in 1..k : j \in 1..Len(L) /\ A[j] = L[j]
        BY <2>4, <2>12
      <4> QED
        BY <4>1, <4>2
    <3> QED
      BY <2>9, <2>12, <3>1, <3>2, <3>3
  <2>15. Canonical(Keep(value, V, i)) = FlattenSeq(A)
    <3>1. Keep(value, V, i) = Append(K, c)
      BY <1>5, <1>6, <1>11
    <3>2. FlattenSeq(A) = F0 \o e
      BY <2>6, <2>9, <2>12, FlattenAppend
    <3> QED
      BY <1>9, <2>9, <3>1, <3>2 DEF Canonical
  <2> QED
    <3>1. Spelling(S, value, i, A)
      BY <1>4, <2>14, <2>15 DEF Spelling
    <3> QED
      BY <2>11, <2>13, <3>1, Zenon DEF Lettered
<1>12. CASE c \notin Letters \cup Marks
  <2>1. PICK Q : Q = [R EXCEPT ![Len(L) + 1] = Append(@, i)]
    OBVIOUS
  <2>2. SplitNext(value, p, i) = Splitting(L, Q)
    <3>1. c \notin Letters /\ c \notin Marks
      BY <1>12
    <3> QED
      BY <1>1, <1>2, <1>3, <2>1, <3>1 DEF SplitNext, Splitting
  <2>3. Canonical(Keep(value, V, i)) = FlattenSeq(L)
    BY <1>1, <1>4, <1>5, <1>6, <1>12 DEF Spelling
  <2> QED
    <3>1. Spelling(S, value, i, L)
      BY <1>1, <1>3, <1>4, <1>12, <2>3 DEF Spelling
    <3> QED
      BY <2>2, <3>1, Zenon DEF Lettered
<1> QED
  BY <1>10, <1>11, <1>12

LEMMA LettersAre ==
    ASSUME NEW S, Alphabetic(S), NEW value \in Seq(S), WellFormed(value)
    PROVE  Canonical(Without(value, Separators(value)))
             = FlattenSeq(splitLettersAndSeparators(value).letters)
<1>1. PICK n \in Nat : n = Len(value) /\ DOMAIN value = 1..n
  BY LenProperties
<1>2. PICK st : Splits(value, st) /\ splitLettersAndSeparators(value) = st[n]
  BY <1>1, SplitRun
<1> DEFINE P == {i \in Nat : i <= n => Lettered(S, value, st[i], i)}
<1>3. 0 \in P
  <2>1. st[0] = SplitStart
    BY <1>2 DEF Splits
  <2> QED
    BY <2>1, LetteredStarts
<1>4. ASSUME NEW i \in P PROVE i + 1 \in P
  <2> SUFFICES ASSUME i + 1 <= n PROVE Lettered(S, value, st[i + 1], i + 1)
    OBVIOUS
  <2>1. PICK j \in 1..n : j = i + 1 /\ j - 1 = i
    OBVIOUS
  <2>2. i \in Nat /\ Lettered(S, value, st[i], i)
    BY <2>1
  <2>3. st[j] = SplitNext(value, st[i], j)
    BY <1>1, <1>2, <2>1 DEF Splits
  <2>4. Lettered(S, value, SplitNext(value, st[i], j), j)
    BY <1>1, <2>1, <2>2, LetteredGoesOn
  <2> QED
    BY <2>1, <2>3, <2>4
<1> HIDE DEF P
<1>5. P \in SUBSET Nat => P = Nat
  BY <1>3, <1>4, ByInduction
<1>6. Lettered(S, value, st[n], n)
  BY <1>5 DEF P
<1>7. Canonical(Keep(value, Separators(value), n)) = FlattenSeq(st[n].letters)
  BY <1>6 DEF Lettered, Spelling, Splitting
<1> QED
  BY <1>1, <1>2, <1>7, WithoutIs

LEMMA OtherLetters ==
    ASSUME NEW S, Alphabetic(S), NEW w \in Seq(S), NEW c \in Seq(S), WellFormed(w), WellFormed(c),
           ~SameLetters(w, c)
    PROVE  nonAlphabeticDifference(w, c) = Nothing
<1>1. splitLettersAndSeparators(w).letters # splitLettersAndSeparators(c).letters
  BY LettersAre DEF SameLetters
<1> QED
  BY <1>1 DEF nonAlphabeticDifference

-----------------------------------------------------------------------------
(* A text without one of its characters, or without none.                   *)
OnlyAt(s, V, k) == \A i \in 1..Len(s) : i \in V <=> i = k

ButOne(S, s, k, t, n) ==
    /\ t \in Seq(S)
    /\ Len(t) = IF k <= n THEN n - 1 ELSE n
    /\ \A i \in 1..Len(t) : t[i] = IF i < k THEN s[i] ELSE s[i + 1]

LEMMA DroppedUpTo ==
    ASSUME NEW S, NEW s \in Seq(S), NEW V, NEW k \in 1..Len(s) + 1, OnlyAt(s, V, k)
    PROVE  \A n \in Nat : n <= Len(s) => ButOne(S, s, k, Keep(s, V, n), n)
<1>1. PICK z \in Nat : z = Len(s)
  OBVIOUS
<1> DEFINE Good(t, n) == ButOne(S, s, k, t, n)
           P == {n \in Nat : n <= z => Good(Keep(s, V, n), n)}
<1>2. 0 \in P
  <2>1. Keep(s, V, 0) = << >>
    BY DEF Keep, KeptPieces, FlattenSeq
  <2>2. Good(<< >>, 0)
    <3>1. ~(k <= 0) /\ << >> \in Seq(S) /\ Len(<< >>) = 0 /\ 1..0 = {}
      BY <1>1
    <3> QED
      BY <3>1 DEF ButOne
  <2> QED
    BY <2>1, <2>2
<1>3. ASSUME NEW n \in P PROVE n + 1 \in P
  <2> SUFFICES ASSUME n + 1 <= z PROVE Good(Keep(s, V, n + 1), n + 1)
    OBVIOUS
  <2>1. PICK m \in 1..z : m = n + 1 /\ n \in Nat
    OBVIOUS
  <2>2. PICK t \in Seq(S) : t = Keep(s, V, n) /\ Good(t, n)
    BY <2>1 DEF ButOne
  <2>3. PICK c \in S : c = s[m]
    BY <1>1, ElementOfSeq
  <2>4. Keep(s, V, m) = IF m \in V THEN t ELSE Append(t, c)
    <3> HIDE DEF P, Good
    <3>0. n \in Nat /\ n <= Len(s)
      BY <1>1, <2>1
    <3>1. /\ Keep(s, V, n) \in Seq(S)
          /\ \A j : j = n + 1 /\ j <= Len(s) =>
                 Keep(s, V, j) = IF j \in V THEN Keep(s, V, n) ELSE Append(Keep(s, V, n), s[j])
      BY <3>0, KeepGrows
    <3> QED
      BY <1>1, <2>1, <2>2, <2>3, <3>1
  <2>5. m \in V <=> m = k
    BY <1>1 DEF OnlyAt
  <2>6. CASE m = k
    <3>1. Keep(s, V, m) = t
      BY <2>4, <2>5, <2>6
    <3>2. Good(t, m)
      <4>1. ~(k <= n) /\ k <= m /\ m - 1 = n
        BY <1>1, <2>1, <2>6
      <4> QED
        BY <2>2, <4>1 DEF ButOne
    <3> QED
      BY <2>1, <3>1, <3>2
  <2>7. CASE m # k
    <3>1. PICK u \in Seq(S) : u = Append(t, c) /\ u = Keep(s, V, m)
      BY <2>4, <2>5, <2>7, AppendProperties
    <3>2. PICK l \in Nat : l = Len(t)
      OBVIOUS
    <3>3. Len(u) = l + 1 /\ u[l + 1] = c /\ \A i \in 1..l : u[i] = t[i]
      <4>1. /\ Len(Append(t, c)) = Len(t) + 1 /\ Append(t, c)[Len(t) + 1] = c
            /\ \A i \in 1..Len(t) : Append(t, c)[i] = t[i]
        BY AppendProperties
      <4> QED
        BY <3>1, <3>2, <4>1, Zenon
    <3>4. l = IF k <= n THEN n - 1 ELSE n
      BY <2>2, <3>2 DEF ButOne
    <3>5. l + 1 = (IF k <= m THEN m - 1 ELSE m) /\ c = IF l + 1 < k THEN s[l + 1] ELSE s[l + 1 + 1]
      <4>1. CASE k <= n
        BY <1>1, <2>1, <2>3, <3>4, <4>1
      <4>2. CASE ~(k <= n)
        <5>1. m < k
          BY <1>1, <2>1, <2>7, <4>2
        <5> QED
          BY <1>1, <2>1, <2>3, <3>4, <4>2, <5>1
      <4> QED
        BY <4>1, <4>2
    <3>6. ASSUME NEW i \in 1..l + 1 PROVE u[i] = IF i < k THEN s[i] ELSE s[i + 1]
      <4>1. CASE i = l + 1
        BY <3>3, <3>5, <4>1
      <4>2. CASE i # l + 1
        <5>1. i \in 1..l
          BY <4>2
        <5> QED
          BY <2>2, <3>2, <3>3, <5>1 DEF ButOne
      <4> QED
        BY <4>1, <4>2
    <3>7. Good(u, m)
      BY <3>3, <3>5, <3>6 DEF ButOne
    <3> HIDE DEF Good
    <3> QED
      BY <2>1, <3>1, <3>7
  <2> QED
    BY <2>6, <2>7
<1> HIDE DEF P
<1>4. P \in SUBSET Nat => P = Nat
  BY <1>2, <1>3, ByInduction
<1> QED
  BY <1>1, <1>4 DEF P

LEMMA Dropped ==
    ASSUME NEW S, NEW s \in Seq(S), NEW V, NEW k \in 1..Len(s) + 1, OnlyAt(s, V, k)
    PROVE  /\ Without(s, V) \in Seq(S)
           /\ Len(Without(s, V)) = IF k <= Len(s) THEN Len(s) - 1 ELSE Len(s)
           /\ \A i \in 1..Len(Without(s, V)) : Without(s, V)[i] = IF i < k THEN s[i] ELSE s[i + 1]
<1>1. PICK n \in Nat : n = Len(s) /\ DOMAIN s = 1..n
  BY LenProperties
<1>2. Without(s, V) = Keep(s, V, n)
  BY <1>1, WithoutIs
<1>3. ButOne(S, s, k, Keep(s, V, n), n)
  <2>1. n <= Len(s)
    BY <1>1
  <2> QED
    BY <2>1, DroppedUpTo
<1> QED
  BY <1>1, <1>2, <1>3 DEF ButOne

LEMMA WithoutNone ==
    ASSUME NEW S, NEW s \in Seq(S)
    PROVE  Without(s, {}) = s
<1>1. PICK n \in Nat : n = Len(s)
  OBVIOUS
<1>2. OnlyAt(s, {}, n + 1)
  BY <1>1 DEF OnlyAt
<1>3. PICK t : t = Without(s, {})
  OBVIOUS
<1>4. /\ t \in Seq(S) /\ Len(t) = n
      /\ \A i \in 1..n : t[i] = s[i]
  <2>1. n + 1 \in 1..Len(s) + 1
    BY <1>1
  <2>2. /\ t \in Seq(S)
        /\ Len(t) = IF n + 1 <= Len(s) THEN Len(s) - 1 ELSE Len(s)
        /\ \A i \in 1..Len(t) : t[i] = IF i < n + 1 THEN s[i] ELSE s[i + 1]
    BY <1>2, <1>3, <2>1, Dropped
  <2> QED
    BY <1>1, <2>2
<1> QED
  BY <1>1, <1>3, <1>4, SeqEqual

LEMMA WithoutOne ==
    ASSUME NEW S, NEW s \in Seq(S), NEW k \in 1..Len(s)
    PROVE  /\ Without(s, {k}) \in Seq(S) /\ Len(Without(s, {k})) = Len(s) - 1
           /\ \A i \in 1..Len(s) - 1 : Without(s, {k})[i] = IF i < k THEN s[i] ELSE s[i + 1]
<1>1. PICK n \in Nat : n = Len(s)
  OBVIOUS
<1>2. OnlyAt(s, {k}, k)
  BY DEF OnlyAt
<1>3. PICK t : t = Without(s, {k})
  OBVIOUS
<1>4. k \in 1..Len(s) + 1 /\ k <= Len(s)
  BY <1>1
<1>5. /\ t \in Seq(S)
      /\ Len(t) = IF k <= Len(s) THEN Len(s) - 1 ELSE Len(s)
      /\ \A i \in 1..Len(t) : t[i] = IF i < k THEN s[i] ELSE s[i + 1]
  BY <1>2, <1>3, <1>4, Dropped
<1> QED
  BY <1>3, <1>4, <1>5

-----------------------------------------------------------------------------
(* One edit: what it can be, and when there is one.                         *)
Edit(w, c, v, d) ==
    /\ Cardinality(v) <= 1 /\ Cardinality(d) <= 1 /\ Without(w, v) = Without(c, d)
    /\ Len(w) = Len(c) => v = d

LEMMA AtMostOne ==
    ASSUME NEW n \in Nat, NEW v \in SUBSET (1..n)
    PROVE  Cardinality(v) <= 1 <=> v = {} \/ \E k \in 1..n : v = {k}
<1>1. IsFiniteSet(v)
  <2>1. IsFiniteSet(1..n)
    BY FS_Interval
  <2> QED
    BY <2>1, FS_Subset
<1>2. Cardinality(v) \in Nat /\ (Cardinality(v) = 0 <=> v = {}) /\ (Cardinality(v) = 1 <=> \E x : v = {x})
  BY <1>1, FS_CardinalityType, FS_EmptySet, FS_Singleton
<1>3. (\E x : v = {x}) <=> \E k \in 1..n : v = {k}
  OBVIOUS
<1>4. Cardinality(v) <= 1 <=> Cardinality(v) = 0 \/ Cardinality(v) = 1
  BY <1>2
<1> QED
  BY <1>2, <1>3, <1>4

Replaces(w, c, k) == Len(w) = Len(c) /\ k \in 1..Len(w) /\ Without(w, {k}) = Without(c, {k})
Adds(s, t, k) == k \in 1..Len(t) /\ s = Without(t, {k})

ReplacesOrAdds(w, c, v, d) ==
    \/ \E k \in 1..Len(w) : v = {k} /\ d = {k} /\ Replaces(w, c, k)
    \/ \E k \in 1..Len(c) : v = {} /\ d = {k} /\ Adds(w, c, k)
    \/ \E k \in 1..Len(w) : d = {} /\ v = {k} /\ Adds(c, w, k)

LEMMA EditIs ==
    ASSUME NEW S, NEW w \in Seq(S), NEW c \in Seq(S), w # c,
           NEW v \in SUBSET (1..Len(w)), NEW d \in SUBSET (1..Len(c))
    PROVE  Edit(w, c, v, d) <=> ReplacesOrAdds(w, c, v, d)
<1>1. PICK n \in Nat, m \in Nat : n = Len(w) /\ m = Len(c)
  OBVIOUS
<1>2. Without(w, {}) = w /\ Without(c, {}) = c
  BY WithoutNone
<1>3. \A k \in 1..n : Len(Without(w, {k})) = n - 1
  BY <1>1, WithoutOne
<1>4. \A k \in 1..m : Len(Without(c, {k})) = m - 1
  BY <1>1, WithoutOne
<1>5. /\ Cardinality(v) <= 1 <=> v = {} \/ \E k \in 1..n : v = {k}
      /\ Cardinality(d) <= 1 <=> d = {} \/ \E k \in 1..m : d = {k}
  BY <1>1, AtMostOne
<1>6. ASSUME Edit(w, c, v, d)
      PROVE  \/ \E k \in 1..n : v = {k} /\ d = {k} /\ Replaces(w, c, k)
             \/ \E k \in 1..m : v = {} /\ d = {k} /\ Adds(w, c, k)
             \/ \E k \in 1..n : d = {} /\ v = {k} /\ Adds(c, w, k)
  <2>1. Without(w, v) = Without(c, d) /\ (n = m => v = d)
    BY <1>1, <1>6 DEF Edit
  <2>2. CASE v = {} /\ d = {}
    BY <1>2, <2>1, <2>2
  <2>3. ASSUME NEW k \in 1..m, v = {}, d = {k} PROVE Adds(w, c, k)
    BY <1>1, <1>2, <2>1, <2>3 DEF Adds
  <2>4. ASSUME NEW k \in 1..n, d = {}, v = {k} PROVE Adds(c, w, k)
    BY <1>1, <1>2, <2>1, <2>4 DEF Adds
  <2>5. ASSUME NEW k \in 1..n, NEW l \in 1..m, v = {k}, d = {l} PROVE d = {k} /\ Replaces(w, c, k)
    <3>1. n - 1 = m - 1
      BY <1>3, <1>4, <2>1, <2>5
    <3>2. n = m
      BY <3>1
    <3> QED
      BY <1>1, <2>1, <2>5, <3>2 DEF Replaces
  <2>6. /\ v = {} \/ \E k \in 1..n : v = {k}
        /\ d = {} \/ \E k \in 1..m : d = {k}
    BY <1>5, <1>6 DEF Edit
  <2> QED
    BY <2>2, <2>3, <2>4, <2>5, <2>6
<1>7. ASSUME NEW k \in 1..n, v = {k}, d = {k}, Replaces(w, c, k) PROVE Edit(w, c, v, d)
  <2>1. k \in 1..m
    BY <1>1, <1>7 DEF Replaces
  <2> QED
    BY <1>5, <1>7, <2>1 DEF Edit, Replaces
<1>8. ASSUME NEW k \in 1..m, v = {}, d = {k}, Adds(w, c, k) PROVE Edit(w, c, v, d)
  <2>1. n = m - 1
    BY <1>1, <1>4, <1>8 DEF Adds
  <2>2. n # m
    BY <2>1
  <2> QED
    BY <1>1, <1>2, <1>5, <1>8, <2>2 DEF Edit, Adds
<1>9. ASSUME NEW k \in 1..n, d = {}, v = {k}, Adds(c, w, k) PROVE Edit(w, c, v, d)
  <2>1. m = n - 1
    BY <1>1, <1>3, <1>9 DEF Adds
  <2>2. n # m
    BY <2>1
  <2> QED
    BY <1>1, <1>2, <1>5, <1>9, <2>2 DEF Edit, Adds
<1> QED
  BY <1>1, <1>6, <1>7, <1>8, <1>9 DEF ReplacesOrAdds

(* The same length: one character differs.                                  *)
LEMMA ReplacesIs ==
    ASSUME NEW S, NEW w \in Seq(S), NEW c \in Seq(S), Len(w) = Len(c), NEW k \in 1..Len(w)
    PROVE  Replaces(w, c, k) <=> \A i \in 1..Len(w) : i # k => w[i] = c[i]
<1>1. PICK n \in Nat : n = Len(w) /\ n = Len(c)
  OBVIOUS
<1>2. PICK s, t : s = Without(w, {k}) /\ t = Without(c, {k})
  OBVIOUS
<1>3. /\ s \in Seq(S) /\ Len(s) = n - 1
      /\ \A i \in 1..n - 1 : s[i] = IF i < k THEN w[i] ELSE w[i + 1]
  BY <1>1, <1>2, WithoutOne
<1>4. /\ t \in Seq(S) /\ Len(t) = n - 1
      /\ \A i \in 1..n - 1 : t[i] = IF i < k THEN c[i] ELSE c[i + 1]
  BY <1>1, <1>2, WithoutOne
<1>5. ASSUME s = t, NEW i \in 1..n, i # k PROVE w[i] = c[i]
  <2>1. CASE i < k
    <3>1. i \in 1..n - 1
      BY <1>1, <2>1
    <3> QED
      BY <1>3, <1>4, <1>5, <2>1, <3>1
  <2>2. CASE k < i
    <3>1. PICK j \in 1..n - 1 : j = i - 1 /\ j + 1 = i /\ ~(j < k)
      BY <1>1, <2>2
    <3>2. s[j] = w[j + 1] /\ t[j] = c[j + 1]
      BY <1>3, <1>4, <3>1
    <3> QED
      BY <1>5, <3>1, <3>2
  <2> QED
    BY <1>1, <1>5, <2>1, <2>2
<1>6. ASSUME \A i \in 1..n : i # k => w[i] = c[i] PROVE s = t
  <2>1. ASSUME NEW i \in 1..n - 1 PROVE s[i] = t[i]
    <3>1. CASE i < k
      <4>1. i \in 1..n /\ i # k
        BY <1>1, <3>1
      <4> QED
        BY <1>3, <1>4, <1>6, <3>1, <4>1
    <3>2. CASE ~(i < k)
      <4>1. i + 1 \in 1..n /\ i + 1 # k
        BY <1>1, <3>2
      <4>2. w[i + 1] = c[i + 1]
        BY <1>6, <4>1
      <4> QED
        BY <1>3, <1>4, <3>2, <4>2
    <3> QED
      BY <3>1, <3>2
  <2> QED
    BY <1>3, <1>4, <2>1, SeqEqual
<1> QED
  BY <1>1, <1>2, <1>5, <1>6 DEF Replaces

(* One character more: the rest is the same from the first difference on.   *)
OneMore(s, t) ==
    Len(s) + 1 = Len(t) /\ SubSeq(s, FirstDifference(s, t), Len(s))
                             = SubSeq(t, FirstDifference(s, t) + 1, Len(t))

SameRest(s, t, f, n) == SubSeq(s, f, n) = SubSeq(t, f + 1, n + 1)
SameFrom(s, t, k, n) == \A i \in k..n : s[i] = t[i + 1]
SameBefore(s, t, k, n) == \A i \in 1..n : i < k => s[i] = t[i]

LEMMA RestIs ==
    ASSUME NEW S, NEW s \in Seq(S), NEW t \in Seq(S), NEW n \in Nat, n = Len(s), n + 1 = Len(t), NEW f \in 1..n + 1
    PROVE  SameRest(s, t, f, n) <=> SameFrom(s, t, f, n)
<1>1. PICK a, b : a = SubSeq(s, f, n) /\ b = SubSeq(t, f + 1, n + 1)
  OBVIOUS
<1>2. PICK l \in Nat : l = n - f + 1 /\ l = (n + 1) - (f + 1) + 1
  OBVIOUS
<1>3. /\ a \in Seq(S) /\ Len(a) = l
      /\ \A i \in 1..l : a[i] = s[f + i - 1]
  <2>1. \A i \in f..n : s[i] \in S
    <3>1. \A i \in f..n : i \in 1..Len(s)
      OBVIOUS
    <3> QED
      BY <3>1, ElementOfSeq
  <2>2. f \in Int /\ n \in Int /\ (IF f <= n THEN n - f + 1 ELSE 0) = l
    BY <1>2
  <2> QED
    BY <1>1, <1>2, <2>1, <2>2, SubSeqProperties
<1>4. /\ b \in Seq(S) /\ Len(b) = l
      /\ \A i \in 1..l : b[i] = t[f + i]
  <2>1. \A i \in f + 1..n + 1 : t[i] \in S
    <3>1. \A i \in f + 1..n + 1 : i \in 1..Len(t)
      OBVIOUS
    <3> QED
      BY <3>1, ElementOfSeq
  <2>2. f + 1 \in Int /\ n + 1 \in Int /\ (IF f + 1 <= n + 1 THEN (n + 1) - (f + 1) + 1 ELSE 0) = l
    BY <1>2
  <2>3. /\ b \in Seq(S) /\ Len(b) = l
        /\ \A i \in 1..l : b[i] = t[(f + 1) + i - 1]
    BY <1>1, <1>2, <2>1, <2>2, SubSeqProperties
  <2>4. \A i \in 1..l : (f + 1) + i - 1 = f + i
    OBVIOUS
  <2> QED
    BY <2>3, <2>4
<1>5. ASSUME a = b, NEW i \in f..n PROVE s[i] = t[i + 1]
  <2>1. PICK j \in 1..l : j = i - f + 1 /\ f + j - 1 = i /\ f + j = i + 1
    BY <1>2
  <2> QED
    BY <1>3, <1>4, <1>5, <2>1
<1>6. ASSUME \A i \in f..n : s[i] = t[i + 1] PROVE a = b
  <2>1. ASSUME NEW j \in 1..l PROVE a[j] = b[j]
    <3>1. PICK i \in f..n : i = f + j - 1 /\ f + j = i + 1
      BY <1>2
    <3> QED
      BY <1>3, <1>4, <1>6, <3>1
  <2> QED
    BY <1>3, <1>4, <2>1, SeqEqual
<1> QED
  BY <1>1, <1>5, <1>6 DEF SameRest, SameFrom

LEMMA AddsIs ==
    ASSUME NEW S, NEW s \in Seq(S), NEW t \in Seq(S), NEW n \in Nat, n = Len(s), n + 1 = Len(t),
           NEW k \in 1..n + 1
    PROVE  Adds(s, t, k) <=> SameBefore(s, t, k, n) /\ SameFrom(s, t, k, n)
<1>1. PICK u : u = Without(t, {k})
  OBVIOUS
<1>2. /\ u \in Seq(S) /\ Len(u) = n
      /\ \A i \in 1..n : u[i] = IF i < k THEN t[i] ELSE t[i + 1]
  <2>1. Len(t) - 1 = n /\ k \in 1..Len(t)
    OBVIOUS
  <2> QED
    BY <1>1, <2>1, WithoutOne
<1>3. s = u <=> \A i \in 1..n : s[i] = u[i]
  BY <1>2, SeqEqual
<1>4. (\A i \in 1..n : s[i] = u[i]) <=> /\ \A i \in 1..n : i < k => s[i] = t[i]
                                        /\ \A i \in k..n : s[i] = t[i + 1]
  <2>1. \A i \in k..n : i \in 1..n /\ ~(i < k)
    OBVIOUS
  <2>2. \A i \in 1..n : i < k \/ i \in k..n
    OBVIOUS
  <2> QED
    BY <1>2, <2>1, <2>2
<1> QED
  BY <1>1, <1>3, <1>4 DEF Adds, SameBefore, SameFrom

LEMMA OneMoreIs ==
    ASSUME NEW S, NEW s \in Seq(S), NEW t \in Seq(S)
    PROVE  /\ OneMore(s, t) => FirstDifference(s, t) \in 1..Len(t) /\ Adds(s, t, FirstDifference(s, t))
           /\ \A k : Adds(s, t, k) => OneMore(s, t)
<1>1. PICK n \in Nat : n = Len(s)
  OBVIOUS
<1>2. PICK f \in 1..n + 1 :
          /\ f = FirstDifference(s, t)
          /\ f = n + 1 \/ s[f] # t[f]
          /\ \A i \in 1..n : i < f => s[i] = t[i]
  BY <1>1, FirstDifferenceIs
<1>3. ASSUME OneMore(s, t) PROVE f \in 1..Len(t) /\ Adds(s, t, f)
  <2>1. n + 1 = Len(t) /\ SubSeq(s, f, n) = SubSeq(t, f + 1, n + 1)
    BY <1>1, <1>2, <1>3 DEF OneMore
  <2>2. SameFrom(s, t, f, n)
    <3>1. SameRest(s, t, f, n)
      BY <2>1 DEF SameRest
    <3> QED
      BY <1>1, <2>1, <3>1, RestIs
  <2>3. SameBefore(s, t, f, n)
    BY <1>2 DEF SameBefore
  <2>4. Adds(s, t, f)
    BY <1>1, <2>1, <2>2, <2>3, AddsIs
  <2> QED
    BY <2>1, <2>4
<1>4. ASSUME NEW k, Adds(s, t, k) PROVE OneMore(s, t)
  <2>1. k \in 1..Len(t)
    BY <1>4 DEF Adds
  <2>2. n + 1 = Len(t)
    <3>1. Len(Without(t, {k})) = Len(t) - 1
      BY <2>1, WithoutOne
    <3>2. Len(t) \in Nat
      OBVIOUS
    <3> QED
      BY <1>1, <1>4, <3>1, <3>2 DEF Adds
  <2>3. k \in 1..n + 1
    BY <2>1, <2>2
  <2>4. /\ \A i \in 1..n : i < k => s[i] = t[i]
        /\ \A i \in k..n : s[i] = t[i + 1]
    <3>1. SameBefore(s, t, k, n) /\ SameFrom(s, t, k, n)
      BY <1>1, <1>4, <2>2, <2>3, AddsIs
    <3> QED
      BY <3>1 DEF SameBefore, SameFrom
  <2>5. k <= f
    <3> SUFFICES ASSUME f < k PROVE FALSE
      BY <2>3
    <3>1. f \in 1..n /\ f # n + 1
      BY <2>3
    <3> QED
      BY <1>2, <2>4, <3>1
  <2>6. \A i \in f..n : s[i] = t[i + 1]
    <3>1. \A i \in f..n : i \in k..n
      BY <2>3, <2>5
    <3> QED
      BY <2>4, <3>1
  <2>7. SubSeq(s, f, n) = SubSeq(t, f + 1, n + 1)
    <3>1. SameFrom(s, t, f, n)
      BY <2>6 DEF SameFrom
    <3>2. SameRest(s, t, f, n)
      BY <1>1, <2>2, <3>1, RestIs
    <3> QED
      BY <3>2 DEF SameRest
  <2> QED
    BY <1>1, <1>2, <2>2, <2>7 DEF OneMore
<1> QED
  BY <1>2, <1>3, <1>4

-----------------------------------------------------------------------------
(* What singleCharacterDifference highlights, and that it is one edit.      *)
Differing(w, c) == {i \in DOMAIN w : w[i] # c[i]}
Highlight(v, d) == [wikidata |-> v, cldr |-> d]
OneDiffers(w, c) == \E i \in Differing(w, c) : Differing(w, c) = {i}
SingleOf(w, c) ==
    CASE IsBlank(w) -> Nothing
      [] ~IsBlank(w) /\ Len(w) = Len(c) ->
            IF OneDiffers(w, c) THEN Highlight(Differing(w, c), Differing(w, c)) ELSE Nothing
      [] ~IsBlank(w) /\ OneMore(w, c) -> Highlight({}, {FirstDifference(w, c)})
      [] ~IsBlank(w) /\ OneMore(c, w) -> Highlight({FirstDifference(c, w)}, {})
      [] OTHER -> Nothing

LEMMA SingleIs == \A w, c : singleCharacterDifference(w, c) = SingleOf(w, c)
<1> TAKE w, c
<1>1. /\ [Nothing EXCEPT !.cldr = {FirstDifference(w, c)}] = Highlight({}, {FirstDifference(w, c)})
      /\ [Nothing EXCEPT !.wikidata = {FirstDifference(c, w)}] = Highlight({FirstDifference(c, w)}, {})
  BY DEF Nothing, Highlight
<1> QED
  BY <1>1 DEF singleCharacterDifference, SingleOf, OneMore, Differing, Highlight, OneDiffers

LEMMA SingleCases ==
    ASSUME NEW S, NEW w \in Seq(S), NEW c \in Seq(S), ~IsBlank(w), NEW r, r = singleCharacterDifference(w, c)
    PROVE  /\ Len(w) = Len(c) /\ OneDiffers(w, c) => r = Highlight(Differing(w, c), Differing(w, c))
           /\ OneMore(w, c) => r = Highlight({}, {FirstDifference(w, c)})
           /\ OneMore(c, w) => r = Highlight({FirstDifference(c, w)}, {})
<1>1. Len(w) \in Nat /\ Len(c) \in Nat
  OBVIOUS
<1>2. /\ OneMore(w, c) => Len(w) # Len(c) /\ ~OneMore(c, w)
      /\ OneMore(c, w) => Len(w) # Len(c) /\ ~OneMore(w, c)
  BY <1>1 DEF OneMore
<1>3. r = SingleOf(w, c)
  BY SingleIs
<1> QED
  BY <1>2, <1>3 DEF SingleOf

LEMMA SingleNothing ==
    ASSUME NEW S, NEW w \in Seq(S), NEW c \in Seq(S), ~IsBlank(w),
           \/ Len(w) = Len(c) /\ ~OneDiffers(w, c)
           \/ Len(w) # Len(c) /\ ~OneMore(w, c) /\ ~OneMore(c, w)
    PROVE  singleCharacterDifference(w, c) = Nothing
<1>1. OneMore(w, c) \/ OneMore(c, w) => Len(w) # Len(c)
  <2>1. Len(w) \in Nat /\ Len(c) \in Nat
    OBVIOUS
  <2> QED
    BY <2>1 DEF OneMore
<1> QED
  BY <1>1, SingleIs DEF SingleOf

LEMMA HighlightIs ==
    \A v, d :
        /\ Highlight(v, d).wikidata = v /\ Highlight(v, d).cldr = d
        /\ v # {} \/ d # {} => Highlight(v, d) # Nothing
  BY DEF Highlight, Nothing

(* It is the edit, if there is one.                                         *)
IsOneEdit(w, c, r) ==
    IF \E v \in SUBSET DOMAIN w, d \in SUBSET DOMAIN c : Edit(w, c, v, d)
      THEN r # Nothing /\ Edit(w, c, r.wikidata, r.cldr) ELSE r = Nothing

LEMMA SingleIsOneEdit ==
    ASSUME NEW S, NEW w \in Seq(S), NEW c \in Seq(S), w # c, ~IsBlank(w),
           NEW r, r = singleCharacterDifference(w, c)
    PROVE  IsOneEdit(w, c, r)
<1>1. PICK n \in Nat, m \in Nat : n = Len(w) /\ m = Len(c) /\ DOMAIN w = 1..n /\ DOMAIN c = 1..m
  BY LenProperties
<1> DEFINE Some == \/ n = m /\ \E k \in 1..n : Replaces(w, c, k)
                   \/ \E k : Adds(w, c, k)
                   \/ \E k : Adds(c, w, k)
<1>2. (\E v \in SUBSET DOMAIN w, d \in SUBSET DOMAIN c : Edit(w, c, v, d)) => Some
  <2> SUFFICES ASSUME NEW v \in SUBSET (1..n), NEW d \in SUBSET (1..m), Edit(w, c, v, d) PROVE Some
    BY <1>1
  <2>1. ReplacesOrAdds(w, c, v, d)
    BY <1>1, EditIs
  <2> QED
    BY <1>1, <2>1 DEF ReplacesOrAdds, Replaces
<1>3. CASE \E k : Adds(w, c, k)
  <2>1. PICK f \in 1..m : f = FirstDifference(w, c) /\ Adds(w, c, f) /\ OneMore(w, c)
    BY <1>1, <1>3, OneMoreIs
  <2>2. r = Highlight({}, {f})
    BY <2>1, SingleCases
  <2>3. r.wikidata = {} /\ r.cldr = {f} /\ r # Nothing
    BY <2>2, HighlightIs
  <2>4. PICK v \in SUBSET (1..n), d \in SUBSET (1..m) : v = {} /\ d = {f}
    OBVIOUS
  <2>5. Edit(w, c, v, d)
    <3>1. ReplacesOrAdds(w, c, v, d)
      BY <1>1, <2>1, <2>4 DEF ReplacesOrAdds
    <3> QED
      BY <1>1, <3>1, EditIs
  <2> QED
    BY <1>1, <2>3, <2>4, <2>5 DEF IsOneEdit
<1>4. CASE \E k : Adds(c, w, k)
  <2>1. PICK f \in 1..n : f = FirstDifference(c, w) /\ Adds(c, w, f) /\ OneMore(c, w)
    BY <1>1, <1>4, OneMoreIs
  <2>2. r = Highlight({f}, {})
    BY <2>1, SingleCases
  <2>3. r.wikidata = {f} /\ r.cldr = {} /\ r # Nothing
    BY <2>2, HighlightIs
  <2>4. PICK v \in SUBSET (1..n), d \in SUBSET (1..m) : v = {f} /\ d = {}
    OBVIOUS
  <2>5. Edit(w, c, v, d)
    <3>1. ReplacesOrAdds(w, c, v, d)
      BY <1>1, <2>1, <2>4 DEF ReplacesOrAdds
    <3> QED
      BY <1>1, <3>1, EditIs
  <2> QED
    BY <1>1, <2>3, <2>4, <2>5 DEF IsOneEdit
<1>5. CASE n = m
  <2>1. PICK D \in SUBSET (1..n) : D = Differing(w, c) /\ D = {i \in 1..n : w[i] # c[i]}
    BY <1>1 DEF Differing
  <2>2. D # {}
    <3>1. \E i \in 1..Len(w) : w[i] # c[i]
      BY <1>1, <1>5, SeqEqual
    <3> QED
      BY <1>1, <2>1, <3>1
  <2>3. \A k \in 1..n : Replaces(w, c, k) <=> D = {k}
    <3> TAKE k \in 1..n
    <3>1. Replaces(w, c, k) <=> \A i \in 1..n : i # k => w[i] = c[i]
      BY <1>1, <1>5, ReplacesIs
    <3> QED
      BY <2>1, <2>2, <3>1
  <2>4. CASE OneDiffers(w, c)
    <3>1. PICK k \in 1..n : D = {k}
      BY <2>1, <2>4 DEF OneDiffers
    <3>2. Replaces(w, c, k)
      BY <2>3, <3>1
    <3>3. r = Highlight(D, D)
      BY <1>1, <1>5, <2>1, <2>4, SingleCases
    <3>4. r.wikidata = D /\ r.cldr = D /\ r # Nothing
      BY <2>2, <3>3, HighlightIs
    <3>5. D \in SUBSET (1..m)
      BY <1>5
    <3>6. Edit(w, c, D, D)
      <4>1. ReplacesOrAdds(w, c, D, D)
        BY <1>1, <3>1, <3>2 DEF ReplacesOrAdds
      <4> QED
        BY <1>1, <3>5, <4>1, EditIs
    <3> QED
      BY <1>1, <3>4, <3>5, <3>6 DEF IsOneEdit
  <2>5. CASE ~OneDiffers(w, c)
    <3>1. r = Nothing
      <4>1. Len(w) = Len(c)
        BY <1>1, <1>5
      <4> QED
        BY <2>5, <4>1, SingleNothing
    <3>2. \A k \in 1..n : ~Replaces(w, c, k)
      BY <2>1, <2>3, <2>5 DEF OneDiffers
    <3>3. ASSUME NEW k PROVE ~Adds(w, c, k) /\ ~Adds(c, w, k)
      <4>1. ~OneMore(w, c) /\ ~OneMore(c, w)
        BY <1>1, <1>5 DEF OneMore
      <4> QED
        BY <4>1, OneMoreIs
    <3> QED
      BY <1>2, <3>1, <3>2, <3>3 DEF IsOneEdit
  <2> QED
    BY <2>4, <2>5
<1>6. CASE ~Some /\ n # m
  <2>1. ~OneMore(w, c) /\ ~OneMore(c, w)
    BY <1>6, OneMoreIs
  <2>2. r = Nothing
    BY <1>1, <1>6, <2>1, SingleNothing
  <2> QED
    BY <1>2, <1>6, <2>2 DEF IsOneEdit
<1> QED
  BY <1>3, <1>4, <1>5, <1>6

(* When the letters of two names differ, what the page highlights is the    *)
(* one character that was replaced, added or dropped, and it highlights     *)
(* something whenever there is one (render_html.js                          *)
(* singleCharacterDifference, splitLettersAndSeparators).                   *)
THEOREM HighlightsTheEdit == Spec => []OneEdit
<1> DEFINE Chars == Characters \cup Letters \cup Marks
<1>1. ASSUME NEW w \in Seq(Characters), NEW c \in Seq(Characters), ~IsBlank(w),
             WellFormed(w), WellFormed(c), ~SameLetters(w, c)
      PROVE  IsOneEdit(w, c, Difference(w, c))
  <2>1. w \in Seq(Chars) /\ c \in Seq(Chars)
    BY SeqMonotonic
  <2>2. Alphabetic(Chars)
    BY DEF Alphabetic
  <2> HIDE DEF Chars
  <2>3. nonAlphabeticDifference(w, c) = Nothing
    BY <1>1, <2>1, <2>2, OtherLetters
  <2>4. w # c
    BY <1>1 DEF SameLetters
  <2> QED
    BY <1>1, <2>1, <2>3, <2>4, SingleIsOneEdit DEF Difference
<1>2. PInv => OneEdit
  <2> SUFFICES ASSUME PInv PROVE OneEdit
    OBVIOUS
  <2>1. CASE page = NoPage
    BY <2>1 DEF NoPage, OneEdit, Unmerged
  <2>2. CASE page = Rendered(CLDR_NAMES, answer)
    <3>1. page.rows = renderHtml(CLDR_NAMES, Expected(CLDR_NAMES, answer))
      BY <2>2, RenderedIsExpected DEF PInv
    <3>2. ASSUME NEW r \in Unmerged, NEW w, w = EnglishName(r.names), NEW c, c = Cldr(r),
                 WellFormed(w), WellFormed(c), ~SameLetters(w, c)
          PROVE  IsOneEdit(w, c, r.english.marked)
      <4>1. r \in page.rows /\ r.english.shown # "merged" /\ ~IsBlank(w)
        BY <3>2 DEF Unmerged
      <4>2. PICK s \in Expected(CLDR_NAMES, answer) :
                /\ r.code = s.code /\ r.names = s.names
                /\ r.english = EnglishCells(EnglishName(s.names), CLDR_NAMES[codeToCldrKey(s.code)])
        BY <3>1, <4>1 DEF renderHtml
      <4>3. w = EnglishName(s.names) /\ c = CLDR_NAMES[codeToCldrKey(s.code)]
        BY <3>2, <4>2 DEF Cldr
      <4>4. w \in Seq(Characters) /\ codeToCldrKey(s.code) \in DOMAIN CLDR_NAMES
        BY <4>3, ExpectedTypes DEF PInv
      <4>5. c \in Seq(Characters)
        BY <4>3, <4>4 DEF PInv
      <4>6. r.english.marked = Difference(w, c)
        <5>1. r.english = EnglishCells(w, c)
          BY <4>2, <4>3
        <5> QED
          BY <4>1, <5>1 DEF EnglishCells
      <4> QED
        BY <1>1, <3>2, <4>1, <4>4, <4>5, <4>6
    <3>3. ASSUME NEW r \in Unmerged
          PROVE  WellFormed(EnglishName(r.names)) /\ WellFormed(Cldr(r)) /\ ~SameLetters(EnglishName(r.names), Cldr(r))
                     => IsOneEdit(EnglishName(r.names), Cldr(r), r.english.marked)
      BY <3>2
    <3> QED
      BY <3>3 DEF OneEdit, IsOneEdit, Edit
  <2> QED
    BY <2>1, <2>2 DEF PInv
<1> QED
  BY <1>2, PageOfTheAnswer, PTL

-----------------------------------------------------------------------------
(* k of the texts of B, from the i-th on, one after the other.              *)
Part(B, i, k) == FlattenSeq([j \in 1..k |-> B[j + i - 1]])

LEMMA PartNone == \A B, i : Part(B, i, 0) = << >>
  BY DEF Part, FlattenSeq

Grows(S, B, i, k) == Part(B, i, k) \in Seq(S) /\ Part(B, i, k + 1) = Part(B, i, k) \o B[i + k]

LEMMA PartGrows ==
    ASSUME NEW S, NEW B \in Seq(Seq(S)), NEW i \in Nat, NEW k \in Nat, i > 0, i + k <= Len(B)
    PROVE  /\ Part(B, i, k) \in Seq(S)
           /\ Part(B, i, k + 1) = Part(B, i, k) \o B[i + k]
<1>1. \A j \in 1..k + 1 : B[j + i - 1] \in Seq(S)
  <2> TAKE j \in 1..k + 1
  <2>1. j + i - 1 \in 1..Len(B)
    BY LenProperties
  <2> QED
    BY <2>1, ElementOfSeq
<1>2. PICK s : s = [j \in 1..k |-> B[j + i - 1]]
  OBVIOUS
<1>3. PICK t : t = [j \in 1..k + 1 |-> B[j + i - 1]]
  OBVIOUS
<1>4. s \in Seq(Seq(S)) /\ Len(s) = k
  <2>1. s \in [1..k -> Seq(S)]
    BY <1>1, <1>2
  <2> QED
    BY <2>1, SequenceOf
<1>5. t \in Seq(Seq(S)) /\ Len(t) = k + 1
  <2>1. t \in [1..k + 1 -> Seq(S)] /\ k + 1 \in Nat
    BY <1>1, <1>3
  <2> QED
    BY <2>1, SequenceOf
<1>6. PICK e \in Seq(S) : e = B[i + k] /\ t[k + 1] = e
  <2>1. k + 1 \in 1..k + 1 /\ (k + 1) + i - 1 = i + k
    OBVIOUS
  <2>2. t[k + 1] = B[i + k]
    BY <1>3, <2>1
  <2> QED
    BY <1>1, <2>1, <2>2
<1>7. t = Append(s, e)
  <2>1. Append(s, e) \in Seq(Seq(S)) /\ Len(Append(s, e)) = k + 1 /\ Append(s, e)[k + 1] = e
        /\ \A j \in 1..k : Append(s, e)[j] = s[j]
    BY <1>4, AppendProperties
  <2>2. ASSUME NEW j \in 1..k + 1 PROVE t[j] = Append(s, e)[j]
    <3>1. CASE j = k + 1
      BY <1>6, <2>1, <3>1
    <3>2. CASE j \in 1..k
      BY <1>2, <1>3, <2>1, <3>2
    <3>3. j = k + 1 \/ j \in 1..k
      OBVIOUS
    <3> QED
      BY <3>1, <3>2, <3>3
  <2> QED
    BY <1>5, <2>1, <2>2, SeqEqual
<1>8. FlattenSeq(s) \in Seq(S)
  BY <1>4, FlattenParts
<1>9. FlattenSeq(Append(s, e)) = FlattenSeq(s) \o e
  BY <1>4, FlattenAppend
<1> QED
  BY <1>2, <1>3, <1>6, <1>7, <1>8, <1>9 DEF Part

LEMMA PartGrowsOn ==
    ASSUME NEW S, NEW B \in Seq(Seq(S)), NEW i \in Nat, NEW k \in Nat, i > 0, i + k <= Len(B)
    PROVE  Grows(S, B, i, k)
  BY PartGrows DEF Grows

LEMMA PartIsText ==
    ASSUME NEW S, NEW B \in Seq(Seq(S)), NEW i \in Nat, NEW k \in Nat, i > 0, i + k <= Len(B) + 1
    PROVE  Part(B, i, k) \in Seq(S)
<1>1. CASE k = 0
  <2>1. << >> \in Seq(S)
    OBVIOUS
  <2> QED
    BY <1>1, <2>1, PartNone
<1>2. CASE k # 0
  <2>1. PICK m \in Nat : k = m + 1
    <3>1. k - 1 \in Nat /\ k = (k - 1) + 1
      BY <1>2
    <3> QED
      BY <3>1
  <2>2. i + m <= Len(B) /\ i + m \in 1..Len(B)
    BY <2>1, LenProperties
  <2>3. Part(B, i, m) \in Seq(S) /\ Part(B, i, m + 1) = Part(B, i, m) \o B[i + m]
    BY <2>2, PartGrows
  <2>4. B[i + m] \in Seq(S)
    BY <2>2, ElementOfSeq
  <2> QED
    BY <2>1, <2>3, <2>4, ConcatProperties
<1> QED
  BY <1>1, <1>2

(* It depends on these texts only, ...                                      *)
LEMMA PartSame ==
    ASSUME NEW A, NEW B, NEW i \in Nat, NEW k \in Nat, \A j \in 1..k : A[j + i - 1] = B[j + i - 1]
    PROVE  Part(A, i, k) = Part(B, i, k)
<1>1. [j \in 1..k |-> A[j + i - 1]] = [j \in 1..k |-> B[j + i - 1]]
  OBVIOUS
<1> QED
  BY <1>1 DEF Part

(* ... and has the first of them in front.                                  *)
LEMMA PartFirst ==
    ASSUME NEW S, NEW B \in Seq(Seq(S)), NEW i \in Nat, NEW k \in Nat, i > 0, i + k <= Len(B)
    PROVE  Part(B, i, k + 1) = B[i] \o Part(B, i + 1, k)
<1> DEFINE First(m) == Part(B, i, m + 1) = B[i] \o Part(B, i + 1, m)
           P == {m \in Nat : i + m <= Len(B) => First(m)}
<1>1. Len(B) \in Nat /\ i \in 1..Len(B) /\ B[i] \in Seq(S) /\ i + 1 \in Nat /\ i + 1 > 0
  BY LenProperties, ElementOfSeq
<1>2. 0 \in P
  <2>1. i + 0 = i /\ i + 0 <= Len(B)
    BY <1>1
  <2>2. Part(B, i, 0 + 1) = Part(B, i, 0) \o B[i]
    BY <2>1, PartGrows
  <2>3. Part(B, i, 0) = << >> /\ Part(B, i + 1, 0) = << >>
    BY PartNone
  <2>4. << >> \o B[i] = B[i] /\ B[i] \o << >> = B[i]
    BY <1>1, ConcatEmptySeq
  <2> QED
    BY <2>2, <2>3, <2>4
<1>3. ASSUME NEW m \in P PROVE m + 1 \in P
  <2> SUFFICES ASSUME i + (m + 1) <= Len(B) PROVE First(m + 1)
    <3> HIDE DEF First
    <3> QED
      OBVIOUS
  <2>1. m \in Nat /\ m + 1 \in Nat /\ i + m <= Len(B) /\ (i + 1) + m <= Len(B)
        /\ i + (m + 1) = (i + 1) + m /\ (i + 1) + m \in 1..Len(B)
    BY <1>1
  <2>2. Part(B, i, m + 1) = B[i] \o Part(B, i + 1, m)
    BY <2>1
  <2>3. Part(B, i, (m + 1) + 1) = Part(B, i, m + 1) \o B[(i + 1) + m]
    <3>1. Grows(S, B, i, m + 1)
      BY <2>1, PartGrowsOn
    <3> QED
      BY <2>1, <3>1 DEF Grows
  <2>4. Part(B, i + 1, m + 1) = Part(B, i + 1, m) \o B[(i + 1) + m] /\ Part(B, i + 1, m) \in Seq(S)
    <3>1. Grows(S, B, i + 1, m)
      BY <1>1, <2>1, PartGrowsOn
    <3> QED
      BY <3>1 DEF Grows
  <2>5. PICK x \in Seq(S) : x = B[(i + 1) + m]
    BY <2>1, ElementOfSeq
  <2>6. PICK y \in Seq(S) : y = Part(B, i + 1, m)
    BY <2>4
  <2>7. PICK z \in Seq(S) : z = B[i]
    BY <1>1
  <2>8. Associates(z, y, x)
    BY Associative
  <2> HIDE DEF P
  <2> QED
    BY <2>2, <2>3, <2>4, <2>5, <2>6, <2>7, <2>8 DEF Associates
<1>4. P \in SUBSET Nat
  OBVIOUS
<1> HIDE DEF P
<1>5. k \in P
  BY <1>2, <1>3, <1>4, ByInduction
<1> QED
  BY <1>5 DEF P

-----------------------------------------------------------------------------
(* A text that ends in a character of C, or is empty, and the rest after it *)
(* that has none: where the one ends and the other begins can be read off.  *)
Clear(C, s) == \A i \in 1..Len(s) : s[i] \notin C
Solid(C, x) == Len(x) > 0 => x[Len(x)] \in C

LEMMA NotShorter ==
    ASSUME NEW S, NEW C, NEW x \in Seq(S), NEW y \in Seq(S), NEW s \in Seq(S), NEW t \in Seq(S),
           Solid(C, y), Clear(C, s), x \o s = y \o t
    PROVE  Len(y) <= Len(x)
<1> SUFFICES ASSUME Len(x) < Len(y) PROVE FALSE
  BY LenProperties
<1>1. PICK a \in Nat, b \in Nat, m \in Nat, n \in Nat : a = Len(x) /\ b = Len(y) /\ m = Len(s) /\ n = Len(t)
  BY LenProperties
<1>2. a + m = b + n
  BY <1>1, ConcatProperties
<1>3. b \in 1..a + m /\ b \in 1..b + n /\ b - a \in 1..m /\ ~(b <= a) /\ b <= b
  BY <1>1, <1>2
<1>4. (x \o s)[b] = s[b - a]
  BY <1>1, <1>3, ConcatProperties
<1>5. (y \o t)[b] = y[b]
  BY <1>1, <1>3, ConcatProperties
<1>6. y[b] \in C /\ s[b - a] \notin C
  BY <1>1, <1>3 DEF Solid, Clear
<1> QED
  BY <1>4, <1>5, <1>6

LEMMA SameParts ==
    ASSUME NEW S, NEW x \in Seq(S), NEW y \in Seq(S), NEW s \in Seq(S), NEW t \in Seq(S),
           Len(x) = Len(y), x \o s = y \o t
    PROVE  x = y /\ s = t
<1>1. PICK a \in Nat, m \in Nat, n \in Nat : a = Len(x) /\ a = Len(y) /\ m = Len(s) /\ n = Len(t)
  BY LenProperties
<1>2. PICK z : z = x \o s /\ z = y \o t
  OBVIOUS
<1>3. /\ Len(z) = a + m /\ Len(z) = a + n
      /\ \A i \in 1..a + m : z[i] = IF i <= a THEN x[i] ELSE s[i - a]
      /\ \A i \in 1..a + n : z[i] = IF i <= a THEN y[i] ELSE t[i - a]
  BY <1>1, <1>2, ConcatProperties
<1>4. m = n
  BY <1>3
<1>5. \A i \in 1..a : x[i] = y[i]
  <2> TAKE i \in 1..a
  <2>1. i \in 1..a + m /\ i \in 1..a + n /\ i <= a
    OBVIOUS
  <2> QED
    BY <1>3, <2>1
<1>6. \A i \in 1..m : s[i] = t[i]
  <2> TAKE i \in 1..m
  <2>1. i + a \in 1..a + m /\ i + a \in 1..a + n /\ ~(i + a <= a) /\ (i + a) - a = i
    BY <1>4
  <2> QED
    BY <1>3, <2>1
<1> QED
  BY <1>1, <1>4, <1>5, <1>6, SeqEqual

SameText(x, t, y, u) == x \o t = y \o u
SameEnd(C, x, s, y, t) ==
    Solid(C, x) /\ Solid(C, y) /\ Clear(C, s) /\ Clear(C, t) /\ SameText(x, s, y, t)

LEMMA EndIsKnown ==
    ASSUME NEW S, NEW C, NEW x \in Seq(S), NEW y \in Seq(S), NEW s \in Seq(S), NEW t \in Seq(S),
           SameEnd(C, x, s, y, t)
    PROVE  x = y /\ s = t
<1>0. Solid(C, x) /\ Solid(C, y) /\ Clear(C, s) /\ Clear(C, t) /\ x \o s = y \o t
  BY DEF SameEnd, SameText
<1>1. Len(y) <= Len(x) /\ Len(x) <= Len(y)
  BY <1>0, NotShorter
<1>2. Len(x) = Len(y)
  BY <1>1, LenProperties
<1> QED
  BY <1>0, <1>2, SameParts

(* So it is for a letter with its marks at the end of a text.               *)
LetterForm(t) == Len(t) > 0 /\ t[1] \in Letters /\ \A i \in 2..Len(t) : t[i] \in Marks

LEMMA LetterNotShorter ==
    ASSUME NEW S, NEW x \in Seq(S), NEW y \in Seq(S), NEW t \in Seq(S), NEW u \in Seq(S),
           LetterForm(t), LetterForm(u), x \o t = y \o u
    PROVE  Len(x) <= Len(y)
<1> SUFFICES ASSUME Len(y) < Len(x) PROVE FALSE
  BY LenProperties
<1>1. PICK a \in Nat, b \in Nat, m \in Nat, n \in Nat : a = Len(x) /\ b = Len(y) /\ m = Len(t) /\ n = Len(u)
  BY LenProperties
<1>2. a + m = b + n /\ m > 0
  BY <1>1, ConcatProperties DEF LetterForm
<1>3. a + 1 \in 1..a + m /\ a + 1 \in 1..b + n /\ (a + 1) - b \in 2..n /\ ~(a + 1 <= a) /\ ~(a + 1 <= b)
      /\ (a + 1) - a = 1
  BY <1>1, <1>2
<1>4. (x \o t)[a + 1] = t[1]
  BY <1>1, <1>3, ConcatProperties
<1>5. (y \o u)[a + 1] = u[(a + 1) - b]
  BY <1>1, <1>3, ConcatProperties
<1>6. t[1] \in Letters /\ u[(a + 1) - b] \in Marks
  BY <1>1, <1>3 DEF LetterForm
<1> QED
  BY <1>4, <1>5, <1>6 DEF Letters, Marks

LEMMA LetterIsKnown ==
    ASSUME NEW S, NEW x \in Seq(S), NEW y \in Seq(S), NEW t \in Seq(S), NEW u \in Seq(S),
           LetterForm(t), LetterForm(u), SameText(x, t, y, u)
    PROVE  x = y /\ t = u
<1> USE DEF SameText
<1>1. Len(y) <= Len(x) /\ Len(x) <= Len(y)
  BY LetterNotShorter
<1>2. Len(x) = Len(y)
  BY <1>1, LenProperties
<1> QED
  BY <1>2, SameParts

-----------------------------------------------------------------------------
(* Letters with runs of other characters in front of, between and after     *)
(* them, up to the k-th letter and the run after it.                        *)
Pairs(T, L) == [i \in 1..Len(L) |-> T[i] \o L[i]]
Woven(T, L, k) == Part(Pairs(T, L), 1, k) \o T[k + 1]
Weave(S, T, L) == T \in Seq(Seq(S)) /\ L \in Seq(Seq(S)) /\ Len(T) = Len(L) + 1

LEMMA WeaveTypes ==
    ASSUME NEW S, NEW T, NEW L, Weave(S, T, L)
    PROVE  /\ Len(L) \in Nat
           /\ \A i \in 1..Len(L) : L[i] \in Seq(S) /\ T[i] \in Seq(S) /\ T[i + 1] \in Seq(S)
           /\ T[1] \in Seq(S)
<1>1. PICK n \in Nat : n = Len(L) /\ Len(T) = n + 1
  BY LenProperties DEF Weave
<1>2. \A i \in 1..n : L[i] \in Seq(S)
  BY <1>1, ElementOfSeq DEF Weave
<1>3. \A i \in 1..n + 1 : T[i] \in Seq(S)
  BY <1>1, ElementOfSeq DEF Weave
<1>4. 1 \in 1..n + 1 /\ \A i \in 1..n : i \in 1..n + 1 /\ i + 1 \in 1..n + 1
  OBVIOUS
<1> QED
  BY <1>1, <1>2, <1>3, <1>4

LEMMA PairsAre ==
    ASSUME NEW S, NEW T, NEW L, Weave(S, T, L)
    PROVE  /\ Pairs(T, L) \in Seq(Seq(S)) /\ Len(Pairs(T, L)) = Len(L)
           /\ \A i \in 1..Len(L) : Pairs(T, L)[i] = T[i] \o L[i]
<1>1. PICK n \in Nat : n = Len(L)
  BY WeaveTypes
<1>2. \A i \in 1..n : T[i] \o L[i] \in Seq(S)
  BY <1>1, WeaveTypes, ConcatProperties
<1>3. PICK p : p = Pairs(T, L)
  OBVIOUS
<1>4. p \in [1..n -> Seq(S)] /\ \A i \in 1..n : p[i] = T[i] \o L[i]
  BY <1>1, <1>2, <1>3 DEF Pairs
<1> QED
  BY <1>1, <1>3, <1>4, SequenceOf

LEMMA PairsText ==
    ASSUME NEW S, NEW T, NEW L, Weave(S, T, L)
    PROVE  Pairs(T, L) \in Seq(Seq(S)) /\ Len(Pairs(T, L)) = Len(L)
<1>1. PICK n \in Nat : n = Len(L)
  BY WeaveTypes
<1>2. \A i \in 1..n : T[i] \o L[i] \in Seq(S)
  BY <1>1, WeaveTypes, ConcatProperties
<1>3. PICK p : p = Pairs(T, L)
  OBVIOUS
<1>4. p \in [1..n -> Seq(S)]
  BY <1>1, <1>2, <1>3 DEF Pairs
<1> QED
  BY <1>1, <1>3, <1>4, SequenceOf

LEMMA WovenFirst ==
    ASSUME NEW S, NEW T, NEW L, Weave(S, T, L)
    PROVE  Woven(T, L, 0) = T[1]
<1>1. PICK t \in Seq(S) : t = T[1] /\ t = T[0 + 1]
  BY WeaveTypes
<1>2. Woven(T, L, 0) = << >> \o t
  BY <1>1, PartNone DEF Woven
<1> QED
  BY <1>1, <1>2, ConcatEmptySeq

LEMMA WovenNext ==
    ASSUME NEW S, NEW T, NEW L, Weave(S, T, L), NEW k \in Nat, k < Len(L)
    PROVE  /\ Woven(T, L, k) \in Seq(S)
           /\ Woven(T, L, k + 1) = (Woven(T, L, k) \o L[k + 1]) \o T[k + 2]
<1>1. PICK n \in Nat : n = Len(L)
  BY WeaveTypes
<1>2. PICK B \in Seq(Seq(S)) : B = Pairs(T, L)
  BY PairsAre
<1>20. Len(B) = n /\ \A i \in 1..n : B[i] = T[i] \o L[i]
  <2>1. Len(Pairs(T, L)) = Len(L) /\ \A i \in 1..Len(L) : Pairs(T, L)[i] = T[i] \o L[i]
    <3>1. Len(Pairs(T, L)) = Len(L)
      BY PairsText
    <3>2. \A i \in 1..Len(L) : Pairs(T, L)[i] = T[i] \o L[i]
      BY DEF Pairs
    <3> QED
      BY <3>1, <3>2, Zenon
  <2> QED
    BY <1>1, <1>2, <2>1
<1>3. Part(B, 1, k) \in Seq(S) /\ Part(B, 1, k + 1) = Part(B, 1, k) \o B[1 + k]
  <2>1. 1 \in Nat /\ 1 > 0 /\ 1 + k <= Len(B)
    BY <1>1, <1>20
  <2> QED
    BY <2>1, PartGrows
<1>4. k + 1 \in 1..n /\ 1 + k = k + 1 /\ (k + 1) + 1 = k + 2
  BY <1>1
<1>5. PICK p \in Seq(S), t \in Seq(S), l \in Seq(S) : p = Part(B, 1, k) /\ t = T[k + 1] /\ l = L[k + 1]
  BY <1>1, <1>3, <1>4, WeaveTypes
<1>6. Woven(T, L, k) = p \o t
  BY <1>2, <1>5 DEF Woven
<1>7. Part(B, 1, k + 1) = p \o (t \o l)
  BY <1>20, <1>3, <1>4, <1>5
<1>8. Woven(T, L, k + 1) = (p \o (t \o l)) \o T[k + 2]
  BY <1>2, <1>4, <1>7 DEF Woven
<1>9. (p \o t) \o l = p \o (t \o l)
  <2>1. Associates(p, t, l)
    BY Associative
  <2> QED
    BY <2>1 DEF Associates
<1>10. p \o t \in Seq(S)
  BY ConcatProperties
<1> QED
  BY <1>5, <1>6, <1>8, <1>9, <1>10

LEMMA WovenIsText ==
    ASSUME NEW S, NEW T, NEW L, Weave(S, T, L), NEW k \in 0..Len(L)
    PROVE  Woven(T, L, k) \in Seq(S)
<1>1. PICK n \in Nat : n = Len(L)
  BY WeaveTypes
<1>2. CASE k < n
  <2>1. k \in Nat
    BY <1>1
  <2> QED
    BY <1>1, <1>2, <2>1, WovenNext
<1>3. CASE k = n /\ n = 0
  BY <1>3, WovenFirst, WeaveTypes
<1>4. CASE k = n /\ n # 0
  <2>1. PICK m \in Nat : n = m + 1
    <3>1. n - 1 \in Nat /\ n = (n - 1) + 1
      BY <1>4
    <3> QED
      BY <3>1
  <2>2. n \in 1..n /\ n + 1 = m + 2 /\ m < n
    BY <1>4, <2>1
  <2>3. PICK l \in Seq(S), t \in Seq(S) : l = L[n] /\ t = T[n + 1]
    BY <1>1, <2>2, WeaveTypes
  <2>4. Woven(T, L, m) \in Seq(S) /\ Woven(T, L, m + 1) = (Woven(T, L, m) \o l) \o t
    BY <1>1, <2>1, <2>2, <2>3, WovenNext
  <2>5. PICK v \in Seq(S) : v = Woven(T, L, m)
    BY <2>4
  <2>6. v \o l \in Seq(S)
    BY ConcatProperties
  <2>7. (v \o l) \o t \in Seq(S)
    BY <2>6, ConcatProperties
  <2> QED
    BY <1>4, <2>1, <2>4, <2>5, <2>7
<1>5. k < n \/ k = n
  BY <1>1
<1> QED
  BY <1>2, <1>3, <1>4, <1>5

LEMMA WovenSame ==
    ASSUME NEW T, NEW L, NEW U, NEW M, NEW k \in Nat, k <= Len(L), k <= Len(M), Len(L) \in Nat, Len(M) \in Nat,
           \A i \in 1..k : T[i] = U[i] /\ L[i] = M[i], T[k + 1] = U[k + 1]
    PROVE  Woven(T, L, k) = Woven(U, M, k)
<1>1. \A j \in 1..k : (j + 1) - 1 = j /\ j \in 1..Len(L) /\ j \in 1..Len(M)
  OBVIOUS
<1>2. \A j \in 1..k : Pairs(T, L)[j] = Pairs(U, M)[j]
  BY <1>1 DEF Pairs
<1>3. 1 \in Nat /\ \A j \in 1..k : Pairs(T, L)[j + 1 - 1] = Pairs(U, M)[j + 1 - 1]
  BY <1>1, <1>2
<1>4. Part(Pairs(T, L), 1, k) = Part(Pairs(U, M), 1, k)
  BY <1>3, PartSame
<1> QED
  BY <1>4 DEF Woven

(* The names whose weave is the same have the same letters and runs.        *)
Readable(T, L) ==
    /\ \A i \in 1..Len(L) : LetterForm(L[i])
    /\ \A i \in 1..Len(L) + 1 : Clear(Letters \cup Marks, T[i])
SameUpTo(T, L, U, M, k) == (\A i \in 1..k : L[i] = M[i]) /\ (\A i \in 1..k + 1 : T[i] = U[i])

WovenOf(T, L, k, x, l, y, t) ==
    /\ x = Woven(T, L, k) /\ l = L[k + 1] /\ t = T[k + 2] /\ y = x \o l
    /\ LetterForm(l) /\ Clear(Letters \cup Marks, t)
    /\ y # << >> /\ Solid(Letters \cup Marks, y)
    /\ Woven(T, L, k + 1) = y \o t

LEMMA WovenEnds ==
    ASSUME NEW S, NEW T, NEW L, Weave(S, T, L), Readable(T, L), NEW k \in Nat, k < Len(L)
    PROVE  \E x \in Seq(S), l \in Seq(S), y \in Seq(S), t \in Seq(S) : WovenOf(T, L, k, x, l, y, t)
<1>1. PICK n \in Nat : n = Len(L)
  BY WeaveTypes
<1>2. k + 1 \in 1..n /\ (k + 1) + 1 = k + 2 /\ k + 2 \in 1..n + 1
  BY <1>1
<1>3. PICK x \in Seq(S) : x = Woven(T, L, k) /\ Woven(T, L, k + 1) = (x \o L[k + 1]) \o T[k + 2]
  BY <1>1, WovenNext
<1>4. PICK l \in Seq(S), t \in Seq(S) : l = L[k + 1] /\ t = T[k + 2]
  BY <1>1, <1>2, WeaveTypes
<1>5. LetterForm(l) /\ Clear(Letters \cup Marks, t)
  BY <1>1, <1>2, <1>4 DEF Readable
<1>6. PICK a \in Nat, m \in Nat : a = Len(x) /\ m = Len(l)
  BY LenProperties
<1>7. /\ x \o l \in Seq(S) /\ Len(x \o l) = a + m
      /\ \A i \in 1..a + m : (x \o l)[i] = IF i <= a THEN x[i] ELSE l[i - a]
  BY <1>6, ConcatProperties
<1>8. m > 0 /\ l[m] \in Letters \cup Marks
  <2>1. m > 0 /\ l[1] \in Letters /\ \A i \in 2..m : l[i] \in Marks
    BY <1>5, <1>6 DEF LetterForm
  <2>2. m = 1 \/ m \in 2..m
    BY <2>1
  <2> QED
    BY <2>1, <2>2
<1>9. (x \o l)[a + m] = l[m]
  <2>1. a + m \in 1..a + m /\ ~(a + m <= a) /\ (a + m) - a = m
    BY <1>8
  <2> QED
    BY <1>7, <2>1
<1>10. x \o l # << >> /\ Solid(Letters \cup Marks, x \o l)
  <2>1. x \o l # << >>
    <3>1. Len(<< >>) = 0 /\ a + m # 0
      BY <1>8
    <3> QED
      BY <1>7, <3>1
  <2> QED
    BY <1>7, <1>8, <1>9, <2>1 DEF Solid
<1> QED
  <2>1. PICK y \in Seq(S) : y = x \o l
    BY <1>7
  <2>2. Woven(T, L, k + 1) = y \o t /\ y # << >> /\ Solid(Letters \cup Marks, y)
    BY <1>3, <1>4, <1>10, <2>1, Zenon
  <2>3. WovenOf(T, L, k, x, l, y, t)
    BY <1>3, <1>4, <1>5, <2>1, <2>2, Zenon DEF WovenOf
  <2> QED
    BY <2>3, Zenon

LEMMA NoLetterIsKnown ==
    ASSUME NEW S, NEW T, NEW L, Weave(S, T, L), Readable(T, L),
           NEW U, NEW M, Weave(S, U, M), Readable(U, M),
           NEW k \in Nat, k < Len(L)
    PROVE  Woven(T, L, k + 1) # Woven(U, M, 0)
<1>1. PICK x \in Seq(S), l \in Seq(S), y \in Seq(S), t \in Seq(S) : WovenOf(T, L, k, x, l, y, t)
  BY WovenEnds
<1>2. PICK u \in Seq(S) : u = U[1] /\ Woven(U, M, 0) = u
  BY WovenFirst, WeaveTypes
<1>3. Clear(Letters \cup Marks, u)
  <2>1. 1 \in 1..Len(M) + 1
    BY WeaveTypes
  <2> QED
    BY <1>2, <2>1 DEF Readable
<1>4. y # << >> /\ Clear(Letters \cup Marks, t) /\ Solid(Letters \cup Marks, y) /\ Woven(T, L, k + 1) = y \o t
  BY <1>1 DEF WovenOf
<1>5. PICK e \in Seq(S) : e = << >> /\ Len(e) = 0 /\ e \o u = u
  BY ConcatEmptySeq, EmptySeq
<1>6. Solid(Letters \cup Marks, e)
  BY <1>5 DEF Solid
<1> SUFFICES ASSUME e \o u = y \o t PROVE FALSE
  BY <1>2, <1>4, <1>5
<1>7. e = y
  <2>1. SameEnd(Letters \cup Marks, e, u, y, t)
    BY <1>3, <1>4, <1>6 DEF SameEnd, SameText
  <2> QED
    BY <2>1, EndIsKnown
<1> QED
  BY <1>4, <1>5, <1>7

LEMMA LetterAndRunKnown ==
    ASSUME NEW S, NEW T, NEW L, Weave(S, T, L), Readable(T, L),
           NEW U, NEW M, Weave(S, U, M), Readable(U, M),
           NEW k \in Nat, k < Len(L), NEW m \in Nat, m < Len(M),
           Woven(T, L, k + 1) = Woven(U, M, m + 1)
    PROVE  Woven(T, L, k) = Woven(U, M, m) /\ L[k + 1] = M[m + 1] /\ T[k + 2] = U[m + 2]
<1>1. PICK x \in Seq(S), l \in Seq(S), a \in Seq(S), t \in Seq(S) : WovenOf(T, L, k, x, l, a, t)
  BY WovenEnds
<1>2. PICK y \in Seq(S), p \in Seq(S), b \in Seq(S), u \in Seq(S) : WovenOf(U, M, m, y, p, b, u)
  BY WovenEnds
<1>3. SameEnd(Letters \cup Marks, a, t, b, u)
  BY <1>1, <1>2 DEF WovenOf, SameEnd, SameText
<1>4. a = b /\ t = u
  BY <1>3, EndIsKnown
<1>5. LetterForm(l) /\ LetterForm(p) /\ SameText(x, l, y, p)
  BY <1>1, <1>2, <1>4 DEF WovenOf, SameText
<1>6. x = y /\ l = p
  BY <1>5, LetterIsKnown
<1> QED
  BY <1>1, <1>2, <1>4, <1>6 DEF WovenOf

LEMMA Unwoven ==
    ASSUME NEW S, NEW T, NEW L, Weave(S, T, L), Readable(T, L),
           NEW U, NEW M, Weave(S, U, M), Readable(U, M)
    PROVE  \A k \in 0..Len(L) : \A m \in 0..Len(M) :
               Woven(T, L, k) = Woven(U, M, m) => k = m /\ SameUpTo(T, L, U, M, k)
<1> DEFINE Known(k) == \A m \in 0..Len(M) : Woven(T, L, k) = Woven(U, M, m) => k = m /\ SameUpTo(T, L, U, M, k)
           P == {k \in Nat : k <= Len(L) => Known(k)}
<1>1. Len(L) \in Nat /\ Len(M) \in Nat
  BY WeaveTypes
<1>2. 0 \in P
  <2>1. ASSUME NEW m \in 0..Len(M), Woven(T, L, 0) = Woven(U, M, m) PROVE 0 = m /\ SameUpTo(T, L, U, M, 0)
    <3>1. m = 0
      <4> SUFFICES ASSUME m # 0 PROVE FALSE
        OBVIOUS
      <4>1. PICK j \in Nat : m = j + 1 /\ j < Len(M)
        <5>1. m - 1 \in Nat /\ m = (m - 1) + 1 /\ m - 1 < Len(M)
          BY <1>1
        <5> QED
          BY <5>1
      <4> QED
        BY <2>1, <4>1, NoLetterIsKnown
    <3>2. T[1] = U[1]
      BY <2>1, <3>1, WovenFirst
    <3>3. \A i \in 1..0 + 1 : i = 1
      OBVIOUS
    <3>4. \A i \in 1..0 : FALSE
      OBVIOUS
    <3> QED
      BY <3>1, <3>2, <3>3, <3>4, Zenon DEF SameUpTo
  <2> QED
    BY <2>1
<1>3. ASSUME NEW k \in P PROVE k + 1 \in P
  <2>1. k \in Nat /\ k + 1 \in Nat /\ (k + 1 <= Len(L) => k < Len(L) /\ Known(k))
    BY <1>1
  <2>2. ASSUME k + 1 <= Len(L), NEW m \in 0..Len(M), Woven(T, L, k + 1) = Woven(U, M, m)
        PROVE  k + 1 = m /\ SameUpTo(T, L, U, M, k + 1)
    <3>1. m # 0
      BY <2>1, <2>2, NoLetterIsKnown
    <3>2. PICK j \in Nat : m = j + 1 /\ j < Len(M) /\ j \in 0..Len(M)
      <4>1. m - 1 \in Nat /\ m = (m - 1) + 1 /\ m - 1 < Len(M) /\ m - 1 \in 0..Len(M)
        BY <1>1, <3>1
      <4> QED
        BY <4>1
    <3>3. Woven(T, L, k) = Woven(U, M, j) /\ L[k + 1] = M[j + 1] /\ T[k + 2] = U[j + 2]
      BY <2>1, <2>2, <3>2, LetterAndRunKnown
    <3>4. k = j /\ SameUpTo(T, L, U, M, k)
      BY <2>1, <2>2, <3>2, <3>3
    <3>5. \A i \in 1..k + 1 : i \in 1..k \/ i = k + 1
      OBVIOUS
    <3>6. \A i \in 1..(k + 1) + 1 : i \in 1..k + 1 \/ i = k + 2
      BY <2>1
    <3> QED
      BY <3>2, <3>3, <3>4, <3>5, <3>6 DEF SameUpTo
  <2> QED
    BY <2>1, <2>2
<1>4. P \in SUBSET Nat
  OBVIOUS
<1> HIDE DEF P
<1>5. P = Nat
  BY <1>2, <1>3, <1>4, ByInduction
<1> QED
  BY <1>1, <1>5 DEF P

-----------------------------------------------------------------------------
(* The characters of a run of separators without some positions, from one   *)
(* of its places on.                                                        *)
RunPiece(w, run, V, j) == IF run[j] \in V THEN << >> ELSE <<w[run[j]]>>
RunPieces(w, run, V) == [j \in 1..Len(run) |-> RunPiece(w, run, V, j)]
RunFrom(w, run, V, i) == Part(RunPieces(w, run, V), i, (Len(run) + 1) - i)
RunText(w, run, V) == RunFrom(w, run, V, 1)
IsRun(S, w, run) == w \in Seq(S) /\ run \in Seq(1..Len(w))

LEMMA RunPieceIs ==
    ASSUME NEW S, NEW w, NEW run, IsRun(S, w, run), NEW V, NEW j \in 1..Len(run)
    PROVE  run[j] \in 1..Len(w) /\ w[run[j]] \in S /\ RunPiece(w, run, V, j) \in Seq(S)
<1>1. PICK k : k = run[j] /\ k \in 1..Len(w)
  BY ElementOfSeq DEF IsRun
<1>2. PICK x \in S : x = w[k]
  BY <1>1, ElementOfSeq DEF IsRun
<1>3. << >> \in Seq(S) /\ <<x>> \in Seq(S)
  OBVIOUS
<1> QED
  BY <1>1, <1>2, <1>3 DEF RunPiece

LEMMA RunPiecesAre ==
    ASSUME NEW S, NEW w, NEW run, IsRun(S, w, run), NEW V
    PROVE  RunPieces(w, run, V) \in Seq(Seq(S)) /\ Len(RunPieces(w, run, V)) = Len(run)
<1>1. PICK n \in Nat : n = Len(run)
  BY LenProperties DEF IsRun
<1>2. \A j \in 1..n : RunPiece(w, run, V, j) \in Seq(S)
  BY <1>1, RunPieceIs
<1>3. PICK p : p = RunPieces(w, run, V)
  OBVIOUS
<1>4. p \in [1..n -> Seq(S)]
  BY <1>1, <1>2, <1>3 DEF RunPieces
<1> QED
  BY <1>1, <1>3, <1>4, SequenceOf

LEMMA RunFromIsText ==
    ASSUME NEW S, NEW w, NEW run, IsRun(S, w, run), NEW V, NEW i \in 1..Len(run) + 1
    PROVE  RunFrom(w, run, V, i) \in Seq(S)
<1>1. PICK n \in Nat : n = Len(run)
  BY LenProperties DEF IsRun
<1>2. PICK B \in Seq(Seq(S)) : B = RunPieces(w, run, V) /\ Len(B) = n
  BY <1>1, RunPiecesAre
<1>3. PICK k \in Nat : k = (n + 1) - i /\ i \in Nat /\ i > 0 /\ i + k <= n + 1
  <2>1. (n + 1) - i \in Nat /\ i \in Nat /\ i > 0 /\ i + ((n + 1) - i) <= n + 1
    BY <1>1
  <2> QED
    BY <2>1
<1>4. Part(B, i, k) \in Seq(S)
  BY <1>2, <1>3, PartIsText
<1> QED
  BY <1>1, <1>2, <1>3, <1>4 DEF RunFrom

LEMMA RunFromEnd ==
    ASSUME NEW w, NEW run, NEW V, Len(run) \in Nat
    PROVE  RunFrom(w, run, V, Len(run) + 1) = << >>
<1>1. (Len(run) + 1) - (Len(run) + 1) = 0
  OBVIOUS
<1> QED
  BY <1>1, PartNone DEF RunFrom

LEMMA RunFromIs ==
    ASSUME NEW S, NEW w, NEW run, IsRun(S, w, run), NEW V, NEW i \in 1..Len(run)
    PROVE  RunFrom(w, run, V, i) = RunPiece(w, run, V, i) \o RunFrom(w, run, V, i + 1)
<1>1. PICK n \in Nat : n = Len(run)
  BY LenProperties DEF IsRun
<1>2. PICK B \in Seq(Seq(S)) : B = RunPieces(w, run, V) /\ Len(B) = n
  BY <1>1, RunPiecesAre
<1>3. PICK k \in Nat : k + 1 = (n + 1) - i /\ k = (n + 1) - (i + 1) /\ i \in Nat /\ i > 0 /\ i + k <= n
  <2>1. n - i \in Nat /\ (n - i) + 1 = (n + 1) - i /\ n - i = (n + 1) - (i + 1) /\ i + (n - i) <= n
        /\ i \in Nat /\ i > 0
    BY <1>1
  <2> QED
    BY <1>1, <2>1
<1>4. Part(B, i, k + 1) = B[i] \o Part(B, i + 1, k)
  <2>1. i \in Nat /\ i > 0 /\ i + k <= Len(B)
    BY <1>2, <1>3
  <2> QED
    BY <2>1, PartFirst
<1>5. B[i] = RunPiece(w, run, V, i)
  BY <1>1, <1>2 DEF RunPieces
<1>6. RunFrom(w, run, V, i + 1) = Part(B, i + 1, k) /\ RunFrom(w, run, V, i) = Part(B, i, k + 1)
  BY <1>1, <1>2, <1>3 DEF RunFrom
<1> QED
  BY <1>4, <1>5, <1>6

LEMMA RunFromSkips ==
    ASSUME NEW S, NEW w, NEW run, IsRun(S, w, run), NEW V, NEW i \in 1..Len(run), run[i] \in V
    PROVE  RunFrom(w, run, V, i) = RunFrom(w, run, V, i + 1)
<1>1. PICK rest \in Seq(S) : rest = RunFrom(w, run, V, i + 1)
  <2>1. i + 1 \in 1..Len(run) + 1
    BY LenProperties DEF IsRun
  <2> QED
    BY <2>1, RunFromIsText
<1>2. RunFrom(w, run, V, i) = << >> \o rest
  <2>1. RunPiece(w, run, V, i) = << >>
    BY DEF RunPiece
  <2>2. RunFrom(w, run, V, i) = RunPiece(w, run, V, i) \o RunFrom(w, run, V, i + 1)
    BY RunFromIs
  <2> QED
    BY <1>1, <2>1, <2>2, Zenon
<1> QED
  BY <1>1, <1>2, ConcatEmptySeq

LEMMA RunFromKeeps ==
    ASSUME NEW S, NEW w, NEW run, IsRun(S, w, run), NEW V, NEW i \in 1..Len(run), run[i] \notin V
    PROVE  RunFrom(w, run, V, i) = <<w[run[i]]>> \o RunFrom(w, run, V, i + 1)
  BY RunFromIs DEF RunPiece

LEMMA RunFromSame ==
    ASSUME NEW w, NEW run, Len(run) \in Nat, NEW V, NEW U, NEW i \in 1..Len(run) + 1,
           \A j \in i..Len(run) : run[j] \in V <=> run[j] \in U
    PROVE  RunFrom(w, run, V, i) = RunFrom(w, run, U, i)
<1>1. PICK n \in Nat : n = Len(run)
  OBVIOUS
<1>2. PICK k \in Nat : k = (n + 1) - i /\ i \in Nat
  BY <1>1
<1>3. ASSUME NEW j \in 1..k
      PROVE  RunPieces(w, run, V)[j + i - 1] = RunPieces(w, run, U)[j + i - 1]
  <2>1. PICK m : m = j + i - 1 /\ m \in i..n /\ m \in 1..n
    BY <1>1, <1>2
  <2>2. RunPiece(w, run, V, m) = RunPiece(w, run, U, m)
    BY <1>1, <2>1 DEF RunPiece
  <2> QED
    BY <1>1, <2>1, <2>2 DEF RunPieces
<1>4. Part(RunPieces(w, run, V), i, k) = Part(RunPieces(w, run, U), i, k)
  <2>1. PICK A, B : A = RunPieces(w, run, V) /\ B = RunPieces(w, run, U)
    OBVIOUS
  <2>2. \A j \in 1..k : A[j + i - 1] = B[j + i - 1]
    BY <1>3, <2>1
  <2>3. [j \in 1..k |-> A[j + i - 1]] = [j \in 1..k |-> B[j + i - 1]]
    BY <2>2
  <2>4. Part(A, i, k) = Part(B, i, k)
    BY <2>3 DEF Part
  <2> QED
    BY <2>1, <2>4
<1> QED
  BY <1>1, <1>2, <1>4 DEF RunFrom

(* A run grows at its end.                                                  *)
Joint(x, t, y) == y = x \o t
Grown(s, x, t) == t = Append(s, x)
LEMMA RunGrows ==
    ASSUME NEW S, NEW w, NEW run, IsRun(S, w, run), NEW V, NEW x \in 1..Len(w), NEW more, Grown(run, x, more),
           NEW u, u = IF x \in V THEN << >> ELSE <<w[x]>>
    PROVE  IsRun(S, w, more) /\ Joint(RunText(w, run, V), u, RunText(w, more, V))
<1>1. PICK n \in Nat : n = Len(run)
  BY LenProperties DEF IsRun
<1>3. /\ more \in Seq(1..Len(w)) /\ Len(more) = n + 1 /\ more[n + 1] = x
      /\ \A j \in 1..n : more[j] = run[j]
  BY <1>1, AppendProperties DEF IsRun, Grown
<1>4. IsRun(S, w, more)
  BY <1>3 DEF IsRun
<1>5. PICK B \in Seq(Seq(S)) : B = RunPieces(w, more, V) /\ Len(B) = n + 1
  <2>1. RunPieces(w, more, V) \in Seq(Seq(S)) /\ Len(RunPieces(w, more, V)) = Len(more)
    BY <1>4, RunPiecesAre
  <2> QED
    BY <1>3, <2>1, Zenon
<1>6. Part(B, 1, n + 1) = Part(B, 1, n) \o B[1 + n]
  <2>1. 1 \in Nat /\ 1 > 0 /\ 1 + n <= Len(B)
    BY <1>5
  <2> QED
    BY <2>1, PartGrows
<1>7. Part(B, 1, n) = Part(RunPieces(w, run, V), 1, n)
  <2>1. ASSUME NEW j \in 1..n PROVE B[j + 1 - 1] = RunPieces(w, run, V)[j + 1 - 1]
    <3>1. j + 1 - 1 = j /\ j \in 1..n + 1
      OBVIOUS
    <3>2. RunPiece(w, more, V, j) = RunPiece(w, run, V, j)
      BY <1>3 DEF RunPiece
    <3> QED
      BY <1>1, <1>3, <1>5, <3>1, <3>2 DEF RunPieces
  <2>2. 1 \in Nat
    OBVIOUS
  <2> QED
    BY <2>1, <2>2, PartSame
<1>8. B[1 + n] = u
  <2>1. 1 + n = n + 1 /\ n + 1 \in 1..n + 1
    OBVIOUS
  <2>2. B[n + 1] = RunPiece(w, more, V, n + 1)
    BY <1>3, <1>5, <2>1 DEF RunPieces
  <2> QED
    BY <1>3, <2>1, <2>2 DEF RunPiece
<1>9. (n + 1) - 1 = n /\ ((n + 1) + 1) - 1 = n + 1
  OBVIOUS
<1>10. RunText(w, more, V) = Part(B, 1, n + 1) /\ RunText(w, run, V) = Part(RunPieces(w, run, V), 1, n)
  BY <1>1, <1>3, <1>5, <1>9 DEF RunText, RunFrom
<1> QED
  BY <1>4, <1>6, <1>7, <1>8, <1>10 DEF Joint

-----------------------------------------------------------------------------
(* What holds of a place when it holds of the places beyond it holds of     *)
(* every place.                                                             *)
LEMMA FromTheEnd ==
    ASSUME NEW left, NEW right, Len(left) \in Nat, Len(right) \in Nat, NEW Q,
           \A p \in Places(left, right) : (\A q \in Places(left, right) : Beyond(left, right, p, q) => q \in Q) => p \in Q
    PROVE  \A p \in Places(left, right) : p \in Q
<1> DEFINE P == {d \in Nat : \A p \in Near(left, right, d) : p \in Q}
<1>1. \A p \in Places(left, right) :
          ToGo(left, right, p) \in Nat /\ ToGo(left, right, p) <= Len(left) + Len(right)
  BY DEF Places, ToGo
<1>2. ASSUME NEW d \in Nat, \A q \in Places(left, right) : ToGo(left, right, q) < d => q \in Q
      PROVE  d \in P
  <2>1. ASSUME NEW p \in Near(left, right, d) PROVE p \in Q
    <3>1. p \in Places(left, right) /\ ToGo(left, right, p) <= d
      BY DEF Near
    <3>2. ASSUME NEW q \in Places(left, right), Beyond(left, right, p, q) PROVE q \in Q
      <4>1. /\ ToGo(left, right, q) \in Nat /\ ToGo(left, right, p) \in Nat
            /\ ToGo(left, right, q) < ToGo(left, right, p)
        BY <3>1, <3>2, BeyondIsNearer
      <4> QED
        BY <1>2, <3>1, <4>1
    <3> QED
      BY <3>1, <3>2
  <2> QED
    BY <2>1
<1>3. 0 \in P
  <2>1. \A q \in Places(left, right) : ~(ToGo(left, right, q) < 0)
    BY <1>1
  <2> QED
    BY <1>2, <2>1
<1>4. ASSUME NEW d \in P PROVE d + 1 \in P
  <2>1. ASSUME NEW q \in Places(left, right), ToGo(left, right, q) < d + 1 PROVE q \in Near(left, right, d)
    BY <1>1, <2>1 DEF Near
  <2>2. d + 1 \in Nat /\ \A q \in Near(left, right, d) : q \in Q
    OBVIOUS
  <2> HIDE DEF P
  <2> QED
    BY <1>2, <2>1, <2>2
<1>5. P \in SUBSET Nat
  OBVIOUS
<1> HIDE DEF P
<1>6. PICK d \in Nat : d = Len(left) + Len(right) /\ d \in P
  <2>1. P = Nat
    BY <1>3, <1>4, <1>5, ByInduction
  <2> QED
    BY <2>1
<1>7. ASSUME NEW p \in Places(left, right) PROVE p \in Near(left, right, d)
  BY <1>1, <1>6 DEF Near
<1> QED
  BY <1>6, <1>7 DEF P

LEMMA MaxOfTwo ==
    ASSUME NEW a \in Nat, NEW b \in Nat
    PROVE  Max({a, b}) = IF a >= b THEN a ELSE b
<1>1. {a, b} \in SUBSET Int
  OBVIOUS
<1>2. CASE a >= b
  <2>1. a \in {a, b} /\ \A x \in {a, b} : x <= a
    BY <1>2
  <2> QED
    BY <1>1, <1>2, <2>1, MaxIs
<1>3. CASE ~(a >= b)
  <2>1. b \in {a, b} /\ \A x \in {a, b} : x <= b
    BY <1>3
  <2> QED
    BY <1>1, <1>3, <2>1, MaxIs
<1> QED
  BY <1>2, <1>3

(* How much two runs have in common, place by place.                        *)
LengthFrom(w, c, left, right, f, p) ==
    IF p[1] > Len(left) \/ p[2] > Len(right) THEN 0
    ELSE IF Alike(w, c, left, right, p[1], p[2]) THEN f[<<p[1] + 1, p[2] + 1>>] + 1
    ELSE Max({f[<<p[1] + 1, p[2]>>], f[<<p[1], p[2] + 1>>]})
Measures(w, c, left, right, f) ==
    f = [p \in Places(left, right) |-> LengthFrom(w, c, left, right, f, p)]

LEMMA LengthsAre ==
    \A w, c, left, right : lengths(w, c, left, right) = CHOOSE f : Measures(w, c, left, right, f)
  BY DEF lengths, Measures, LengthFrom

LEMMA LengthReads ==
    ASSUME NEW w, NEW c, NEW left, NEW right, Len(left) \in Nat, Len(right) \in Nat,
           NEW p \in Places(left, right), NEW f, NEW g,
           \A q : Beyond(left, right, p, q) => f[q] = g[q]
    PROVE  LengthFrom(w, c, left, right, f, p) = LengthFrom(w, c, left, right, g, p)
<1>1. p[1] \in 1..Len(left) + 1 /\ p[2] \in 1..Len(right) + 1
  BY DEF Places
<1>2. CASE p[1] > Len(left) \/ p[2] > Len(right)
  BY <1>2 DEF LengthFrom
<1>3. CASE ~(p[1] > Len(left) \/ p[2] > Len(right))
  <2>1. p[1] <= Len(left) /\ p[2] <= Len(right)
    BY <1>1, <1>3
  <2>2. /\ f[<<p[1] + 1, p[2] + 1>>] = g[<<p[1] + 1, p[2] + 1>>]
        /\ f[<<p[1] + 1, p[2]>>] = g[<<p[1] + 1, p[2]>>]
        /\ f[<<p[1], p[2] + 1>>] = g[<<p[1], p[2] + 1>>]
    BY <2>1 DEF Beyond
  <2> QED
    BY <2>2 DEF LengthFrom
<1> QED
  BY <1>2, <1>3

LEMMA MeasureExists ==
    ASSUME NEW w, NEW c, NEW left, NEW right, Len(left) \in Nat, Len(right) \in Nat
    PROVE  \E f : Measures(w, c, left, right, f)
<1> DEFINE F(d, f) == [p \in Near(left, right, d) |-> LengthFrom(w, c, left, right, f, p)]
           P == {d \in Nat : \E f : f = F(d, f)}
<1>1. \A p \in Places(left, right) :
          ToGo(left, right, p) \in Nat /\ ToGo(left, right, p) <= Len(left) + Len(right)
  BY DEF Places, ToGo
<1>2. ASSUME NEW d \in Nat, NEW f,
             \A q \in Places(left, right) :
                 ToGo(left, right, q) < d => f[q] = LengthFrom(w, c, left, right, f, q)
      PROVE  d \in P
  <2>1. PICK g : g = F(d, f)
    OBVIOUS
  <2>2. ASSUME NEW p \in Near(left, right, d), NEW q, Beyond(left, right, p, q) PROVE f[q] = g[q]
    <3>1. p \in Places(left, right) /\ ToGo(left, right, p) <= d
      BY DEF Near
    <3>2. /\ q \in Places(left, right) /\ ToGo(left, right, q) \in Nat /\ ToGo(left, right, p) \in Nat
          /\ ToGo(left, right, q) < ToGo(left, right, p)
      BY <2>2, <3>1, BeyondIsNearer
    <3>3. ToGo(left, right, q) < d /\ q \in Near(left, right, d)
      BY <3>1, <3>2 DEF Near
    <3> QED
      BY <1>2, <2>1, <3>2, <3>3
  <2>3. ASSUME NEW p \in Near(left, right, d)
        PROVE  LengthFrom(w, c, left, right, f, p) = LengthFrom(w, c, left, right, g, p)
    <3>1. p \in Places(left, right)
      BY DEF Near
    <3> QED
      BY <2>2, <3>1, LengthReads
  <2>4. g = F(d, g)
    BY <2>1, <2>3
  <2> QED
    BY <2>4
<1>3. 0 \in P
  <2>1. \A q \in Places(left, right) : ~(ToGo(left, right, q) < 0)
    BY <1>1
  <2> QED
    BY <1>2, <2>1
<1>4. ASSUME NEW d \in P PROVE d + 1 \in P
  <2>1. PICK f : f = F(d, f)
    OBVIOUS
  <2>2. ASSUME NEW q \in Places(left, right), ToGo(left, right, q) < d + 1
        PROVE  f[q] = LengthFrom(w, c, left, right, f, q)
    <3>1. q \in Near(left, right, d)
      BY <1>1, <2>2 DEF Near
    <3> QED
      BY <2>1, <3>1
  <2>3. d + 1 \in Nat
    OBVIOUS
  <2> HIDE DEF P, F
  <2> QED
    BY <1>2, <2>2, <2>3
<1>5. PICK d \in Nat : d = Len(left) + Len(right)
  OBVIOUS
<1>6. d \in P
  <2>1. P \in SUBSET Nat
    OBVIOUS
  <2> HIDE DEF P
  <2> QED
    BY <1>3, <1>4, <2>1, ByInduction
<1>7. Near(left, right, d) = Places(left, right)
  BY <1>1, <1>5 DEF Near
<1> QED
  BY <1>6, <1>7 DEF Measures

(* They are numbers, and change by at most one from a place to the next.    *)
LEMMA LengthIsNumber ==
    ASSUME NEW w, NEW c, NEW left, NEW right, Len(left) \in Nat, Len(right) \in Nat,
           NEW f, Measures(w, c, left, right, f)
    PROVE  \A p \in Places(left, right) : f[p] \in Nat
<1> DEFINE Q == {p \in Places(left, right) : f[p] \in Nat}
<1>1. ASSUME NEW p \in Places(left, right), \A q \in Places(left, right) : Beyond(left, right, p, q) => f[q] \in Nat
      PROVE  f[p] \in Nat
  <2>1. p[1] \in 1..Len(left) + 1 /\ p[2] \in 1..Len(right) + 1
    BY DEF Places
  <2>2. f[p] = LengthFrom(w, c, left, right, f, p)
    BY DEF Measures
  <2>3. CASE p[1] > Len(left) \/ p[2] > Len(right)
    BY <2>2, <2>3 DEF LengthFrom
  <2>4. CASE ~(p[1] > Len(left) \/ p[2] > Len(right))
    <3>1. \A q : Beyond(left, right, p, q) => f[q] \in Nat
      BY <1>1, BeyondIsNearer
    <3>2. p[1] <= Len(left) /\ p[2] <= Len(right)
      BY <2>1, <2>4
    <3>3. /\ f[<<p[1] + 1, p[2] + 1>>] \in Nat
          /\ f[<<p[1] + 1, p[2]>>] \in Nat
          /\ f[<<p[1], p[2] + 1>>] \in Nat
      BY <3>1, <3>2 DEF Beyond
    <3>4. Max({f[<<p[1] + 1, p[2]>>], f[<<p[1], p[2] + 1>>]}) \in Nat
      BY <3>3, MaxOfTwo
    <3> QED
      BY <2>2, <2>4, <3>3, <3>4 DEF LengthFrom
  <2> QED
    BY <2>3, <2>4
<1>2. \A p \in Places(left, right) : (\A q \in Places(left, right) : Beyond(left, right, p, q) => q \in Q) => p \in Q
  BY <1>1
<1> HIDE DEF Q
<1>3. \A p \in Places(left, right) : p \in Q
  BY <1>2, FromTheEnd
<1> QED
  BY <1>3 DEF Q

-----------------------------------------------------------------------------
LEMMA OneText ==
    ASSUME NEW S, NEW x \in S
    PROVE  <<x>> \in Seq(S) /\ Len(<<x>>) = 1 /\ <<x>>[1] = x
  OBVIOUS

LEMMA PlaceIs ==
    ASSUME NEW left, NEW right, NEW i \in 1..Len(left) + 1, NEW j \in 1..Len(right) + 1
    PROVE  <<i, j>> \in Places(left, right)
  BY DEF Places

Steady(left, right, f, p) ==
    /\ p[1] <= Len(left) => f[<<p[1] + 1, p[2]>>] <= f[p] /\ f[p] <= f[<<p[1] + 1, p[2]>>] + 1
    /\ p[2] <= Len(right) => f[<<p[1], p[2] + 1>>] <= f[p] /\ f[p] <= f[<<p[1], p[2] + 1>>] + 1

LEMMA LengthsSteady ==
    ASSUME NEW w, NEW c, NEW left, NEW right, Len(left) \in Nat, Len(right) \in Nat,
           NEW f, Measures(w, c, left, right, f)
    PROVE  \A p \in Places(left, right) : Steady(left, right, f, p)
<1> DEFINE Q == {p \in Places(left, right) : Steady(left, right, f, p)}
<1>0. PICK n \in Nat, m \in Nat : n = Len(left) /\ m = Len(right)
  OBVIOUS
<1>1. ASSUME NEW p \in Places(left, right),
             \A q \in Places(left, right) : Beyond(left, right, p, q) => Steady(left, right, f, q)
      PROVE  Steady(left, right, f, p)
  <2>1. PICK i \in 1..n + 1, j \in 1..m + 1 : p = <<i, j>> /\ p[1] = i /\ p[2] = j
    BY <1>0 DEF Places
  <2>0. PICK k, l : k = i + 1 /\ l = j + 1
    OBVIOUS
  <2>2. \A q \in Places(left, right) : f[q] = LengthFrom(w, c, left, right, f, q) /\ f[q] \in Nat
    BY LengthIsNumber DEF Measures
  <2>3. CASE i > n /\ j > m
    BY <1>0, <2>1, <2>3 DEF Steady
  <2>4. CASE i <= n /\ j > m
    <3>1. PICK q \in Places(left, right) : q = <<k, j>> /\ q[1] = k /\ q[2] = j
      <4>1. k \in 1..Len(left) + 1 /\ j \in 1..Len(right) + 1
        BY <1>0, <2>1, <2>0, <2>4
      <4>2. <<k, j>> \in Places(left, right)
        BY <4>1, PlaceIs
      <4> QED
        BY <4>2
    <3>2. f[p] = 0 /\ f[q] = 0
      BY <1>0, <2>0, <2>1, <2>2, <2>4, <3>1 DEF LengthFrom
    <3> QED
      BY <1>0, <2>0, <2>1, <2>4, <3>1, <3>2 DEF Steady
  <2>5. CASE i > n /\ j <= m
    <3>1. PICK q \in Places(left, right) : q = <<i, l>> /\ q[1] = i /\ q[2] = l
      <4>1. i \in 1..Len(left) + 1 /\ l \in 1..Len(right) + 1
        BY <1>0, <2>1, <2>0, <2>5
      <4>2. <<i, l>> \in Places(left, right)
        BY <4>1, PlaceIs
      <4> QED
        BY <4>2
    <3>2. f[p] = 0 /\ f[q] = 0
      BY <1>0, <2>0, <2>1, <2>2, <2>5, <3>1 DEF LengthFrom
    <3> QED
      BY <1>0, <2>0, <2>1, <2>5, <3>1, <3>2 DEF Steady
  <2>6. CASE i <= n /\ j <= m
    <3>1. PICK q \in Places(left, right) : q = <<k, j>> /\ q[1] = k /\ q[2] = j
      <4>1. k \in 1..Len(left) + 1 /\ j \in 1..Len(right) + 1
        BY <1>0, <2>1, <2>0, <2>6
      <4>2. <<k, j>> \in Places(left, right)
        BY <4>1, PlaceIs
      <4> QED
        BY <4>2
    <3>2. PICK r \in Places(left, right) : r = <<i, l>> /\ r[1] = i /\ r[2] = l
      <4>1. i \in 1..Len(left) + 1 /\ l \in 1..Len(right) + 1
        BY <1>0, <2>1, <2>0, <2>6
      <4>2. <<i, l>> \in Places(left, right)
        BY <4>1, PlaceIs
      <4> QED
        BY <4>2
    <3>3. PICK z \in Places(left, right) : z = <<k, l>> /\ z[1] = k /\ z[2] = l
      <4>1. k \in 1..Len(left) + 1 /\ l \in 1..Len(right) + 1
        BY <1>0, <2>1, <2>0, <2>6
      <4>2. <<k, l>> \in Places(left, right)
        BY <4>1, PlaceIs
      <4> QED
        BY <4>2
    <3>4. PICK a \in Nat, b \in Nat, x \in Nat, y \in Nat : a = f[q] /\ b = f[r] /\ x = f[z] /\ y = f[p]
      BY <2>2
    <3>5. Steady(left, right, f, q) /\ Steady(left, right, f, r)
      BY <1>0, <1>1, <2>0, <2>1, <2>6, <3>1, <3>2 DEF Beyond
    <3>6. x <= a /\ a <= x + 1
      BY <1>0, <2>0, <2>6, <3>1, <3>3, <3>4, <3>5 DEF Steady
    <3>7. x <= b /\ b <= x + 1
      BY <1>0, <2>0, <2>6, <3>2, <3>3, <3>4, <3>5 DEF Steady
    <3>8. y = x + 1 \/ y = Max({a, b})
      <4>1. f[p] = LengthFrom(w, c, left, right, f, p) /\ ~(i > Len(left) \/ j > Len(right))
        BY <1>0, <2>2, <2>6
      <4>2. f[p] = IF Alike(w, c, left, right, i, j) THEN f[z] + 1 ELSE Max({f[q], f[r]})
        BY <2>0, <2>1, <3>1, <3>2, <3>3, <4>1 DEF LengthFrom
      <4> QED
        BY <3>4, <4>2
    <3>9. a <= y /\ y <= a + 1 /\ b <= y /\ y <= b + 1
      BY <3>6, <3>7, <3>8, MaxOfTwo
    <3> QED
      BY <2>0, <2>1, <3>1, <3>2, <3>4, <3>9 DEF Steady
  <2> QED
    BY <2>3, <2>4, <2>5, <2>6
<1>2. \A p \in Places(left, right) : (\A q \in Places(left, right) : Beyond(left, right, p, q) => q \in Q) => p \in Q
  BY <1>1
<1> HIDE DEF Q
<1>3. \A p \in Places(left, right) : p \in Q
  BY <1>2, FromTheEnd
<1> QED
  BY <1>3 DEF Q

(* No two texts that are what is left of the runs without some positions    *)
(* are longer.                                                              *)
LEMMA NoLonger ==
    ASSUME NEW S, NEW w, NEW c, NEW left, NEW right, IsRun(S, w, left), IsRun(S, c, right),
           NEW f, Measures(w, c, left, right, f), NEW V, NEW D
    PROVE  \A p \in Places(left, right) :
               RunFrom(w, left, V, p[1]) = RunFrom(c, right, D, p[2])
                 => Len(RunFrom(w, left, V, p[1])) <= f[p]
<1> DEFINE Q == {p \in Places(left, right) : RunFrom(w, left, V, p[1]) = RunFrom(c, right, D, p[2])
                                               => Len(RunFrom(w, left, V, p[1])) <= f[p]}
<1>0. PICK n \in Nat, m \in Nat : n = Len(left) /\ m = Len(right)
  BY LenProperties DEF IsRun
<1>1. ASSUME NEW p \in Places(left, right),
             \A q \in Places(left, right) : Beyond(left, right, p, q) => q \in Q,
             RunFrom(w, left, V, p[1]) = RunFrom(c, right, D, p[2])
      PROVE  Len(RunFrom(w, left, V, p[1])) <= f[p]
  <2>1. PICK i \in 1..n + 1, j \in 1..m + 1 : p = <<i, j>> /\ p[1] = i /\ p[2] = j
    BY <1>0 DEF Places
  <2>0. PICK k, l : k = i + 1 /\ l = j + 1
    OBVIOUS
  <2>2. \A q \in Places(left, right) : f[q] = LengthFrom(w, c, left, right, f, q) /\ f[q] \in Nat
    BY <1>0, LengthIsNumber DEF Measures
  <2>3. PICK t \in Seq(S) : t = RunFrom(w, left, V, i) /\ t = RunFrom(c, right, D, j)
    BY <1>0, <1>1, <2>1, RunFromIsText
  <2>4. CASE i > n \/ j > m
    <3>1. t = << >>
      <4>1. i > n => i = Len(left) + 1
        BY <1>0
      <4>2. j > m => j = Len(right) + 1
        BY <1>0
      <4>3. Len(left) \in Nat /\ Len(right) \in Nat
        BY <1>0
      <4> QED
        BY <2>3, <2>4, <4>1, <4>2, <4>3, RunFromEnd
    <3>2. Len(<< >>) = 0
      OBVIOUS
    <3>3. f[p] \in Nat
      BY <2>2
    <3>4. Len(t) <= f[p]
      BY <3>1, <3>2, <3>3
    <3> QED
      BY <2>1, <2>3, <3>4
  <2>5. CASE i <= n /\ j <= m
    <3>1. PICK q \in Places(left, right) : q = <<k, j>> /\ q[1] = k /\ q[2] = j
      <4>1. k \in 1..Len(left) + 1 /\ j \in 1..Len(right) + 1
        BY <1>0, <2>1, <2>0, <2>5
      <4>2. <<k, j>> \in Places(left, right)
        BY <4>1, PlaceIs
      <4> QED
        BY <4>2
    <3>2. PICK r \in Places(left, right) : r = <<i, l>> /\ r[1] = i /\ r[2] = l
      <4>1. i \in 1..Len(left) + 1 /\ l \in 1..Len(right) + 1
        BY <1>0, <2>1, <2>0, <2>5
      <4>2. <<i, l>> \in Places(left, right)
        BY <4>1, PlaceIs
      <4> QED
        BY <4>2
    <3>3. PICK z \in Places(left, right) : z = <<k, l>> /\ z[1] = k /\ z[2] = l
      <4>1. k \in 1..Len(left) + 1 /\ l \in 1..Len(right) + 1
        BY <1>0, <2>1, <2>0, <2>5
      <4>2. <<k, l>> \in Places(left, right)
        BY <4>1, PlaceIs
      <4> QED
        BY <4>2
    <3>4. q \in Q /\ r \in Q /\ z \in Q
      BY <1>0, <1>1, <2>0, <2>1, <2>5, <3>1, <3>2, <3>3 DEF Beyond
    <3>5. f[q] <= f[p] /\ f[r] <= f[p] /\ f[p] \in Nat /\ f[q] \in Nat /\ f[r] \in Nat /\ f[z] \in Nat
      <4>1. Steady(left, right, f, p)
        BY <1>0, LengthsSteady
      <4> QED
        BY <1>0, <2>0, <2>1, <2>2, <2>5, <3>1, <3>2, <4>1 DEF Steady
    <3>6. i \in 1..Len(left) /\ j \in 1..Len(right)
      BY <1>0, <2>5
    <3>7. CASE left[i] \in V
      <4>1. t = RunFrom(w, left, V, k)
        <5>1. RunFrom(w, left, V, i) = RunFrom(w, left, V, i + 1)
          BY <3>6, <3>7, RunFromSkips
        <5> QED
          BY <2>0, <2>3, <5>1
      <4>2. Len(t) <= f[q]
        BY <2>3, <3>1, <3>4, <4>1
      <4> QED
        <5>1. PICK e \in Nat : e = Len(t)
          BY LenProperties
        <5>2. e <= f[p]
          BY <3>5, <4>2, <5>1
        <5> QED
          BY <2>1, <2>3, <5>1, <5>2
    <3>8. CASE right[j] \in D
      <4>1. t = RunFrom(c, right, D, l)
        BY <2>0, <2>3, <3>6, <3>8, RunFromSkips
      <4>2. Len(t) <= f[r]
        BY <2>3, <3>2, <3>4, <4>1
      <4> QED
        <5>1. PICK e \in Nat : e = Len(t)
          BY LenProperties
        <5>2. e <= f[p]
          BY <3>5, <4>2, <5>1
        <5> QED
          BY <2>1, <2>3, <5>1, <5>2
    <3>9. CASE left[i] \notin V /\ right[j] \notin D
      <4>0. k \in 1..Len(left) + 1 /\ l \in 1..Len(right) + 1
        BY <1>0, <2>0, <2>5
      <4>1. PICK a \in Seq(S) : a = RunFrom(w, left, V, k)
        BY <4>0, RunFromIsText
      <4>2. PICK b \in Seq(S) : b = RunFrom(c, right, D, l)
        BY <4>0, RunFromIsText
      <4>3. PICK x \in S, y \in S : x = w[left[i]] /\ y = c[right[j]]
        BY <3>6, RunPieceIs
      <4>4. t = <<x>> \o a /\ t = <<y>> \o b
        <5>1. RunFrom(w, left, V, i) = <<w[left[i]]>> \o RunFrom(w, left, V, i + 1)
          BY <3>6, <3>9, RunFromKeeps
        <5>2. RunFrom(c, right, D, j) = <<c[right[j]]>> \o RunFrom(c, right, D, j + 1)
          BY <3>6, <3>9, RunFromKeeps
        <5> QED
          BY <2>0, <2>3, <4>1, <4>2, <4>3, <5>1, <5>2
      <4>5. x = y /\ a = b
        <5>1. PICK s \in Seq(S), u \in Seq(S) : s = <<x>> /\ u = <<y>> /\ Len(s) = 1 /\ Len(u) = 1
          <6>1. <<x>> \in Seq(S) /\ Len(<<x>>) = 1 /\ <<y>> \in Seq(S) /\ Len(<<y>>) = 1
            BY OneText
          <6> QED
            BY <6>1
        <5>2. s \o a = u \o b /\ Len(s) = Len(u)
          BY <4>4, <5>1
        <5>3. s = u /\ a = b
          BY <5>2, SameParts
        <5>4. s[1] = x /\ u[1] = y
          BY <4>3, <5>1, OneText
        <5> QED
          BY <5>3, <5>4
      <4>6. f[p] = f[z] + 1
        <5>1. Alike(w, c, left, right, i, j)
          BY <1>0, <2>5, <4>3, <4>5 DEF Alike
        <5>2. f[p] = LengthFrom(w, c, left, right, f, p) /\ ~(i > Len(left) \/ j > Len(right))
          BY <1>0, <2>2, <2>5
        <5> QED
          BY <2>0, <2>1, <3>3, <5>1, <5>2 DEF LengthFrom
      <4>7. Len(a) <= f[z]
        BY <3>3, <3>4, <4>1, <4>2, <4>5
      <4>8. Len(t) = 1 + Len(a)
        <5>1. PICK s \in Seq(S) : s = <<x>> /\ Len(s) = 1
          BY <4>3, OneText
        <5>2. Len(s \o a) = Len(s) + Len(a)
          BY ConcatProperties
        <5> QED
          BY <4>4, <5>1, <5>2
      <4>9. Len(a) \in Nat
        BY LenProperties
      <4>10. Len(t) <= f[p]
        BY <3>5, <4>6, <4>7, <4>8, <4>9
      <4> QED
        BY <2>1, <2>3, <4>10
    <3> QED
      BY <3>7, <3>8, <3>9
  <2> QED
    BY <2>4, <2>5
<1>2. \A p \in Places(left, right) : (\A q \in Places(left, right) : Beyond(left, right, p, q) => q \in Q) => p \in Q
  BY <1>1
<1> HIDE DEF Q
<1>3. Len(left) \in Nat /\ Len(right) \in Nat
  BY <1>0
<1>4. \A p \in Places(left, right) : p \in Q
  BY <1>2, <1>3, FromTheEnd
<1> QED
  BY <1>4 DEF Q

-----------------------------------------------------------------------------
(* A run has each position once.  What the walk marks from a place on is    *)
(* what has to go from both runs to leave a text of the length there.       *)
Once(run) == \A i, j \in 1..Len(run) : run[i] = run[j] => i = j
ValuesFrom(run, i) == {run[j] : j \in i..Len(run)}
AlignedBy(w, c, left, right, f, g, p, v, d) ==
    /\ v \subseteq ValuesFrom(left, p[1]) /\ d \subseteq ValuesFrom(right, p[2])
    /\ g[p] = Highlight(v, d)
    /\ RunFrom(w, left, v, p[1]) = RunFrom(c, right, d, p[2])
    /\ Len(RunFrom(w, left, v, p[1])) = f[p]
Aligned(w, c, left, right, f, g, p) == \E v, d : AlignedBy(w, c, left, right, f, g, p, v, d)

MarkLeft(r, x) == [r EXCEPT !.wikidata = @ \cup {x}]
MarkRight(r, x) == [r EXCEPT !.cldr = @ \cup {x}]
LEMMA OneMoreMark ==
    \A v, d, x : /\ MarkLeft(Highlight(v, d), x) = Highlight(v \cup {x}, d)
                 /\ MarkRight(Highlight(v, d), x) = Highlight(v, d \cup {x})
  BY DEF Highlight, MarkLeft, MarkRight

LEMMA NotBefore ==
    ASSUME NEW run, Len(run) \in Nat, Once(run), NEW i \in 1..Len(run), NEW v \in SUBSET ValuesFrom(run, i + 1)
    PROVE  run[i] \notin v
<1>1. ASSUME NEW j \in i + 1..Len(run) PROVE run[i] # run[j]
  <2>1. j \in 1..Len(run) /\ i # j
    OBVIOUS
  <2> QED
    BY <2>1 DEF Once
<1> QED
  BY <1>1 DEF ValuesFrom

LEMMA MoreValues ==
    ASSUME NEW run, Len(run) \in Nat, NEW i \in 1..Len(run)
    PROVE  ValuesFrom(run, i + 1) \subseteq ValuesFrom(run, i) /\ run[i] \in ValuesFrom(run, i)
<1>1. i \in i..Len(run) /\ \A j \in i + 1..Len(run) : j \in i..Len(run)
  OBVIOUS
<1> QED
  BY <1>1 DEF ValuesFrom

LEMMA RunFromDrops ==
    ASSUME NEW S, NEW w, NEW run, IsRun(S, w, run), Once(run), NEW i \in 1..Len(run), NEW v
    PROVE  RunFrom(w, run, v \cup {run[i]}, i) = RunFrom(w, run, v, i + 1)
<1>1. PICK n \in Nat : n = Len(run)
  BY LenProperties DEF IsRun
<1>2. PICK u, k : u = v \cup {run[i]} /\ k = i + 1
  OBVIOUS
<1>3. k \in 1..Len(run) + 1
  BY <1>1, <1>2
<1>4. \A j \in k..Len(run) : run[j] \in u <=> run[j] \in v
  <2> TAKE j \in k..Len(run)
  <2>1. j \in 1..Len(run) /\ j # i
    BY <1>1, <1>2
  <2>2. run[j] # run[i]
    BY <2>1 DEF Once
  <2> QED
    BY <1>2, <2>2
<1>5. RunFrom(w, run, u, k) = RunFrom(w, run, v, k)
  BY <1>1, <1>3, <1>4, RunFromSame
<1>6. RunFrom(w, run, u, i) = RunFrom(w, run, u, i + 1)
  <2>1. run[i] \in u
    BY <1>2
  <2> QED
    BY <2>1, RunFromSkips
<1> QED
  BY <1>2, <1>5, <1>6

LEMMA AlignsAlike ==
    ASSUME NEW S, NEW w, NEW c, NEW left, NEW right, IsRun(S, w, left), IsRun(S, c, right),
           Once(left), Once(right), NEW f, NEW g,
           NEW i \in 1..Len(left), NEW j \in 1..Len(right), NEW p, p = <<i, j>>, NEW q, q = <<i + 1, j + 1>>,
           Aligned(w, c, left, right, f, g, q), g[p] = g[q], f[p] = f[q] + 1, f[q] \in Nat,
           Alike(w, c, left, right, i, j)
    PROVE  Aligned(w, c, left, right, f, g, p)
<1>1. PICK v, d : AlignedBy(w, c, left, right, f, g, q, v, d)
  BY DEF Aligned
<1>2. PICK n \in Nat, m \in Nat : n = Len(left) /\ m = Len(right)
  BY LenProperties DEF IsRun
<1>3. PICK k, l : k = i + 1 /\ l = j + 1
  OBVIOUS
<1>4. k \in 1..Len(left) + 1 /\ l \in 1..Len(right) + 1 /\ q = <<k, l>> /\ q[1] = k /\ q[2] = l
      /\ p[1] = i /\ p[2] = j
  BY <1>2, <1>3
<1>5. /\ v \subseteq ValuesFrom(left, k) /\ d \subseteq ValuesFrom(right, l)
      /\ g[q] = Highlight(v, d)
      /\ RunFrom(w, left, v, k) = RunFrom(c, right, d, l) /\ Len(RunFrom(w, left, v, k)) = f[q]
  BY <1>1, <1>4 DEF AlignedBy
<1>6. left[i] \notin v /\ right[j] \notin d
  BY <1>2, <1>3, <1>5, NotBefore
<1>7. v \subseteq ValuesFrom(left, i) /\ d \subseteq ValuesFrom(right, j)
  BY <1>2, <1>3, <1>5, MoreValues
<1>8. PICK t \in Seq(S) : t = RunFrom(w, left, v, k) /\ t = RunFrom(c, right, d, l)
  BY <1>4, <1>5, RunFromIsText
<1>9. PICK x \in S : x = w[left[i]] /\ x = c[right[j]]
  BY RunPieceIs DEF Alike
<1>10. RunFrom(w, left, v, i) = <<w[left[i]]>> \o RunFrom(w, left, v, i + 1)
  BY <1>6, RunFromKeeps
<1>11. RunFrom(c, right, d, j) = <<c[right[j]]>> \o RunFrom(c, right, d, j + 1)
  BY <1>6, RunFromKeeps
<1>12. RunFrom(w, left, v, i) = <<x>> \o t /\ RunFrom(c, right, d, j) = <<x>> \o t
  BY <1>3, <1>8, <1>9, <1>10, <1>11
<1>13. Len(<<x>> \o t) = f[p]
  <2>1. PICK s \in Seq(S) : s = <<x>> /\ Len(s) = 1
    BY OneText
  <2>2. Len(s \o t) = Len(s) + Len(t)
    BY ConcatProperties
  <2>3. Len(t) = f[q]
    BY <1>5, <1>8
  <2> QED
    BY <2>1, <2>2, <2>3
<1>14. AlignedBy(w, c, left, right, f, g, p, v, d)
  BY <1>4, <1>5, <1>7, <1>12, <1>13 DEF AlignedBy
<1> QED
  BY <1>14 DEF Aligned

LEMMA AlignsLeft ==
    ASSUME NEW S, NEW w, NEW c, NEW left, NEW right, IsRun(S, w, left), IsRun(S, c, right), Once(left),
           NEW f, NEW g, NEW i \in 1..Len(left), NEW j, NEW p, p = <<i, j>>, NEW q, q = <<i + 1, j>>,
           Aligned(w, c, left, right, f, g, q), f[p] = f[q],
           g[p] = MarkLeft(g[q], left[i])
    PROVE  Aligned(w, c, left, right, f, g, p)
<1>1. PICK v, d : AlignedBy(w, c, left, right, f, g, q, v, d)
  BY DEF Aligned
<1>2. Len(left) \in Nat
  BY LenProperties DEF IsRun
<1>3. PICK k : k = i + 1
  OBVIOUS
<1>4. q = <<k, j>> /\ q[1] = k /\ q[2] = j /\ p[1] = i /\ p[2] = j
  BY <1>3
<1>5. /\ v \subseteq ValuesFrom(left, k) /\ d \subseteq ValuesFrom(right, j)
      /\ g[q] = Highlight(v, d)
      /\ RunFrom(w, left, v, k) = RunFrom(c, right, d, j) /\ Len(RunFrom(w, left, v, k)) = f[q]
  BY <1>1, <1>4 DEF AlignedBy
<1>6. PICK u : u = v \cup {left[i]}
  OBVIOUS
<1>7. u \subseteq ValuesFrom(left, i)
  BY <1>2, <1>3, <1>5, <1>6, MoreValues
<1>8. g[p] = Highlight(u, d)
  BY <1>5, <1>6, OneMoreMark
<1>9. RunFrom(w, left, u, i) = RunFrom(w, left, v, k)
  BY <1>3, <1>6, RunFromDrops
<1>10. AlignedBy(w, c, left, right, f, g, p, u, d)
  BY <1>4, <1>5, <1>7, <1>8, <1>9 DEF AlignedBy
<1> QED
  BY <1>10 DEF Aligned

LEMMA AlignsRight ==
    ASSUME NEW S, NEW w, NEW c, NEW left, NEW right, IsRun(S, w, left), IsRun(S, c, right), Once(right),
           NEW f, NEW g, NEW i, NEW j \in 1..Len(right), NEW p, p = <<i, j>>, NEW q, q = <<i, j + 1>>,
           Aligned(w, c, left, right, f, g, q), f[p] = f[q],
           g[p] = MarkRight(g[q], right[j])
    PROVE  Aligned(w, c, left, right, f, g, p)
<1>1. PICK v, d : AlignedBy(w, c, left, right, f, g, q, v, d)
  BY DEF Aligned
<1>2. Len(right) \in Nat
  BY LenProperties DEF IsRun
<1>3. PICK l : l = j + 1
  OBVIOUS
<1>4. q = <<i, l>> /\ q[1] = i /\ q[2] = l /\ p[1] = i /\ p[2] = j
  BY <1>3
<1>5. /\ v \subseteq ValuesFrom(left, i) /\ d \subseteq ValuesFrom(right, l)
      /\ g[q] = Highlight(v, d)
      /\ RunFrom(w, left, v, i) = RunFrom(c, right, d, l) /\ Len(RunFrom(w, left, v, i)) = f[q]
  BY <1>1, <1>4 DEF AlignedBy
<1>6. PICK e : e = d \cup {right[j]}
  OBVIOUS
<1>7. e \subseteq ValuesFrom(right, j)
  BY <1>2, <1>3, <1>5, <1>6, MoreValues
<1>8. g[p] = Highlight(v, e)
  BY <1>5, <1>6, OneMoreMark
<1>9. RunFrom(c, right, e, j) = RunFrom(c, right, d, l)
  BY <1>3, <1>6, RunFromDrops
<1>10. AlignedBy(w, c, left, right, f, g, p, v, e)
  BY <1>4, <1>5, <1>7, <1>8, <1>9 DEF AlignedBy
<1> QED
  BY <1>10 DEF Aligned

LEMMA AlignsEnd ==
    ASSUME NEW w, NEW c, NEW left, NEW right, Len(left) \in Nat, Len(right) \in Nat,
           NEW f, NEW g, NEW p, p = <<Len(left) + 1, Len(right) + 1>>, f[p] = 0, g[p] = Nothing
    PROVE  Aligned(w, c, left, right, f, g, p)
<1>1. p[1] = Len(left) + 1 /\ p[2] = Len(right) + 1
  OBVIOUS
<1>2. g[p] = Highlight({}, {})
  BY DEF Nothing, Highlight
<1>3. RunFrom(w, left, {}, p[1]) = << >> /\ RunFrom(c, right, {}, p[2]) = << >>
  BY <1>1, RunFromEnd
<1>4. Len(<< >>) = 0
  OBVIOUS
<1>5. AlignedBy(w, c, left, right, f, g, p, {}, {})
  BY <1>2, <1>3, <1>4 DEF AlignedBy
<1> QED
  BY <1>5 DEF Aligned
LEMMA WalkAligns ==
    ASSUME NEW S, NEW w, NEW c, NEW left, NEW right, IsRun(S, w, left), IsRun(S, c, right),
           Once(left), Once(right),
           NEW f, Measures(w, c, left, right, f), NEW g, Walks(w, c, left, right, f, g)
    PROVE  \A p \in Places(left, right) : Aligned(w, c, left, right, f, g, p)
<1> DEFINE Q == {p \in Places(left, right) : Aligned(w, c, left, right, f, g, p)}
<1>0. PICK n \in Nat, m \in Nat : n = Len(left) /\ m = Len(right)
  BY LenProperties DEF IsRun
<1>1. ASSUME NEW p \in Places(left, right),
             \A q \in Places(left, right) : Beyond(left, right, p, q) => Aligned(w, c, left, right, f, g, q)
      PROVE  Aligned(w, c, left, right, f, g, p)
  <2>1. PICK i \in 1..n + 1, j \in 1..m + 1 : p = <<i, j>> /\ p[1] = i /\ p[2] = j
    BY <1>0 DEF Places
  <2>2. PICK k, l : k = i + 1 /\ l = j + 1
    OBVIOUS
  <2>3. \A q \in Places(left, right) : f[q] = LengthFrom(w, c, left, right, f, q) /\ f[q] \in Nat
    BY <1>0, LengthIsNumber DEF Measures
  <2>4. g[p] = WalkFrom(w, c, left, right, f, g, p)
    BY DEF Walks
  <2>5. CASE i > n /\ j > m
    <3>1. i = Len(left) + 1 /\ j = Len(right) + 1
      BY <1>0, <2>5
    <3>2. f[p] = 0
      BY <1>0, <2>1, <2>3, <2>5 DEF LengthFrom
    <3>3. g[p] = Nothing
      BY <1>0, <2>1, <2>4, <2>5 DEF WalkFrom
    <3>4. Len(left) \in Nat /\ Len(right) \in Nat
      BY <1>0
    <3> QED
      BY <2>1, <3>1, <3>2, <3>3, <3>4, AlignsEnd
  <2>6. CASE i <= n /\ j > m
    <3>1. PICK q \in Places(left, right) : q = <<k, j>> /\ q[1] = k /\ q[2] = j
      <4>1. k \in 1..Len(left) + 1 /\ j \in 1..Len(right) + 1
        BY <1>0, <2>1, <2>2, <2>6
      <4>2. <<k, j>> \in Places(left, right)
        BY <4>1, PlaceIs
      <4> QED
        BY <4>2
    <3>2. f[p] = 0 /\ f[q] = 0
      BY <1>0, <2>1, <2>3, <2>6, <3>1 DEF LengthFrom
    <3>3. ~Alike(w, c, left, right, i, j) /\ ~(i > Len(left)) /\ j > Len(right)
      BY <1>0, <2>6 DEF Alike
    <3>4. g[p] = MarkLeft(g[q], left[i])
      BY <2>1, <2>2, <2>4, <3>1, <3>3 DEF WalkFrom, MarkLeft
    <3>5. Aligned(w, c, left, right, f, g, q)
      BY <1>0, <1>1, <2>1, <2>2, <2>6, <3>1 DEF Beyond
    <3>6. i \in 1..Len(left) /\ q = <<i + 1, j>>
      BY <1>0, <2>2, <2>6, <3>1
    <3> QED
      BY <2>1, <3>2, <3>4, <3>5, <3>6, AlignsLeft
  <2>7. CASE i > n /\ j <= m
    <3>1. PICK q \in Places(left, right) : q = <<i, l>> /\ q[1] = i /\ q[2] = l
      <4>1. i \in 1..Len(left) + 1 /\ l \in 1..Len(right) + 1
        BY <1>0, <2>1, <2>2, <2>7
      <4>2. <<i, l>> \in Places(left, right)
        BY <4>1, PlaceIs
      <4> QED
        BY <4>2
    <3>2. f[p] = 0 /\ f[q] = 0
      BY <1>0, <2>1, <2>3, <2>7, <3>1 DEF LengthFrom
    <3>3. ~Alike(w, c, left, right, i, j) /\ ~(i <= Len(left)) /\ ~(j > Len(right))
      BY <1>0, <2>7 DEF Alike
    <3>4. g[p] = MarkRight(g[q], right[j])
      BY <2>1, <2>2, <2>4, <3>1, <3>3 DEF WalkFrom, MarkRight
    <3>5. Aligned(w, c, left, right, f, g, q)
      BY <1>0, <1>1, <2>1, <2>2, <2>7, <3>1 DEF Beyond
    <3>6. j \in 1..Len(right) /\ q = <<i, j + 1>>
      BY <1>0, <2>2, <2>7, <3>1
    <3> QED
      BY <2>1, <3>2, <3>4, <3>5, <3>6, AlignsRight
  <2>8. CASE i <= n /\ j <= m
    <3>1. PICK q \in Places(left, right) : q = <<k, j>>
      <4>1. k \in 1..Len(left) + 1 /\ j \in 1..Len(right) + 1
        BY <1>0, <2>1, <2>2, <2>8
      <4>2. <<k, j>> \in Places(left, right)
        BY <4>1, PlaceIs
      <4> QED
        BY <4>2
    <3>2. PICK r \in Places(left, right) : r = <<i, l>>
      <4>1. i \in 1..Len(left) + 1 /\ l \in 1..Len(right) + 1
        BY <1>0, <2>1, <2>2, <2>8
      <4>2. <<i, l>> \in Places(left, right)
        BY <4>1, PlaceIs
      <4> QED
        BY <4>2
    <3>3. PICK z \in Places(left, right) : z = <<k, l>>
      <4>1. k \in 1..Len(left) + 1 /\ l \in 1..Len(right) + 1
        BY <1>0, <2>1, <2>2, <2>8
      <4>2. <<k, l>> \in Places(left, right)
        BY <4>1, PlaceIs
      <4> QED
        BY <4>2
    <3>4. PICK a \in Nat, b \in Nat, x \in Nat, y \in Nat : a = f[q] /\ b = f[r] /\ x = f[z] /\ y = f[p]
      BY <2>3
    <3>5. Aligned(w, c, left, right, f, g, q) /\ Aligned(w, c, left, right, f, g, r) /\ Aligned(w, c, left, right, f, g, z)
      BY <1>0, <1>1, <2>1, <2>2, <2>8, <3>1, <3>2, <3>3 DEF Beyond
    <3>6. ~(i > Len(left)) /\ ~(j > Len(right)) /\ i <= Len(left) /\ i \in 1..Len(left) /\ j \in 1..Len(right)
      BY <1>0, <2>8
    <3>7. y = IF Alike(w, c, left, right, i, j) THEN x + 1 ELSE Max({a, b})
      <4>1. f[p] = LengthFrom(w, c, left, right, f, p)
        BY <2>3
      <4>2. f[p] = IF Alike(w, c, left, right, i, j) THEN f[z] + 1 ELSE Max({f[q], f[r]})
        BY <2>1, <2>2, <3>1, <3>2, <3>3, <3>6, <4>1 DEF LengthFrom
      <4> QED
        BY <3>4, <4>2
    <3>8. g[p] = IF Alike(w, c, left, right, i, j) THEN g[z]
                 ELSE IF f[q] >= f[r] THEN MarkLeft(g[q], left[i]) ELSE MarkRight(g[r], right[j])
      BY <2>1, <2>2, <2>4, <3>1, <3>2, <3>3, <3>6 DEF WalkFrom, MarkLeft, MarkRight
    <3>9. CASE Alike(w, c, left, right, i, j)
      <4>1. z = <<i + 1, j + 1>> /\ g[p] = g[z] /\ f[p] = f[z] + 1 /\ f[z] \in Nat
        BY <2>2, <3>3, <3>4, <3>7, <3>8, <3>9
      <4> QED
        BY <2>1, <3>5, <3>6, <3>9, <4>1, AlignsAlike
    <3>10. CASE ~Alike(w, c, left, right, i, j) /\ a >= b
      <4>1. y = a
        BY <3>7, <3>10, MaxOfTwo
      <4>2. q = <<i + 1, j>> /\ g[p] = MarkLeft(g[q], left[i]) /\ f[p] = f[q]
        BY <2>2, <3>1, <3>4, <3>8, <3>10, <4>1
      <4> QED
        BY <2>1, <3>5, <3>6, <4>2, AlignsLeft
    <3>11. CASE ~Alike(w, c, left, right, i, j) /\ ~(a >= b)
      <4>1. y = b
        BY <3>7, <3>11, MaxOfTwo
      <4>2. r = <<i, j + 1>> /\ g[p] = MarkRight(g[r], right[j]) /\ f[p] = f[r]
        BY <2>2, <3>2, <3>4, <3>8, <3>11, <4>1
      <4> QED
        BY <2>1, <3>5, <3>6, <4>2, AlignsRight
    <3> QED
      BY <3>9, <3>10, <3>11
  <2> QED
    BY <2>5, <2>6, <2>7, <2>8
<1>2. \A p \in Places(left, right) : (\A q \in Places(left, right) : Beyond(left, right, p, q) => q \in Q) => p \in Q
  BY <1>1
<1> HIDE DEF Q
<1>3. Len(left) \in Nat /\ Len(right) \in Nat
  BY <1>0
<1>4. \A p \in Places(left, right) : p \in Q
  BY <1>2, <1>3, FromTheEnd
<1> QED
  BY <1>4 DEF Q

(* So the walk along two runs marks what keeps them apart, and what is left *)
(* is as long as it can be.                                                 *)
LongestLeft(w, c, left, right, v, d) ==
    /\ v \subseteq ValuesFrom(left, 1) /\ d \subseteq ValuesFrom(right, 1)
    /\ markSeparatorDifferences(w, c, left, right) = Highlight(v, d)
    /\ RunText(w, left, v) = RunText(c, right, d)
    /\ \A V, D : RunText(w, left, V) = RunText(c, right, D)
                   => Len(RunText(w, left, V)) <= Len(RunText(w, left, v))

LEMMA WalkIsLongest ==
    ASSUME NEW S, NEW w, NEW c, NEW left, NEW right, IsRun(S, w, left), IsRun(S, c, right),
           Once(left), Once(right)
    PROVE  \E v, d : LongestLeft(w, c, left, right, v, d)
<1>1. Len(left) \in Nat /\ Len(right) \in Nat
  BY LenProperties DEF IsRun
<1>2. PICK f : f = lengths(w, c, left, right) /\ Measures(w, c, left, right, f)
  BY <1>1, LengthsAre, MeasureExists
<1>3. PICK g : Walks(w, c, left, right, f, g) /\ markSeparatorDifferences(w, c, left, right) = g[<<1, 1>>]
  BY <1>1, <1>2, MarkIs, WalkExists
<1>4. PICK p \in Places(left, right) : p = <<1, 1>> /\ p[1] = 1 /\ p[2] = 1
  <2>1. 1 \in 1..Len(left) + 1 /\ 1 \in 1..Len(right) + 1
    BY <1>1
  <2>2. <<1, 1>> \in Places(left, right)
    BY <2>1, PlaceIs
  <2> QED
    BY <2>2
<1>5. PICK v, d : AlignedBy(w, c, left, right, f, g, p, v, d)
  BY <1>2, <1>3, WalkAligns DEF Aligned
<1>6. /\ v \subseteq ValuesFrom(left, 1) /\ d \subseteq ValuesFrom(right, 1)
      /\ g[p] = Highlight(v, d)
      /\ RunText(w, left, v) = RunText(c, right, d) /\ Len(RunText(w, left, v)) = f[p]
  BY <1>4, <1>5 DEF AlignedBy, RunText
<1>7. ASSUME NEW V, NEW D, RunText(w, left, V) = RunText(c, right, D)
      PROVE  Len(RunText(w, left, V)) <= Len(RunText(w, left, v))
  <2>1. RunFrom(w, left, V, p[1]) = RunFrom(c, right, D, p[2]) => Len(RunFrom(w, left, V, p[1])) <= f[p]
    BY <1>2, NoLonger
  <2> QED
    BY <1>4, <1>6, <1>7, <2>1 DEF RunText
<1>8. LongestLeft(w, c, left, right, v, d)
  BY <1>3, <1>4, <1>6, <1>7 DEF LongestLeft
<1> QED
  BY <1>8

-----------------------------------------------------------------------------
(* The last of a sequence, replaced.                                        *)
LEMMA ExceptLast ==
    ASSUME NEW S, NEW s \in Seq(S), NEW x \in S, NEW y \in S, NEW t, Grown(s, x, t), NEW u, Grown(s, y, u),
           NEW k, k = Len(s) + 1
    PROVE  [t EXCEPT ![k] = y] = u
<1>1. PICK n \in Nat : n = Len(s) /\ k = n + 1
  BY LenProperties
<1>2. t \in Seq(S) /\ Len(t) = n + 1 /\ \A i \in 1..n : t[i] = s[i]
  BY <1>1, AppendProperties DEF Grown
<1>3. u \in Seq(S) /\ Len(u) = n + 1 /\ u[n + 1] = y /\ \A i \in 1..n : u[i] = s[i]
  BY <1>1, AppendProperties DEF Grown
<1>4. PICK m \in 1..Len(t) : m = n + 1
  BY <1>2
<1>5. PICK q \in Seq(S) : q = t
  BY <1>2
<1>6. PICK v : v = [q EXCEPT ![m] = y]
  OBVIOUS
<1>7. m \in 1..Len(q)
  BY <1>5
<1>8. v \in Seq(S) /\ Len(v) = Len(q) /\ \A j \in 1..Len(q) : v[j] = IF j = m THEN y ELSE q[j]
  BY <1>6, <1>7, ExceptSeq
<1>9. Len(v) = n + 1 /\ \A j \in 1..n + 1 : v[j] = IF j = n + 1 THEN y ELSE t[j]
  BY <1>2, <1>4, <1>5, <1>8
<1>10. \A i \in 1..n + 1 : v[i] = u[i]
  <2> TAKE i \in 1..n + 1
  <2>1. i = n + 1 \/ i \in 1..n
    OBVIOUS
  <2> QED
    BY <1>2, <1>3, <1>9, <2>1
<1>11. v = u
  BY <1>3, <1>8, <1>9, <1>10, SeqEqual
<1> QED
  BY <1>1, <1>4, <1>5, <1>6, <1>11

(* A mark makes a letter with its marks longer, or composes with a bare one.*)
LEMMA MarkedForm ==
    ASSUME NEW S, Alphabetic(S), NEW t \in Seq(S), Whole(S, t), LetterForm(t), NEW c \in Marks
    PROVE  LetterForm(Marked(t, c))
<1> SUFFICES ASSUME NEW e, e = Marked(t, c) PROVE LetterForm(e)
  OBVIOUS
<1>1. c \in S /\ LowerOf(c) = c
  BY LowerOfIs DEF Alphabetic, Marks, Letters
<1>2. Letters \subseteq S
  BY DEF Alphabetic
<1>3. e = Lower(Compose(Nfc(t), c))
  BY <1>1, NfcAppend DEF Canonical, Marked
<1>4. CASE t = <<"a">>
  <2>1. "a" \in S /\ "a" \in Composable /\ "a_acute" \in Letters
    BY <1>2 DEF Letters, Composable
  <2>2. PICK b \in S : b = ComposedOf("a") /\ LowerOf(b) = "a_acute"
    BY <1>2, <2>1, ComposedIs
  <2>3. << >> \in Seq(S) /\ <<"a">> = Append(<< >>, "a") /\ <<b>> = Append(<< >>, b)
    OBVIOUS
  <2>4. Nfc(t) = t
    BY <1>4, <2>1, OneCharacter
  <2>5. Compose(t, c) = Append(<< >>, ComposedOf("a"))
    BY <1>4, <2>1, <2>3, ComposeWith
  <2>6. Lower(<<b>>) = <<"a_acute">>
    BY <2>2, OneCharacter
  <2>7. e = <<"a_acute">>
    BY <1>3, <2>2, <2>3, <2>4, <2>5, <2>6
  <2>8. Len(e) = 1 /\ e[1] = "a_acute"
    BY <2>7
  <2>9. \A i \in 2..1 : FALSE
    OBVIOUS
  <2> QED
    BY <2>1, <2>8, <2>9 DEF LetterForm
<1>5. ASSUME NEW u \in Seq(S), NEW x \in S, Closed(S, t, u, x) PROVE LetterForm(e)
  <2>1. t = Append(u, x) /\ x \notin Composable /\ Nfc(t) = t /\ Lower(t) = t
    BY <1>5 DEF Closed
  <2>2. Compose(t, c) = Append(t, c)
    BY <2>1, ComposeAfter
  <2>3. Lower(Append(t, c)) = Append(Lower(t), LowerOf(c))
    BY <1>1, <1>2, LowerAppend
  <2>4. e = Append(t, c)
    BY <1>1, <1>3, <2>1, <2>2, <2>3
  <2>5. PICK n \in Nat : n = Len(t) /\ n > 0 /\ t[1] \in Letters /\ \A i \in 2..n : t[i] \in Marks
    BY LenProperties DEF LetterForm
  <2>6. Len(e) = n + 1 /\ e[n + 1] = c /\ \A i \in 1..n : e[i] = t[i]
    BY <1>1, <2>4, <2>5, AppendProperties
  <2>7. e[1] \in Letters
    BY <2>5, <2>6
  <2>8. \A i \in 2..n + 1 : e[i] \in Marks
    <3> TAKE i \in 2..n + 1
    <3>1. i = n + 1 \/ i \in 2..n
      BY <2>5
    <3>2. \A j \in 2..n : j \in 1..n
      OBVIOUS
    <3> QED
      BY <2>5, <2>6, <3>1, <3>2
  <2> QED
    BY <2>5, <2>6, <2>7, <2>8 DEF LetterForm
<1> QED
  BY <1>4, <1>5 DEF Whole

-----------------------------------------------------------------------------
(* What is left of each run of separators.                                  *)
Texts(value, R, V) == [i \in 1..Len(R) |-> RunText(value, R[i], V)]
Runs(S, value, R) == value \in Seq(S) /\ R \in Seq(Seq(1..Len(value)))

LEMMA EmptyRun == \A value, V : RunText(value, << >>, V) = << >>
<1> TAKE value, V
<1>1. Len(<< >>) = 0 /\ (0 + 1) - 1 = 0
  OBVIOUS
<1> QED
  BY <1>1, PartNone DEF RunText, RunFrom

LEMMA TextIs ==
    ASSUME NEW S, NEW value, NEW R, Runs(S, value, R), NEW V, NEW i \in 1..Len(R)
    PROVE  IsRun(S, value, R[i]) /\ RunText(value, R[i], V) \in Seq(S) /\ Texts(value, R, V)[i] = RunText(value, R[i], V)
<1>1. PICK run : run = R[i] /\ run \in Seq(1..Len(value))
  BY ElementOfSeq DEF Runs
<1>2. IsRun(S, value, run)
  BY <1>1 DEF IsRun, Runs
<1>3. 1 \in 1..Len(run) + 1
  BY <1>1, LenProperties
<1>4. RunText(value, run, V) \in Seq(S)
  BY <1>2, <1>3, RunFromIsText DEF RunText
<1> QED
  BY <1>1, <1>2, <1>4 DEF Texts

LEMMA TextsAre ==
    ASSUME NEW S, NEW value, NEW R, Runs(S, value, R), NEW V
    PROVE  Texts(value, R, V) \in Seq(Seq(S)) /\ Len(Texts(value, R, V)) = Len(R)
<1>1. PICK n \in Nat : n = Len(R)
  BY LenProperties DEF Runs
<1>2. \A i \in 1..n : RunText(value, R[i], V) \in Seq(S)
  BY <1>1, TextIs
<1>3. PICK p : p = Texts(value, R, V)
  OBVIOUS
<1>4. p \in [1..n -> Seq(S)]
  BY <1>1, <1>2, <1>3 DEF Texts
<1> QED
  BY <1>1, <1>3, <1>4, SequenceOf

LEMMA TextsAppend ==
    ASSUME NEW S, NEW value, NEW R, Runs(S, value, R), NEW V, NEW r \in Seq(1..Len(value))
    PROVE  /\ Runs(S, value, Append(R, r))
           /\ RunText(value, r, V) \in Seq(S)
           /\ Texts(value, Append(R, r), V) = Append(Texts(value, R, V), RunText(value, r, V))
<1>1. PICK n \in Nat : n = Len(R)
  BY LenProperties DEF Runs
<1>2. PICK Q : Q = Append(R, r)
  OBVIOUS
<1>3. Q \in Seq(Seq(1..Len(value))) /\ Len(Q) = n + 1 /\ Q[n + 1] = r /\ \A i \in 1..n : Q[i] = R[i]
  BY <1>1, <1>2, AppendProperties DEF Runs
<1>4. Runs(S, value, Q)
  BY <1>3 DEF Runs
<1>5. PICK T \in Seq(Seq(S)) : T = Texts(value, R, V) /\ Len(T) = n
  BY <1>1, TextsAre
<1>6. PICK U \in Seq(Seq(S)) : U = Texts(value, Q, V) /\ Len(U) = n + 1
  BY <1>3, <1>4, TextsAre
<1>7. PICK t \in Seq(S) : t = RunText(value, r, V) /\ U[n + 1] = t
  <2>1. n + 1 \in 1..Len(Q)
    BY <1>3
  <2>2. RunText(value, Q[n + 1], V) \in Seq(S) /\ Texts(value, Q, V)[n + 1] = RunText(value, Q[n + 1], V)
    BY <1>4, <2>1, TextIs
  <2> QED
    BY <1>3, <1>6, <2>2
<1>8. ASSUME NEW i \in 1..n PROVE U[i] = T[i]
  <2>1. i \in 1..Len(Q) /\ i \in 1..Len(R)
    BY <1>1, <1>3
  <2>2. Texts(value, Q, V)[i] = RunText(value, Q[i], V)
    BY <1>4, <2>1, TextIs
  <2>3. Texts(value, R, V)[i] = RunText(value, R[i], V)
    BY <2>1, TextIs
  <2> QED
    BY <1>3, <1>5, <1>6, <2>2, <2>3
<1>9. PICK A \in Seq(Seq(S)) : A = Append(T, t)
  BY AppendProperties
<1>10. Len(A) = n + 1 /\ A[n + 1] = t /\ \A i \in 1..n : A[i] = T[i]
  BY <1>5, <1>9, AppendProperties
<1>11. \A i \in 1..n + 1 : U[i] = A[i]
  <2> TAKE i \in 1..n + 1
  <2>1. i = n + 1 \/ i \in 1..n
    OBVIOUS
  <2> QED
    BY <1>7, <1>8, <1>10, <2>1
<1>12. U = A
  BY <1>6, <1>10, <1>11, SeqEqual
<1> QED
  BY <1>2, <1>4, <1>5, <1>6, <1>7, <1>9, <1>12

-----------------------------------------------------------------------------
(* One more text.                                                           *)
LEMMA PartAppend ==
    ASSUME NEW S, NEW T \in Seq(Seq(S)), NEW t \in Seq(S)
    PROVE  /\ Part(T, 1, Len(T)) \in Seq(S)
           /\ Part(Append(T, t), 1, Len(Append(T, t))) = Part(T, 1, Len(T)) \o t
<1>1. PICK n \in Nat : n = Len(T)
  BY LenProperties
<1>2. PICK B \in Seq(Seq(S)) : B = Append(T, t)
  BY AppendProperties
<1>3. Len(B) = n + 1 /\ B[n + 1] = t /\ \A j \in 1..n : B[j] = T[j]
  BY <1>1, <1>2, AppendProperties
<1>4. Part(T, 1, n) \in Seq(S)
  <2>1. 1 + n <= Len(T) + 1 /\ 1 > 0
    BY <1>1
  <2> QED
    BY <2>1, PartIsText
<1>5. Part(B, 1, n + 1) = Part(B, 1, n) \o B[1 + n]
  <2>1. 1 + n <= Len(B) /\ 1 > 0
    BY <1>3
  <2> QED
    BY <2>1, PartGrows
<1>6. Part(B, 1, n) = Part(T, 1, n)
  <2>1. \A j \in 1..n : (j + 1) - 1 = j
    OBVIOUS
  <2>2. \A j \in 1..n : B[j + 1 - 1] = T[j + 1 - 1]
    BY <1>3, <2>1
  <2> QED
    BY <2>2, PartSame
<1>7. 1 + n = n + 1
  OBVIOUS
<1> QED
  BY <1>1, <1>2, <1>3, <1>4, <1>5, <1>6, <1>7

(* A letter more, and the run of separators after it.                       *)
Longer(T, L, U, M, k) ==
    /\ k <= Len(L) /\ k <= Len(M) /\ Len(L) \in Nat /\ Len(M) \in Nat
    /\ (\A i \in 1..k : T[i] = U[i] /\ L[i] = M[i]) /\ T[k + 1] = U[k + 1]
LEMMA WovenLongerSame ==
    ASSUME NEW T, NEW L, NEW U, NEW M, NEW k \in Nat, Longer(T, L, U, M, k)
    PROVE  Woven(T, L, k) = Woven(U, M, k)
  BY WovenSame DEF Longer
IsWoven(T, L, x) == x = Woven(T, L, Len(L))
Joined(x, e, t, y) == y = (x \o e) \o t
LEMMA WovenAppend ==
    ASSUME NEW S, NEW T, NEW L, Weave(S, T, L), NEW e \in Seq(S), NEW t \in Seq(S),
           NEW F, IsWoven(T, L, F), NEW U, U = Append(T, t), NEW M, M = Append(L, e), NEW G, IsWoven(U, M, G)
    PROVE  Weave(S, U, M) /\ F \in Seq(S) /\ Joined(F, e, t, G)
<1>1. T \in Seq(Seq(S)) /\ L \in Seq(Seq(S)) /\ Len(T) = Len(L) + 1
  BY DEF Weave
<1>2. PICK k \in Nat : k = Len(L)
  BY <1>1, LenProperties
<1>3. U \in Seq(Seq(S))
  BY <1>1, AppendProperties
<1>4. M \in Seq(Seq(S))
  BY <1>1, AppendProperties
<1>5. Len(U) = k + 2 /\ U[k + 2] = t /\ \A i \in 1..k + 1 : U[i] = T[i]
  <2>1. PICK m \in Nat : m = Len(T)
    BY <1>1, LenProperties
  <2>2. Len(U) = m + 1 /\ U[m + 1] = t /\ \A i \in 1..m : U[i] = T[i]
    BY <1>1, <2>1, AppendProperties
  <2>3. m = k + 1 /\ m + 1 = k + 2
    BY <1>1, <1>2, <2>1
  <2> QED
    BY <2>1, <2>2, <2>3
<1>6. Len(M) = k + 1 /\ M[k + 1] = e /\ \A i \in 1..k : M[i] = L[i]
  BY <1>1, <1>2, AppendProperties
<1>7. Weave(S, U, M)
  BY <1>1, <1>2, <1>3, <1>4, <1>5, <1>6 DEF Weave
<1>8. Woven(U, M, k) \in Seq(S) /\ Woven(U, M, k + 1) = (Woven(U, M, k) \o M[k + 1]) \o U[k + 2]
  <2>1. k < Len(M)
    BY <1>6
  <2> QED
    BY <1>7, <2>1, WovenNext
<1>9. Woven(U, M, k) = Woven(T, L, k)
  <2>1. \A i \in 1..k : i \in 1..k + 1
    OBVIOUS
  <2>2. \A i \in 1..k : U[i] = T[i] /\ M[i] = L[i]
    BY <1>5, <1>6, <2>1
  <2>3. k + 1 \in 1..k + 1
    OBVIOUS
  <2>4. U[k + 1] = T[k + 1]
    BY <1>5, <2>3
  <2>5. k <= Len(L) /\ k <= Len(M) /\ Len(L) \in Nat /\ Len(M) \in Nat
    BY <1>2, <1>6
  <2> QED
    <3>1. Longer(U, M, T, L, k)
      BY <2>2, <2>4, <2>5 DEF Longer
    <3> QED
      BY <1>2, <3>1, WovenLongerSame
<1>10. U[k + 2] = t /\ M[k + 1] = e /\ Len(M) = k + 1
  BY <1>5, <1>6
<1>11. F = Woven(T, L, k) /\ G = Woven(U, M, k + 1)
  BY <1>2, <1>10 DEF IsWoven
<1>12. G = (F \o e) \o t
  BY <1>8, <1>9, <1>10, <1>11, Zenon
<1> QED
  BY <1>7, <1>8, <1>9, <1>11, <1>12 DEF Joined

(* The last run longer.                                                     *)
LEMMA WovenLonger ==
    ASSUME NEW S, NEW T \in Seq(Seq(S)), NEW L, NEW t \in Seq(S), NEW u \in Seq(S),
           NEW A, Grown(T, t, A), Weave(S, A, L), NEW F, IsWoven(A, L, F),
           NEW v, Joint(t, u, v), NEW B, Grown(T, v, B), NEW G, IsWoven(B, L, G)
    PROVE  Weave(S, B, L) /\ F \in Seq(S) /\ Joint(F, u, G)
<1>1. A \in Seq(Seq(S))
  BY AppendProperties DEF Grown
<1>2. v \in Seq(S)
  BY ConcatProperties DEF Joint
<1>3. B \in Seq(Seq(S))
  BY <1>2, AppendProperties DEF Grown
<1>4. PICK k \in Nat : k = Len(L) /\ L \in Seq(Seq(S)) /\ Len(A) = k + 1
  BY <1>1, LenProperties DEF Weave
<1>5. Len(T) = k
  <2>1. Len(A) = Len(T) + 1 /\ Len(T) \in Nat
    BY <1>1, AppendProperties, LenProperties DEF Grown
  <2> QED
    BY <1>4, <2>1
<1>6. A[k + 1] = t /\ B[k + 1] = v /\ Len(B) = k + 1 /\ \A i \in 1..k : A[i] = T[i] /\ B[i] = T[i]
  BY <1>2, <1>5, AppendProperties DEF Grown
<1>7. Weave(S, B, L)
  BY <1>3, <1>4, <1>6 DEF Weave
<1>8. Pairs(A, L) = Pairs(B, L)
  BY <1>4, <1>6 DEF Pairs
<1>9. PICK x \in Seq(S) : x = Part(Pairs(A, L), 1, k)
  <2>1. Pairs(A, L) \in Seq(Seq(S)) /\ Len(Pairs(A, L)) = Len(L)
    BY PairsText
  <2>2. 1 + k <= Len(Pairs(A, L)) + 1 /\ 1 > 0
    BY <1>4, <2>1
  <2> QED
    BY <2>1, <2>2, PartIsText
<1>10. F = x \o t /\ G = x \o v
  BY <1>4, <1>6, <1>8, <1>9 DEF IsWoven, Woven
<1>11. x \o t \in Seq(S) /\ (x \o t) \o u = x \o (t \o u)
  <2>1. Associates(x, t, u)
    BY Associative
  <2> QED
    BY <2>1, ConcatProperties DEF Associates
<1> QED
  BY <1>7, <1>10, <1>11 DEF Joint

-----------------------------------------------------------------------------
(* The letters and the runs of separators of the first n characters.        *)
Apart(R) ==
    \A a, b \in 1..Len(R) : \A x \in 1..Len(R[a]), y \in 1..Len(R[b]) :
        R[a][x] = R[b][y] => a = b /\ x = y
OfSeparators(value, R, n) ==
    \A a \in 1..Len(R) : \A x \in 1..Len(R[a]) : R[a][x] <= n /\ R[a][x] \in Separators(value)
Formed(S, L) == \A i \in 1..Len(L) : Whole(S, L[i]) /\ LetterForm(L[i])
Open(value, L, R, n) ==
    n > 0 /\ value[n] \in Letters \cup Marks => Len(L) > 0 /\ R[Len(R)] = << >>
Laid(S, value, L, R, n) ==
    /\ L \in Seq(Seq(S)) /\ Runs(S, value, R) /\ Len(R) = Len(L) + 1
    /\ Formed(S, L) /\ OfSeparators(value, R, n) /\ Apart(R) /\ Open(value, L, R, n)

LEMMA LaidWeaves ==
    ASSUME NEW S, NEW value, NEW L, NEW R, NEW n, Laid(S, value, L, R, n), NEW V
    PROVE  Weave(S, Texts(value, R, V), L)
<1>1. L \in Seq(Seq(S)) /\ Runs(S, value, R) /\ Len(R) = Len(L) + 1
  BY DEF Laid
<1>2. Texts(value, R, V) \in Seq(Seq(S)) /\ Len(Texts(value, R, V)) = Len(R)
  BY <1>1, TextsAre
<1> QED
  BY <1>1, <1>2 DEF Weave

LEMMA LetterForms ==
    ASSUME NEW x \in Letters
    PROVE  LetterForm(<<x>>)
<1>1. Len(<<x>>) = 1 /\ <<x>>[1] = x
  OBVIOUS
<1>2. \A i \in 2..1 : FALSE
  OBVIOUS
<1> QED
  BY <1>1, <1>2 DEF LetterForm

LEMMA FormedAppend ==
    ASSUME NEW S, NEW L \in Seq(Seq(S)), NEW e \in Seq(S), Formed(S, L), Whole(S, e), LetterForm(e)
    PROVE  Formed(S, Append(L, e))
<1>1. PICK n \in Nat : n = Len(L)
  BY LenProperties
<1>2. PICK M \in Seq(Seq(S)) : M = Append(L, e)
  BY AppendProperties
<1>3. Len(M) = n + 1 /\ M[n + 1] = e /\ \A i \in 1..n : M[i] = L[i]
  BY <1>1, <1>2, AppendProperties
<1>4. \A i \in 1..n + 1 : i = n + 1 \/ i \in 1..n
  OBVIOUS
<1>5. \A i \in 1..n + 1 : Whole(S, M[i]) /\ LetterForm(M[i])
  BY <1>1, <1>3, <1>4 DEF Formed
<1> QED
  BY <1>2, <1>3, <1>5 DEF Formed

-----------------------------------------------------------------------------
(* Runs with the same positions, or with one more.                          *)
Among(R, a, x, y) == a \in 1..Len(R) /\ x \in 1..Len(R[a]) /\ R[a][x] = y
SamePositions(R, Q) == \A a, x, y : Among(Q, a, x, y) => Among(R, a, x, y)
OnePosition(R, Q, b, m, i) ==
    \A a, x, y : Among(Q, a, x, y) => Among(R, a, x, y) \/ (a = b /\ x = m /\ y = i)

LEMMA ApartIs ==
    \A R : Apart(R) <=> \A a, b, x, y, z : Among(R, a, x, z) /\ Among(R, b, y, z) => a = b /\ x = y
<1> TAKE R
<1>1. ASSUME Apart(R), NEW a, NEW b, NEW x, NEW y, NEW z, Among(R, a, x, z), Among(R, b, y, z)
      PROVE  a = b /\ x = y
  BY <1>1 DEF Apart, Among
<1>2. ASSUME \A a, b, x, y, z : Among(R, a, x, z) /\ Among(R, b, y, z) => a = b /\ x = y
      PROVE  Apart(R)
  <2> SUFFICES ASSUME NEW a \in 1..Len(R), NEW b \in 1..Len(R), NEW x \in 1..Len(R[a]), NEW y \in 1..Len(R[b]),
                      R[a][x] = R[b][y]
               PROVE  a = b /\ x = y
    BY DEF Apart
  <2>1. Among(R, a, x, R[a][x]) /\ Among(R, b, y, R[a][x])
    BY DEF Among
  <2> QED
    BY <1>2, <2>1
<1> QED
  BY <1>1, <1>2

LEMMA OfSeparatorsIs ==
    \A value, R, n : OfSeparators(value, R, n) <=>
        \A a, x, y : Among(R, a, x, y) => y <= n /\ y \in Separators(value)
  BY DEF OfSeparators, Among

LEMMA SeparatorsAre ==
    ASSUME NEW S, NEW value \in Seq(S)
    PROVE  /\ Separators(value) \subseteq 1..Len(value) /\ Len(value) \in Nat
           /\ \A x \in 1..Len(value) : x \in Separators(value) <=> value[x] \notin Letters \cup Marks
  BY LenProperties DEF Separators

LEMMA ApartSame ==
    ASSUME NEW S, NEW value \in Seq(S), NEW R, NEW Q, NEW n \in Nat, NEW i \in Nat, n <= i,
           SamePositions(R, Q), Apart(R), OfSeparators(value, R, n)
    PROVE  Apart(Q) /\ OfSeparators(value, Q, i)
<1>1. Apart(Q)
  <2>1. ASSUME NEW a, NEW b, NEW x, NEW y, NEW z, Among(Q, a, x, z), Among(Q, b, y, z)
        PROVE  a = b /\ x = y
    <3>1. Among(R, a, x, z) /\ Among(R, b, y, z)
      BY <2>1 DEF SamePositions
    <3> QED
      BY <3>1, ApartIs, Zenon
  <2> QED
    BY <2>1, ApartIs, Zenon
<1>2. ASSUME NEW a, NEW x, NEW y, Among(Q, a, x, y)
      PROVE  y <= i /\ y \in Separators(value)
  <2>1. y <= n /\ y \in Separators(value)
    BY <1>2, OfSeparatorsIs, Zenon DEF SamePositions
  <2>2. y \in Nat
    BY <2>1, SeparatorsAre
  <2> QED
    BY <2>1, <2>2
<1>3. OfSeparators(value, Q, i)
  BY <1>2, OfSeparatorsIs, Zenon
<1> QED
  BY <1>1, <1>3

LEMMA ApartOneMore ==
    ASSUME NEW S, NEW value \in Seq(S), NEW R, NEW Q, NEW b, NEW m, NEW n \in Nat,
           NEW i \in 1..Len(value), n < i, i \in Separators(value),
           OnePosition(R, Q, b, m, i), Apart(R), OfSeparators(value, R, n)
    PROVE  Apart(Q) /\ OfSeparators(value, Q, i)
<1>1. ASSUME NEW a, NEW x, NEW y, Among(R, a, x, y) PROVE y < i /\ y # i /\ y <= i /\ y \in Separators(value)
  <2>1. y <= n /\ y \in Separators(value)
    BY <1>1, OfSeparatorsIs, Zenon
  <2>2. y \in Nat /\ i \in Nat
    BY <2>1, SeparatorsAre
  <2> QED
    BY <2>1, <2>2
<1>2. ASSUME NEW a, NEW x, NEW y, Among(Q, a, x, y)
      PROVE  y <= i /\ y \in Separators(value)
  <2>1. i <= i
    BY SeparatorsAre
  <2> QED
    BY <1>1, <1>2, <2>1, Zenon DEF OnePosition
<1>3. OfSeparators(value, Q, i)
  BY <1>2, OfSeparatorsIs, Zenon
<1>4. ASSUME NEW a, NEW c, NEW x, NEW y, NEW z, Among(Q, a, x, z), Among(Q, c, y, z)
      PROVE  a = c /\ x = y
  <2>1. Among(R, a, x, z) \/ (a = b /\ x = m /\ z = i)
    BY <1>4 DEF OnePosition
  <2>2. Among(R, c, y, z) \/ (c = b /\ y = m /\ z = i)
    BY <1>4 DEF OnePosition
  <2>3. ~Among(R, a, x, i) /\ ~Among(R, c, y, i)
    BY <1>1
  <2>4. Among(R, a, x, z) /\ Among(R, c, y, z) => a = c /\ x = y
    BY ApartIs, Zenon
  <2> QED
    BY <2>1, <2>2, <2>3, <2>4, Zenon
<1>5. Apart(Q)
  BY <1>4, ApartIs, Zenon
<1> QED
  BY <1>3, <1>5

(* An empty run more has no position.                                       *)
LEMMA EmptyRunAppended ==
    ASSUME NEW D, NEW R \in Seq(Seq(D))
    PROVE  /\ Append(R, << >>) \in Seq(Seq(D)) /\ Len(Append(R, << >>)) = Len(R) + 1
           /\ Append(R, << >>)[Len(R) + 1] = << >>
           /\ SamePositions(R, Append(R, << >>))
<1>1. PICK n \in Nat : n = Len(R)
  BY LenProperties
<1>2. << >> \in Seq(D) /\ Len(<< >>) = 0
  OBVIOUS
<1>3. PICK Q \in Seq(Seq(D)) : Q = Append(R, << >>)
  BY <1>2, AppendProperties
<1>4. Len(Q) = n + 1 /\ Q[n + 1] = << >> /\ \A j \in 1..n : Q[j] = R[j]
  BY <1>1, <1>2, <1>3, AppendProperties
<1>5. ASSUME NEW a, NEW x, NEW y, Among(Q, a, x, y) PROVE Among(R, a, x, y)
  <2>1. a \in 1..n + 1 /\ x \in 1..Len(Q[a]) /\ Q[a][x] = y
    BY <1>4, <1>5 DEF Among
  <2>2. a # n + 1
    <3>1. Len(Q[n + 1]) = 0
      BY <1>2, <1>4
    <3>2. \A z : z \notin 1..0
      OBVIOUS
    <3> QED
      BY <2>1, <3>1, <3>2
  <2>3. a \in 1..n
    BY <2>1, <2>2
  <2> QED
    BY <1>1, <1>4, <2>1, <2>3 DEF Among
<1> QED
  BY <1>1, <1>3, <1>4, <1>5 DEF SamePositions

(* A position more in the last run.                                         *)
LEMMA LastRunLonger ==
    ASSUME NEW D, NEW R \in Seq(Seq(D)), NEW r \in Seq(D), NEW i \in D
    PROVE  OnePosition(Append(R, r), Append(R, Append(r, i)), Len(R) + 1, Len(r) + 1, i)
<1>1. PICK n \in Nat : n = Len(R)
  BY LenProperties
<1>2. PICK m \in Nat : m = Len(r)
  BY LenProperties
<1>3. PICK s \in Seq(D) : s = Append(r, i)
  BY AppendProperties
<1>4. Len(s) = m + 1 /\ s[m + 1] = i /\ \A x \in 1..m : s[x] = r[x]
  BY <1>2, <1>3, AppendProperties
<1>5. PICK P \in Seq(Seq(D)) : P = Append(R, r)
  BY AppendProperties
<1>6. Len(P) = n + 1 /\ P[n + 1] = r /\ \A j \in 1..n : P[j] = R[j]
  BY <1>1, <1>5, AppendProperties
<1>7. PICK Q \in Seq(Seq(D)) : Q = Append(R, s)
  BY AppendProperties
<1>8. Len(Q) = n + 1 /\ Q[n + 1] = s /\ \A j \in 1..n : Q[j] = R[j]
  BY <1>1, <1>7, AppendProperties
<1>9. ASSUME NEW a, NEW x, NEW y, Among(Q, a, x, y)
      PROVE  Among(P, a, x, y) \/ (a = n + 1 /\ x = m + 1 /\ y = i)
  <2>1. a \in 1..n + 1 /\ x \in 1..Len(Q[a]) /\ Q[a][x] = y
    BY <1>8, <1>9 DEF Among
  <2>2. CASE a = n + 1
    <3>1. x \in 1..m + 1 /\ s[x] = y
      BY <1>4, <1>8, <2>1, <2>2
    <3>2. x = m + 1 \/ x \in 1..m
      BY <3>1
    <3>3. x \in 1..m => Among(P, a, x, y)
      BY <1>2, <1>4, <1>6, <2>1, <2>2, <3>1 DEF Among
    <3> QED
      BY <1>4, <2>2, <3>1, <3>2, <3>3
  <2>3. CASE a \in 1..n
    BY <1>6, <1>8, <2>1, <2>3 DEF Among
  <2>4. a = n + 1 \/ a \in 1..n
    BY <2>1
  <2> QED
    BY <2>2, <2>3, <2>4
<1> QED
  BY <1>1, <1>2, <1>3, <1>5, <1>7, <1>9 DEF OnePosition

-----------------------------------------------------------------------------
(* What a letter, a mark and a separator do to the letters and runs.        *)
LEMMA LaidByLetter ==
    ASSUME NEW S, Alphabetic(S), NEW value \in Seq(S), NEW n \in Nat, NEW i \in 1..Len(value), i = n + 1,
           NEW L, NEW R, Laid(S, value, L, R, n), NEW e \in Seq(S), Whole(S, e), LetterForm(e)
    PROVE  Laid(S, value, Append(L, e), Append(R, << >>), i)
<1>1. L \in Seq(Seq(S)) /\ Runs(S, value, R) /\ Len(R) = Len(L) + 1
  BY DEF Laid
<1>2. R \in Seq(Seq(1..Len(value)))
  BY <1>1 DEF Runs
<1>3. PICK k \in Nat : k = Len(L) /\ Len(R) = k + 1
  BY <1>1, LenProperties
<1>4. PICK M \in Seq(Seq(S)) : M = Append(L, e)
  BY <1>1, AppendProperties
<1>5. Len(M) = k + 1
  BY <1>1, <1>3, <1>4, AppendProperties
<1>6. PICK Q : Q = Append(R, << >>)
  OBVIOUS
<1>7. /\ Q \in Seq(Seq(1..Len(value))) /\ Len(Q) = Len(R) + 1
      /\ Q[Len(R) + 1] = << >> /\ SamePositions(R, Q)
  BY <1>2, <1>6, EmptyRunAppended
<1>8. Len(Q) = Len(M) + 1 /\ Len(M) > 0 /\ Q[Len(Q)] = << >>
  BY <1>3, <1>5, <1>7
<1>9. Runs(S, value, Q)
  BY <1>7 DEF Runs
<1>10. Formed(S, M)
  <2>1. Formed(S, L)
    BY DEF Laid
  <2> QED
    BY <1>1, <1>4, <2>1, FormedAppend
<1>11. Apart(Q) /\ OfSeparators(value, Q, i)
  <2>1. Apart(R) /\ OfSeparators(value, R, n)
    BY DEF Laid
  <2>2. n <= i /\ i \in Nat
    BY LenProperties
  <2> QED
    BY <1>7, <2>1, <2>2, ApartSame
<1>12. Open(value, M, Q, i)
  BY <1>8 DEF Open
<1> QED
  BY <1>4, <1>6, <1>8, <1>9, <1>10, <1>11, <1>12 DEF Laid

LEMMA LaidByMark ==
    ASSUME NEW S, NEW value \in Seq(S), NEW n \in Nat, NEW i \in 1..Len(value), i = n + 1,
           NEW K \in Seq(Seq(S)), NEW t \in Seq(S), NEW R, Laid(S, value, Append(K, t), R, n),
           R[Len(R)] = << >>, NEW e \in Seq(S), Whole(S, e), LetterForm(e)
    PROVE  Laid(S, value, Append(K, e), R, i)
<1>1. PICK k \in Nat : k = Len(K)
  BY LenProperties
<1>2. PICK L \in Seq(Seq(S)) : L = Append(K, t)
  BY AppendProperties
<1>3. PICK M \in Seq(Seq(S)) : M = Append(K, e)
  BY AppendProperties
<1>4. Len(L) = k + 1 /\ \A j \in 1..k : L[j] = K[j]
  BY <1>1, <1>2, AppendProperties
<1>5. Len(M) = k + 1
  BY <1>1, <1>3, AppendProperties
<1>6. /\ Runs(S, value, R) /\ Len(R) = Len(L) + 1 /\ Formed(S, L)
      /\ Apart(R) /\ OfSeparators(value, R, n)
  BY <1>2 DEF Laid
<1>7. Formed(S, K)
  <2>1. \A j \in 1..k : j \in 1..k + 1
    OBVIOUS
  <2> QED
    BY <1>1, <1>4, <1>6, <2>1 DEF Formed
<1>8. Formed(S, M)
  BY <1>3, <1>7, FormedAppend
<1>9. Apart(R) /\ OfSeparators(value, R, i)
  <2>1. n <= i /\ i \in Nat
    BY LenProperties
  <2>2. SamePositions(R, R)
    BY DEF SamePositions
  <2> QED
    BY <1>6, <2>1, <2>2, ApartSame
<1>10. Open(value, M, R, i)
  BY <1>5 DEF Open
<1> QED
  BY <1>3, <1>4, <1>5, <1>6, <1>8, <1>9, <1>10 DEF Laid

LEMMA LaidBySeparator ==
    ASSUME NEW S, NEW value \in Seq(S), NEW n \in Nat, NEW i \in 1..Len(value), i = n + 1,
           NEW L, NEW R \in Seq(Seq(1..Len(value))), NEW r \in Seq(1..Len(value)),
           Laid(S, value, L, Append(R, r), n), i \in Separators(value)
    PROVE  Laid(S, value, L, Append(R, Append(r, i)), i)
<1>1. PICK s \in Seq(1..Len(value)) : s = Append(r, i)
  BY AppendProperties
<1>2. PICK k \in Nat : k = Len(R)
  BY LenProperties
<1>3. PICK P \in Seq(Seq(1..Len(value))) : P = Append(R, r)
  BY AppendProperties
<1>4. PICK Q \in Seq(Seq(1..Len(value))) : Q = Append(R, s)
  BY AppendProperties
<1>5. Len(P) = k + 1 /\ Len(Q) = k + 1
  BY <1>2, <1>3, <1>4, AppendProperties
<1>6. /\ L \in Seq(Seq(S)) /\ Len(P) = Len(L) + 1 /\ Formed(S, L)
      /\ Apart(P) /\ OfSeparators(value, P, n)
  BY <1>3 DEF Laid
<1>7. OnePosition(P, Q, Len(R) + 1, Len(r) + 1, i)
  BY <1>1, <1>3, <1>4, LastRunLonger
<1>8. Apart(Q) /\ OfSeparators(value, Q, i)
  <2>1. n < i
    OBVIOUS
  <2> QED
    BY <1>6, <1>7, <2>1, ApartOneMore
<1>9. Runs(S, value, Q)
  BY DEF Runs
<1>10. Open(value, L, Q, i)
  BY SeparatorsAre DEF Open
<1> QED
  BY <1>1, <1>4, <1>5, <1>6, <1>8, <1>9, <1>10 DEF Laid

-----------------------------------------------------------------------------
(* The name without some separators, and how many of them remain.           *)
Spelled(value, V, L, R, n) == Canonical(Keep(value, V, n)) = Woven(Texts(value, R, V), L, Len(L))
UpTo(value, n) == {x \in Separators(value) : x <= n}
TextsLength(value, R, V) == Len(Part(Texts(value, R, V), 1, Len(R)))
Counted(value, V, R, n) == Cardinality(UpTo(value, n) \ V) = TextsLength(value, R, V)

(* The normal form after one more character.                                *)
KeptSoFar(S, value, V, n, N) == N \in Seq(S) /\ Lower(N) = Canonical(Keep(value, V, n)) /\ N = Nfc(Keep(value, V, n))

KeptThen(S, value, V, n, i, N) ==
    /\ KeptSoFar(S, value, V, n, N)
    /\ i \notin V => Canonical(Keep(value, V, i)) = Lower(Compose(N, value[i]))
    /\ i \in V => Canonical(Keep(value, V, i)) = Lower(N)
LEMMA KeptNext ==
    ASSUME NEW S, Alphabetic(S), NEW value \in Seq(S), NEW V, NEW n \in Nat, NEW i \in 1..Len(value), i = n + 1
    PROVE  \E N : KeptThen(S, value, V, n, i, N)
<1>1. n <= Len(value) /\ i <= Len(value)
  BY LenProperties
<1>2. /\ Keep(value, V, n) \in Seq(S)
      /\ \A m : m = n + 1 /\ m <= Len(value) =>
             Keep(value, V, m) = IF m \in V THEN Keep(value, V, n) ELSE Append(Keep(value, V, n), value[m])
  BY <1>1, KeepGrows
<1>3. PICK K \in Seq(S) : K = Keep(value, V, n)
  BY <1>2
<1>4. Keep(value, V, i) = IF i \in V THEN K ELSE Append(K, value[i])
  BY <1>1, <1>2, <1>3
<1>5. value[i] \in S
  BY ElementOfSeq
<1>6. PICK N \in Seq(S) : N = Nfc(K)
  BY NfcTypes DEF Alphabetic
<1>7. Nfc(Append(K, value[i])) = Compose(N, value[i])
  BY <1>5, <1>6, NfcAppend
<1>8. KeptSoFar(S, value, V, n, N)
  BY <1>3, <1>6 DEF KeptSoFar, Canonical
<1> QED
  BY <1>3, <1>4, <1>6, <1>7, <1>8 DEF Canonical, KeptThen

(* With an empty run more.                                                  *)
LEMMA TextsOfEmpty ==
    ASSUME NEW S, NEW value, NEW R, Runs(S, value, R), NEW V, NEW T, T = Texts(value, R, V)
    PROVE  Texts(value, Append(R, << >>), V) = Append(T, << >>)
<1>1. PICK r \in Seq(1..Len(value)) : r = << >>
  <2>1. << >> \in Seq(1..Len(value))
    OBVIOUS
  <2> QED
    BY <2>1, Zenon
<1>2. Texts(value, Append(R, r), V) = Append(Texts(value, R, V), RunText(value, r, V))
  BY TextsAppend
<1>3. RunText(value, << >>, V) = << >>
  BY EmptyRun
<1> QED
  BY <1>1, <1>2, <1>3

LEMMA WovenLetter ==
    ASSUME NEW S, NEW T, NEW L, Weave(S, T, L), NEW e \in Seq(S),
           NEW F, IsWoven(T, L, F), NEW U, U = Append(T, << >>), NEW M, M = Append(L, e), NEW G, IsWoven(U, M, G)
    PROVE  F \in Seq(S) /\ Joint(F, e, G)
<1>1. PICK z \in Seq(S) : z = << >>
  <2>1. << >> \in Seq(S)
    OBVIOUS
  <2> QED
    BY <2>1, Zenon
<1>2. F \in Seq(S) /\ Joined(F, e, z, G)
  BY <1>1, WovenAppend
<1>3. F \o e \in Seq(S)
  BY <1>2, ConcatProperties
<1>4. (F \o e) \o << >> = F \o e
  BY <1>3, ConcatEmptySeq
<1> QED
  BY <1>1, <1>2, <1>4 DEF Joined, Joint

LEMMA SpelledByLetter ==
    ASSUME NEW S, Alphabetic(S), NEW value \in Seq(S), NEW n \in Nat, NEW i \in 1..Len(value), i = n + 1,
           NEW L, NEW R, Laid(S, value, L, R, n), NEW V, i \notin V, value[i] \in Letters,
           NEW e, e = <<LowerOf(value[i])>>, Spelled(value, V, L, R, n)
    PROVE  Spelled(value, V, Append(L, e), Append(R, << >>), i)
<1>1. PICK N : /\ KeptSoFar(S, value, V, n, N)
               /\ i \notin V => Canonical(Keep(value, V, i)) = Lower(Compose(N, value[i]))
  BY KeptNext DEF KeptThen
<1>2. PICK c \in S : c = value[i]
  BY ElementOfSeq
<1>3. Compose(N, c) = Append(N, c)
  <2>1. c \notin Marks
    BY <1>2 DEF Letters, Marks
  <2> QED
    BY <2>1, ComposeOther
<1>4. N \in Seq(S) /\ LowerOf(c) \in S /\ Lower(Append(N, c)) = Append(Lower(N), LowerOf(c))
  BY <1>1, LowerAppend DEF Alphabetic, KeptSoFar
<1>5. e \in Seq(S)
  BY <1>2, <1>4, OneText
<1>6. PICK T : T = Texts(value, R, V) /\ Weave(S, T, L)
  BY LaidWeaves
<1>7. Texts(value, Append(R, << >>), V) = Append(T, << >>)
  <2>1. Runs(S, value, R)
    BY DEF Laid
  <2> QED
    BY <1>6, <2>1, TextsOfEmpty
<1>8. PICK F : IsWoven(T, L, F)
  BY DEF IsWoven
<1>9. PICK U, M, G : U = Append(T, << >>) /\ M = Append(L, e) /\ IsWoven(U, M, G)
  BY DEF IsWoven
<1>10. F \in Seq(S) /\ Joint(F, e, G)
  BY <1>5, <1>6, <1>8, <1>9, WovenLetter
<1>11. F \o e = Append(F, LowerOf(c))
  BY <1>2, <1>4, <1>10, AppendIsConcat
<1>12. Lower(N) = F
  BY <1>1, <1>6, <1>8 DEF KeptSoFar, Spelled, IsWoven
<1>13. Canonical(Keep(value, V, i)) = G
  BY <1>1, <1>2, <1>3, <1>4, <1>10, <1>11, <1>12 DEF Joint
<1> QED
  BY <1>7, <1>9, <1>13, Zenon DEF Spelled, IsWoven

LEMMA SpelledByMark ==
    ASSUME NEW S, Alphabetic(S), NEW value \in Seq(S), NEW n \in Nat, NEW i \in 1..Len(value), i = n + 1,
           NEW K \in Seq(Seq(S)), NEW t \in Seq(S), Whole(S, t),
           NEW R \in Seq(Seq(1..Len(value))), Len(R) = Len(K) + 1, NEW V, i \notin V, value[i] \in Marks,
           Spelled(value, V, Append(K, t), Append(R, << >>), n)
    PROVE  Spelled(value, V, Append(K, Marked(t, value[i])), Append(R, << >>), i)
<1>1. PICK N : /\ KeptSoFar(S, value, V, n, N)
               /\ i \notin V => Canonical(Keep(value, V, i)) = Lower(Compose(N, value[i]))
  BY KeptNext DEF KeptThen
<1>2. PICK c \in Marks : c = value[i]
  OBVIOUS
<1>3. PICK T : T = Texts(value, R, V) /\ Weave(S, T, K)
  <2>1. Runs(S, value, R)
    BY DEF Runs
  <2>2. Texts(value, R, V) \in Seq(Seq(S)) /\ Len(Texts(value, R, V)) = Len(R)
    BY <2>1, TextsAre
  <2> QED
    BY <2>2 DEF Weave
<1>4. Texts(value, Append(R, << >>), V) = Append(T, << >>)
  <2>1. Runs(S, value, R)
    BY DEF Runs
  <2> QED
    BY <1>3, <2>1, TextsOfEmpty
<1>5. PICK F : IsWoven(T, K, F)
  BY DEF IsWoven
<1>6. PICK U : U = Append(T, << >>)
  OBVIOUS
<1>7. F \in Seq(S) /\ \A e \in Seq(S) : \A M : M = Append(K, e) => \A G : IsWoven(U, M, G) => Joint(F, e, G)
  <2>1. F \in Seq(S)
    <3>1. PICK M, G : M = Append(K, t) /\ IsWoven(U, M, G)
      BY DEF IsWoven
    <3> QED
      BY <1>3, <1>5, <1>6, <3>1, WovenLetter
  <2> QED
    BY <1>3, <1>5, <1>6, <2>1, WovenLetter
<1>8. PICK L, G : L = Append(K, t) /\ IsWoven(U, L, G)
  BY DEF IsWoven
<1>9. Lower(N) = G
  BY <1>1, <1>4, <1>6, <1>8 DEF KeptSoFar, Spelled, IsWoven
<1>10. N \in Seq(S) /\ Ends(N, F, t)
  BY <1>1, <1>7, <1>8, <1>9 DEF KeptSoFar, Ends, Joint
<1>11. PICK e : e = Marked(t, c)
  OBVIOUS
<1>12. e \in Seq(S) /\ Ends(Compose(N, c), F, e)
  BY <1>2, <1>7, <1>10, <1>11, MarkedLetter
<1>13. PICK M, H : M = Append(K, e) /\ IsWoven(U, M, H)
  BY DEF IsWoven
<1>14. Joint(F, e, H)
  BY <1>7, <1>12, <1>13
<1>15. Canonical(Keep(value, V, i)) = H
  BY <1>1, <1>2, <1>12, <1>14 DEF Ends, Joint
<1> QED
  BY <1>2, <1>4, <1>6, <1>11, <1>13, <1>15, Zenon DEF Spelled, IsWoven

(* A run of separators with one more.                                       *)
LEMMA RunLonger ==
    ASSUME NEW S, NEW value \in Seq(S), NEW r \in Seq(1..Len(value)), NEW i \in 1..Len(value), NEW V,
           NEW s, s = Append(r, i), NEW u, u = IF i \in V THEN << >> ELSE <<value[i]>>,
           NEW t, t = RunText(value, r, V)
    PROVE  Joint(t, u, RunText(value, s, V))
<1>1. IsRun(S, value, r)
  BY DEF IsRun
<1>2. Grown(r, i, s)
  BY DEF Grown
<1> QED
  BY <1>1, <1>2, RunGrows

TextsGrow(value, R, V, r) == Texts(value, Append(R, r), V) = Append(Texts(value, R, V), RunText(value, r, V))

LEMMA TextsGrowOn ==
    ASSUME NEW S, NEW value, NEW R, Runs(S, value, R), NEW V, NEW r \in Seq(1..Len(value))
    PROVE  TextsGrow(value, R, V, r)
  BY TextsAppend DEF TextsGrow

LEMMA SpelledBySeparator ==
    ASSUME NEW S, Alphabetic(S), NEW value \in Seq(S), NEW n \in Nat, NEW i \in 1..Len(value), i = n + 1,
           NEW L, NEW R \in Seq(Seq(1..Len(value))), NEW r \in Seq(1..Len(value)),
           Laid(S, value, L, Append(R, r), n), i \in Separators(value), NEW V,
           Spelled(value, V, L, Append(R, r), n)
    PROVE  Spelled(value, V, L, Append(R, Append(r, i)), i)
<1>0. PICK N : KeptThen(S, value, V, n, i, N)
  BY KeptNext
<1>1. /\ KeptSoFar(S, value, V, n, N)
      /\ i \notin V => Canonical(Keep(value, V, i)) = Lower(Compose(N, value[i]))
      /\ i \in V => Canonical(Keep(value, V, i)) = Lower(N)
  BY <1>0 DEF KeptThen
<1>2. PICK c \in S : c = value[i]
  BY ElementOfSeq
<1>3. c \notin Letters \cup Marks /\ LowerOf(c) = c
  BY <1>2, SeparatorsAre, LowerOfIs
<1>4. Compose(N, c) = Append(N, c)
  BY <1>3, ComposeOther
<1>5. N \in Seq(S) /\ Lower(Append(N, c)) = Append(Lower(N), c)
  <2>1. N \in Seq(S) /\ Letters \subseteq S
    BY <1>1 DEF Alphabetic, KeptSoFar
  <2>2. Lower(Append(N, c)) = Append(Lower(N), LowerOf(c))
    BY <2>1, LowerAppend
  <2> QED
    BY <1>3, <2>1, <2>2
<1>6. Runs(S, value, R)
  BY DEF Runs
<1>7. PICK T \in Seq(Seq(S)) : T = Texts(value, R, V)
  BY <1>6, TextsAre
<1>8. PICK t \in Seq(S) : t = RunText(value, r, V) /\ Texts(value, Append(R, r), V) = Append(T, t)
  BY <1>6, <1>7, TextsAppend
<1>9. PICK s \in Seq(1..Len(value)) : s = Append(r, i)
  BY AppendProperties
<1>10. Texts(value, Append(R, s), V) = Append(T, RunText(value, s, V))
  <2>1. Texts(value, Append(R, s), V) = Append(Texts(value, R, V), RunText(value, s, V))
    <3>1. TextsGrow(value, R, V, s)
      BY <1>6, TextsGrowOn
    <3> QED
      BY <3>1 DEF TextsGrow
  <2> QED
    BY <1>7, <2>1, Zenon
<1>11. PICK u \in Seq(S) : u = IF i \in V THEN << >> ELSE <<c>>
  <2>1. << >> \in Seq(S) /\ <<c>> \in Seq(S)
    BY <1>2, OneText
  <2> QED
    BY <2>1, Zenon
<1>12. PICK v : v = RunText(value, s, V) /\ Joint(t, u, v)
  BY <1>2, <1>8, <1>9, <1>11, RunLonger
<1>13. PICK U : U = Append(T, t) /\ Weave(S, U, L)
  BY <1>8, LaidWeaves
<1>14. PICK F : IsWoven(U, L, F)
  BY DEF IsWoven
<1>15. PICK W, G : W = Append(T, v) /\ IsWoven(W, L, G)
  BY DEF IsWoven
<1>16. F \in Seq(S) /\ Joint(F, u, G)
  BY <1>12, <1>13, <1>14, <1>15, WovenLonger DEF Grown
<1>17. Lower(N) = F
  BY <1>1, <1>8, <1>13, <1>14 DEF KeptSoFar, Spelled, IsWoven
<1>18. Canonical(Keep(value, V, i)) = G
  <2>1. CASE i \in V
    BY <1>1, <1>11, <1>16, <1>17, <2>1, ConcatEmptySeq DEF Joint
  <2>2. CASE i \notin V
    <3>1. F \o u = Append(F, c)
      BY <1>2, <1>11, <1>16, <2>2, AppendIsConcat
    <3> QED
      BY <1>1, <1>2, <1>4, <1>5, <1>16, <1>17, <2>2, <3>1 DEF Joint
  <2> QED
    BY <2>1, <2>2
<1> QED
  BY <1>9, <1>10, <1>12, <1>15, <1>18, Zenon DEF Spelled, IsWoven

-----------------------------------------------------------------------------
(* How many separators remain.                                              *)
LEMMA LengthOfTexts ==
    ASSUME NEW S, NEW value, NEW R, Runs(S, value, R), NEW V
    PROVE  TextsLength(value, R, V) \in Nat
<1>1. PICK T \in Seq(Seq(S)) : T = Texts(value, R, V) /\ Len(T) = Len(R)
  BY TextsAre
<1>2. Part(T, 1, Len(T)) \in Seq(S)
  <2>1. PICK n \in Nat : n = Len(T)
    BY LenProperties
  <2>2. 1 + n <= Len(T) + 1 /\ 1 > 0
    BY <2>1
  <2>3. Part(T, 1, n) \in Seq(S)
    BY <2>2, PartIsText
  <2> QED
    BY <2>1, <2>3
<1>3. PICK x \in Seq(S) : x = Part(T, 1, Len(T))
  BY <1>2
<1>4. Len(x) \in Nat
  BY LenProperties
<1> QED
  BY <1>1, <1>3, <1>4 DEF TextsLength

LEMMA LengthAppends ==
    ASSUME NEW S, NEW value, NEW R, Runs(S, value, R), NEW V, NEW r \in Seq(1..Len(value)),
           NEW t, t = RunText(value, r, V), NEW Q, Grown(R, r, Q)
    PROVE  t \in Seq(S) /\ TextsLength(value, Q, V) = TextsLength(value, R, V) + Len(t)
<1>1. PICK T \in Seq(Seq(S)) : T = Texts(value, R, V) /\ Len(T) = Len(R)
  BY TextsAre
<1>2. t \in Seq(S) /\ Texts(value, Append(R, r), V) = Append(T, t) /\ Runs(S, value, Append(R, r))
  BY <1>1, TextsAppend
<1>3. PICK U : U = Append(T, t) /\ U = Texts(value, Q, V) /\ Runs(S, value, Q)
  BY <1>2 DEF Grown
<1>4. Len(U) = Len(Q)
  BY <1>3, TextsAre
<1>5. /\ Part(T, 1, Len(T)) \in Seq(S)
      /\ Part(Append(T, t), 1, Len(Append(T, t))) = Part(T, 1, Len(T)) \o t
  BY <1>2, PartAppend
<1>6. PICK x \in Seq(S) : x = Part(T, 1, Len(T))
  BY <1>5
<1>7. PICK y \in Seq(S) : y = Part(U, 1, Len(U)) /\ y = x \o t
  BY <1>2, <1>3, <1>5, <1>6, ConcatProperties
<1>8. Len(y) = Len(x) + Len(t)
  BY <1>2, <1>7, ConcatProperties
<1>9. TextsLength(value, Q, V) = Len(y) /\ TextsLength(value, R, V) = Len(x)
  BY <1>1, <1>3, <1>4, <1>6, <1>7 DEF TextsLength
<1> QED
  BY <1>2, <1>8, <1>9

LEMMA CountedByOther ==
    ASSUME NEW S, NEW value \in Seq(S), NEW n \in Nat, NEW i \in 1..Len(value), i = n + 1,
           NEW R, i \notin Separators(value), NEW V, Counted(value, V, R, n)
    PROVE  Counted(value, V, R, i)
<1>1. UpTo(value, i) = UpTo(value, n)
  <2>1. ASSUME NEW x \in Separators(value) PROVE x <= i <=> x <= n
    <3>1. x \in Nat /\ x # i
      BY SeparatorsAre
    <3> QED
      BY <3>1
  <2> QED
    BY <2>1 DEF UpTo
<1> QED
  BY <1>1 DEF Counted

LEMMA CountedByEmpty ==
    ASSUME NEW S, NEW value, NEW R, Runs(S, value, R), NEW n, NEW V, Counted(value, V, R, n)
    PROVE  Counted(value, V, Append(R, << >>), n)
<1>1. PICK r \in Seq(1..Len(value)) : r = << >>
  <2>1. << >> \in Seq(1..Len(value))
    OBVIOUS
  <2> QED
    BY <2>1, Zenon
<1>2. RunText(value, r, V) = << >>
  BY <1>1, EmptyRun
<1>3. PICK Q : Grown(R, r, Q)
  BY DEF Grown
<1>4. TextsLength(value, Q, V) = TextsLength(value, R, V) + Len(<< >>)
  BY <1>2, <1>3, LengthAppends
<1>5. TextsLength(value, Q, V) = TextsLength(value, R, V)
  BY <1>4, LengthOfTexts
<1> QED
  BY <1>1, <1>3, <1>5 DEF Counted, Grown

LEMMA CountedBySeparator ==
    ASSUME NEW S, NEW value \in Seq(S), NEW n \in Nat, NEW i \in 1..Len(value), i = n + 1,
           NEW R, Runs(S, value, R), NEW r \in Seq(1..Len(value)), i \in Separators(value), NEW V,
           NEW P, Grown(R, r, P), NEW Q, Grown(R, Append(r, i), Q), Counted(value, V, P, n)
    PROVE  Counted(value, V, Q, i)
<1>1. PICK s \in Seq(1..Len(value)) : s = Append(r, i)
  BY AppendProperties
<1>2. PICK u : u = IF i \in V THEN << >> ELSE <<value[i]>>
  OBVIOUS
<1>3. PICK t : t = RunText(value, r, V)
  OBVIOUS
<1>4. PICK v : v = RunText(value, s, V) /\ Joint(t, u, v)
  BY <1>1, <1>2, <1>3, RunLonger
<1>5. t \in Seq(S) /\ TextsLength(value, P, V) = TextsLength(value, R, V) + Len(t)
  BY <1>3, LengthAppends
<1>6. v \in Seq(S) /\ TextsLength(value, Q, V) = TextsLength(value, R, V) + Len(v)
  <2>1. Grown(R, s, Q)
    BY <1>1
  <2> QED
    BY <1>4, <2>1, LengthAppends
<1>7. value[i] \in S
  BY ElementOfSeq
<1>8. u \in Seq(S) /\ Len(u) = IF i \in V THEN 0 ELSE 1
  BY <1>2, <1>7, OneText
<1>9. Len(v) = Len(t) + Len(u) /\ Len(t) \in Nat
  BY <1>4, <1>5, <1>8, ConcatProperties, LenProperties DEF Joint
<1>10. TextsLength(value, R, V) \in Nat
  BY LengthOfTexts
<1>11. PICK A : A = UpTo(value, n) \ V
  OBVIOUS
<1>12. UpTo(value, i) \ V = IF i \in V THEN A ELSE A \cup {i}
  <2>1. ASSUME NEW x \in Separators(value) PROVE x <= i <=> x <= n \/ x = i
    <3>1. x \in Nat
      BY SeparatorsAre
    <3> QED
      BY <3>1
  <2>2. i <= i
    BY SeparatorsAre
  <2> QED
    BY <1>11, <2>1, <2>2 DEF UpTo
<1>13. IsFiniteSet(A) /\ i \notin A
  <2>1. A \subseteq 1..Len(value) /\ Len(value) \in Nat
    BY <1>11, SeparatorsAre DEF UpTo
  <2>2. IsFiniteSet(1..Len(value))
    BY <2>1, FS_Interval
  <2>3. ~(i <= n)
    OBVIOUS
  <2> QED
    BY <1>11, <2>1, <2>2, <2>3, FS_Subset DEF UpTo
<1>14. Cardinality(A) \in Nat /\ Cardinality(A \cup {i}) = Cardinality(A) + 1
  BY <1>13, FS_AddElement, FS_CardinalityType
<1>15. Cardinality(A) = TextsLength(value, P, V)
  BY <1>11 DEF Counted
<1>16. Cardinality(UpTo(value, i) \ V) = TextsLength(value, Q, V)
  <2>1. PICK a, b, x, y, z : a = Len(t) /\ b = Len(u) /\ x = TextsLength(value, R, V)
                             /\ y = TextsLength(value, P, V) /\ z = TextsLength(value, Q, V)
    OBVIOUS
  <2>2. a \in Nat /\ x \in Nat /\ y = x + a /\ z = x + (a + b) /\ b = (IF i \in V THEN 0 ELSE 1)
    BY <1>5, <1>6, <1>8, <1>9, <1>10, <2>1, Zenon
  <2>3. z = y + b
    BY <2>2
  <2>4. Cardinality(UpTo(value, i) \ V) = y + b
    <3>1. CASE i \in V
      <4>1. Cardinality(UpTo(value, i) \ V) = y /\ b = 0 /\ y \in Nat
        BY <1>12, <1>14, <1>15, <2>1, <2>2, <3>1
      <4> QED
        BY <4>1
    <3>2. CASE i \notin V
      BY <1>12, <1>14, <1>15, <2>1, <2>2, <3>2
    <3> QED
      BY <3>1, <3>2
  <2> QED
    BY <2>1, <2>3, <2>4
<1> QED
  BY <1>16 DEF Counted

-----------------------------------------------------------------------------
(* The letters and runs of a name: what they spell without some separators, *)
(* and how many separators remain.                                          *)
Told(S, value, L, R, n) ==
    /\ Laid(S, value, L, R, n)
    /\ \A V \in SUBSET Separators(value) : Spelled(value, V, L, R, n) /\ Counted(value, V, R, n)
LaidOut(S, value, p, n) == \E L, R : p = Splitting(L, R) /\ Told(S, value, L, R, n)

LEMMA LaidOutStarts ==
    ASSUME NEW S, Alphabetic(S), NEW value \in Seq(S)
    PROVE  LaidOut(S, value, SplitStart, 0)
<1>1. PICK L : L = << >>
  OBVIOUS
<1>2. L \in Seq(Seq(S)) /\ Len(L) = 0
  BY <1>1
<1>3. PICK N \in Seq(Seq(1..Len(value))) : N = << >> /\ Len(N) = 0
  <2>1. << >> \in Seq(Seq(1..Len(value))) /\ Len(<< >>) = 0
    OBVIOUS
  <2> QED
    BY <2>1, Zenon
<1>4. << >> \in Seq(1..Len(value)) /\ Len(<< >>) = 0
  OBVIOUS
<1>5. PICK R \in Seq(Seq(1..Len(value))) : R = Append(N, << >>)
  BY <1>4, AppendProperties
<1>6. Len(R) = 1 /\ R[1] = << >>
  <2>1. Len(R) = 0 + 1 /\ R[0 + 1] = << >>
    BY <1>3, <1>4, <1>5, AppendProperties
  <2> QED
    BY <2>1
<1>7. Runs(S, value, R) /\ Runs(S, value, N)
  BY DEF Runs
<1>8. SplitStart = Splitting(L, R)
  <2>1. << << >> >> = Append(<< >>, << >>)
    OBVIOUS
  <2> QED
    BY <1>1, <1>3, <1>5, <2>1 DEF SplitStart, Splitting
<1>9. Laid(S, value, L, R, 0)
  <2>1. \A a \in 1..Len(R) : \A x \in 1..Len(R[a]) : FALSE
    <3> TAKE a \in 1..Len(R)
    <3>1. Len(R[a]) = 0
      BY <1>4, <1>6
    <3> QED
      BY <3>1
  <2>2. \A a \in 1..Len(L) : FALSE
    BY <1>2
  <2>3. OfSeparators(value, R, 0) /\ Apart(R)
    BY <2>1, Zenon DEF OfSeparators, Apart
  <2>4. Formed(S, L)
    BY <2>2 DEF Formed
  <2>5. Open(value, L, R, 0)
    BY DEF Open
  <2>6. Len(R) = Len(L) + 1
    BY <1>2, <1>6
  <2> QED
    BY <1>2, <1>7, <2>3, <2>4, <2>5, <2>6 DEF Laid
<1>10. ASSUME NEW V PROVE Spelled(value, V, L, R, 0)
  <2>1. Canonical(Keep(value, V, 0)) = << >>
    <3>1. Keep(value, V, 0) = << >>
      BY DEF Keep, KeptPieces, FlattenSeq
    <3>2. PICK c \in S : c = "a"
      BY DEF Alphabetic, Letters
    <3>3. Nfc(<< >>) = << >>
      <4>1. << >> \in Seq(S)
        OBVIOUS
      <4> QED
        BY <3>2, <4>1, NfcAppend
    <3>4. Lower(<< >>) = << >>
      BY DEF Lower
    <3> QED
      BY <3>1, <3>3, <3>4 DEF Canonical
  <2>2. PICK T : T = Texts(value, R, V) /\ Weave(S, T, L)
    BY <1>9, LaidWeaves
  <2>3. Woven(T, L, 0) = T[1]
    BY <2>2, WovenFirst
  <2>4. T[1] = << >>
    <3>1. 1 \in 1..Len(R)
      BY <1>6
    <3>2. Texts(value, R, V)[1] = RunText(value, R[1], V)
      BY <1>7, <3>1, TextIs
    <3> QED
      BY <1>6, <2>2, <3>2, EmptyRun
  <2> QED
    BY <1>2, <2>1, <2>2, <2>3, <2>4 DEF Spelled
<1>11. ASSUME NEW V PROVE Counted(value, V, R, 0)
  <2>1. Counted(value, V, N, 0)
    <3>1. UpTo(value, 0) = {}
      <4>1. \A x \in Separators(value) : ~(x <= 0)
        BY SeparatorsAre
      <4> QED
        BY <4>1 DEF UpTo
    <3>2. Cardinality(UpTo(value, 0) \ V) = 0
      <4>1. UpTo(value, 0) \ V = {}
        BY <3>1
      <4> QED
        BY <4>1, FS_EmptySet
    <3>3. TextsLength(value, N, V) = 0
      BY <1>3, <1>4, PartNone DEF TextsLength
    <3> QED
      BY <3>2, <3>3 DEF Counted
  <2> QED
    BY <1>5, <1>7, <2>1, CountedByEmpty
<1> QED
  BY <1>8, <1>9, <1>10, <1>11 DEF LaidOut, Told

LEMMA MarkedWhole ==
    ASSUME NEW S, Alphabetic(S), NEW t \in Seq(S), Whole(S, t), NEW c \in Marks
    PROVE  Marked(t, c) \in Seq(S) /\ Whole(S, Marked(t, c))
<1>1. Lower(t) = t
  <2>1. CASE t = <<"a">>
    <3>1. "a" \in S
      BY DEF Alphabetic, Letters
    <3> QED
      BY <2>1, <3>1, OneCharacter, LowerOfIs
  <2>2. CASE \E u \in Seq(S), x \in S : Closed(S, t, u, x)
    BY <2>2 DEF Closed
  <2> QED
    BY <2>1, <2>2 DEF Whole
<1>2. PICK F \in Seq(S) : F = << >>
  <2>1. << >> \in Seq(S)
    OBVIOUS
  <2> QED
    BY <2>1, Zenon
<1>3. Ends(t, F, t)
  <2>1. F \o t = t
    BY <1>2, ConcatEmptySeq
  <2> QED
    BY <1>1, <2>1 DEF Ends
<1> QED
  BY <1>2, <1>3, MarkedLetter

LEMMA TellsLetter ==
    ASSUME NEW S, Alphabetic(S), NEW value \in Seq(S), NEW n \in Nat, NEW i \in 1..Len(value), i = n + 1,
           NEW p, LaidOut(S, value, p, n), value[i] \in Letters
    PROVE  LaidOut(S, value, SplitNext(value, p, i), i)
<1>1. PICK L, R : p = Splitting(L, R) /\ Told(S, value, L, R, n)
  BY DEF LaidOut
<1>2. p.letters = L /\ p.separators = R /\ Laid(S, value, L, R, n)
  BY <1>1 DEF Splitting, Told
<1>3. PICK e \in Seq(S) : e = Canonical(<<value[i]>>) /\ e = <<LowerOf(value[i])>> /\ Whole(S, e)
  BY LetterIsWhole
<1>4. LetterForm(e)
  <2>1. LowerOf(value[i]) \in Letters
    BY LowerOfIs
  <2> QED
    BY <1>3, <2>1, LetterForms
<1>5. PICK M, Q : M = Append(L, e) /\ Q = Append(R, << >>)
  OBVIOUS
<1>6. SplitNext(value, p, i) = Splitting(M, Q)
  BY <1>2, <1>3, <1>5 DEF SplitNext, Splitting
<1>7. Laid(S, value, M, Q, i)
  BY <1>2, <1>3, <1>4, <1>5, LaidByLetter
<1>8. i \notin Separators(value)
  BY SeparatorsAre
<1>9. ASSUME NEW V \in SUBSET Separators(value) PROVE Spelled(value, V, M, Q, i) /\ Counted(value, V, Q, i)
  <2>1. Spelled(value, V, L, R, n) /\ Counted(value, V, R, n)
    BY <1>1 DEF Told
  <2>2. Spelled(value, V, M, Q, i)
    BY <1>2, <1>3, <1>5, <1>8, <2>1, SpelledByLetter
  <2>3. Runs(S, value, R)
    BY <1>2 DEF Laid
  <2>4. Counted(value, V, R, i)
    BY <1>8, <2>1, CountedByOther
  <2>5. Counted(value, V, Q, i)
    BY <1>5, <2>3, <2>4, CountedByEmpty
  <2> QED
    BY <2>2, <2>5
<1> QED
  BY <1>6, <1>7, <1>9 DEF LaidOut, Told

LEMMA TellsMark ==
    ASSUME NEW S, Alphabetic(S), NEW value \in Seq(S), WellFormed(value),
           NEW n \in Nat, NEW i \in 1..Len(value), i = n + 1,
           NEW p, LaidOut(S, value, p, n), value[i] \in Marks
    PROVE  LaidOut(S, value, SplitNext(value, p, i), i)
<1>1. PICK L, R : p = Splitting(L, R) /\ Told(S, value, L, R, n)
  BY DEF LaidOut
<1>2. /\ p.letters = L /\ p.separators = R /\ Laid(S, value, L, R, n)
      /\ L \in Seq(Seq(S)) /\ R \in Seq(Seq(1..Len(value))) /\ Len(R) = Len(L) + 1
  BY <1>1 DEF Splitting, Told, Laid, Runs
<1>3. Len(L) > 0 /\ R[Len(R)] = << >>
  <2>1. i \in DOMAIN value
    BY LenProperties
  <2>2. i > 1 /\ value[i - 1] \in Letters \cup Marks
    BY <2>1 DEF WellFormed
  <2>3. n > 0 /\ value[n] \in Letters \cup Marks
    BY <2>2
  <2> QED
    BY <1>2, <2>3 DEF Laid, Open
<1>4. PICK K \in Seq(Seq(S)), t \in Seq(S) : L = Append(K, t)
  <2>1. L # << >>
    BY <1>3
  <2> QED
    BY <1>2, <2>1, SequenceEmptyOrAppend
<1>5. PICK k \in Nat : k = Len(K) /\ Len(L) = k + 1 /\ L[k + 1] = t
  BY <1>4, AppendProperties, LenProperties
<1>6. Whole(S, t) /\ LetterForm(t)
  <2>1. k + 1 \in 1..Len(L) /\ Formed(S, L)
    BY <1>2, <1>5 DEF Laid
  <2> QED
    BY <1>5, <2>1 DEF Formed
<1>7. PICK P \in Seq(Seq(1..Len(value))) : R = Append(P, << >>) /\ Len(P) = Len(K) + 1
  <2>1. R # << >>
    BY <1>2, <1>3
  <2>2. PICK P \in Seq(Seq(1..Len(value))), r \in Seq(1..Len(value)) : R = Append(P, r)
    BY <1>2, <2>1, SequenceEmptyOrAppend
  <2>3. Len(R) = Len(P) + 1 /\ R[Len(P) + 1] = r /\ Len(P) \in Nat
    BY <2>2, AppendProperties, LenProperties
  <2>4. r = << >> /\ Len(P) = k + 1
    <3>1. Len(R) = Len(L) + 1 /\ R[Len(R)] = << >> /\ Len(L) = k + 1
      BY <1>2, <1>3, <1>5
    <3>2. Len(P) = k + 1
      BY <2>3, <3>1
    <3> QED
      BY <2>3, <3>1, <3>2, Zenon
  <2> QED
    BY <1>5, <2>2, <2>4
<1>8. PICK e : e = Marked(t, value[i]) /\ e = Canonical(Append(t, value[i]))
  BY DEF Marked
<1>9. e \in Seq(S) /\ Whole(S, e) /\ LetterForm(e)
  BY <1>6, <1>8, MarkedWhole, MarkedForm
<1>10. PICK M : M = Append(K, e)
  OBVIOUS
<1>11. [L EXCEPT ![Len(L)] = e] = M
  <2>1. Grown(K, t, L) /\ Grown(K, e, M) /\ Len(L) = Len(K) + 1
    BY <1>4, <1>5, <1>10 DEF Grown
  <2> QED
    BY <1>9, <2>1, ExceptLast
<1>12. SplitNext(value, p, i) = Splitting(M, R)
  <2>1. value[i] \notin Letters
    BY DEF Letters, Marks
  <2>2. Canonical(Append(L[Len(L)], value[i])) = e
    BY <1>5, <1>8
  <2>3. PICK N : N = [L EXCEPT ![Len(L)] = e]
    OBVIOUS
  <2>4. SplitNext(value, p, i) = Splitting(N, R)
    BY <1>1, <1>2, <1>3, <2>1, <2>2, <2>3 DEF SplitNext, Splitting
  <2> QED
    BY <1>11, <2>3, <2>4
<1>13. Laid(S, value, M, R, i)
  <2>1. Laid(S, value, Append(K, t), R, n)
    BY <1>2, <1>4, Zenon
  <2>2. Laid(S, value, Append(K, e), R, i)
    BY <1>3, <1>9, <2>1, LaidByMark, Zenon
  <2> QED
    BY <1>10, <2>2, Zenon
<1>14. i \notin Separators(value)
  BY SeparatorsAre
<1>15. ASSUME NEW V \in SUBSET Separators(value) PROVE Spelled(value, V, M, R, i) /\ Counted(value, V, R, i)
  <2>1. Spelled(value, V, L, R, n) /\ Counted(value, V, R, n)
    BY <1>1 DEF Told
  <2>2. Spelled(value, V, M, R, i)
    BY <1>4, <1>6, <1>7, <1>8, <1>10, <1>14, <2>1, SpelledByMark
  <2>3. Counted(value, V, R, i)
    BY <1>14, <2>1, CountedByOther
  <2> QED
    BY <2>2, <2>3
<1> QED
  BY <1>12, <1>13, <1>15 DEF LaidOut, Told

LEMMA TellsSeparator ==
    ASSUME NEW S, Alphabetic(S), NEW value \in Seq(S), NEW n \in Nat, NEW i \in 1..Len(value), i = n + 1,
           NEW p, LaidOut(S, value, p, n), value[i] \notin Letters \cup Marks
    PROVE  LaidOut(S, value, SplitNext(value, p, i), i)
<1>1. PICK L, R : p = Splitting(L, R) /\ Told(S, value, L, R, n)
  BY DEF LaidOut
<1>2. /\ p.letters = L /\ p.separators = R /\ Laid(S, value, L, R, n)
      /\ L \in Seq(Seq(S)) /\ R \in Seq(Seq(1..Len(value))) /\ Len(R) = Len(L) + 1
  BY <1>1 DEF Splitting, Told, Laid, Runs
<1>3. i \in Separators(value)
  BY SeparatorsAre
<1>4. PICK P \in Seq(Seq(1..Len(value))), r \in Seq(1..Len(value)) : R = Append(P, r)
  <2>1. R # << >>
    <3>1. Len(R) > 0
      BY <1>2, LenProperties
    <3> QED
      BY <3>1
  <2> QED
    BY <1>2, <2>1, SequenceEmptyOrAppend
<1>5. PICK k \in Nat : k = Len(P) /\ Len(R) = k + 1 /\ R[k + 1] = r
  BY <1>4, AppendProperties, LenProperties
<1>6. PICK s \in Seq(1..Len(value)) : s = Append(r, i)
  BY AppendProperties
<1>7. PICK Q : Q = Append(P, s)
  OBVIOUS
<1>8. [R EXCEPT ![k + 1] = s] = Q
  <2>1. Grown(P, r, R) /\ Grown(P, s, Q) /\ k + 1 = Len(P) + 1
    BY <1>4, <1>5, <1>7 DEF Grown
  <2> QED
    BY <2>1, ExceptLast
<1>9. SplitNext(value, p, i) = Splitting(L, Q)
  <2>1. value[i] \notin Letters /\ value[i] \notin Marks
    OBVIOUS
  <2>2. SplitNext(value, p, i) = Splitting(L, [R EXCEPT ![Len(L) + 1] = Append(R[Len(L) + 1], i)])
    <3>1. SplitNext(value, Splitting(L, R), i) =
              Splitting(L, [R EXCEPT ![Len(L) + 1] = Append(R[Len(L) + 1], i)])
      BY <2>1, Zenon DEF SplitNext, Splitting
    <3> QED
      BY <1>1, <3>1, Zenon
  <2>3. Len(L) + 1 = k + 1 /\ R[Len(L) + 1] = r
    BY <1>2, <1>5
  <2>4. [R EXCEPT ![Len(L) + 1] = Append(R[Len(L) + 1], i)] = Q
    BY <1>6, <1>8, <2>3
  <2> QED
    BY <2>2, <2>4
<1>10. Laid(S, value, L, Q, i)
  <2>1. Laid(S, value, L, Append(P, r), n)
    BY <1>2, <1>4, Zenon
  <2>2. Laid(S, value, L, Append(P, Append(r, i)), i)
    BY <1>3, <2>1, LaidBySeparator
  <2>3. Q = Append(P, Append(r, i))
    BY <1>6, <1>7, Zenon
  <2> QED
    BY <2>2, <2>3, Zenon
<1>11. ASSUME NEW V \in SUBSET Separators(value) PROVE Spelled(value, V, L, Q, i) /\ Counted(value, V, Q, i)
  <2>1. Spelled(value, V, L, R, n) /\ Counted(value, V, R, n)
    BY <1>1 DEF Told
  <2>2. Spelled(value, V, L, Q, i)
    <3>1. Laid(S, value, L, Append(P, r), n) /\ Spelled(value, V, L, Append(P, r), n)
      BY <1>2, <1>4, <2>1, Zenon
    <3>2. Spelled(value, V, L, Append(P, Append(r, i)), i)
      BY <1>3, <3>1, SpelledBySeparator
    <3>3. Q = Append(P, Append(r, i))
      BY <1>6, <1>7, Zenon
    <3> QED
      BY <3>2, <3>3, Zenon
  <2>3. Grown(P, r, R) /\ Grown(P, Append(r, i), Q) /\ Runs(S, value, P)
    BY <1>4, <1>6, <1>7 DEF Grown, Runs
  <2>4. Counted(value, V, Q, i)
    BY <1>3, <2>1, <2>3, CountedBySeparator
  <2> QED
    BY <2>2, <2>4
<1> QED
  BY <1>9, <1>10, <1>11 DEF LaidOut, Told

(* After the last character.                                                *)
LEMMA NamesAreLaidOut ==
    ASSUME NEW S, Alphabetic(S), NEW value \in Seq(S), WellFormed(value)
    PROVE  LaidOut(S, value, splitLettersAndSeparators(value), Len(value))
<1>1. PICK n \in Nat : n = Len(value)
  BY LenProperties
<1>2. PICK st : Splits(value, st) /\ splitLettersAndSeparators(value) = st[n]
  BY <1>1, SplitRun
<1> DEFINE P == {i \in Nat : i <= n => LaidOut(S, value, st[i], i)}
<1>3. 0 \in P
  <2>1. st[0] = SplitStart
    BY <1>2 DEF Splits
  <2> QED
    BY <2>1, LaidOutStarts
<1>4. ASSUME NEW i \in P PROVE i + 1 \in P
  <2> SUFFICES ASSUME i + 1 <= n PROVE LaidOut(S, value, st[i + 1], i + 1)
    OBVIOUS
  <2>1. PICK j \in 1..n : j = i + 1 /\ j - 1 = i
    OBVIOUS
  <2>2. i \in Nat /\ LaidOut(S, value, st[i], i)
    BY <2>1
  <2>3. st[j] = SplitNext(value, st[i], j)
    BY <1>1, <1>2, <2>1 DEF Splits
  <2>4. j \in 1..Len(value)
    BY <1>1
  <2>5. LaidOut(S, value, SplitNext(value, st[i], j), j)
    BY <2>1, <2>2, <2>4, TellsLetter, TellsMark, TellsSeparator
  <2> QED
    BY <2>1, <2>3, <2>5
<1> HIDE DEF P
<1>5. P \in SUBSET Nat => P = Nat
  BY <1>3, <1>4, ByInduction
<1>6. LaidOut(S, value, st[n], n)
  BY <1>5 DEF P
<1> QED
  BY <1>1, <1>2, <1>6

-----------------------------------------------------------------------------
(* What is left of a run of separators has no letter.                       *)
LEMMA RunIsClear ==
    ASSUME NEW S, NEW w, NEW run, IsRun(S, w, run), NEW V, NEW C,
           \A x \in 1..Len(run) : w[run[x]] \notin C
    PROVE  Clear(C, RunText(w, run, V))
<1>1. PICK n \in Nat : n = Len(run)
  BY LenProperties DEF IsRun
<1>2. PICK B : B = RunPieces(w, run, V)
  OBVIOUS
<1>3. PICK D : D = S \ C
  OBVIOUS
<1>4. B \in Seq(Seq(D)) /\ Len(B) = n
  <2>1. ASSUME NEW j \in 1..n PROVE RunPiece(w, run, V, j) \in Seq(D)
    <3>1. w[run[j]] \in D
      BY <1>1, <1>3, RunPieceIs
    <3>2. << >> \in Seq(D) /\ <<w[run[j]]>> \in Seq(D)
      BY <3>1, OneText
    <3> QED
      BY <3>2 DEF RunPiece
  <2>2. B \in [1..n -> Seq(D)]
    BY <1>1, <1>2, <2>1 DEF RunPieces
  <2> QED
    BY <2>2, SequenceOf
<1>5. Part(B, 1, n) \in Seq(D)
  <2>1. 1 + n <= Len(B) + 1 /\ 1 > 0
    BY <1>4
  <2> QED
    BY <1>4, <2>1, PartIsText
<1>6. RunText(w, run, V) = Part(B, 1, n)
  <2>1. (n + 1) - 1 = n
    OBVIOUS
  <2> QED
    BY <1>1, <1>2, <2>1 DEF RunText, RunFrom
<1>7. PICK t \in Seq(D) : t = RunText(w, run, V)
  BY <1>5, <1>6
<1>8. \A i \in 1..Len(t) : t[i] \in D
  BY ElementOfSeq
<1> QED
  BY <1>3, <1>7, <1>8 DEF Clear

LEMMA LaidIsReadable ==
    ASSUME NEW S, NEW value \in Seq(S), NEW L, NEW R, NEW n, Laid(S, value, L, R, n), NEW V
    PROVE  Readable(Texts(value, R, V), L)
<1>1. /\ L \in Seq(Seq(S)) /\ Runs(S, value, R) /\ Len(R) = Len(L) + 1
      /\ Formed(S, L) /\ OfSeparators(value, R, n)
  BY DEF Laid
<1>2. \A i \in 1..Len(L) : LetterForm(L[i])
  BY <1>1 DEF Formed
<1>3. ASSUME NEW i \in 1..Len(R) PROVE Clear(Letters \cup Marks, Texts(value, R, V)[i])
  <2>1. PICK run : run = R[i] /\ IsRun(S, value, run)
    BY <1>1, TextIs
  <2>2. ASSUME NEW x \in 1..Len(run) PROVE value[run[x]] \notin Letters \cup Marks
    <3>1. run[x] \in Separators(value)
      BY <1>1, <2>1 DEF OfSeparators
    <3> QED
      BY <3>1, SeparatorsAre
  <2>3. PICK C : C = Letters \cup Marks
    OBVIOUS
  <2>4. Clear(C, RunText(value, run, V))
    BY <2>1, <2>2, <2>3, RunIsClear
  <2>5. Texts(value, R, V)[i] = RunText(value, R[i], V)
    BY <1>1, TextIs
  <2> QED
    BY <2>1, <2>3, <2>4, <2>5
<1> QED
  BY <1>1, <1>2, <1>3 DEF Readable

(* A name without some separators tells its letters and what is left of the *)
(* runs between them.                                                       *)
LEMMA SameWoven ==
    ASSUME NEW S, NEW w \in Seq(S), NEW L, NEW R, NEW n, Laid(S, w, L, R, n),
           NEW c \in Seq(S), NEW M, NEW Q, NEW m, Laid(S, c, M, Q, m), NEW V, NEW D,
           Spelled(w, V, L, R, n), Spelled(c, D, M, Q, m),
           Canonical(Keep(w, V, n)) = Canonical(Keep(c, D, m))
    PROVE  L = M /\ Texts(w, R, V) = Texts(c, Q, D)
<1>1. PICK T, U : T = Texts(w, R, V) /\ U = Texts(c, Q, D)
  OBVIOUS
<1>2. Weave(S, T, L) /\ Readable(T, L) /\ Weave(S, U, M) /\ Readable(U, M)
  BY <1>1, LaidWeaves, LaidIsReadable
<1>3. /\ T \in Seq(Seq(S)) /\ L \in Seq(Seq(S)) /\ Len(T) = Len(L) + 1
      /\ U \in Seq(Seq(S)) /\ M \in Seq(Seq(S)) /\ Len(U) = Len(M) + 1
  BY <1>2 DEF Weave
<1>4. PICK j, k : j = Len(L) /\ k = Len(M) /\ j \in 0..Len(L) /\ k \in 0..Len(M)
  <2>1. Len(L) \in Nat /\ Len(M) \in Nat
    BY <1>2, WeaveTypes
  <2>2. Len(L) \in 0..Len(L) /\ Len(M) \in 0..Len(M)
    BY <2>1
  <2> QED
    BY <2>2, Zenon
<1>5. Woven(T, L, j) = Woven(U, M, k)
  BY <1>1, <1>4 DEF Spelled
<1>6. j = k /\ SameUpTo(T, L, U, M, j)
  BY <1>2, <1>4, <1>5, Unwoven
<1>7. L = M
  BY <1>3, <1>4, <1>6, SeqEqual DEF SameUpTo
<1>8. T = U
  <2>1. Len(T) = Len(U) /\ \A i \in 1..Len(T) : T[i] = U[i]
    BY <1>3, <1>4, <1>6 DEF SameUpTo
  <2> QED
    BY <1>3, <2>1, SeqEqual
<1> QED
  BY <1>1, <1>7, <1>8

(* Longer texts, one after the other.                                       *)
LEMMA PartLengths ==
    ASSUME NEW S, NEW T \in Seq(Seq(S)), NEW U \in Seq(Seq(S)), Len(T) = Len(U),
           \A i \in 1..Len(T) : Len(T[i]) <= Len(U[i])
    PROVE  Len(Part(T, 1, Len(T))) <= Len(Part(U, 1, Len(U)))
<1>1. PICK n \in Nat : n = Len(T) /\ n = Len(U)
  BY LenProperties
<1> DEFINE P == {k \in Nat : k <= n => Len(Part(T, 1, k)) <= Len(Part(U, 1, k))}
<1>2. 0 \in P
  <2>1. Part(T, 1, 0) = << >> /\ Part(U, 1, 0) = << >> /\ Len(<< >>) = 0
    BY PartNone
  <2> QED
    BY <2>1
<1>3. ASSUME NEW k \in P PROVE k + 1 \in P
  <2> SUFFICES ASSUME k + 1 <= n PROVE Len(Part(T, 1, k + 1)) <= Len(Part(U, 1, k + 1))
    OBVIOUS
  <2>1. k \in Nat /\ 1 + k <= Len(T) /\ 1 + k <= Len(U) /\ 1 > 0 /\ 1 \in Nat
    BY <1>1
  <2>2. Part(T, 1, k) \in Seq(S) /\ Part(T, 1, k + 1) = Part(T, 1, k) \o T[1 + k]
    BY <2>1, PartGrows
  <2>3. Part(U, 1, k) \in Seq(S) /\ Part(U, 1, k + 1) = Part(U, 1, k) \o U[1 + k]
    BY <2>1, PartGrows
  <2>4. PICK j \in 1..n : j = 1 + k
    BY <1>1, <2>1
  <2>5. T[j] \in Seq(S) /\ U[j] \in Seq(S) /\ Len(T[j]) <= Len(U[j])
    BY <1>1, ElementOfSeq
  <2>6. PICK x \in Seq(S), y \in Seq(S), s \in Seq(S), t \in Seq(S) :
            x = Part(T, 1, k) /\ y = Part(U, 1, k) /\ s = T[j] /\ t = U[j]
    BY <2>2, <2>3, <2>5
  <2>7. Len(x) <= Len(y) /\ Len(s) <= Len(t)
    BY <1>1, <2>1, <2>5, <2>6
  <2>8. Len(x \o s) = Len(x) + Len(s) /\ Len(y \o t) = Len(y) + Len(t)
    BY ConcatProperties
  <2>9. Len(x) \in Nat /\ Len(y) \in Nat /\ Len(s) \in Nat /\ Len(t) \in Nat
    BY LenProperties
  <2>10. Len(x \o s) <= Len(y \o t)
    BY <2>7, <2>8, <2>9
  <2> QED
    BY <2>2, <2>3, <2>4, <2>6, <2>10
<1> HIDE DEF P
<1>4. P \in SUBSET Nat => P = Nat
  BY <1>2, <1>3, ByInduction
<1> QED
  BY <1>1, <1>4 DEF P

-----------------------------------------------------------------------------
(* What is highlighted in the runs of two names with the same letters.      *)
PartOf(w, c, R, Q, i) == markSeparatorDifferences(w, c, R[i], Q[i])
MarkedInW(w, c, R, Q) == UNION {PartOf(w, c, R, Q, i).wikidata : i \in 1..Len(R)}
MarkedInC(w, c, R, Q) == UNION {PartOf(w, c, R, Q, i).cldr : i \in 1..Len(R)}
LongestRun(w, c, R, Q, i) ==
    LongestLeft(w, c, R[i], Q[i], PartOf(w, c, R, Q, i).wikidata, PartOf(w, c, R, Q, i).cldr)

LEMMA RunsAreOnce ==
    ASSUME NEW R, Apart(R), NEW i \in 1..Len(R)
    PROVE  Once(R[i])
  BY DEF Apart, Once

LEMMA RunsAreLongest ==
    ASSUME NEW S, NEW w \in Seq(S), NEW L, NEW R, NEW n, Laid(S, w, L, R, n),
           NEW c \in Seq(S), NEW M, NEW Q, NEW m, Laid(S, c, M, Q, m), Len(R) = Len(Q)
    PROVE  \A i \in 1..Len(R) : LongestRun(w, c, R, Q, i)
<1>1. Runs(S, w, R) /\ Apart(R) /\ Runs(S, c, Q) /\ Apart(Q)
  BY DEF Laid
<1> TAKE i \in 1..Len(R)
<1>2. IsRun(S, w, R[i]) /\ IsRun(S, c, Q[i])
  BY <1>1, TextIs
<1>3. Once(R[i]) /\ Once(Q[i])
  BY <1>1, RunsAreOnce
<1>4. PICK left, right : left = R[i] /\ right = Q[i]
  OBVIOUS
<1>5. PICK v, d : LongestLeft(w, c, left, right, v, d)
  BY <1>2, <1>3, <1>4, WalkIsLongest
<1>6. PartOf(w, c, R, Q, i) = Highlight(v, d)
  BY <1>4, <1>5 DEF LongestLeft, PartOf
<1>7. PartOf(w, c, R, Q, i).wikidata = v /\ PartOf(w, c, R, Q, i).cldr = d
  BY <1>6 DEF Highlight
<1> QED
  BY <1>4, <1>5, <1>7, Zenon DEF LongestRun

(* A run is highlighted by its own part.                                    *)
OwnPart(R, f, i, W) == \A x \in 1..Len(R[i]) : R[i][x] \in W <=> R[i][x] \in f[i]
LEMMA OwnPartOnly ==
    ASSUME NEW R, Apart(R), NEW f, \A a \in 1..Len(R) : f[a] \subseteq ValuesFrom(R[a], 1),
           NEW W, W = UNION {f[a] : a \in 1..Len(R)}, NEW i \in 1..Len(R)
    PROVE  OwnPart(R, f, i, W)
<1>1. ASSUME NEW x \in 1..Len(R[i]), R[i][x] \in W PROVE R[i][x] \in f[i]
  <2>1. PICK a \in 1..Len(R) : R[i][x] \in f[a]
    BY <1>1
  <2>2. R[i][x] \in ValuesFrom(R[a], 1)
    BY <2>1
  <2>3. PICK y \in 1..Len(R[a]) : R[i][x] = R[a][y]
    BY <2>2 DEF ValuesFrom
  <2>4. a = i
    BY <2>3 DEF Apart
  <2> QED
    BY <2>1, <2>4
<1>2. ASSUME NEW x \in 1..Len(R[i]), R[i][x] \in f[i] PROVE R[i][x] \in W
  BY <1>2
<1> QED
  BY <1>1, <1>2 DEF OwnPart

LEMMA OwnPartText ==
    ASSUME NEW S, NEW w, NEW R, Runs(S, w, R), NEW f, NEW i \in 1..Len(R), NEW W, OwnPart(R, f, i, W)
    PROVE  RunText(w, R[i], W) = RunText(w, R[i], f[i])
<1>1. PICK run : run = R[i] /\ IsRun(S, w, run)
  BY TextIs
<1>2. Len(run) \in Nat
  BY <1>1, LenProperties DEF IsRun
<1>3. PICK V : V = f[i]
  OBVIOUS
<1>4. \A x \in 1..Len(run) : run[x] \in W <=> run[x] \in V
  BY <1>1, <1>3 DEF OwnPart
<1>5. 1 \in 1..Len(run) + 1
  BY <1>2
<1>6. RunFrom(w, run, W, 1) = RunFrom(w, run, V, 1)
  BY <1>2, <1>4, <1>5, RunFromSame
<1> QED
  BY <1>1, <1>3, <1>6 DEF RunText

-----------------------------------------------------------------------------
(* Together they leave the same texts in both names.                        *)
LEMMA PartsOfW ==
    ASSUME NEW S, NEW w \in Seq(S), NEW L, NEW R, NEW n, Laid(S, w, L, R, n),
           NEW c, NEW Q, \A i \in 1..Len(R) : LongestRun(w, c, R, Q, i), NEW W, W = MarkedInW(w, c, R, Q)
    PROVE  /\ W \subseteq Separators(w)
           /\ \A i \in 1..Len(R) : RunText(w, R[i], W) = RunText(w, R[i], PartOf(w, c, R, Q, i).wikidata)
<1>1. Runs(S, w, R) /\ Apart(R) /\ OfSeparators(w, R, n)
  BY DEF Laid
<1>2. PICK f : f = [i \in 1..Len(R) |-> PartOf(w, c, R, Q, i).wikidata]
  OBVIOUS
<1>3. \A i \in 1..Len(R) : f[i] = PartOf(w, c, R, Q, i).wikidata
  BY <1>2
<1>4. W = UNION {f[a] : a \in 1..Len(R)}
  BY <1>3 DEF MarkedInW
<1>5. \A a \in 1..Len(R) : f[a] \subseteq ValuesFrom(R[a], 1)
  BY <1>3 DEF LongestRun, LongestLeft
<1>6. W \subseteq Separators(w)
  <2>1. ASSUME NEW a \in 1..Len(R) PROVE ValuesFrom(R[a], 1) \subseteq Separators(w)
    BY <1>1 DEF OfSeparators, ValuesFrom
  <2> QED
    BY <1>4, <1>5, <2>1
<1>7. ASSUME NEW i \in 1..Len(R) PROVE RunText(w, R[i], W) = RunText(w, R[i], PartOf(w, c, R, Q, i).wikidata)
  <2>1. OwnPart(R, f, i, W)
    BY <1>1, <1>4, <1>5, OwnPartOnly
  <2>2. RunText(w, R[i], W) = RunText(w, R[i], f[i])
    BY <1>1, <2>1, OwnPartText
  <2> QED
    BY <1>3, <2>2
<1> QED
  BY <1>6, <1>7

LEMMA PartsOfC ==
    ASSUME NEW S, NEW c \in Seq(S), NEW M, NEW Q, NEW m, Laid(S, c, M, Q, m),
           NEW w, NEW R, Len(R) = Len(Q), \A i \in 1..Len(R) : LongestRun(w, c, R, Q, i),
           NEW D, D = MarkedInC(w, c, R, Q)
    PROVE  /\ D \subseteq Separators(c)
           /\ \A i \in 1..Len(R) : RunText(c, Q[i], D) = RunText(c, Q[i], PartOf(w, c, R, Q, i).cldr)
<1>1. Runs(S, c, Q) /\ Apart(Q) /\ OfSeparators(c, Q, m)
  BY DEF Laid
<1>2. PICK f : f = [i \in 1..Len(Q) |-> PartOf(w, c, R, Q, i).cldr]
  OBVIOUS
<1>3. \A i \in 1..Len(Q) : f[i] = PartOf(w, c, R, Q, i).cldr
  BY <1>2
<1>4. D = UNION {f[a] : a \in 1..Len(Q)}
  BY <1>3 DEF MarkedInC
<1>5. \A a \in 1..Len(Q) : f[a] \subseteq ValuesFrom(Q[a], 1)
  BY <1>3 DEF LongestRun, LongestLeft
<1>6. D \subseteq Separators(c)
  <2>1. ASSUME NEW a \in 1..Len(Q) PROVE ValuesFrom(Q[a], 1) \subseteq Separators(c)
    BY <1>1 DEF OfSeparators, ValuesFrom
  <2> QED
    BY <1>4, <1>5, <2>1
<1>7. ASSUME NEW i \in 1..Len(Q) PROVE RunText(c, Q[i], D) = RunText(c, Q[i], PartOf(w, c, R, Q, i).cldr)
  <2>1. OwnPart(Q, f, i, D)
    BY <1>1, <1>4, <1>5, OwnPartOnly
  <2>2. RunText(c, Q[i], D) = RunText(c, Q[i], f[i])
    BY <1>1, <2>1, OwnPartText
  <2> QED
    BY <1>3, <2>2
<1> QED
  BY <1>6, <1>7

LEMMA MarkedTexts ==
    ASSUME NEW S, NEW w \in Seq(S), NEW L, NEW R, NEW n, Laid(S, w, L, R, n),
           NEW c \in Seq(S), NEW M, NEW Q, NEW m, Laid(S, c, M, Q, m), Len(R) = Len(Q),
           NEW W, W = MarkedInW(w, c, R, Q), NEW D, D = MarkedInC(w, c, R, Q)
    PROVE  /\ W \subseteq Separators(w) /\ D \subseteq Separators(c)
           /\ Texts(w, R, W) = Texts(c, Q, D)
           /\ \A v, d : Texts(w, R, v) = Texts(c, Q, d) => TextsLength(w, R, v) <= TextsLength(w, R, W)
<1>1. Runs(S, w, R) /\ Runs(S, c, Q)
  BY DEF Laid
<1>0. \A d : \A i \in 1..Len(R) : Texts(c, Q, d)[i] = RunText(c, Q[i], d)
  BY <1>1, TextIs
<1>2. \A i \in 1..Len(R) : LongestRun(w, c, R, Q, i)
  BY RunsAreLongest
<1>3. /\ W \subseteq Separators(w)
      /\ \A i \in 1..Len(R) : RunText(w, R[i], W) = RunText(w, R[i], PartOf(w, c, R, Q, i).wikidata)
  BY <1>2, PartsOfW
<1>4. /\ D \subseteq Separators(c)
      /\ \A i \in 1..Len(R) : RunText(c, Q[i], D) = RunText(c, Q[i], PartOf(w, c, R, Q, i).cldr)
  BY <1>2, PartsOfC
<1>5. PICK T \in Seq(Seq(S)) : T = Texts(w, R, W) /\ Len(T) = Len(R)
  BY <1>1, TextsAre
<1>6. PICK U \in Seq(Seq(S)) : U = Texts(c, Q, D) /\ Len(U) = Len(Q)
  BY <1>1, TextsAre
<1>7. \A i \in 1..Len(R) : T[i] = RunText(w, R[i], W) /\ U[i] = RunText(c, Q[i], D)
  BY <1>1, <1>5, <1>6, TextIs
<1>8. \A i \in 1..Len(R) : T[i] = U[i]
  BY <1>2, <1>3, <1>4, <1>7 DEF LongestRun, LongestLeft
<1>9. T = U
  BY <1>5, <1>6, <1>8, SeqEqual
<1>10. ASSUME NEW v, NEW d, Texts(w, R, v) = Texts(c, Q, d)
       PROVE  TextsLength(w, R, v) <= TextsLength(w, R, W)
  <2>1. PICK X \in Seq(Seq(S)) : X = Texts(w, R, v) /\ Len(X) = Len(R)
    BY <1>1, TextsAre
  <2>2. ASSUME NEW i \in 1..Len(R) PROVE Len(X[i]) <= Len(T[i])
    <3>1. X[i] = RunText(w, R[i], v) /\ X[i] = RunText(c, Q[i], d)
      <4>1. Texts(w, R, v)[i] = RunText(w, R[i], v)
        BY <1>1, TextIs
      <4>2. Texts(c, Q, d)[i] = RunText(c, Q[i], d)
        BY <1>0
      <4> QED
        BY <1>10, <2>1, <4>1, <4>2
    <3>2. \A V, E : RunText(w, R[i], V) = RunText(c, Q[i], E)
                      => Len(RunText(w, R[i], V)) <= Len(RunText(w, R[i], PartOf(w, c, R, Q, i).wikidata))
      BY <1>2 DEF LongestRun, LongestLeft
    <3>3. T[i] = RunText(w, R[i], PartOf(w, c, R, Q, i).wikidata)
      BY <1>3, <1>7
    <3> QED
      BY <3>1, <3>2, <3>3
  <2>3. Len(Part(X, 1, Len(X))) <= Len(Part(T, 1, Len(T)))
    BY <1>5, <2>1, <2>2, PartLengths
  <2> QED
    BY <1>5, <2>1, <2>3 DEF TextsLength
<1> QED
  BY <1>3, <1>4, <1>5, <1>6, <1>9, <1>10

-----------------------------------------------------------------------------
(* The fewer separators remain, the more are highlighted.                   *)
LEMMA FewerRemain ==
    ASSUME NEW S, IsFiniteSet(S), NEW V \in SUBSET S, NEW W \in SUBSET S,
           Cardinality(S \ V) <= Cardinality(S \ W)
    PROVE  Cardinality(V) \in Nat /\ Cardinality(W) \in Nat /\ Cardinality(W) <= Cardinality(V)
<1>1. S \cap V = V /\ S \cap W = W
  OBVIOUS
<1>2. IsFiniteSet(V) /\ IsFiniteSet(W) /\ IsFiniteSet(S \ V) /\ IsFiniteSet(S \ W)
  BY FS_Subset
<1>3. Cardinality(S \ V) = Cardinality(S) - Cardinality(V)
  <2>1. Cardinality(S \ V) = Cardinality(S) - Cardinality(S \cap V)
    BY FS_Difference
  <2> QED
    BY <1>1, <2>1
<1>4. Cardinality(S \ W) = Cardinality(S) - Cardinality(W)
  <2>1. Cardinality(S \ W) = Cardinality(S) - Cardinality(S \cap W)
    BY FS_Difference
  <2> QED
    BY <1>1, <2>1
<1>5. Cardinality(S) \in Nat /\ Cardinality(V) \in Nat /\ Cardinality(W) \in Nat
  BY <1>2, FS_CardinalityType
<1> QED
  BY <1>3, <1>4, <1>5

LEMMA AllSeparators ==
    ASSUME NEW S, NEW value \in Seq(S)
    PROVE  UpTo(value, Len(value)) = Separators(value) /\ IsFiniteSet(Separators(value))
<1>1. Separators(value) \subseteq 1..Len(value) /\ Len(value) \in Nat
  BY SeparatorsAre
<1>2. \A x \in Separators(value) : x <= Len(value)
  BY <1>1
<1>3. IsFiniteSet(1..Len(value))
  BY <1>1, FS_Interval
<1> QED
  BY <1>1, <1>2, <1>3, FS_Subset DEF UpTo

-----------------------------------------------------------------------------
(* Two names are equal without some characters, and how many those are.     *)
EqualWithout(w, c, v, d) == Canonical(Without(w, v)) = Canonical(Without(c, d))
Size(v, d) == Cardinality(v) + Cardinality(d)
IsSmallest(w, c, marked) ==
    /\ EqualWithout(w, c, marked.wikidata, marked.cldr)
    /\ \A v \in SUBSET Separators(w), d \in SUBSET Separators(c) :
           EqualWithout(w, c, v, d) => Size(v, d) >= Size(marked.wikidata, marked.cldr)

LEMMA EqualIs ==
    ASSUME NEW S, NEW w \in Seq(S), NEW c \in Seq(S), NEW v, NEW d
    PROVE  EqualWithout(w, c, v, d) <=> Canonical(Keep(w, v, Len(w))) = Canonical(Keep(c, d, Len(c)))
<1>1. DOMAIN w = 1..Len(w) /\ DOMAIN c = 1..Len(c)
  BY LenProperties
<1>2. Without(w, v) = Keep(w, v, Len(w)) /\ Without(c, d) = Keep(c, d, Len(c))
  BY <1>1, WithoutIs
<1> QED
  BY <1>2 DEF EqualWithout

(* With the same letters, the walks along the runs of separators highlight  *)
(* what keeps two names apart, and as little as possible.                   *)
LEMMA SeparatorsAreSmallest ==
    ASSUME NEW S, Alphabetic(S), NEW w \in Seq(S), NEW c \in Seq(S), WellFormed(w), WellFormed(c),
           SameLetters(w, c), ~IsBlank(w)
    PROVE  IsSmallest(w, c, nonAlphabeticDifference(w, c))
<1>1. PICK a : a = splitLettersAndSeparators(w) /\ LaidOut(S, w, a, Len(w))
  BY NamesAreLaidOut
<1>2. PICK b : b = splitLettersAndSeparators(c) /\ LaidOut(S, c, b, Len(c))
  BY NamesAreLaidOut
<1>3. PICK L, R : a = Splitting(L, R) /\ Told(S, w, L, R, Len(w))
  BY <1>1 DEF LaidOut
<1>4. PICK M, Q : b = Splitting(M, Q) /\ Told(S, c, M, Q, Len(c))
  BY <1>2 DEF LaidOut
<1>5. /\ Laid(S, w, L, R, Len(w))
      /\ \A V \in SUBSET Separators(w) : Spelled(w, V, L, R, Len(w)) /\ Counted(w, V, R, Len(w))
  BY <1>3 DEF Told
<1>6. /\ Laid(S, c, M, Q, Len(c))
      /\ \A D \in SUBSET Separators(c) : Spelled(c, D, M, Q, Len(c)) /\ Counted(c, D, Q, Len(c))
  BY <1>4 DEF Told
<1>7. ASSUME NEW v \in SUBSET Separators(w), NEW d \in SUBSET Separators(c), EqualWithout(w, c, v, d)
      PROVE  L = M /\ Texts(w, R, v) = Texts(c, Q, d)
  <2>1. Canonical(Keep(w, v, Len(w))) = Canonical(Keep(c, d, Len(c)))
    BY <1>7, EqualIs
  <2>2. Spelled(w, v, L, R, Len(w)) /\ Spelled(c, d, M, Q, Len(c))
    BY <1>5, <1>6
  <2> QED
    BY <1>5, <1>6, <2>1, <2>2, SameWoven
<1>8. L = M
  <2>1. EqualWithout(w, c, Separators(w), Separators(c))
    BY DEF SameLetters, EqualWithout
  <2> QED
    BY <1>7, <2>1
<1>9. Len(R) = Len(Q) /\ DOMAIN R = 1..Len(R)
  <2>1. Len(R) = Len(L) + 1 /\ Len(Q) = Len(M) + 1 /\ R \in Seq(Seq(1..Len(w)))
    BY <1>5, <1>6 DEF Laid, Runs
  <2> QED
    BY <1>8, <2>1, LenProperties
<1>10. PICK W, D : W = MarkedInW(w, c, R, Q) /\ D = MarkedInC(w, c, R, Q)
  OBVIOUS
<1>11. nonAlphabeticDifference(w, c) = Highlight(W, D)
  <2>1. a.letters = L /\ a.separators = R /\ b.letters = M /\ b.separators = Q
    BY <1>3, <1>4 DEF Splitting
  <2>2. PICK parts : parts = {markSeparatorDifferences(w, c, R[i], Q[i]) : i \in DOMAIN R}
    OBVIOUS
  <2>3. nonAlphabeticDifference(w, c)
          = [wikidata |-> UNION {p.wikidata : p \in parts}, cldr |-> UNION {p.cldr : p \in parts}]
    BY <1>1, <1>2, <1>8, <2>1, <2>2 DEF nonAlphabeticDifference
  <2>4. UNION {p.wikidata : p \in parts} = W
    BY <1>9, <1>10, <2>2 DEF MarkedInW, PartOf
  <2>5. UNION {p.cldr : p \in parts} = D
    BY <1>9, <1>10, <2>2 DEF MarkedInC, PartOf
  <2> QED
    BY <2>3, <2>4, <2>5 DEF Highlight
<1>12. /\ W \in SUBSET Separators(w) /\ D \in SUBSET Separators(c)
       /\ Texts(w, R, W) = Texts(c, Q, D)
       /\ \A v, d : Texts(w, R, v) = Texts(c, Q, d) => TextsLength(w, R, v) <= TextsLength(w, R, W)
  BY <1>5, <1>6, <1>9, <1>10, MarkedTexts
<1>13. EqualWithout(w, c, W, D)
  <2>1. Spelled(w, W, L, R, Len(w)) /\ Spelled(c, D, M, Q, Len(c))
    BY <1>5, <1>6, <1>12
  <2>2. Canonical(Keep(w, W, Len(w))) = Canonical(Keep(c, D, Len(c)))
    BY <1>8, <1>12, <2>1 DEF Spelled
  <2> QED
    BY <2>2, EqualIs
<1>14. ASSUME NEW v \in SUBSET Separators(w), NEW d \in SUBSET Separators(c), EqualWithout(w, c, v, d)
       PROVE  Size(v, d) >= Size(W, D)
  <2>1. Texts(w, R, v) = Texts(c, Q, d)
    BY <1>7, <1>14
  <2>2. TextsLength(w, R, v) <= TextsLength(w, R, W)
    BY <1>12, <2>1
  <2>3. TextsLength(c, Q, d) <= TextsLength(c, Q, D)
    BY <1>9, <1>12, <2>1, <2>2 DEF TextsLength
  <2>4. /\ UpTo(w, Len(w)) = Separators(w) /\ IsFiniteSet(Separators(w))
        /\ UpTo(c, Len(c)) = Separators(c) /\ IsFiniteSet(Separators(c))
    BY AllSeparators
  <2>5. Cardinality(Separators(w) \ v) <= Cardinality(Separators(w) \ W)
    BY <1>5, <1>12, <2>2, <2>4 DEF Counted
  <2>6. Cardinality(Separators(c) \ d) <= Cardinality(Separators(c) \ D)
    BY <1>6, <1>12, <2>3, <2>4 DEF Counted
  <2>7. Cardinality(v) \in Nat /\ Cardinality(W) \in Nat /\ Cardinality(W) <= Cardinality(v)
    BY <1>12, <2>4, <2>5, FewerRemain
  <2>8. Cardinality(d) \in Nat /\ Cardinality(D) \in Nat /\ Cardinality(D) <= Cardinality(d)
    BY <1>12, <2>4, <2>6, FewerRemain
  <2> QED
    BY <2>7, <2>8 DEF Size
<1> QED
  BY <1>11, <1>13, <1>14 DEF IsSmallest, Highlight

(* Trimming and lower case can trade places.                                *)
Solids(s) == {i \in DOMAIN s : s[i] # Blank}
TrimIs(s, D) == Trim(s) = IF D = {} THEN << >> ELSE SubSeq(s, Min(D), Max(D))

LEMMA TrimsSolids == \A s : TrimIs(s, Solids(s))
  BY DEF Trim, TrimIs, Solids

LEMMA EndsOf ==
    ASSUME NEW n \in Nat, NEW D \in SUBSET (1..n), D # {}
    PROVE  Min(D) \in 1..n /\ Max(D) \in 1..n
<1>1. D \in SUBSET Nat /\ D \in SUBSET Int
  OBVIOUS
<1>2. PICK m \in D : \A i \in D : i <= m
  BY Greatest
<1>3. Max(D) = m
  BY <1>1, <1>2, MaxIs
<1>4. \E k \in D : \A i \in D : k <= i
  BY <1>1, Least
<1>5. Min(D) \in D
  BY <1>4 DEF Min
<1> QED
  BY <1>3, <1>5

LEMMA LowerSub ==
    ASSUME NEW S, Letters \subseteq S, NEW x \in Seq(S), NEW a \in 1..Len(x), NEW b \in 1..Len(x)
    PROVE  Lower(SubSeq(x, a, b)) = SubSeq(Lower(x), a, b)
<1>0. \A z \in Seq(S) : Lower(z) \in Seq(S) /\ Len(Lower(z)) = Len(z)
                           /\ \A i \in 1..Len(z) : Lower(z)[i] = LowerOf(z[i])
  BY LowerIs, Zenon
<1>1. PICK n \in Nat : n = Len(x) /\ a \in 1..n /\ b \in 1..n
  BY LenProperties
<1>2. PICK y \in Seq(S) : y = Lower(x) /\ Len(y) = n /\ \A i \in 1..n : y[i] = LowerOf(x[i])
  BY <1>1, LowerIs
<1>3. \A i \in a..b : x[i] \in S /\ y[i] \in S
  <2>1. \A i \in a..b : i \in 1..n
    BY <1>1
  <2> QED
    BY <1>1, <1>2, <2>1, ElementOfSeq
<1>4. a \in Int /\ b \in Int
  BY <1>1
<1>5. PICK l : l = IF a <= b THEN b - a + 1 ELSE 0
  OBVIOUS
<1>6. l \in Nat /\ \A i \in 1..l : i \in 1..b - a + 1 /\ a + i - 1 \in 1..n
  BY <1>1, <1>5
<1>7. PICK s \in Seq(S) : s = SubSeq(x, a, b) /\ Len(s) = l /\ \A i \in 1..l : s[i] = x[a + i - 1]
  <2>1. /\ SubSeq(x, a, b) \in Seq(S) /\ Len(SubSeq(x, a, b)) = IF a <= b THEN b - a + 1 ELSE 0
        /\ \A i \in 1..b - a + 1 : SubSeq(x, a, b)[i] = x[a + i - 1]
    BY <1>3, <1>4, SubSeqProperties
  <2> QED
    BY <1>5, <1>6, <2>1
<1>8. PICK t \in Seq(S) : t = SubSeq(y, a, b) /\ Len(t) = l /\ \A i \in 1..l : t[i] = y[a + i - 1]
  <2>1. /\ SubSeq(y, a, b) \in Seq(S) /\ Len(SubSeq(y, a, b)) = IF a <= b THEN b - a + 1 ELSE 0
        /\ \A i \in 1..b - a + 1 : SubSeq(y, a, b)[i] = y[a + i - 1]
    BY <1>3, <1>4, SubSeqProperties
  <2> QED
    BY <1>5, <1>6, <2>1
<1>9. PICK u \in Seq(S) : u = Lower(s) /\ Len(u) = l /\ \A i \in 1..l : u[i] = LowerOf(s[i])
  <2>1. Lower(s) \in Seq(S) /\ Len(Lower(s)) = Len(s)
        /\ \A i \in 1..Len(s) : Lower(s)[i] = LowerOf(s[i])
    BY <1>0
  <2>2. Len(s) = l
    BY <1>7
  <2>3. Len(Lower(s)) = l /\ \A i \in 1..l : Lower(s)[i] = LowerOf(s[i])
    BY <2>1, <2>2, Zenon
  <2> QED
    BY <2>1, <2>3, Zenon
<1>10. \A i \in 1..l : u[i] = t[i]
  BY <1>2, <1>6, <1>7, <1>8, <1>9
<1>11. u = t
  BY <1>8, <1>9, <1>10, SeqEqual
<1> QED
  BY <1>2, <1>7, <1>8, <1>9, <1>11

LEMMA LowerTrim ==
    ASSUME NEW S, Letters \subseteq S, NEW x \in Seq(S)
    PROVE  Lower(Trim(x)) = Trim(Lower(x))
<1>1. PICK n \in Nat : n = Len(x) /\ DOMAIN x = 1..n
  BY LenProperties
<1>2. PICK y \in Seq(S) : y = Lower(x) /\ Len(y) = n /\ \A i \in 1..n : y[i] = LowerOf(x[i])
  BY <1>1, LowerIs
<1>3. DOMAIN y = 1..n
  BY <1>2, LenProperties
<1>4. Solids(x) = Solids(y)
  <2>1. Blank \notin Letters
    BY DEF Blank, Letters
  <2>2. \A z : LowerOf(z) = Blank <=> z = Blank
    BY <2>1, LowerOfIs
  <2> QED
    BY <1>1, <1>2, <1>3, <2>2 DEF Solids
<1>5. PICK D : D = Solids(x) /\ D \in SUBSET (1..n)
  BY <1>1 DEF Solids
<1>6. TrimIs(x, D) /\ TrimIs(y, D)
  BY <1>4, <1>5, TrimsSolids
<1>7. CASE D = {}
  <2>1. Trim(x) = << >> /\ Trim(y) = << >>
    BY <1>6, <1>7 DEF TrimIs
  <2>2. Lower(<< >>) = << >>
    BY DEF Lower
  <2> QED
    BY <1>2, <2>1, <2>2
<1>8. CASE D # {}
  <2>1. PICK a \in 1..n, b \in 1..n : a = Min(D) /\ b = Max(D)
    BY <1>5, <1>8, EndsOf
  <2>2. Trim(x) = SubSeq(x, a, b) /\ Trim(y) = SubSeq(y, a, b)
    BY <1>6, <1>8, <2>1 DEF TrimIs
  <2>3. Lower(SubSeq(x, a, b)) = SubSeq(Lower(x), a, b)
    BY <1>1, <2>1, LowerSub
  <2> QED
    BY <1>2, <2>2, <2>3
<1> QED
  BY <1>7, <1>8

(* Without any such separator the names are the same but for case and       *)
(* surrounding blanks.                                                      *)
LEMMA NothingIsSame ==
    ASSUME NEW S, Letters \subseteq S, NEW w \in Seq(S), NEW c \in Seq(S), ~IsBlank(w), EqualWithout(w, c, {}, {})
    PROVE  compareEnglishNames(w, c) = "same"
<1>1. Lower(Nfc(w)) = Lower(Nfc(c))
  BY WithoutNone DEF EqualWithout, Canonical
<1>2. Nfc(w) \in Seq(S) /\ Nfc(c) \in Seq(S)
  BY NfcTypes
<1>3. Lower(Trim(Nfc(w))) = Lower(Trim(Nfc(c)))
  BY <1>1, <1>2, LowerTrim
<1>4. PICK s, t : s = Lower(Trim(Nfc(w))) /\ t = Lower(Trim(Nfc(c))) /\ s = t
  BY <1>3
<1> QED
  BY <1>4 DEF compareEnglishNames

LEMMA SameLettersDiffer ==
    ASSUME NEW S, Alphabetic(S), NEW w \in Seq(S), NEW c \in Seq(S), WellFormed(w), WellFormed(c),
           SameLetters(w, c), ~IsBlank(w), compareEnglishNames(w, c) # "same"
    PROVE  IsSmallest(w, c, Difference(w, c))
<1>1. PICK m : m = nonAlphabeticDifference(w, c) /\ IsSmallest(w, c, m)
  BY SeparatorsAreSmallest
<1>2. m # Nothing
  <2> SUFFICES ASSUME m = Nothing PROVE FALSE
    OBVIOUS
  <2>1. EqualWithout(w, c, {}, {})
    BY <1>1 DEF IsSmallest, Nothing
  <2> QED
    BY <2>1, NothingIsSame DEF Alphabetic
<1>3. Difference(w, c) = m
  BY <1>1, <1>2 DEF Difference
<1> QED
  BY <1>1, <1>3

(* When the letters of two names are the same, the page highlights the      *)
(* separators that keep them apart, and no choice of fewer separators does: *)
(* without the highlighted ones the names are equal (render_html.js         *)
(* nonAlphabeticDifference, markSeparatorDifferences).                      *)
THEOREM SmallestHighlights == Spec => []SmallestDifference
<1> DEFINE Chars == Characters \cup Letters \cup Marks
<1>1. ASSUME NEW w \in Seq(Characters), NEW c \in Seq(Characters), ~IsBlank(w),
             WellFormed(w), WellFormed(c), SameLetters(w, c), compareEnglishNames(w, c) # "same"
      PROVE  IsSmallest(w, c, Difference(w, c))
  <2>1. w \in Seq(Chars) /\ c \in Seq(Chars)
    BY SeqMonotonic
  <2>2. Alphabetic(Chars)
    BY DEF Alphabetic
  <2> HIDE DEF Chars
  <2> QED
    BY <1>1, <2>1, <2>2, SameLettersDiffer
<1>2. PInv => SmallestDifference
  <2> SUFFICES ASSUME PInv PROVE SmallestDifference
    OBVIOUS
  <2>1. CASE page = NoPage
    BY <2>1 DEF NoPage, SmallestDifference, Unmerged
  <2>2. CASE page = Rendered(CLDR_NAMES, answer)
    <3>1. page.rows = renderHtml(CLDR_NAMES, Expected(CLDR_NAMES, answer))
      BY <2>2, RenderedIsExpected DEF PInv
    <3>2. ASSUME NEW r \in Unmerged, NEW w, w = EnglishName(r.names), NEW c, c = Cldr(r),
                 WellFormed(w), WellFormed(c), SameLetters(w, c)
          PROVE  IsSmallest(w, c, r.english.marked)
      <4>1. r \in page.rows /\ r.english.shown # "merged" /\ ~IsBlank(w)
        BY <3>2 DEF Unmerged
      <4>2. PICK s \in Expected(CLDR_NAMES, answer) :
                /\ r.code = s.code /\ r.names = s.names
                /\ r.english = EnglishCells(EnglishName(s.names), CLDR_NAMES[codeToCldrKey(s.code)])
        BY <3>1, <4>1 DEF renderHtml
      <4>3. w = EnglishName(s.names) /\ c = CLDR_NAMES[codeToCldrKey(s.code)]
        BY <3>2, <4>2 DEF Cldr
      <4>4. w \in Seq(Characters) /\ codeToCldrKey(s.code) \in DOMAIN CLDR_NAMES
        BY <4>3, ExpectedTypes DEF PInv
      <4>5. c \in Seq(Characters)
        BY <4>3, <4>4 DEF PInv
      <4>6. compareEnglishNames(w, c) # "same" /\ r.english.marked = Difference(w, c)
        <5>1. r.english = EnglishCells(w, c)
          BY <4>2, <4>3
        <5> QED
          BY <4>1, <5>1 DEF EnglishCells
      <4> QED
        BY <1>1, <3>2, <4>1, <4>4, <4>5, <4>6
    <3>3. ASSUME NEW r \in Unmerged
          PROVE  WellFormed(EnglishName(r.names)) /\ WellFormed(Cldr(r)) /\ SameLetters(EnglishName(r.names), Cldr(r))
                     => IsSmallest(EnglishName(r.names), Cldr(r), r.english.marked)
      BY <3>2
    <3> QED
      BY <3>3 DEF SmallestDifference, IsSmallest, EqualWithout, Size
  <2> QED
    BY <2>1, <2>2 DEF PInv
<1> QED
  BY <1>2, PageOfTheAnswer, PTL
=============================================================================
