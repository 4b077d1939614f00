--------------------------------- MODULE Mrz ---------------------------------
(***************************************************************************)
(* The machine readable zone of a document: what is printed (ICAO 9303),   *)
(* what the OCR reads of it, and what processing/extraction/extractors/    *)
(* base/mrz_parser.py makes of the reading.  The parser compares check     *)
(* digits with the characters as they were read and repairs the values it  *)
(* returns.  A character is a number: 0..9 the digits, 10..35 the letters, *)
(* 36 the filler "<".                                                      *)
(***************************************************************************)
EXTENDS Naturals, Sequences, FiniteSets, Listings

CONSTANTS
    PrintedDates,       \* dates of birth and expiry, the six digits YYMMDD
    MaxMisreadings      \* how many characters the OCR misreads

ASSUME MrzAssumption == PrintedDates \subseteq [1..6 -> 0..9] /\ MaxMisreadings \in Nat

VARIABLES
    zone,       \* the printed document: its kind and its lines
    reading,    \* the lines of text the OCR hands over
    misread,    \* the places <<line, position>> of the zone that were misread
    parsed      \* the MrzParseResult, Unparsed before

mrzVars == <<zone, reading, misread, parsed>>

Filler == 36
Letter == [A |-> 10, B |-> 11, D |-> 13, G |-> 16, I |-> 18, M |-> 22, O |-> 24, P |-> 25,
           Q |-> 26, S |-> 28, T |-> 29, U |-> 30, Z |-> 35]
Fillers(n) == [k \in 1..n |-> Filler]
MrzKind == {"TD1", "TD2", "TD3"}
MrzStatus == {"VALID", "PARTIAL", "OCR_CORRUPTED", "INVALID"}
Unparsed == [type |-> "none", status |-> "none", checks |-> [c \in {} |-> TRUE], date |-> [f \in {} |-> <<>>]]

MrzInit ==
    /\ zone = [kind |-> "none", lines |-> <<>>]
    /\ reading = <<>> /\ misread = {} /\ parsed = Unparsed

-----------------------------------------------------------------------------
(* Check digits and repairs *)

\* the numeric value of a character: the filler counts as nothing
MrzValue(c) == IF c = Filler THEN 0 ELSE c

CheckDigitOf(text) ==
    LET weight == <<7, 3, 1>>
        total[k \in 0..Len(text)] ==
            IF k = 0 THEN 0 ELSE total[k - 1] + MrzValue(text[k]) * weight[((k - 1) % 3) + 1]
    IN  total[Len(text)] % 10

\* the letters taken for digits; the lower-case keys never meet a character, lines are upper-cased before
NumericMap == [O |-> 0, Q |-> 0, I |-> 1, B |-> 8, S |-> 5, G |-> 6, Z |-> 2]
RepairedDigit(c) ==
    IF \E x \in DOMAIN NumericMap : Letter[x] = c
    THEN NumericMap[CHOOSE x \in DOMAIN NumericMap : Letter[x] = c] ELSE c

\* Bug variant: a date is returned as it was read.
RepairNothing(text) == text

RepairNumeric(text) == [k \in DOMAIN text |-> RepairedDigit(text[k])]

-----------------------------------------------------------------------------
(* The printed zone.  Names, countries and numbers are fixed. *)

WithDigit(text) == Append(text, CheckDigitOf(text))
MrzNumber == <<Letter.T, 6, 8, 5, 0, 1, 2, 3, Letter.A>>
Country == <<Letter.U, Letter.T, Letter.O>>
MrzNames(n) == <<Letter.A, Filler, Filler, Letter.B>> \o Fillers(n - 4)
BirthAndExpiry(birth, expiry) == WithDigit(birth) \o <<Letter.M>> \o WithDigit(expiry)

PrintedLines(kind, birth, expiry) ==
    LET number == WithDigit(MrzNumber)
        dates == BirthAndExpiry(birth, expiry)
        checked == SubSeq(dates, 1, 7) \o SubSeq(dates, 9, 15)
        personal == WithDigit(<<5>> \o Fillers(13))
    IN  CASE kind = "TD1" ->
                LET first == <<Letter.I, Filler>> \o Country \o number \o Fillers(15) IN
                << first,
                   dates \o Country \o Fillers(11)
                         \o <<CheckDigitOf(SubSeq(first, 6, 30) \o checked \o Fillers(11))>>,
                   MrzNames(30) >>
          [] kind = "TD2" ->
                << <<Letter.I, Filler>> \o Country \o MrzNames(31),
                   number \o Country \o dates \o Fillers(7)
                          \o <<CheckDigitOf(number \o checked \o Fillers(7))>> >>
          [] kind = "TD3" ->
                << <<Letter.P, Filler>> \o Country \o MrzNames(39),
                   number \o Country \o dates \o personal
                          \o <<CheckDigitOf(number \o checked \o personal)>> >>

\* a document is photographed; a line of plain words above the zone may be read as well
Photograph(kind, birth, expiry, heading) ==
    /\ zone.kind = "none"
    /\ zone' = [kind |-> kind, lines |-> PrintedLines(kind, birth, expiry)]
    /\ reading' = heading \o zone'.lines
    /\ UNCHANGED <<misread, parsed>>

\* the confusions _OCR_NUMERIC_MAP is made for, and digits taken for other digits. An 8
\* taken for an S is not among them: S weighs 28, as much as 8 modulo 10, so the digit
\* matches the misread text and the repair makes a 5 of it.
LookAlikes(c) ==
    {Letter[x] : x \in {y \in DOMAIN NumericMap : NumericMap[y] = c}}
    \cup (CASE c = 1 -> {7} [] c = 7 -> {1} [] c = 8 -> {3, 6} [] c = 5 -> {6} [] c = 0 -> {8} [] OTHER -> {})

Misread(line, position, c) ==
    LET offset == Len(reading) - Len(zone.lines) IN
    /\ parsed = Unparsed /\ Cardinality(misread) < MaxMisreadings
    /\ <<line, position>> \notin misread
    /\ reading' = [reading EXCEPT ![line + offset][position] = c]
    /\ misread' = misread \cup {<<line, position>>}
    /\ UNCHANGED <<zone, parsed>>

-----------------------------------------------------------------------------
(* parse_text *)

\* extract_mrz_lines: upper-cased words without punctuation match the pattern as well
MrzLines(text) ==
    LET strict == AtPlaces(text, {k \in DOMAIN text : Len(text[k]) \in 15..44})
    IN  IF Len(strict) >= 2 THEN strict ELSE <<>>

\* two characters count as a document code, or the first one does
ValidDocumentCode(line) ==
    LET first == CASE line[1] = 0 -> Letter.O [] line[1] = 1 -> Letter.I [] OTHER -> line[1]
    IN  first \in {Letter.P, Letter.I, Letter.A, 12, 31}

\* _is_candidate_line: three quarters of the expected length, rounded down, are enough
LongEnough(lines, expected) == \A k \in DOMAIN lines : Len(lines[k]) >= (expected * 3) \div 4

\* detect_type: lines of 44 characters are long enough for TD2, which is asked first
DetectedType(lines) ==
    IF lines = <<>> \/ ~ValidDocumentCode(lines[1]) THEN "UNKNOWN"
    ELSE IF Len(lines) = 3 /\ LongEnough(lines, 30) THEN "TD1"
    ELSE IF Len(lines) = 2 /\ LongEnough(lines, 36) THEN "TD2"
    ELSE IF Len(lines) = 2 /\ LongEnough(lines, 44) THEN "TD3"
    ELSE "UNKNOWN"

\* every line is padded with fillers or cut
Normalised(lines, type) ==
    LET length == CASE type = "TD1" -> 30 [] type = "TD2" -> 36 [] OTHER -> 44
    IN  [k \in DOMAIN lines |-> [p \in 1..length |->
            IF p <= Len(lines[k]) THEN lines[k][p] ELSE Filler]]

DigitMatches(line, from, to) == line[to + 1] = CheckDigitOf(SubSeq(line, from, to))

Td1Checks(norm) ==
    LET composite == SubSeq(norm[1], 6, 30) \o SubSeq(norm[2], 1, 7) \o SubSeq(norm[2], 9, 29)
    IN  [number |-> DigitMatches(norm[1], 6, 14), birth |-> DigitMatches(norm[2], 1, 6),
         expiry |-> DigitMatches(norm[2], 9, 14), composite |-> norm[2][30] = CheckDigitOf(composite)]

Td2Checks(norm) ==
    LET line == norm[2]
        composite == SubSeq(line, 1, 10) \o SubSeq(line, 14, 20) \o SubSeq(line, 22, 35)
    IN  [number |-> DigitMatches(line, 1, 9), birth |-> DigitMatches(line, 14, 19),
         expiry |-> DigitMatches(line, 22, 27), composite |-> line[36] = CheckDigitOf(composite)]

Td3Checks(norm) ==
    LET line == norm[2]
        composite == SubSeq(line, 1, 10) \o SubSeq(line, 14, 20) \o SubSeq(line, 22, 43)
    IN  [number |-> DigitMatches(line, 1, 9), birth |-> DigitMatches(line, 14, 19),
         expiry |-> DigitMatches(line, 22, 27), personal |-> DigitMatches(line, 29, 42),
         composite |-> line[44] = CheckDigitOf(composite)]

\* the dates of the result, repaired
DatesOf(norm, type) ==
    IF type = "TD1"
    THEN [birth |-> RepairNumeric(SubSeq(norm[2], 1, 6)), expiry |-> RepairNumeric(SubSeq(norm[2], 9, 14))]
    ELSE [birth |-> RepairNumeric(SubSeq(norm[2], 14, 19)), expiry |-> RepairNumeric(SubSeq(norm[2], 22, 27))]

\* _validate_mrz_date, with the calendar of 20YY
IsMrzDate(date) ==
    LET year == date[1] * 10 + date[2]
        month == date[3] * 10 + date[4]
        day == date[5] * 10 + date[6]
        days == CASE month \in {4, 6, 9, 11} -> 30
                  [] month = 2 -> IF year % 4 = 0 THEN 29 ELSE 28
                  [] OTHER -> 31
    IN  (\A k \in 1..6 : date[k] \in 0..9) /\ month \in 1..12 /\ day \in 1..days

StatusOf(errors, checks) ==
    LET passed == Cardinality({c \in DOMAIN checks : checks[c]}) IN
    IF ~errors THEN "VALID"
    ELSE IF passed * 2 >= Cardinality(DOMAIN checks) THEN "PARTIAL"
    ELSE IF passed > 0 THEN "OCR_CORRUPTED" ELSE "INVALID"

ParseZone ==
    LET lines == MrzLines(reading)
        type == DetectedType(lines)
        norm == Normalised(lines, type)
        checks == CASE type = "TD1" -> Td1Checks(norm) [] type = "TD2" -> Td2Checks(norm) [] OTHER -> Td3Checks(norm)
        date == DatesOf(norm, type)
        errors == \/ \E c \in DOMAIN checks : ~checks[c]
                  \/ \E f \in DOMAIN date : ~IsMrzDate(date[f])
    IN
    /\ zone.kind # "none" /\ parsed = Unparsed
    /\ parsed' = IF type = "UNKNOWN" THEN [Unparsed EXCEPT !.type = type, !.status = "INVALID"]
                 ELSE [type |-> type, status |-> StatusOf(errors, checks), checks |-> checks, date |-> date]
    /\ UNCHANGED <<zone, reading, misread>>

\* the words above the zone: 24 letters, the first one a document code
Words == <<Letter.I>> \o [k \in 1..23 |-> Letter.D]

MrzNext ==
    \/ \E kind \in MrzKind, birth, expiry \in PrintedDates, heading \in {<<>>, <<Words>>} :
          Photograph(kind, birth, expiry, heading)
    \/ \E line \in DOMAIN zone.lines :
          \E position \in DOMAIN zone.lines[line] :
             \E c \in LookAlikes(zone.lines[line][position]) : Misread(line, position, c)
    \/ ParseZone

MrzSpec == MrzInit /\ [][MrzNext]_mrzVars

-----------------------------------------------------------------------------
(* Properties *)

MrzTypeOK ==
    /\ zone.kind \in MrzKind \cup {"none"}
    /\ \A k \in DOMAIN zone.lines : zone.lines[k] \in Seq(0..Filler)
    /\ \A k \in DOMAIN reading : reading[k] \in Seq(0..Filler)
    /\ parsed = Unparsed \/ parsed.status \in MrzStatus

\* where the zone of a document holds a date and its check digit
Place(kind, date) ==
    LET line == 2
        from == CASE kind = "TD1" /\ date = "birth" -> 1 [] kind = "TD1" /\ date = "expiry" -> 9
                  [] kind # "TD1" /\ date = "birth" -> 14 [] kind # "TD1" /\ date = "expiry" -> 22
    IN  {<<line, p>> : p \in from..(from + 6)}

PrintedDate(date) ==
    LET places == Place(zone.kind, date)
        from == CHOOSE p \in 1..44 : <<2, p>> \in places /\ \A q \in 1..44 : <<2, q>> \in places => p <= q
    IN  SubSeq(zone.lines[2], from, from + 5)

\* A date whose check digit matched is the date printed on the document, though
\* the digit was computed from the reading and the date was repaired: no single
\* confusion of LookAlikes in the date or in its digit gets through - whatever
\* else was misread in the zone and whatever type the lines were taken for.
CheckedDatesAreThePrintedOnes ==
    \A date \in DOMAIN parsed.date :
        (parsed.checks[date] /\ Cardinality(misread \cap Place(zone.kind, date)) <= 1)
            => parsed.date[date] = PrintedDate(date)
=============================================================================
