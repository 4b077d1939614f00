--------------------------- MODULE TextRecognition ---------------------------
(***************************************************************************)
(* From a scanned document to the text on its pages: processing/ocr and    *)
(* processing/extraction/spatial_data.  A registry names the engines; an   *)
(* engine returns the pages it could read something on, a page is blocks   *)
(* of lines of words; the fusion engine runs two of them and joins what    *)
(* they read page by page, line by line; the spans of a result point into  *)
(* its pages.                                                              *)
(*                                                                         *)
(* A printed word is a page, a line and a place on the line; words at the  *)
(* same place of different lines read the same, so that lines repeat.      *)
(* Which words an engine makes out is a choice.  Texts are equal up to     *)
(* case and spacing; confidences and the sizes of boxes are left out.      *)
(***************************************************************************)
EXTENDS Naturals, Sequences, FiniteSets, SequencesExt, Listings

CONSTANT Printed            \* the words of the document: <<page, line, place>>

ASSUME OcrAssumption == Printed \subseteq Nat \X Nat \X Nat /\ IsFiniteSet(Printed)

VARIABLES
    ocrEngines,     \* the registered engines, oldest first
    defaultEngine,  \* the engine of a request that names none
    recognised,     \* the pages of the result
    made,           \* the printed words each engine made out for it
    spans           \* the spans built from it

ocrVars == <<ocrEngines, defaultEngine, made, recognised, spans>>

Single == {"tesseract", "paddle"}
EngineNames == Single \cup {"fusion"}
NoPages == <<>>             \* no result: none asked for, or the engine failed

OcrInit ==
    /\ ocrEngines = <<"tesseract">> /\ defaultEngine = "tesseract"
    /\ made = [e \in Single |-> {}] /\ recognised = NoPages /\ spans = <<>>

-----------------------------------------------------------------------------
(* What is a line, a block, a page and a result: their constructors raise otherwise *)

IsLine(line) == line.text # <<>> /\ line.y >= 0 /\ line.x >= 0
IsBlock(block) == block # <<>> /\ \A i \in DOMAIN block : IsLine(block[i])
IsPage(page) == page.number > 0 /\ \A i \in DOMAIN page.blocks : IsBlock(page.blocks[i])
IsResult(pages) ==
    /\ pages # <<>> /\ \A i \in DOMAIN pages : IsPage(pages[i])
    /\ \A i, j \in DOMAIN pages : i < j => pages[i].number < pages[j].number
CheckedResult(pages) == IF IsResult(pages) THEN pages ELSE NoPages

-----------------------------------------------------------------------------
(* What one engine returns *)

PlacesOn(words, n, l) == {w[3] : w \in {v \in words : v[1] = n /\ v[2] = l}}
LinesOn(words, n) == {w[2] : w \in {v \in words : v[1] = n}}

\* the words of a line from left to right; the box of the line starts at the first
ReadLine(words, n, l) ==
    [text |-> InOrder(PlacesOn(words, n, l)), y |-> l, x |-> Min(PlacesOn(words, n, l)), status |-> "read"]
ReadLines(words, n) ==
    LET lines == InOrder(LinesOn(words, n)) IN [i \in DOMAIN lines |-> ReadLine(words, n, lines[i])]

\* Tesseract numbers blocks itself, here one for each line
TesseractPage(words, n) ==
    LET lines == ReadLines(words, n) IN [number |-> n, blocks |-> [i \in DOMAIN lines |-> <<lines[i]>>]]
PaddlePage(words, n) == [number |-> n, blocks |-> <<ReadLines(words, n)>>]

\* a page nothing was read on is left out, the others keep their number
PagesOf(engine, words) ==
    LET numbers == InOrder({w[1] : w \in words})
    IN  [i \in DOMAIN numbers |-> IF engine = "tesseract" THEN TesseractPage(words, numbers[i])
                                                          ELSE PaddlePage(words, numbers[i])]

-----------------------------------------------------------------------------
(* Fusion *)

CollectLines(page) == FlattenSeq(page.blocks)
Marked(line, status) == [line EXCEPT !.status = status]
MarkedAll(lines, status) == [i \in DOMAIN lines |-> Marked(lines[i], status)]

\* sorted is stable: lines at one place stay in the order they were collected
InReadingOrder(lines) ==
    LET Above(i, j) == \/ lines[i].y < lines[j].y
                       \/ lines[i].y = lines[j].y /\ lines[i].x < lines[j].x
                       \/ lines[i].y = lines[j].y /\ lines[i].x = lines[j].x /\ i < j
        order == CHOOSE p \in [DOMAIN lines -> DOMAIN lines] :
                    \A k, m \in DOMAIN lines : k < m => Above(p[k], p[m])
    IN  [k \in DOMAIN lines |-> lines[order[k]]]

\* the first secondary line with the text, once for all primary lines that have it
FirstWith(text, lines) == Min({s \in DOMAIN lines : lines[s].text = text})
Matches(primary, secondary) ==
    {i \in DOMAIN primary : /\ \E s \in DOMAIN secondary : secondary[s].text = primary[i].text
                            /\ \A j \in 1..(i - 1) : primary[j].text # primary[i].text}
\* Bug variant: secondary lines are left out by their text, not by their index.
FuseLinesByText(primary, secondary) ==
    LET matched == Matches(primary, secondary)
        texts == {primary[i].text : i \in matched}
        rest == InOrder({s \in DOMAIN secondary : secondary[s].text \notin texts})
    IN  InReadingOrder(
            [i \in DOMAIN primary |-> Marked(primary[i], IF i \in matched THEN "matched" ELSE "primary_only")]
            \o [k \in DOMAIN rest |-> Marked(secondary[rest[k]], "secondary_only")])

FuseLines(primary, secondary) ==
    LET matched == Matches(primary, secondary)
        used == {FirstWith(primary[i].text, secondary) : i \in matched}
        rest == InOrder((DOMAIN secondary) \ used)
    IN  InReadingOrder(
            [i \in DOMAIN primary |-> Marked(primary[i], IF i \in matched THEN "matched" ELSE "primary_only")]
            \o [k \in DOMAIN rest |-> Marked(secondary[rest[k]], "secondary_only")])

LinesOfPage(pages, n) == FlattenSeq([i \in DOMAIN pages |-> IF pages[i].number = n THEN CollectLines(pages[i]) ELSE <<>>])
NumbersOf(pages) == {pages[i].number : i \in DOMAIN pages}
FusePage(primary, secondary, n) ==
    LET p == LinesOfPage(primary, n)
        s == LinesOfPage(secondary, n)
    IN  IF n \in NumbersOf(primary) \cap NumbersOf(secondary) THEN FuseLines(p, s)
        ELSE IF n \in NumbersOf(primary) THEN MarkedAll(p, "primary_only") ELSE MarkedAll(s, "secondary_only")

\* one block for all lines of a page; a page without lines is left out
FusePages(primary, secondary) ==
    LET numbers == InOrder({n \in NumbersOf(primary) \cup NumbersOf(secondary) : FusePage(primary, secondary, n) # <<>>})
    IN  [i \in DOMAIN numbers |-> [number |-> numbers[i], blocks |-> <<FusePage(primary, secondary, numbers[i])>>]]

-----------------------------------------------------------------------------
(* Registry and service *)

Registered(e) == \E i \in DOMAIN ocrEngines : ocrEngines[i] = e

RegisterEngine(e) ==
    /\ ~Registered(e)
    /\ ocrEngines' = Append(ocrEngines, e)
    /\ UNCHANGED <<defaultEngine, made, recognised, spans>>

\* the last engine stays; without its default the registry takes the oldest one left
UnregisterEngine(e) ==
    /\ Registered(e) /\ Len(ocrEngines) > 1
    /\ ocrEngines' = AtPlaces(ocrEngines, {i \in DOMAIN ocrEngines : ocrEngines[i] # e})
    /\ defaultEngine' = IF e = defaultEngine THEN Head(ocrEngines') ELSE defaultEngine
    /\ UNCHANGED <<made, recognised, spans>>

SetDefaultEngine(e) ==
    /\ Registered(e) /\ e # defaultEngine
    /\ defaultEngine' = e
    /\ UNCHANGED <<ocrEngines, made, recognised, spans>>

\* an engine that reads nothing at all raises, and the fusion with it
Fuse(primary, secondary) ==
    IF primary = NoPages \/ secondary = NoPages THEN NoPages ELSE CheckedResult(FusePages(primary, secondary))
Run(e, words) ==
    LET ReadBy(f) == CheckedResult(PagesOf(f, words[f]))
    IN  IF e = "fusion" THEN Fuse(ReadBy("tesseract"), ReadBy("paddle")) ELSE ReadBy(e)

\* the handler asks for the engine its job names, or for none
Recognise(e) ==
    /\ Registered(e) /\ recognised = NoPages
    /\ \E words \in [Single -> SUBSET Printed] :
          /\ e # "fusion" => \A f \in Single \ {e} : words[f] = {}
          /\ recognised' = Run(e, words)
          /\ made' = IF recognised' = NoPages THEN made ELSE words
    /\ UNCHANGED <<ocrEngines, defaultEngine, spans>>

RecogniseByDefault == Recognise(defaultEngine)
RecogniseByName == \E e \in EngineNames \ {defaultEngine} : Recognise(e)

-----------------------------------------------------------------------------
(* Spans *)

Span(kind, n, lines, words) == [kind |-> kind, page |-> n, y |-> lines, words |-> words]

LineSpans(n, line) ==
    <<Span("line", n, {line.y}, line.text)>>
    \o [i \in DOMAIN line.text |-> Span("word", n, {line.y}, <<line.text[i]>>)]
BlockSpans(n, block) ==
    IF block = <<>> THEN <<>>
    ELSE <<Span("block", n, {block[i].y : i \in DOMAIN block}, FlattenSeq([i \in DOMAIN block |-> block[i].text]))>>
         \o FlattenSeq([i \in DOMAIN block |-> LineSpans(n, block[i])])

BuildSpans ==
    /\ recognised # NoPages /\ spans = <<>>
    /\ spans' = FlattenSeq([p \in DOMAIN recognised |->
                   FlattenSeq([b \in DOMAIN recognised[p].blocks |-> BlockSpans(recognised[p].number, recognised[p].blocks[b])])])
    /\ UNCHANGED <<ocrEngines, defaultEngine, made, recognised>>

OcrNext ==
    \/ \E e \in EngineNames : RegisterEngine(e) \/ UnregisterEngine(e) \/ SetDefaultEngine(e)
    \/ RecogniseByDefault \/ RecogniseByName \/ BuildSpans

OcrSpec == OcrInit /\ [][OcrNext]_ocrVars

-----------------------------------------------------------------------------
\* The registry, the result and the spans are what their types say; the default engine is registered.
OcrTypeOK ==
    /\ ocrEngines \in Seq(EngineNames) /\ IsInjective(ocrEngines) /\ Registered(defaultEngine)
    /\ made \in [Single -> SUBSET Printed]
    /\ recognised # NoPages => IsResult(recognised)
    /\ \A i \in DOMAIN spans : spans[i].kind \in {"block", "line", "word"}

\* How often a text was read as a line of page n by one engine.
ReadTimes(e, n, text) == Cardinality({l \in LinesOn(made[e], n) : ReadLine(made[e], n, l).text = text})

\* Every line an engine made out is a span of its page: a line of one engine as often as that
\* engine read it, after a fusion at least as often as the engine that read it more often did,
\* and a line both read once is there once (_fuse_lines, _fuse_pages, _build_block_spans).
NothingReadIsLost ==
    spans # <<>> =>
        \A n \in {w[1] : w \in Printed}, e \in Single :
            \A l \in LinesOn(made[e], n) :
                LET text == ReadLine(made[e], n, l).text
                    times == Cardinality({i \in DOMAIN spans : spans[i].kind = "line" /\ spans[i].page = n /\ spans[i].words = text})
                    reads == {ReadTimes(f, n, text) : f \in Single}
                IN  /\ times >= Max(reads)
                    /\ reads \subseteq {0, 1} => times = 1
=============================================================================
