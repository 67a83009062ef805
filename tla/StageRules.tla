----------------------------- MODULE StageRules -----------------------------
(***************************************************************************)
(* What the processing services compute from a document: the pages that    *)
(* are admitted, what OCR reads, which tokens the layout keeps, the route,  *)
(* the fields with their confidences, and the verdict on them.             *)
(*                                                                         *)
(* A text is the set of its tokens: one for each field an extractor would   *)
(* find in it, and "words".  Scores are ten-thousandths, which is what the  *)
(* services round them to.  The confidence of a reading is a fraction of    *)
(* Full: OCR rounds it to ten-thousandths for a whole document, but the mean *)
(* over pages that were read one by one is not rounded at all.              *)
(***************************************************************************)
EXTENDS Naturals, FiniteSets, Sequences, SequencesExt

CONSTANTS
    Secondary,   \* is Tesseract configured behind the primary engine?
    VlmEnabled,  \* extraction_enable_vlm_fallback
    MaxPages,    \* preprocess_max_pages
    MaxPixels,   \* preprocess_max_total_pixels, in millions
    Full,        \* the confidence of a perfect reading, in units of a reading's
    Enough       \* the tokens that make 20 characters

Least(a, b)    == IF a < b THEN a ELSE b
Greatest(a, b) == IF a < b THEN b ELSE a
The(S)         == CHOOSE x \in S : TRUE

\* Percent p of a reading's confidence, to the nearest ten-thousandth.  A tie
\* counts as rounded up; the binary fractions of the code fall on either side.
Part(p, conf)  == (200 * p * conf + Full) \div (2 * Full)
Sum(s)         == FoldSeq(LAMBDA a, b : a + b, 0, s)

-----------------------------------------------------------------------------
(* Preprocessing *)

\* Every page below 25 megapixels, and the document within its budget.  A
\* page whose clean-up fails is kept as it was.
Admitted(doc) ==
    /\ Len(doc.pixels) \in 1..MaxPages
    /\ \A i \in DOMAIN doc.pixels : doc.pixels[i] <= 25
    /\ Sum(doc.pixels) <= MaxPixels

-----------------------------------------------------------------------------
(* OCR *)

Ocr(text, conf, fallback) == [text |-> text, conf |-> conf, fallback |-> fallback]

\* An engine that could not be started stays so until the service restarts.
Engines == {"ready", "broken"}

\* What an engine reads: every detection that has a text.
Read(doc) == doc.printed \ {"blank"}

\* Tesseract leaves out what it does not take for text itself.
ReadBySecond(doc) == Read(doc) \ doc.unsure

\* The reasons the caller should not come back for.
Permanent == {"invalid_image", "no_text", "disabled", "secondary_rejected"}

\* What the primary engine makes of the pages, by the failure that meets it.
PrimaryReason(engine, fault) ==
    IF fault = "download" THEN "artifact_read_failed"
    ELSE IF fault = "garbled" THEN "invalid_image"
    ELSE IF engine = "broken" THEN "engine_unavailable"
    ELSE IF fault = "execution" THEN "engine_execution_failed" ELSE ""

\* The second engine is asked when the first failed, and not the image.
AsksSecondary(reason) ==
    Secondary /\ reason \notin {"", "invalid_image", "artifact_read_failed"}

\* What the second engine read counts only if it is sure and in place.
ValidSecondary(doc) ==
    ReadBySecond(doc) # {} /\ doc.sound /\ 10 * doc.secondary >= 8 * Full

Failed(why) == [reason |-> why, read |-> Ocr({}, 0, FALSE)]

\* [reason, reading] of a request; fault2 meets the second engine.
ReadPages(doc, engine, fault, fault2) ==
    LET reason == PrimaryReason(engine, fault)
        primary ==
          IF reason # "" THEN Failed(reason)
          ELSE IF Read(doc) = {} THEN Failed("no_text")
          ELSE [reason |-> "", read |-> Ocr(Read(doc), doc.primary, FALSE)]
        secondary ==
          IF fault2 = "garbled" THEN Failed("invalid_image")
          ELSE IF fault2 # "none" THEN Failed("secondary_failed")
          ELSE IF ~ValidSecondary(doc) THEN Failed("secondary_rejected")
          ELSE [reason |-> "", read |-> Ocr(ReadBySecond(doc), doc.secondary, TRUE)]
    IN  IF AsksSecondary(reason) THEN secondary ELSE primary

-----------------------------------------------------------------------------
(* Layout *)

\* Tokens without a usable box are left out.
Boxed(doc, text) == text \ doc.boxless

\* What the model is hardly sure of, or has no extent, is no block.
Detected(doc) == doc.blocks \ doc.faint

\* With no model, or nothing detected, the blocks are the lines of the tokens.
BlocksFor(doc, model, tokens) ==
    IF model = "ready" /\ Detected(doc) # {} THEN Detected(doc) ELSE {{t} : t \in tokens}

\* Each block takes the tokens it overlaps, more than one block may take a
\* token, and the tokens nobody took make a block of their own.
Assign(blocks, tokens) ==
    LET taken == {b \cap tokens : b \in blocks}
        rest  == tokens \ UNION taken
    IN  taken \cup (IF rest = {} THEN {} ELSE {rest})

\* A layout artifact: its text, and how long that text is.
Layout(doc, ocr, model) ==
    LET tokens == Boxed(doc, ocr.text)
        blocks == Assign(BlocksFor(doc, model, tokens), tokens)
    IN  [text |-> UNION blocks, length |-> MapThenSumSet(Cardinality, blocks)]

-----------------------------------------------------------------------------
(* Classification *)

Strict == {"invoice", "receipt", "contract", "purchase_order", "bank_statement"}
Order  == <<"invoice", "receipt", "contract", "purchase_order", "bank_statement">>

\* The weights of a route's patterns, in hundredths, and its threshold.
RouteRules ==
    [invoice        |-> [weights |-> <<28, 20, 16, 10, 18, 8, 10>>, threshold |-> 6200],
     receipt        |-> [weights |-> <<26, 16, 10, 12, 10, 10>>,    threshold |-> 5800],
     contract       |-> [weights |-> <<24, 24, 12, 12, 18, 10>>,    threshold |-> 5800],
     purchase_order |-> [weights |-> <<30, 20, 12, 12, 12>>,        threshold |-> 5800],
     bank_statement |-> [weights |-> <<30, 18, 16, 16, 12>>,        threshold |-> 6000]]

Score(doc, route) ==
    LET weights == RouteRules[route].weights
    IN  Least(85, Sum([i \in DOMAIN weights |->
                         IF i \in doc.matched[route] THEN weights[i] ELSE 0]))

\* The first of the surest candidates, or "generic" when it is not sure
\* enough; what the second engine read is never classified.
Classify(doc, ocr) ==
    LET sure(r)  == Least(9900, 2000 + 100 * Score(doc, r) + Part(12, ocr.conf))
        rank(i)  == 10 * sure(Order[i]) + Cardinality(doc.matched[Order[i]])
        best     == {i \in DOMAIN Order : \A j \in DOMAIN Order : rank(j) <= rank(i)}
        first    == {i \in best : \A j \in best : i <= j}
        chosen   == {i \in first : sure(Order[i]) >= RouteRules[Order[i]].threshold}
    IN  IF ocr.fallback \/ chosen = {} THEN "generic" ELSE Order[The(chosen)]

-----------------------------------------------------------------------------
(* Extraction *)

Schema ==
    [invoice        |-> {"invoice_number", "invoice_date", "total_amount", "currency", "vendor_name"},
     receipt        |-> {"receipt_date", "merchant_name", "total_amount", "tax_amount", "payment_method"},
     contract       |-> {"effective_date", "parties", "term", "governing_law", "signature_date"},
     purchase_order |-> {"purchase_order_number", "order_date", "supplier_name", "buyer_name", "total_amount"},
     bank_statement |-> {"account_number", "statement_period", "opening_balance", "closing_balance", "transactions"},
     generic        |-> {"document_date", "total_amount", "primary_party", "secondary_party", "summary"}]

\* The text the fields are taken from: the layout's when it is long enough, and
\* has at least half the length of what OCR read.
Context(ocr, layout) ==
    LET used == layout.length >= Greatest(Enough, Cardinality(ocr.text) \div 2)
    IN  [text |-> IF used THEN layout.text ELSE ocr.text, used |-> used]

Found(route, text) ==
    Schema[route] \cap (text \cup (IF text # {} THEN {"summary"} ELSE {}))

Bonus(used)            == IF used THEN 500 ELSE 0
Fill(conf, n, used)    == Least(9900, Part(60, conf) + 700 * n + Bonus(used))
FieldSure(conf, used)  == Least(9900, Part(75, conf) + 2000 + Bonus(used))

\* The model is asked when the rules are not sure, and always for a generic
\* document or one the second engine read.
AsksVlm(route, conf, fallback) ==
    VlmEnabled /\ (conf < 8000 \/ route = "generic" \/ fallback)

NoAnswer == [fields |-> {}, odd |-> {}, conf |-> 0]

\* What comes of that: nothing when the model fails, an empty answer when its
\* text holds no object.
VlmAnswers(asked, answers) ==
    {{}} \cup (IF asked THEN {{a} : a \in answers \cup {NoAnswer}} ELSE {})

\* The model's answer fills only empty fields of the schema.
Merge(route, found, llm) == found \cup (Schema[route] \cap llm.fields)

\* Mutant: the payload owns up to the model only if it filled a field.
ExtractionUnmarked(doc, route, ctx, conf, vlm) ==
    LET found  == Found(route, ctx.text)
        llm    == IF vlm = {} THEN NoAnswer ELSE The(vlm)
        fields == Merge(route, found, llm)
        rules  == Fill(conf, Cardinality(found), ctx.used)
        raised == Greatest(rules, Least(10000, llm.conf))
    IN  [route  |-> route,
         fields |-> fields,
         odd    |-> (doc.odd \cap found) \cup (llm.odd \cap (fields \ found)),
         vlm    |-> fields # found,
         sure   |-> FieldSure(conf, ctx.used),
         conf   |-> IF fields = Schema[route] THEN raised
                    ELSE Least(raised, Fill(conf, Cardinality(fields), ctx.used))]

\* The payload; vlm holds the model's answer, if it was asked and gave one.  A
\* field that is still missing takes the model's confidence away.
Extraction(doc, route, ctx, conf, vlm) ==
    LET found  == Found(route, ctx.text)
        llm    == IF vlm = {} THEN NoAnswer ELSE The(vlm)
        fields == Merge(route, found, llm)
        rules  == Fill(conf, Cardinality(found), ctx.used)
        raised == Greatest(rules, Least(10000, llm.conf))
    IN  [route  |-> route,
         fields |-> fields,
         odd    |-> (doc.odd \cap found) \cup (llm.odd \cap (fields \ found)),
         vlm    |-> vlm # {},
         sure   |-> FieldSure(conf, ctx.used),
         conf   |-> IF fields = Schema[route] THEN raised
                    ELSE Least(raised, Fill(conf, Cardinality(fields), ctx.used))]

-----------------------------------------------------------------------------
(* Validation *)

Ruleset(required, dates, money, vlm) ==
    [required |-> required, formatted |-> dates \cup money, vlm |-> vlm]
Rules ==
    [invoice        |-> Ruleset({"invoice_number", "invoice_date", "total_amount"},
                                {"invoice_date"}, {"total_amount"}, FALSE),
     receipt        |-> Ruleset({"receipt_date", "merchant_name", "total_amount"},
                                {"receipt_date"}, {"total_amount", "tax_amount"}, FALSE),
     contract       |-> Ruleset({"parties", "effective_date"},
                                {"effective_date", "signature_date"}, {}, FALSE),
     purchase_order |-> Ruleset({"purchase_order_number", "supplier_name", "total_amount"},
                                {"order_date"}, {"total_amount"}, FALSE),
     bank_statement |-> Ruleset({"account_number", "statement_period", "closing_balance"},
                                {}, {"opening_balance", "closing_balance"}, FALSE),
     generic        |-> Ruleset({"summary"}, {"document_date"}, {"total_amount"}, TRUE)]

Hints ==
    [invoice        |-> {"invoice_number", "invoice_date"},
     receipt        |-> {"receipt_date", "merchant_name"},
     contract       |-> {"effective_date", "parties", "governing_law"},
     purchase_order |-> {"purchase_order_number", "supplier_name", "buyer_name"},
     bank_statement |-> {"account_number", "statement_period", "closing_balance"}]

\* The route given, or else the first that a field hints at.
InferRoute(fields, given) ==
    LET hinted == {i \in DOMAIN Order : Hints[Order[i]] \cap fields # {}}
    IN  CASE given \in Strict -> given
          [] given \notin Strict /\ hinted = {} -> "generic"
          [] OTHER -> Order[CHOOSE i \in hinted : \A j \in hinted : i <= j]

\* The verdict on p = [fields, odd, conf, vlm, sure, route, human]: sure is
\* the confidence of the fields, or that of the document if none came.
Judge(p) ==
    LET route   == InferRoute(p.fields, p.route)
        rules   == Rules[route]
        missing == rules.required \ p.fields
        gated   == /\ p.sure >= 6000 \/ rules.required \cap p.fields = {}
                   /\ p.conf >= 9000
                   /\ p.vlm => rules.vlm
        reject  == p.fields = {} \/ (~p.human /\ p.conf < 2500 /\ missing # {})
        review  == missing # {} \/ rules.formatted \cap p.odd # {} \/ ~(p.human \/ gated)
    IN  [route   |-> route,
         verdict |-> CASE reject  -> "rejected"
                       [] ~reject /\ review  -> "needs_review"
                       [] ~reject /\ ~review /\ p.human -> "human_approved"
                       [] OTHER   -> "auto_approved"]
=============================================================================
