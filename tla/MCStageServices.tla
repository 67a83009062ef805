--------------------------- MODULE MCStageServices ---------------------------
(* An instance of StageServices for TLC. *)
EXTENDS StageServices, TLC

CONSTANTS c1, c2

NoMatch == [r \in Strict |-> {}]
Sheet(printed, primary, secondary) ==
    [pixels |-> <<8>>, printed |-> printed \cup {"words", "blank"}, boxless |-> {}, odd |-> {},
     blocks |-> {}, matched |-> NoMatch, primary |-> primary, secondary |-> secondary,
     sound |-> TRUE, faint |-> {}, unsure |-> {}]

Bill(primary) ==
    [Sheet(Schema["invoice"], primary, 7000) EXCEPT
       !.matched["invoice"] = {1, 2, 5, 6},
       !.blocks = {{"invoice_number", "invoice_date"}, {"invoice_date", "total_amount"}}]
Letter ==
    [Sheet({"document_date", "primary_party", "secondary_party"}, 4667, 9000) EXCEPT
       !.unsure = {"secondary_party"}]

\* An invoice just clear enough; a poor one; a clear one whose fields have hardly
\* any box; a letter, which is generic, just clear enough too; a scan over its
\* budget.
MCDocuments ==
    {Bill(8333), Bill(6000),
     [Bill(9700) EXCEPT !.boxless = {"invoice_number", "currency"}, !.odd = {"invoice_date"},
                      !.faint = {{"invoice_number", "invoice_date"}, {"invoice_date", "total_amount"}}],
     Letter,
     [Letter EXCEPT !.pixels = <<20, 20, 20>>]}

\* A sum for the letter, well-formed or in words; confidence and nothing else.
MCLlmAnswers ==
    {[fields |-> {"total_amount"}, odd |-> {}, conf |-> 9500],
     [fields |-> {"total_amount"}, odd |-> {"total_amount"}, conf |-> 9500],
     [fields |-> {}, odd |-> {}, conf |-> 9900]}

\* Requests are told apart by nothing but their name.
Symmetry == Permutations(Calls)

MCMaxInflight == [s \in Services |-> IF s = "ocr" THEN 1 ELSE 2]
=============================================================================
