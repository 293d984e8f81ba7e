------------------------- MODULE MCDocumentCatalog -------------------------
(* Two requests at a time; a document that may expire on two dates.        *)
EXTENDS DocumentCatalog, TLC

MCSymmetry == Permutations(Requests) \cup Permutations(Categories)

=============================================================================
