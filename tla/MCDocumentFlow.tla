--------------------------- MODULE MCDocumentFlow ---------------------------
EXTENDS DocumentFlow, TLC

\* document ids, files, entities, sessions and keys are interchangeable
Symmetry ==
    Permutations(Documents) \cup Permutations(Files) \cup Permutations(Entities)
        \cup Permutations(Sessions) \cup Permutations(Keys)

=============================================================================
