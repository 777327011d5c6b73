--------------------------- MODULE MCIndexMerging ---------------------------
\* Sizes around the levels of a tree with collision factor 2: at most 2, 4, 8, 16.
EXTENDS IndexMerging

MCSizes == {0, 1, 4, 5, 9}

=============================================================================
