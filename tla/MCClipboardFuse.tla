--------------------------- MODULE MCClipboardFuse ---------------------------
EXTENDS ClipboardFuse

\* Two plain files, the first without FD_FILESIZE (a lookup asks the server).
FlatList == [nr |-> 2, descs |-> <<[dir |-> FALSE, parent |-> 0, sizeKnown |-> FALSE],
                                   [dir |-> FALSE, parent |-> 0, sizeKnown |-> TRUE]>>]
\* A directory and a file in it, in the order the code assumes.
TreeList == [nr |-> 2, descs |-> <<[dir |-> TRUE, parent |-> 0, sizeKnown |-> FALSE],
                                   [dir |-> FALSE, parent |-> 1, sizeKnown |-> FALSE]>>]
\* The file before its directory.
ChildFirstList == [nr |-> 2, descs |-> <<[dir |-> FALSE, parent |-> 2, sizeKnown |-> FALSE],
                                         [dir |-> TRUE, parent |-> 0, sizeKnown |-> FALSE]>>]
\* nrDescriptors that does not match the length.
MismatchList == [nr |-> 3, descs |-> FlatList.descs]

FuseLists == {FlatList, TreeList, ChildFirstList, MismatchList}
FuseFlatOnly == {FlatList}
=============================================================================
