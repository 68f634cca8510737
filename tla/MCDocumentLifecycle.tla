------------------------ MODULE MCDocumentLifecycle -------------------------
EXTENDS DocumentLifecycle

\* One move of a folder of three documents, one of them a bundle, with one
\* hidden item and two metadata files.
FolderMove ==
    [items |->
        <<[kind |-> "history", doc |-> 1], [kind |-> "source", doc |-> 1],
          [kind |-> "source", doc |-> 2],
          [kind |-> "bundle", doc |-> 3], [kind |-> "annotation", doc |-> 3],
          [kind |-> "hidden", doc |-> 0],
          [kind |-> "edit", doc |-> 0], [kind |-> "edit", doc |-> 0]>>,
     exact |-> FALSE, stride |-> 2, moves |-> 1]

\* Exact renames of one document: applyHistory, applySource, an edit, its
\* annotation file and the aliases.
DocumentMoves(n) ==
    [items |->
        <<[kind |-> "history", doc |-> 0], [kind |-> "source", doc |-> 0],
          [kind |-> "edit", doc |-> 0], [kind |-> "annotation", doc |-> 0],
          [kind |-> "edit", doc |-> 0]>>,
     exact |-> TRUE, stride |-> 1, moves |-> n]

FolderAndDocument == {FolderMove, DocumentMoves(2)}
OneDocument == {DocumentMoves(1)}
=============================================================================
