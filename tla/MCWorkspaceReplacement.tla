----------------------- MODULE MCWorkspaceReplacement -----------------------
EXTENDS WorkspaceReplacement, TLC

CONSTANTS j1, j2

\* An import that may be tried twice, or a snapshot restore, beside a clear.
BesideClear == {(j1 :> k @@ j2 :> "clear") : k \in {"import", "snapshot"}}
OneImport == {(j1 :> "import")}
=============================================================================
