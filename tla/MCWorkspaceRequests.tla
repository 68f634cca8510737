------------------------ MODULE MCWorkspaceRequests -------------------------
(* WorkspaceRequests with a few handlers and export jobs. *)
EXTENDS WorkspaceRequests

CONSTANTS reader, writer, e1, e2

Handlers == {reader, writer}
OneWriter == {writer}
TwoExports == {e1, e2}
=============================================================================
