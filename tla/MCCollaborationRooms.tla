----------------------- MODULE MCCollaborationRooms -----------------------
(***************************************************************************)
(* Small instances of CollaborationRooms for TLC.                          *)
(***************************************************************************)
EXTENDS CollaborationRooms

\* One browser that types everything.
OneAuthor == [e \in Edit |-> CHOOSE c \in Client : TRUE]
===========================================================================
