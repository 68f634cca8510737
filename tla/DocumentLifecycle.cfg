SPECIFICATION FairSpec

CONSTANTS
    Plans <- FolderAndDocument
    None = None

INVARIANTS TypeOK AllOrNothing StrandedOnlyByEdits SharesRevokedFirst CollaborationFollows
PROPERTIES MoveIsAtomic MoveSettles
