\* Five journals: a whole operation, with its rollback, and the next, with crashes and
\* failed file operations anywhere.
SPECIFICATION StoreSpec
CONSTANTS
    MaxWrites = 5
    NoFile = NoFile
    NoCall = NoCall
PROPERTIES
  RegisterButForLosses
