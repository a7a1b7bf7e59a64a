\* A crash between the two renames of one write and another during the next: the
\* comment on atomicWriteString promises that this cannot happen.
SPECIFICATION StoreSpec
CONSTANTS
    MaxWrites = 3
    NoFile = NoFile
    NoCall = NoCall
PROPERTIES PreviousOrNewVisible
