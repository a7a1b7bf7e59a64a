\* A commit on top of a rollback that failed.
SPECIFICATION Spec
CONSTANTS
    p1 = p1  p2 = p2
    Packages = {p1, p2}
    Original = Original
    Blank = Blank
    Lost = Lost
    None = None
    MaxCommits = 2
PROPERTIES RollbackFailedIsTerminal
