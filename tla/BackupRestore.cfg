\* Two packages and two commits: a second operation meets the leftovers of the
\* first.
SPECIFICATION FairSpec
CONSTANTS
    p1 = p1  p2 = p2
    Packages = {p1, p2}
    Original = Original
    Blank = Blank
    Lost = Lost
    None = None
    MaxCommits = 2
INVARIANTS
  RollbackCopyKept
  ServesOneContent
  ReportedOutcomeIsTrue
PROPERTIES
  StartupSettles
