CONSTANTS
  film1 = film1
  film2 = film2
  Page = Page
  None = None
  Sessions = {s1}
  Conns = {c1,c2}
  Requests <- TwoFilms
  FileChunks = 2
  MaxRequests = 2
  Splits = FALSE
  Pipelining = FALSE
  Leaving = FALSE
  Timeouts = FALSE
SPECIFICATION FairSpec
CHECK_DEADLOCK FALSE
INVARIANT
  RightAnswers
PROPERTY
  FilmArrives
