CONSTANTS
  film1 = film1
  film2 = film2
  Page = Page
  None = None
  Sessions = {s1}
  Conns = {c1,c2}
  Requests <- FilmAndLastPage
  FileChunks = 1
  MaxRequests = 1
  Splits = TRUE
  Pipelining = TRUE
  Leaving = TRUE
  Timeouts = TRUE
SPECIFICATION MainFairSpec
CHECK_DEADLOCK FALSE
INVARIANTS PoolSound OwnFilm OneTranscoderPerRequest
PROPERTY
  FilmClosed
