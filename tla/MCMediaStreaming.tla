-------------------------- MODULE MCMediaStreaming --------------------------
(* The requests of the runs: two films, or a film and a page that is asked *)
(* for with "Connection: close" (or by HTTP/1.0).                          *)
EXTENDS MediaStreaming

CONSTANTS film1, film2

Keep(f)  == [file |-> f, close |-> FALSE]
Close(f) == [file |-> f, close |-> TRUE]

TwoFilms        == { Keep(film1), Keep(film2) }
FilmAndLastPage == { Keep(film1), Close(Page) }
=============================================================================
