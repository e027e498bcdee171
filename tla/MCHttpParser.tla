----------------------------- MODULE MCHttpParser -----------------------------
(* The messages: a GET, a POST and a NOTIFY that are plain, a GET without  *)
(* HOST, in HTTP/1.1 and in HTTP/1.0, a POST whose body has two lines of   *)
(* which the first looks like a header, bodies in chunks, a method and a   *)
(* version that are not supported, and a version that is none.             *)
EXTENDS HttpParser

Word == << "word" >>
Message(method, names, coding, body) ==
  [method |-> method, uri |-> "/", version |-> << "HTTP", 1, 1 >>, names |-> names,
   coding |-> coding, body |-> body]
Soap == { "HOST", "CONTENT-TYPE" }

Get       == Message("GET", {"HOST"}, "none", << >>)
GetNoHost == Message("GET", {}, "none", << >>)
GetOld    == [GetNoHost EXCEPT !.version = << "HTTP", 1, 0 >>]
GetNewer  == [Get EXCEPT !.version = << "HTTP", 2, 0 >>]
GetNone   == [Get EXCEPT !.version = << "none" >>]
Put       == Message("PUT", {"HOST"}, "none", << >>)
Post      == Message("POST", Soap, "length", << Word >>)
Notify    == [Message("NOTIFY", Soap, "length", << Word >>) EXCEPT !.uri = "/event"]
PostLines == Message("POST", Soap, "length", << Header("xmlns", "soap"), Crlf, Word >>)
PostOpen  == Message("POST", Soap, "length", << Header("xmlns", "soap") >>)
Chunked   == Message("POST", Soap, "chunked", << Word >>)
NoChunks  == Message("POST", Soap, "chunked", << >>)

AllMessages ==
  { Get, GetNoHost, GetOld, GetNewer, GetNone, Put, Post, Notify, PostLines, PostOpen,
    Chunked, NoChunks }
=============================================================================
