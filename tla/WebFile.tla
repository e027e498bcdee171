------------------------------- MODULE WebFile -------------------------------
(***************************************************************************)
(* A file that the web server offers (BrisaWebFile), and the response a    *)
(* session writes of it: BrisaWebFile::onRequest sets the status, the range*)
(* and the body, BrisaWebserverSession::prepareResponse the headers, and   *)
(* HttpSession::writeEntityBody copies the bytes, all of them:             *)
(* BrisaWebserverSession has a writeEntityBody that would keep to the      *)
(* range, but with a socket for an argument instead of a device, so that   *)
(* it overrides nothing and is never called.  The file is on a disk that   *)
(* others write to.  Bytes are known by their place in the file; a body is *)
(* a sequence of places.                                                   *)
(*                                                                         *)
(* A Range header is [first, dash, last]: the text between "bytes=" and    *)
(* the first dash, and the text behind it; each is a number, Empty, or     *)
(* Garbage.                                                                *)
(***************************************************************************)
EXTENDS Integers, SequencesExt

CONSTANTS
  Sizes,            \* that the file may have
  Ranges,           \* the Range headers of clients
  Empty, Garbage, NoRange,
  Missing,          \* a file that cannot be opened
  MaxWrites         \* bound: how often the file changes

(* Sizes are numbers, and no number is a word; without a dash there is     *)
(* nothing behind it.                                                      *)
Numbers == Nat \cup {Empty, Garbage}
FileConstants ==
  /\ Sizes \subseteq Nat /\ Missing \notin Nat
  /\ Empty \notin Int /\ Garbage \notin Int /\ Empty # Garbage
  /\ Ranges \subseteq [first : Numbers, dash : BOOLEAN, last : Numbers]
  /\ \A r \in Ranges : ~r.dash => r.last = Empty
  /\ NoRange \notin Ranges

VARIABLES
  file,       \* its size, or Missing
  writes,     \* how often it has changed
  phase,      \* of the session: "idle", "asked", "made", "prepared"
  request,    \* the Range header
  response,   \* what has been made of it
  answer,     \* what has been written to the socket
  steady      \* the file's size, while it has not changed since the request

vars == << file, writes, phase, request, response, answer, steady >>

Nothing == << >>

Init ==
  /\ file \in Sizes \cup {Missing}
  /\ writes = 0
  /\ phase = "idle"
  /\ request = NoRange /\ response = Nothing /\ answer = Nothing
  /\ steady = Missing
-----------------------------------------------------------------------------
(* HttpResponse: the phrases, known by their codes, and the place of one.  *)
OK == 200
PARTIAL_CONTENT == 206

reasonPhrases ==
  << 100, 101, 102, 200, 201, 202, 203, 204, 205, 206, 207,
     300, 301, 302, 303, 304, 305, 306, 307 >>
  \o [i \in 1 .. 19 |-> 399 + i] \o [i \in 1 .. 5 |-> 421 + i]
  \o [i \in 1 .. 8 |-> 499 + i] \o << 510 >>

statusCodeToReasonPhrasesIndex(st) ==
  CASE st \in 100 .. 102 -> st - 100
    [] st \in 200 .. 207 -> 3 + st - 200
    [] st \in 300 .. 307 -> 11 + st - 300
    [] st \in 400 .. 418 -> 19 + st - 400
    [] st \in 422 .. 426 -> 19 + st - 403
    [] st \in 500 .. 507 -> 43 + st - 500
    [] st = 510 -> 51
    [] OTHER -> 0 - 1

(* A status with its phrase; another code changes nothing.                 *)
setStatusCode(r, st) ==
  LET i == statusCodeToReasonPhrasesIndex(st)
  IN  IF i = 0 - 1 THEN r
      ELSE [r EXCEPT !.status = st, !.reasonPhrase = reasonPhrases[i + 1]]

(* A response without a body yet, and a copy of one, which takes the body  *)
(* away from the original.                                                 *)
HttpResponse(statusCode) ==
  setStatusCode([status |-> 0, reasonPhrase |-> 0, range |-> << 0, 0 >>, body |-> FALSE,
                 length |-> 0, contentRange |-> << >>], statusCode)
copied(m) == [to |-> m, from |-> [m EXCEPT !.body = FALSE]]

(* A range whose last byte is 0 is none.                                   *)
useRange(r) == r.range[2] # 0
-----------------------------------------------------------------------------
IsNumber(text) == text \notin {Empty, Garbage}

(* Fault: a range is one byte too long.                                    *)
Fault_setRange(r, first, last) == [r EXCEPT !.range = << first, last + 1 >>]
setRange(r, first, last) == [r EXCEPT !.range = << first, last >>]

partial(r, first, last) == setStatusCode(setRange(r, first, last), PARTIAL_CONTENT)

(* What BrisaWebFile::onRequest makes of a Range header: without a dash it *)
(* is the first byte of the rest of the file; a range of a single byte is  *)
(* taken for none; and the rest of a file is no partial content.           *)
ranged(r, range, size) ==
  IF range = NoRange THEN r
  ELSE IF ~range.dash
       THEN IF IsNumber(range.first) THEN partial(r, range.first, size - 1) ELSE r
  ELSE IF range.first = Empty
       THEN IF IsNumber(range.last) THEN partial(r, size - range.last, size - 1) ELSE r
  ELSE IF ~IsNumber(range.first) THEN r
  ELSE IF ~IsNumber(range.last) THEN setRange(r, range.first, size - 1)
  ELSE IF range.first < range.last THEN partial(r, range.first, range.last)
  ELSE r

(* QFile::size, of a file that is not there, is 0.                         *)
sizeNow == IF file = Missing THEN 0 ELSE file

(* The body is left out when the file is not readable.  The session is     *)
(* given a copy of the response, and writes a copy of that.                *)
onRequest ==
  /\ phase = "asked"
  /\ phase' = "made"
  /\ response' =
       LET made == [ranged(HttpResponse(OK), request, sizeNow) EXCEPT !.body = (file # Missing)]
       IN  copied(copied(made).to).to
  /\ UNCHANGED << file, writes, request, answer, steady >>

entitySize(r) == IF r.body THEN sizeNow ELSE 0

prepareResponse ==
  /\ phase = "made"
  /\ phase' = "prepared"
  /\ LET r == response
     IN  response' =
           IF useRange(r) THEN [r EXCEPT !.length = 1 + r.range[2] - r.range[1],
                                         !.contentRange = Append(r.range, entitySize(r))]
                          ELSE [r EXCEPT !.length = entitySize(r)]
  /\ UNCHANGED << file, writes, request, answer, steady >>

(* The loop that copies the body seeks its start, whatever the range, and  *)
(* goes on to the end of the file.                                         *)
wholeFile == [i \in 1 .. sizeNow |-> i - 1]

writeEntityBody ==
  /\ phase = "prepared"
  /\ phase' = "idle"
  /\ answer' = [response EXCEPT !.body = IF @ THEN wholeFile ELSE << >>]
  /\ response' = Nothing
  /\ UNCHANGED << file, writes, request, steady >>
-----------------------------------------------------------------------------
(* A client asks again when it has been answered; the file changes.  One   *)
(* that is open when it is removed can be read as before.                  *)
Ask(range) ==
  /\ phase = "idle"
  /\ phase' = "asked"
  /\ request' = range
  /\ answer' = Nothing
  /\ steady' = file
  /\ UNCHANGED << file, writes, response >>

Write(size) ==
  /\ writes < MaxWrites /\ size # file
  /\ size = Missing => phase \in {"idle", "asked"}
  /\ writes' = writes + 1
  /\ file' = size
  /\ steady' = IF phase = "idle" THEN steady ELSE Missing
  /\ UNCHANGED << phase, request, response, answer >>

Next ==
  \/ \E range \in Ranges \cup {NoRange} : Ask(range)
  \/ onRequest \/ prepareResponse \/ writeEntityBody
  \/ \E size \in Sizes \cup {Missing} : Write(size)

Spec == Init /\ [][Next]_vars
-----------------------------------------------------------------------------
(* The places in the file that a client asks for: from first, to last or   *)
(* the end, or the last ones.  A header that is none of these is ignored,  *)
(* and so is a range that is not longer than a byte.                       *)
Proper(range) ==
  /\ range # NoRange
  /\ \/ IsNumber(range.first)
     \/ range.dash /\ range.first = Empty /\ IsNumber(range.last)
Backwards(range) ==
  IsNumber(range.first) /\ IsNumber(range.last) /\ range.first >= range.last

Wanted(range, size) ==
  IF ~Proper(range) \/ Backwards(range) THEN 0 .. size - 1
  ELSE IF range.first = Empty THEN {i \in 0 .. size - 1 : i >= size - range.last}
  ELSE IF ~IsNumber(range.last) THEN {i \in 0 .. size - 1 : i >= range.first}
  ELSE range.first .. range.last

(* What the file has: nothing is asked beyond its end, nor more than all   *)
(* of it, nor nothing.                                                     *)
Satisfiable(range, size) ==
  Proper(range) =>
    /\ IsNumber(range.first) => range.first < size
    /\ IsNumber(range.last) =>
         IF range.first = Empty THEN range.last \in 1 .. size ELSE range.last < size

(* A request for what the file has is answered, as long as nobody writes   *)
(* to the file, with a head that is right for the file and the request: it *)
(* tells the range that was asked for, how long that is and the size of    *)
(* the file, or else all of the file was asked for and its length is told; *)
(* and the phrase is that of the status.  The body is the whole file, in   *)
(* order (onRequest, prepareResponse, HttpSession::writeEntityBody).       *)
HeadRight ==
  steady # Missing /\ Satisfiable(request, steady) /\ answer # Nothing =>
    /\ IF answer.contentRange = << >>
       THEN Wanted(request, steady) = 0 .. steady - 1 /\ answer.length = steady
       ELSE LET first == answer.contentRange[1]
                last == answer.contentRange[2]
            IN  /\ first .. last = Wanted(request, steady)
                /\ answer.length = last - first + 1 /\ answer.length > 0
                /\ answer.contentRange[3] = steady
    /\ answer.reasonPhrase = answer.status
    /\ Len(answer.body) = steady
    /\ \A i \in 1 .. steady : answer.body[i] = i - 1

(* What a comment of the code says: of a range the bytes "from begin of    *)
(* range to the end of the file" are sent, or to the end of the range      *)
(* (brisawebfile.cpp:79).  The code sends the whole file.                  *)
RangeSent ==
  steady # Missing /\ Satisfiable(request, steady) /\ answer # Nothing =>
    ToSet(answer.body) = Wanted(request, steady)
=============================================================================
