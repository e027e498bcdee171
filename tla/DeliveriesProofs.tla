-------------------------- MODULE DeliveriesProofs --------------------------
(***************************************************************************)
(* Proofs about what is delivered: files and ranges of them, the           *)
(* subscriptions of a control point, the variables of a service.  Each is  *)
(* proved for the specification of its own module; the last section        *)
(* carries the results over to Deliveries, whose steps are steps of one    *)
(* part.                                                                   *)
(***************************************************************************)
EXTENDS Deliveries, SequenceLemmas

(* A file that the web server offers (WebFile), of any size, and any range *)
(* that is asked of it.                                                    *)

(* What is made of a request, and what it has to be for the file's size.   *)
Responses ==
  [status : Int, reasonPhrase : Int, range : Int \X Int, body : BOOLEAN, length : Int,
   contentRange : {<< >>}]
Phrased(r) == r \in Responses /\ r.status \in {200, 206} /\ r.reasonPhrase = r.status

Fits(r, size, first, last) ==
  /\ first \in Int /\ last \in Int
  /\ WF!Satisfiable(r, size) =>
       IF last # 0
       THEN 0 <= first /\ first <= last /\ last < size /\ WF!Wanted(r, size) = first .. last
       ELSE WF!Wanted(r, size) = 0 .. size - 1

(* The phrase of a status is at its place in the list.                     *)
LEMMA PhraseOfStatus ==
  /\ WF!reasonPhrases[WF!statusCodeToReasonPhrasesIndex(200) + 1] = 200
  /\ WF!reasonPhrases[WF!statusCodeToReasonPhrasesIndex(206) + 1] = 206
  /\ WF!statusCodeToReasonPhrasesIndex(200) # 0 - 1
  /\ WF!statusCodeToReasonPhrasesIndex(206) # 0 - 1
  <1> DEFINE a == << 100, 101, 102, 200, 201, 202, 203, 204, 205, 206, 207,
                     300, 301, 302, 303, 304, 305, 306, 307 >>
             b == [i \in 1 .. 19 |-> 399 + i]
             c == [i \in 1 .. 5 |-> 421 + i]
             d == [i \in 1 .. 8 |-> 499 + i]
             e == << 510 >>
  <1>1. a \in Seq(Int) /\ 4 \in 1..Len(a) /\ 10 \in 1..Len(a) /\ a[4] = 200 /\ a[10] = 206
    OBVIOUS
  <1>2. b \in Seq(Int)
    <2>1. b \in [1..19 -> Int]
      OBVIOUS
    <2>2. QED
      BY <2>1, SeqOfFunction
  <1>3. c \in Seq(Int)
    <2>1. c \in [1..5 -> Int]
      OBVIOUS
    <2>2. QED
      BY <2>1, SeqOfFunction
  <1>4. d \in Seq(Int)
    <2>1. d \in [1..8 -> Int]
      OBVIOUS
    <2>2. QED
      BY <2>1, SeqOfFunction
  <1>5. e \in Seq(Int)
    OBVIOUS
  <1>6. WF!reasonPhrases = a \o b \o c \o d \o e
    BY DEF WF!reasonPhrases
  <1> HIDE DEF a, b, c, d, e
  <1> DEFINE ab == a \o b
             abc == ab \o c
             abcd == abc \o d
             all == abcd \o e
  <1>7. \A i \in 1..Len(a) : ab \in Seq(Int) /\ i \in 1..Len(ab) /\ ab[i] = a[i]
    BY <1>1, <1>2, LongerSeq
  <1>8. ab \in Seq(Int)
    BY <1>1, <1>7
  <1> HIDE DEF ab
  <1>9. \A i \in 1..Len(ab) : abc \in Seq(Int) /\ i \in 1..Len(abc) /\ abc[i] = ab[i]
    BY <1>3, <1>8, LongerSeq
  <1>10. abc \in Seq(Int)
    BY <1>1, <1>7, <1>9
  <1> HIDE DEF abc
  <1>11. \A i \in 1..Len(abc) : abcd \in Seq(Int) /\ i \in 1..Len(abcd) /\ abcd[i] = abc[i]
    BY <1>4, <1>10, LongerSeq
  <1>12. abcd \in Seq(Int)
    BY <1>1, <1>7, <1>9, <1>11
  <1> HIDE DEF abcd
  <1>13. \A i \in 1..Len(abcd) : all[i] = abcd[i]
    BY <1>5, <1>12, LongerSeq
  <1> HIDE DEF all
  <1>14. \A i \in 1..Len(a) : all[i] = a[i]
    <2> SUFFICES ASSUME NEW i \in 1..Len(a) PROVE all[i] = a[i]
      OBVIOUS
    <2>1. i \in 1..Len(ab) /\ ab[i] = a[i]
      BY <1>7
    <2>2. i \in 1..Len(abc) /\ abc[i] = ab[i]
      BY <1>9, <2>1
    <2>3. i \in 1..Len(abcd) /\ abcd[i] = abc[i]
      BY <1>11, <2>2
    <2>4. all[i] = abcd[i]
      BY <1>13, <2>3
    <2>5. QED
      BY <2>1, <2>2, <2>3, <2>4
  <1>15. WF!reasonPhrases = all
    BY <1>6 DEF all, abcd, abc, ab
  <1>16. /\ WF!statusCodeToReasonPhrasesIndex(200) = 3
         /\ WF!statusCodeToReasonPhrasesIndex(206) = 9
    BY DEF WF!statusCodeToReasonPhrasesIndex
  <1>17. QED
    BY <1>1, <1>14, <1>15, <1>16

LEMMA StatusSet ==
  ASSUME NEW r \in Responses, NEW status \in {200, 206}
  PROVE  /\ Phrased(WF!setStatusCode(r, status))
         /\ WF!setStatusCode(r, status).range = r.range
  <1>1. /\ WF!reasonPhrases[WF!statusCodeToReasonPhrasesIndex(status) + 1] = status
        /\ WF!statusCodeToReasonPhrasesIndex(status) # 0 - 1
    BY PhraseOfStatus
  <1>2. WF!setStatusCode(r, status) = [r EXCEPT !.status = status, !.reasonPhrase = status]
    BY <1>1 DEF WF!setStatusCode
  <1>3. PICK n \in Int : n = status
    OBVIOUS
  <1>4. WF!setStatusCode(r, status) = [r EXCEPT !.status = n, !.reasonPhrase = n]
    BY <1>2, <1>3
  <1> DEFINE s == [r EXCEPT !.status = n, !.reasonPhrase = n]
  <1>5. s \in Responses
    BY DEF Responses
  <1>6. s.status = n /\ s.reasonPhrase = n /\ s.range = r.range
    BY DEF Responses
  <1> HIDE DEF s
  <1>7. WF!setStatusCode(r, status) = s
    BY <1>4 DEF s
  <1>8. QED
    BY <1>3, <1>5, <1>6, <1>7 DEF Phrased

LEMMA RangeSet ==
  ASSUME NEW r, Phrased(r), NEW first \in Int, NEW last \in Int
  PROVE  /\ Phrased(WF!setRange(r, first, last))
         /\ WF!setRange(r, first, last).range[1] = first
         /\ WF!setRange(r, first, last).range[2] = last
  <1> DEFINE t == << first, last >>
  <1>1. t \in Int \X Int /\ t[1] = first /\ t[2] = last
    OBVIOUS
  <1>2. WF!setRange(r, first, last) = [r EXCEPT !.range = t]
    BY DEF WF!setRange
  <1> HIDE DEF t
  <1>3. PICK s \in Int \X Int : s = t
    BY <1>1
  <1>4. WF!setRange(r, first, last) = [r EXCEPT !.range = s]
    BY <1>2, <1>3
  <1>5. Phrased([r EXCEPT !.range = s]) /\ [r EXCEPT !.range = s].range = s
    BY DEF Responses, Phrased
  <1>6. QED
    BY <1>1, <1>3, <1>4, <1>5

LEMMA PartialSet ==
  ASSUME NEW r, Phrased(r), NEW first \in Int, NEW last \in Int
  PROVE  /\ Phrased(WF!partial(r, first, last))
         /\ WF!partial(r, first, last).range[1] = first
         /\ WF!partial(r, first, last).range[2] = last
  <1> DEFINE s == WF!setRange(r, first, last)
  <1>1. Phrased(s) /\ s.range[1] = first /\ s.range[2] = last
    <2> HIDE DEF Phrased
    <2>1. /\ Phrased(WF!setRange(r, first, last))
          /\ WF!setRange(r, first, last).range[1] = first
          /\ WF!setRange(r, first, last).range[2] = last
      BY RangeSet
    <2>2. QED
      BY <2>1
  <1>2. WF!partial(r, first, last) = WF!setStatusCode(s, 206)
    BY DEF WF!partial, WF!PARTIAL_CONTENT
  <1> HIDE DEF s
  <1>3. QED
    BY <1>1, <1>2, StatusSet DEF Phrased

(* What onRequest makes of a range suits the request.                      *)
LEMMA RangedFits ==
  ASSUME WF!FileConstants, NEW r \in Ranges \cup {NoRange}, NEW size \in Nat
  PROVE  /\ Phrased(WF!ranged(WF!HttpResponse(200), r, size))
         /\ Fits(r, size, WF!ranged(WF!HttpResponse(200), r, size).range[1],
                          WF!ranged(WF!HttpResponse(200), r, size).range[2])
  <1> DEFINE blank == [status |-> 0, reasonPhrase |-> 0, range |-> << 0, 0 >>,
                       body |-> FALSE, length |-> 0, contentRange |-> << >>]
             new == WF!HttpResponse(200)
             got == WF!ranged(new, r, size)
             Good(m) == Phrased(m) /\ Fits(r, size, m.range[1], m.range[2])
  <1>1. blank \in Responses /\ blank.range[1] = 0 /\ blank.range[2] = 0
    BY DEF Responses
  <1>2. new = WF!setStatusCode(blank, 200)
    BY DEF WF!HttpResponse
  <1> HIDE DEF blank
  <1>3. Phrased(new) /\ new.range[1] = 0 /\ new.range[2] = 0
    BY <1>1, <1>2, StatusSet
  <1> HIDE DEF new
  <1>4. ASSUME got = new, Fits(r, size, 0, 0) PROVE Good(got)
    BY <1>3, <1>4
  <1>5. ASSUME NEW first \in Int, NEW last \in Int, Fits(r, size, first, last),
               got \in {WF!partial(new, first, last), WF!setRange(new, first, last)}
        PROVE  Good(got)
    <2>1. CASE got = WF!partial(new, first, last)
      BY <1>3, <1>5, <2>1, PartialSet
    <2>2. CASE got = WF!setRange(new, first, last)
      BY <1>3, <1>5, <2>2, RangeSet
    <2>3. QED
      BY <1>5, <2>1, <2>2
  <1> SUFFICES Good(got)
    BY DEF new
  <1> HIDE DEF Good
  <1> USE DEF WF!FileConstants, WF!Numbers, WF!IsNumber
  <1>6. CASE r = NoRange
    <2>1. got = new
      BY <1>6 DEF WF!ranged
    <2>2. Fits(r, size, 0, 0)
      BY <1>6 DEF Fits, WF!Wanted, WF!Proper
    <2>3. QED
      BY <1>4, <2>1, <2>2
  <1>7. CASE r \in Ranges
    <2> DEFINE first == r.first
               last == r.last
               dash == r.dash
    <2>1. /\ first \in WF!Numbers /\ last \in WF!Numbers /\ dash \in BOOLEAN /\ r # NoRange
          /\ ~dash => last = Empty
      BY <1>7
    <2>2. WF!Proper(r) <=>
            WF!IsNumber(first) \/ (dash /\ first = Empty /\ WF!IsNumber(last))
      BY <2>1 DEF WF!Proper
    <2>3. WF!Wanted(r, size) =
            IF ~WF!Proper(r) \/ WF!Backwards(r) THEN 0 .. size - 1
            ELSE IF first = Empty THEN {i \in 0 .. size - 1 : i >= size - last}
            ELSE IF ~WF!IsNumber(last) THEN {i \in 0 .. size - 1 : i >= first}
            ELSE first .. last
      BY DEF WF!Wanted
    <2>4. WF!Backwards(r) <=> WF!IsNumber(first) /\ WF!IsNumber(last) /\ first >= last
      BY DEF WF!Backwards
    <2>5. WF!Satisfiable(r, size) /\ WF!Proper(r) =>
            /\ WF!IsNumber(first) => first < size
            /\ WF!IsNumber(last) => IF first = Empty THEN last \in 1 .. size ELSE last < size
      BY DEF WF!Satisfiable
    <2>6. got =
            IF ~dash
            THEN IF WF!IsNumber(first) THEN WF!partial(new, first, size - 1) ELSE new
            ELSE IF first = Empty
            THEN IF WF!IsNumber(last) THEN WF!partial(new, size - last, size - 1) ELSE new
            ELSE IF ~WF!IsNumber(first) THEN new
            ELSE IF ~WF!IsNumber(last) THEN WF!setRange(new, first, size - 1)
            ELSE IF first < last THEN WF!partial(new, first, last)
            ELSE new
      BY <2>1 DEF WF!ranged
    <2>a. CASE WF!IsNumber(first) /\ ~WF!IsNumber(last)
      <3>1. first \in Int /\ first \in Nat /\ size - 1 \in Int /\ first # Empty
        BY <2>1, <2>a
      <3>2. got \in {WF!partial(new, first, size - 1), WF!setRange(new, first, size - 1)}
        BY <2>1, <2>6, <2>a, <3>1
      <3>4. WF!Proper(r) /\ ~WF!Backwards(r)
        BY <2>2, <2>4, <2>a
      <3>5. WF!Wanted(r, size) = {i \in 0 .. size - 1 : i >= first}
        BY <2>3, <2>a, <3>1, <3>4
      <3>6. WF!Satisfiable(r, size) => first < size
        BY <2>5, <2>a, <3>4
      <3>7. Fits(r, size, first, size - 1)
        BY <3>1, <3>5, <3>6 DEF Fits
      <3>8. QED
        BY <1>5, <3>1, <3>2, <3>7
    <2>b. CASE WF!IsNumber(first) /\ WF!IsNumber(last) /\ first < last
      <3>1. first \in Nat /\ last \in Nat /\ first # Empty /\ dash
        BY <2>1, <2>b
      <3>2. got \in {WF!partial(new, first, last), WF!setRange(new, first, last)}
        BY <2>6, <2>b, <3>1
      <3>3. WF!Proper(r) /\ ~WF!Backwards(r)
        BY <2>2, <2>4, <2>b, <3>1
      <3>4. WF!Wanted(r, size) = first .. last
        BY <2>3, <2>b, <3>1, <3>3
      <3>5. WF!Satisfiable(r, size) => last < size
        BY <2>5, <2>b, <3>1, <3>3
      <3>6. Fits(r, size, first, last)
        BY <2>b, <3>1, <3>4, <3>5 DEF Fits
      <3>7. QED
        BY <1>5, <3>1, <3>2, <3>6
    <2>c. CASE WF!IsNumber(first) /\ WF!IsNumber(last) /\ first >= last
      <3>1. first \in Nat /\ last \in Nat /\ first # Empty /\ dash /\ ~(first < last)
        BY <2>1, <2>c
      <3>2. got = new
        BY <2>6, <2>c, <3>1
      <3>3. WF!Wanted(r, size) = 0 .. size - 1
        BY <2>3, <2>4, <2>c
      <3>4. Fits(r, size, 0, 0)
        BY <3>3 DEF Fits
      <3>5. QED
        BY <1>4, <3>2, <3>4
    <2>d. CASE first = Empty /\ dash /\ WF!IsNumber(last)
      <3>1. last \in Nat /\ size - last \in Int /\ size - 1 \in Int /\ ~WF!IsNumber(first)
        BY <2>1, <2>d
      <3>2. got \in {WF!partial(new, size - last, size - 1), WF!setRange(new, size - last, size - 1)}
        BY <2>6, <2>d
      <3>3. WF!Proper(r) /\ ~WF!Backwards(r)
        BY <2>2, <2>4, <2>d, <3>1
      <3>4. WF!Wanted(r, size) = {i \in 0 .. size - 1 : i >= size - last}
        BY <2>3, <2>d, <3>3
      <3>5. WF!Satisfiable(r, size) => last \in 1 .. size
        BY <2>5, <2>d, <3>3
      <3>6. Fits(r, size, size - last, size - 1)
        BY <3>1, <3>4, <3>5 DEF Fits
      <3>7. QED
        BY <1>5, <3>1, <3>2, <3>6
    <2>e. CASE ~WF!IsNumber(first) /\ ~(first = Empty /\ dash /\ WF!IsNumber(last))
      <3>1. got = new
        BY <2>1, <2>6, <2>e
      <3>2. WF!Wanted(r, size) = 0 .. size - 1
        BY <2>2, <2>3, <2>e
      <3>3. Fits(r, size, 0, 0)
        BY <3>2 DEF Fits
      <3>4. QED
        BY <1>4, <3>1, <3>3
    <2>7. QED
      BY <2>1, <2>a, <2>b, <2>c, <2>d, <2>e
  <1>8. QED
    BY <1>6, <1>7

(* What is copied of a file is all of it, in order.                        *)
LEMMA WholeIsCopied ==
  ASSUME NEW size \in Nat, WF!sizeNow = size
  PROVE  Len(WF!wholeFile) = size /\ \A i \in 1..size : WF!wholeFile[i] = i - 1
  <1> DEFINE bytes == [i \in 1..size |-> i - 1]
  <1>1. WF!wholeFile = bytes
    BY DEF WF!wholeFile
  <1>2. bytes \in [1..size -> Int] /\ \A i \in 1..size : bytes[i] = i - 1
    OBVIOUS
  <1>3. Len(bytes) = size
    BY <1>2, SeqOfFunction
  <1> HIDE DEF bytes
  <1>4. QED
    BY <1>1, <1>2, <1>3

Prepared ==
  [status : Int, reasonPhrase : Int, range : Int \X Int, body : BOOLEAN, length : Int,
   contentRange : Seq(Int)]

MadeRight ==
  /\ Phrased(response) /\ response.body = TRUE
  /\ Fits(request, steady, response.range[1], response.range[2])

PreparedRight ==
  /\ response \in Prepared /\ response.reasonPhrase = response.status /\ response.body = TRUE
  /\ Fits(request, steady, response.range[1], response.range[2])
  /\ response.length = IF response.range[2] # 0 THEN 1 + response.range[2] - response.range[1] ELSE steady
  /\ response.contentRange # << >> =>
           /\ response.range[2] # 0
           /\ response.contentRange[1] = response.range[1] /\ response.contentRange[2] = response.range[2]
           /\ response.contentRange[3] = steady
  /\ response.contentRange = << >> => response.range[2] = 0

HeadFits(r) ==
  IF r.contentRange = << >>
  THEN WF!Wanted(request, steady) = 0 .. steady - 1 /\ r.length = steady
  ELSE /\ r.contentRange[1] .. r.contentRange[2] = WF!Wanted(request, steady)
       /\ r.length = r.contentRange[2] - r.contentRange[1] + 1 /\ r.length > 0
       /\ r.contentRange[3] = steady

AnswerRight ==
  /\ WF!Satisfiable(request, steady) => HeadFits(answer)
  /\ answer.reasonPhrase = answer.status
  /\ Len(answer.body) = steady
  /\ \A i \in 1 .. steady : answer.body[i] = i - 1

(* While nobody writes to the file, what has been made of the request is   *)
(* right for its size, stage by stage.                                     *)
FileInv ==
  /\ file \in Sizes \cup {Missing} /\ steady \in Sizes \cup {Missing}
  /\ request \in Ranges \cup {NoRange}
  /\ phase \in {"idle", "asked", "made", "prepared"}
  /\ phase # "idle" => answer = << >>
  /\ steady # Missing =>
       /\ phase # "idle" => file = steady
       /\ phase = "made" => MadeRight
       /\ phase = "prepared" => PreparedRight
       /\ phase = "idle" /\ answer # << >> => AnswerRight

LEMMA OnRequestRight ==
  ASSUME WF!FileConstants, FileInv, WF!onRequest, steady # Missing
  PROVE  MadeRight'
  <1>1. phase = "asked" /\ UNCHANGED << file, request, steady >>
    BY DEF WF!onRequest
  <1>2. /\ file = steady /\ file # Missing
        /\ steady \in Nat /\ request \in Ranges \cup {NoRange}
    BY <1>1 DEF FileInv, WF!FileConstants
  <1>3. WF!sizeNow = steady
    BY <1>2 DEF WF!sizeNow
  <1> DEFINE r == WF!ranged(WF!HttpResponse(200), request, steady)
             s == [r EXCEPT !.body = TRUE]
  <1>4. response' = [r EXCEPT !.body = (file # Missing)]
    BY <1>3 DEF WF!onRequest, WF!copied, WF!OK
  <1>5. Phrased(r) /\ Fits(request, steady, r.range[1], r.range[2])
    BY <1>2, RangedFits
  <1>6. response' = s
    BY <1>2, <1>4
  <1> HIDE DEF r
  <1>7. s \in Responses /\ s.status = r.status /\ s.reasonPhrase = r.reasonPhrase
        /\ s.range = r.range /\ s.body = TRUE
    BY <1>5 DEF Phrased, Responses
  <1> HIDE DEF s
  <1>8. Phrased(response') /\ response'.body = TRUE
    BY <1>5, <1>6, <1>7 DEF Phrased
  <1>9. Fits(request, steady, response'.range[1], response'.range[2])
    BY <1>5, <1>6, <1>7
  <1>10. request' = request /\ steady' = steady
    BY <1>1
  <1>11. Fits(request', steady', response'.range[1], response'.range[2])
    BY <1>9, <1>10
  <1>12. QED
    BY <1>8, <1>11 DEF MadeRight

LEMMA PreparedIsRight ==
  ASSUME WF!FileConstants, FileInv, WF!prepareResponse, steady # Missing
  PROVE  PreparedRight'
  <1>1. phase = "made" /\ UNCHANGED << file, request, steady >>
    BY DEF WF!prepareResponse
  <1>2. /\ file = steady /\ file # Missing /\ steady \in Nat /\ MadeRight
    BY <1>1 DEF FileInv, WF!FileConstants
  <1>3. WF!sizeNow = steady
    BY <1>2 DEF WF!sizeNow
  <1>4. /\ response \in Responses /\ response.reasonPhrase = response.status /\ response.body = TRUE
        /\ response.range \in Int \X Int
        /\ Fits(request, steady, response.range[1], response.range[2])
    BY <1>2 DEF MadeRight, Phrased, Responses
  <1>5. PICK f \in Int, l \in Int : response.range = << f, l >>
    BY <1>4
  <1>6. response.range[1] = f /\ response.range[2] = l
    BY <1>5
  <1>7. PICK n \in Int : n = steady
    BY <1>2
  <1>8. WF!entitySize(response) = n
    BY <1>3, <1>4, <1>7 DEF WF!entitySize
  <1> DEFINE t == << f, l >>
             c == Append(t, n)
  <1>9. t \in Seq(Int) /\ Len(t) = 2 /\ t[1] = f /\ t[2] = l /\ 1 \in 1..2 /\ 2 \in 1..2
    OBVIOUS
  <1>10. response.range = t
    BY <1>5
  <1> HIDE DEF t
  <1>11. c \in Seq(Int) /\ c[1] = f /\ c[2] = l /\ c[3] = n /\ c # << >>
    <2>1. PICK u \in Seq(Int) : u = t
      BY <1>9
    <2>2. /\ Append(u, n) \in Seq(Int) /\ \A i \in 1..Len(u) : Append(u, n)[i] = u[i]
          /\ Append(u, n)[Len(u) + 1] = n /\ Len(Append(u, n)) = Len(u) + 1
      BY AppendToList
    <2>3. c = Append(u, n)
      BY <2>1
    <2> HIDE DEF c
    <2>4. Len(u) = 2 /\ Len(c) = 3 /\ c[3] = n /\ c # << >>
      <3>1. Len(u) = 2
        BY <1>9, <2>1
      <3>2. Len(u) + 1 = 3
        BY <3>1
      <3>3. Len(c) = 3 /\ c[3] = n
        BY <2>2, <2>3, <3>2
      <3>4. c # << >>
        BY <3>3
      <3>5. QED
        BY <3>1, <3>3, <3>4
    <2>5. QED
      BY <1>9, <2>1, <2>2, <2>3, <2>4
  <1> HIDE DEF c
  <1>12. ASSUME NEW length \in Int, NEW content \in Seq(Int),
                response' = [response EXCEPT !.length = length, !.contentRange = content]
         PROVE  /\ response' \in Prepared /\ response'.reasonPhrase = response'.status
                /\ response'.body = TRUE /\ response'.range = response.range
                /\ response'.length = length /\ response'.contentRange = content
    <2> DEFINE m == [response EXCEPT !.length = length, !.contentRange = content]
    <2>1. m \in Prepared
      BY <1>4 DEF Responses, Prepared
    <2>2. /\ m.reasonPhrase = response.reasonPhrase /\ m.status = response.status
          /\ m.body = response.body /\ m.range = response.range
          /\ m.length = length /\ m.contentRange = content
      BY <1>4 DEF Responses
    <2>3. response' = m
      BY <1>12
    <2> HIDE DEF m
    <2>4. QED
      BY <1>4, <2>1, <2>2, <2>3
  <1>13. Fits(request', steady', f, l)
    BY <1>1, <1>4, <1>6
  <1>14. CASE l # 0
    <2>1. PICK length \in Int : length = 1 + l - f
      OBVIOUS
    <2>2. WF!useRange(response)
      BY <1>6, <1>14 DEF WF!useRange
    <2>3. response' = [response EXCEPT !.length = 1 + response.range[2] - response.range[1],
                                       !.contentRange = Append(response.range, WF!entitySize(response))]
      BY <2>2 DEF WF!prepareResponse
    <2>4. response' = [response EXCEPT !.length = length, !.contentRange = c]
      BY <1>6, <1>8, <1>10, <2>1, <2>3 DEF c
    <2>5. /\ response' \in Prepared /\ response'.reasonPhrase = response'.status
          /\ response'.body = TRUE /\ response'.range = response.range
          /\ response'.length = length /\ response'.contentRange = c
      BY <1>11, <1>12, <2>4
    <2>6. response'.range[1] = f /\ response'.range[2] = l
      BY <1>6, <2>5
    <2>7. QED
      <3>1. response'.range[2] # 0 /\ response'.contentRange # << >>
        BY <1>11, <1>14, <2>5, <2>6
      <3>2. response'.contentRange[3] = steady'
        BY <1>1, <1>7, <1>11, <2>5
      <3>3. QED
        BY <1>11, <1>13, <1>14, <2>1, <2>5, <2>6, <3>1, <3>2 DEF PreparedRight
  <1>15. CASE l = 0
    <2>1. ~WF!useRange(response)
      BY <1>6, <1>15 DEF WF!useRange
    <2>2. response' = [response EXCEPT !.length = WF!entitySize(response)]
      BY <2>1 DEF WF!prepareResponse
    <2>3. response' = [response EXCEPT !.length = n]
      BY <1>8, <2>2
    <2>4. response.contentRange = << >>
      BY <1>4 DEF Responses
    <2> DEFINE m == [response EXCEPT !.length = n]
    <2>5. m \in Prepared
      <3>1. << >> \in Seq(Int)
        OBVIOUS
      <3>2. QED
        BY <1>4, <3>1 DEF Responses, Prepared
    <2>6. /\ m.reasonPhrase = response.reasonPhrase /\ m.status = response.status
          /\ m.body = response.body /\ m.range = response.range
          /\ m.length = n /\ m.contentRange = response.contentRange
      BY <1>4 DEF Responses
    <2>7. response' = m
      BY <2>3
    <2> HIDE DEF m
    <2>8. response'.range[1] = f /\ response'.range[2] = l
      BY <1>6, <2>6, <2>7
    <2>9. QED
      BY <1>1, <1>4, <1>7, <1>13, <1>15, <2>4, <2>5, <2>6, <2>7, <2>8 DEF PreparedRight
  <1>16. QED
    BY <1>14, <1>15

LEMMA WrittenRight ==
  ASSUME WF!FileConstants, FileInv, WF!writeEntityBody, steady # Missing
  PROVE  phase' = "idle" /\ AnswerRight'
  <1>1. phase = "prepared" /\ phase' = "idle" /\ UNCHANGED << file, request, steady >>
    BY DEF WF!writeEntityBody
  <1>2. /\ file = steady /\ file # Missing /\ steady \in Nat /\ PreparedRight
    BY <1>1 DEF FileInv, WF!FileConstants
  <1>3. WF!sizeNow = steady
    BY <1>2 DEF WF!sizeNow
  <1>4. PICK f \in Int, l \in Int : f = response.range[1] /\ l = response.range[2]
    BY <1>2 DEF PreparedRight, Prepared
  <1>5. /\ response \in Prepared /\ response.reasonPhrase = response.status /\ response.body = TRUE
        /\ response.length = IF l # 0 THEN 1 + l - f ELSE steady
        /\ response.contentRange # << >> =>
             /\ l # 0 /\ response.contentRange[1] = f /\ response.contentRange[2] = l
             /\ response.contentRange[3] = steady
        /\ response.contentRange = << >> => l = 0
    BY <1>2, <1>4 DEF PreparedRight
  <1>6. WF!Satisfiable(request, steady) =>
          IF l # 0
          THEN 0 <= f /\ f <= l /\ l < steady /\ WF!Wanted(request, steady) = f .. l
          ELSE WF!Wanted(request, steady) = 0 .. steady - 1
    BY <1>2, <1>4 DEF PreparedRight, Fits
  <1>7. WF!Satisfiable(request, steady) => HeadFits(response)
    <2>1. SUFFICES ASSUME WF!Satisfiable(request, steady) PROVE HeadFits(response)
      OBVIOUS
    <2>2. CASE response.contentRange = << >>
      BY <1>5, <1>6, <2>1, <2>2 DEF HeadFits
    <2>3. CASE response.contentRange # << >>
      <3>1. /\ l # 0 /\ response.contentRange[1] = f /\ response.contentRange[2] = l
            /\ response.contentRange[3] = steady
        BY <1>5, <2>3
      <3>2. PICK n \in Int : n = response.length
        BY <1>5 DEF Prepared
      <3>3. n = l - f + 1 /\ n > 0
        BY <1>5, <1>6, <2>1, <3>1, <3>2
      <3>4. QED
        BY <1>6, <2>1, <2>3, <3>1, <3>2, <3>3 DEF HeadFits
    <2>4. QED
      BY <2>2, <2>3
  <1> DEFINE bytes == WF!wholeFile
  <1>8. Len(bytes) = steady /\ \A i \in 1..steady : bytes[i] = i - 1
    BY <1>2, <1>3, WholeIsCopied
  <1> HIDE DEF bytes
  <1>9. answer' = [response EXCEPT !.body = bytes]
    BY <1>5 DEF WF!writeEntityBody, bytes
  <1>10. /\ answer'.body = bytes /\ answer'.length = response.length
         /\ answer'.reasonPhrase = response.reasonPhrase /\ answer'.status = response.status
         /\ answer'.contentRange = response.contentRange
    BY <1>5, <1>9 DEF Prepared
  <1>11. request' = request /\ steady' = steady
    BY <1>1
  <1>12. HeadFits(answer)' <=> HeadFits(response)
    BY <1>10, <1>11 DEF HeadFits
  <1>13. WF!Satisfiable(request, steady)' <=> WF!Satisfiable(request, steady)
    BY <1>11
  <1>14. QED
    BY <1>1, <1>5, <1>7, <1>8, <1>10, <1>11, <1>12, <1>13 DEF AnswerRight

LEMMA FileInvInit == WF!FileConstants /\ WF!Init => FileInv
  BY DEF WF!FileConstants, WF!Init, FileInv, WF!Nothing

LEMMA FileInvNext ==
  ASSUME WF!FileConstants, FileInv, [WF!Next]_(WF!vars)
  PROVE  FileInv'
  <1>1. /\ file \in Sizes \cup {Missing} /\ steady \in Sizes \cup {Missing}
        /\ request \in Ranges \cup {NoRange}
        /\ phase # "idle" => answer = << >>
    BY DEF FileInv
  <1>2. ASSUME NEW wanted \in Ranges \cup {NoRange}, WF!Ask(wanted)
        PROVE  FileInv'
    <2>1. /\ phase' = "asked" /\ request' = wanted /\ answer' = << >>
          /\ steady' = file /\ file' = file
      BY <1>2 DEF WF!Ask, WF!Nothing
    <2>2. QED
      BY <1>1, <2>1 DEF FileInv
  <1>3. CASE WF!onRequest
    <2>1. /\ phase = "asked" /\ phase' = "made"
          /\ UNCHANGED << file, writes, request, answer, steady >>
      BY <1>3 DEF WF!onRequest
    <2>2. steady # Missing => MadeRight'
      BY <1>3, OnRequestRight
    <2>3. steady # Missing => file = steady
      BY <2>1 DEF FileInv
    <2>4. QED
      BY <1>1, <2>1, <2>2, <2>3 DEF FileInv
  <1>4. CASE WF!prepareResponse
    <2>1. /\ phase = "made" /\ phase' = "prepared"
          /\ UNCHANGED << file, writes, request, answer, steady >>
      BY <1>4 DEF WF!prepareResponse
    <2>2. steady # Missing => PreparedRight'
      BY <1>4, PreparedIsRight
    <2>3. steady # Missing => file = steady
      BY <2>1 DEF FileInv
    <2>4. QED
      BY <1>1, <2>1, <2>2, <2>3 DEF FileInv
  <1>5. CASE WF!writeEntityBody
    <2>1. /\ phase = "prepared" /\ phase' = "idle"
          /\ UNCHANGED << file, writes, request, steady >>
      BY <1>5 DEF WF!writeEntityBody
    <2>2. steady # Missing => AnswerRight'
      BY <1>5, WrittenRight
    <2>3. QED
      BY <1>1, <2>1, <2>2 DEF FileInv
  <1>6. ASSUME NEW size \in Sizes \cup {Missing}, WF!Write(size)
        PROVE  FileInv'
    <2>1. /\ file' = size /\ steady' = IF phase = "idle" THEN steady ELSE Missing
          /\ UNCHANGED << phase, request, response, answer >>
      BY <1>6 DEF WF!Write
    <2>2. CASE phase = "idle"
      <3>1. steady' = steady
        BY <2>1, <2>2
      <3>2. WF!Satisfiable(request, steady)' <=> WF!Satisfiable(request, steady)
        BY <2>1, <3>1
      <3>3. AnswerRight' <=> AnswerRight
        BY <2>1, <3>1, <3>2 DEF AnswerRight, HeadFits
      <3>4. QED
        BY <1>1, <2>1, <2>2, <3>1, <3>3 DEF FileInv
    <2>3. CASE phase # "idle"
      BY <1>1, <2>1, <2>3 DEF FileInv
    <2>4. QED
      BY <2>2, <2>3
  <1>7. CASE UNCHANGED WF!vars
    <2>1. UNCHANGED << file, writes, phase, request, response, answer, steady >>
      BY <1>7 DEF WF!vars
    <2>2. MadeRight' <=> MadeRight
      BY <2>1 DEF MadeRight
    <2>3. PreparedRight' <=> PreparedRight
      BY <2>1 DEF PreparedRight
    <2>4. WF!Satisfiable(request, steady)' <=> WF!Satisfiable(request, steady)
      BY <2>1
    <2>5. AnswerRight' <=> AnswerRight
      BY <2>1, <2>4 DEF AnswerRight, HeadFits
    <2>6. QED
      BY <2>1, <2>2, <2>3, <2>5 DEF FileInv
  <1>8. QED
    BY <1>2, <1>3, <1>4, <1>5, <1>6, <1>7 DEF WF!Next

LEMMA FileInvRight == FileInv => WF!HeadRight
  <1> SUFFICES ASSUME FileInv, steady # Missing, WF!Satisfiable(request, steady),
                      answer # << >>
               PROVE  AnswerRight /\ HeadFits(answer)
    BY DEF WF!HeadRight, AnswerRight, HeadFits, WF!Nothing
  <1>1. AnswerRight
    BY DEF FileInv
  <1>2. QED
    BY <1>1 DEF AnswerRight

(* Whatever the size of the file and the range that a client asks for, the *)
(* head of the answer tells a range that the file has, or the whole of it, *)
(* as it was asked for, with its length and the size of the file, whenever *)
(* nobody has written to the file since; and the body is the whole file    *)
(* (BrisaWebFile::onRequest, prepareResponse, HttpSession::writeEntityBody)*)
THEOREM AnswersFitRanges ==
  ASSUME WF!FileConstants
  PROVE  WF!Spec => []WF!HeadRight
  <1>1. WF!Init => FileInv
    BY FileInvInit
  <1>2. FileInv /\ [WF!Next]_(WF!vars) => FileInv'
    BY FileInvNext
  <1>3. FileInv => WF!HeadRight
    BY FileInvRight
  <1>4. QED
    BY <1>1, <1>2, <1>3, PTL DEF WF!Spec

-----------------------------------------------------------------------------
(* The other side, a control point (EventProxy): every request and every   *)
(* proxy is followed to the subscription it is about.                      *)

Answers == {<< >>} \cup {<< n >> : n \in Nat}
Requests ==
  [id : Nat, kind : {"subscribe", "renew", "unsubscribe"}, path : Nat, sid : Nat,
   service : Services, answer : Answers]
Proxies == [service : Services, requestId : Nat, SID : Nat]
Given == [sid : Nat, path : Nat, service : Services]

EPTypes ==
  /\ proxies \in Seq(Proxies) /\ http \in Seq(Requests)
  /\ ids \in Nat /\ sids \in Nat
  /\ given \subseteq Given /\ subscriptions \subseteq given
  /\ \A s \in given : s.path \in 1..Len(proxies)

OfProxy(sid, p) == [sid |-> sid, path |-> p, service |-> proxies[p].service]

(* A request has a number of its own, which only the proxy that made it    *)
(* may keep; what is asked to be renewed, and what is answered, has been   *)
(* given to that proxy; only the first is answered.                        *)
RequestsKnown ==
  /\ \A i \in 1..Len(http) :
       /\ http[i].id \in 1..ids
       /\ http[i].path \in 1..Len(proxies)
       /\ http[i].service = proxies[http[i].path].service
       /\ i # 1 => http[i].answer = << >>
       /\ http[i].kind = "renew" =>
            /\ http[i].sid # 0 /\ OfProxy(http[i].sid, http[i].path) \in given
            /\ http[i].answer # << >> => http[i].answer[1] \in {0, http[i].sid}
       /\ http[i].kind = "unsubscribe" /\ http[i].answer # << >> => http[i].answer[1] = 0
       /\ http[i].answer # << >> /\ http[i].answer[1] # 0 =>
            OfProxy(http[i].answer[1], http[i].path) \in given
  /\ \A i, j \in 1..Len(http) : http[i].id = http[j].id => i = j
  /\ \A p \in 1..Len(proxies) :
       /\ proxies[p].requestId \in 0..ids
       /\ proxies[p].SID # 0 => OfProxy(proxies[p].SID, p) \in given
       /\ \A i \in 1..Len(http) : proxies[p].requestId = http[i].id => http[i].path = p

Subscribing(p) == { i \in 1..Len(http) : http[i].path = p /\ http[i].kind = "subscribe" }

(* A proxy that subscribed at most once, and had no error: before it does, *)
(* there is nothing of it; while it does, it keeps the number and the      *)
(* answer tells the subscription there is; and then it knows it, and       *)
(* renews no other.                                                        *)
SubscriptionKnown(p) ==
  /\ proxies[p].requestId = 0 =>
       /\ proxies[p].SID = 0 /\ Subscribing(p) = {} /\ \A s \in subscriptions : s.path # p
  /\ \A i \in Subscribing(p) :
       /\ proxies[p].requestId = http[i].id /\ proxies[p].SID = 0
       /\ \A s \in subscriptions : s.path = p => http[i].answer = << s.sid >>
  /\ Subscribing(p) = {} => \A s \in subscriptions : s.path = p => proxies[p].SID = s.sid
  /\ \A i \in 1..Len(http) : http[i].path = p /\ http[i].kind = "renew" =>
       http[i].sid = proxies[p].SID

SubscriptionsKnown ==
  \A p \in 1..Len(proxies) : p \notin unsure => SubscriptionKnown(p)

EPInv == EPTypes /\ RequestsKnown /\ SubscriptionsKnown

LEMMA AskEffect ==
  ASSUME EPTypes, NEW p \in 1..Len(proxies), NEW sid \in Nat,
         NEW kind \in {"subscribe", "renew", "unsubscribe"}, EP!Ask(p, kind, sid)
  PROVE  /\ ids' = ids + 1 /\ ids' \in Nat
         /\ http' \in Seq(Requests) /\ Len(http') = Len(http) + 1
         /\ \A i \in 1..Len(http) : http'[i] = http[i]
         /\ http'[Len(http) + 1].id = ids + 1
         /\ http'[Len(http) + 1].kind = kind
         /\ http'[Len(http) + 1].path = p
         /\ http'[Len(http) + 1].sid = sid
         /\ http'[Len(http) + 1].service = proxies[p].service
         /\ http'[Len(http) + 1].answer = << >>
  <1>1. proxies[p] \in Proxies
    BY ElementOfSeq DEF EPTypes
  <1> DEFINE r == [id |-> ids + 1, kind |-> kind, path |-> p, sid |-> sid,
                   service |-> proxies[p].service, answer |-> << >>]
  <1>2. r \in Requests
    BY <1>1 DEF EPTypes, Requests, Answers, Proxies
  <1>3. /\ r.id = ids + 1 /\ r.kind = kind /\ r.path = p /\ r.sid = sid
        /\ r.service = proxies[p].service /\ r.answer = << >>
    OBVIOUS
  <1>4. ids' = ids + 1 /\ http' = Append(http, r)
    BY DEF EP!Ask
  <1> HIDE DEF r
  <1>5. http \in Seq(Requests)
    BY DEF EPTypes
  <1>a. PICK e \in Requests : e = r
    BY <1>2
  <1>6. /\ Append(http, r) \in Seq(Requests)
        /\ Len(Append(http, r)) = Len(http) + 1
        /\ \A i \in 1..Len(http) : Append(http, r)[i] = http[i]
        /\ Append(http, r)[Len(http) + 1] = r
    BY <1>a, <1>5, AppendToList
  <1>7. ids + 1 \in Nat
    BY DEF EPTypes
  <1>8. QED
    BY <1>3, <1>4, <1>6, <1>7, Zenon

LEMMA KeepEffect ==
  ASSUME EPTypes, NEW p \in 1..Len(proxies), NEW n \in Nat,
         proxies' = [proxies EXCEPT ![p].requestId = n]
  PROVE  /\ proxies' \in Seq(Proxies) /\ Len(proxies') = Len(proxies)
         /\ \A q \in 1..Len(proxies) :
              /\ proxies'[q].service = proxies[q].service
              /\ proxies'[q].SID = proxies[q].SID
              /\ proxies'[q].requestId = IF q = p THEN n ELSE proxies[q].requestId
  <1>1. proxies \in Seq(Proxies)
    BY DEF EPTypes
  <1>2. PICK m \in Nat : m = Len(proxies)
    BY <1>1, LenProperties
  <1>3. proxies \in [1..m -> Proxies]
    BY <1>1, <1>2, LenProperties
  <1>4. proxies' \in [1..m -> Proxies]
    BY <1>2, <1>3 DEF Proxies
  <1>a. PICK new \in [1..m -> Proxies] : new = proxies'
    BY <1>4
  <1>5. proxies' \in Seq(Proxies) /\ Len(proxies') = m
    BY <1>a, SeqOfFunction
  <1>6. QED
    BY <1>2, <1>3, <1>5 DEF Proxies

LEMMA AnswerEffect ==
  ASSUME EPTypes, http # << >>, NEW sid \in Nat, EP!Answered(sid)
  PROVE  /\ 1 \in 1..Len(http) /\ Head(http) = http[1]
         /\ http' \in Seq(Requests) /\ Len(http') = Len(http)
         /\ \A i \in 1..Len(http) :
              /\ http'[i].id = http[i].id /\ http'[i].kind = http[i].kind
              /\ http'[i].path = http[i].path /\ http'[i].sid = http[i].sid
              /\ http'[i].service = http[i].service
              /\ i # 1 => http'[i].answer = http[i].answer
         /\ http'[1].answer = << sid >>
  <1>1. http \in Seq(Requests)
    BY DEF EPTypes
  <1>2. PICK m \in Nat : m = Len(http)
    BY <1>1, LenProperties
  <1>3. http \in [1..m -> Requests]
    BY <1>1, <1>2, LenProperties
  <1>4. 1 \in 1..m /\ Head(http) = http[1]
    BY <1>1, <1>2, TailOfSeq
  <1>5. << sid >> \in Answers
    BY DEF Answers
  <1>6. http' = [http EXCEPT ![1].answer = << sid >>]
    BY DEF EP!Answered
  <1>7. PICK a \in Answers : a = << sid >>
    BY <1>5
  <1>8. http' = [http EXCEPT ![1].answer = a]
    BY <1>6, <1>7
  <1>9. http' \in [1..m -> Requests]
    BY <1>3, <1>8 DEF Requests
  <1>10. http' \in Seq(Requests) /\ Len(http') = m
    BY <1>9, <1>2, SeqDef, LenProperties
  <1>11. \A i \in 1..m :
              /\ http'[i].id = http[i].id /\ http'[i].kind = http[i].kind
              /\ http'[i].path = http[i].path /\ http'[i].sid = http[i].sid
              /\ http'[i].service = http[i].service
              /\ i # 1 => http'[i].answer = http[i].answer
    BY <1>3, <1>8 DEF Requests
  <1>12. http'[1].answer = a
    BY <1>3, <1>4, <1>8 DEF Requests
  <1>13. QED
    BY <1>2, <1>4, <1>7, <1>10, <1>11, <1>12

LEMMA AddEffect ==
  ASSUME EPTypes, NEW service \in Services, EP!getSubscriptionProxy(service)
  PROVE  /\ proxies' \in Seq(Proxies) /\ Len(proxies') = Len(proxies) + 1
         /\ \A q \in 1..Len(proxies) : proxies'[q] = proxies[q]
         /\ proxies'[Len(proxies) + 1].requestId = 0
         /\ proxies'[Len(proxies) + 1].SID = 0
  <1> DEFINE r == [service |-> service, requestId |-> 0, SID |-> 0]
  <1>1. r \in Proxies /\ r.requestId = 0 /\ r.SID = 0
    BY DEF Proxies
  <1>2. proxies' = Append(proxies, r)
    BY DEF EP!getSubscriptionProxy, EP!NoRequest, EP!NoSid
  <1> HIDE DEF r
  <1>3. PICK e \in Proxies : e = r
    BY <1>1
  <1>4. proxies \in Seq(Proxies)
    BY DEF EPTypes
  <1>5. /\ Append(proxies, e) \in Seq(Proxies)
        /\ Len(Append(proxies, e)) = Len(proxies) + 1
        /\ \A i \in 1..Len(proxies) : Append(proxies, e)[i] = proxies[i]
        /\ Append(proxies, e)[Len(proxies) + 1] = e
    BY <1>4, AppendToList
  <1>6. QED
    BY <1>1, <1>2, <1>3, <1>5, Zenon

(* Only the proxy that keeps the number gets the SID.                      *)
LEMMA RequesterKnown ==
  ASSUME EPTypes, RequestsKnown, 1 \in 1..Len(http)
  PROVE  EP!Requester(http[1].id) =
           { q \in 1..Len(proxies) : proxies[q].requestId = http[1].id }
  <1> DEFINE asking == { q \in DOMAIN proxies : proxies[q].requestId = http[1].id }
  <1>1. DOMAIN proxies = 1..Len(proxies)
    BY LenProperties DEF EPTypes
  <1>2. \A q \in asking : q = http[1].path
    BY <1>1 DEF RequestsKnown
  <1>3. CASE asking = {}
    BY <1>1, <1>3 DEF EP!Requester
  <1>4. CASE asking # {}
    <2>1. asking = {http[1].path} /\ http[1].path \in 1..Len(proxies)
      BY <1>1, <1>2, <1>4
    <2>2. PICK q \in Nat : q = http[1].path
      BY <2>1, LenProperties DEF EPTypes
    <2>3. EP!Min({q}) = q
      BY <2>2 DEF EP!Min
    <2>4. EP!Requester(http[1].id) = {EP!Min(asking)}
      BY <1>4 DEF EP!Requester
    <2>5. QED
      BY <1>1, <2>1, <2>2, <2>3, <2>4
  <1>5. QED
    BY <1>3, <1>4

LEMMA PopEffect ==
  ASSUME EPTypes, http # << >>, http' = Tail(http)
  PROVE  /\ 1 \in 1..Len(http) /\ Head(http) = http[1]
         /\ http' \in Seq(Requests) /\ Len(http') = Len(http) - 1
         /\ \A i \in 1..Len(http') : i + 1 \in 1..Len(http) /\ http'[i] = http[i + 1]
  <1>1. http \in Seq(Requests)
    BY DEF EPTypes
  <1>2. PICK m \in Nat : m = Len(http)
    BY <1>1, LenProperties
  <1>3. /\ Head(http) = http[1] /\ 1 \in 1..m
        /\ http' \in Seq(Requests) /\ Len(http') = m - 1
        /\ \A i \in 1..m - 1 : http'[i] = http[i + 1]
    BY <1>1, <1>2, TailOfSeq
  <1>4. \A i \in 1..m - 1 : i + 1 \in 1..m
    BY <1>2
  <1>5. QED
    BY <1>2, <1>3, <1>4

LEMMA ResponseEffect ==
  ASSUME EPTypes, RequestsKnown, EP!httpResponse
  PROVE  /\ http # << >> /\ 1 \in 1..Len(http) /\ http[1].answer # << >>
         /\ http[1].answer[1] \in Nat
         /\ proxies' \in Seq(Proxies) /\ Len(proxies') = Len(proxies)
         /\ \A q \in 1..Len(proxies) :
              /\ proxies'[q].service = proxies[q].service
              /\ proxies'[q].requestId = proxies[q].requestId
              /\ proxies'[q].SID =
                   IF proxies[q].requestId = http[1].id /\ http[1].answer[1] # 0
                   THEN http[1].answer[1] ELSE proxies[q].SID
  <1>1. http # << >> /\ http' = Tail(http) /\ Head(http).answer # << >>
    BY DEF EP!httpResponse
  <1>2. 1 \in 1..Len(http) /\ Head(http) = http[1]
    BY <1>1, PopEffect
  <1>3. http[1] \in Requests
    BY <1>2, ElementOfSeq DEF EPTypes
  <1>4. http[1].answer \in Answers
    BY <1>3 DEF Requests
  <1>5. PICK a \in Nat : http[1].answer = << a >>
    BY <1>1, <1>2, <1>4 DEF Answers
  <1>6. http[1].answer[1] = a /\ http[1].answer # << >>
    BY <1>1, <1>2, <1>5
  <1>7. PICK m \in Nat : m = Len(proxies)
    BY LenProperties DEF EPTypes
  <1>8. proxies \in [1..m -> Proxies] /\ DOMAIN proxies = 1..m
    BY <1>7, LenProperties DEF EPTypes
  <1>9. proxies' = [q \in 1..m |->
           IF proxies[q].requestId = http[1].id /\ a # 0
           THEN [proxies[q] EXCEPT !.SID = a] ELSE proxies[q]]
    BY <1>2, <1>6, <1>7, <1>8, RequesterKnown DEF EP!httpResponse, EP!NoSid
  <1>10. proxies' \in [1..m -> Proxies]
    BY <1>8, <1>9 DEF Proxies
  <1>11. PICK new \in [1..m -> Proxies] : new = proxies'
    BY <1>10
  <1>12. new \in Seq(Proxies)
    BY <1>11, SeqDef
  <1>13. Len(new) = m
    BY <1>11, <1>12, LenProperties
  <1>14. \A q \in 1..m :
              /\ proxies'[q].service = proxies[q].service
              /\ proxies'[q].requestId = proxies[q].requestId
              /\ proxies'[q].SID =
                   IF proxies[q].requestId = http[1].id /\ a # 0
                   THEN a ELSE proxies[q].SID
    BY <1>8, <1>9 DEF Proxies
  <1>15. QED
    BY <1>1, <1>2, <1>6, <1>7, <1>11, <1>12, <1>13, <1>14

(* A request is made, with or without its number being kept.               *)
LEMMA AskedKnown ==
  ASSUME EPInv, NEW p \in 1..Len(proxies), NEW sid \in Nat,
         NEW kind \in {"subscribe", "renew", "unsubscribe"}, EP!Ask(p, kind, sid),
         UNCHANGED << sids, subscriptions, given >>, NEW keep \in BOOLEAN,
         IF keep THEN proxies' = [proxies EXCEPT ![p].requestId = ids + 1]
                 ELSE UNCHANGED proxies,
         kind = "renew" => sid # 0 /\ sid = proxies[p].SID
  PROVE  /\ EPTypes' /\ RequestsKnown'
         /\ Len(proxies') = Len(proxies) /\ Len(http') = Len(http) + 1
         /\ \A q \in 1..Len(proxies) :
              /\ proxies'[q].service = proxies[q].service
              /\ proxies'[q].SID = proxies[q].SID
              /\ proxies'[q].requestId =
                   IF keep /\ q = p THEN ids + 1 ELSE proxies[q].requestId
  <1>1. EPTypes /\ RequestsKnown
    BY DEF EPInv
  <1>2. /\ ids' = ids + 1 /\ ids' \in Nat
        /\ http' \in Seq(Requests) /\ Len(http') = Len(http) + 1
        /\ \A i \in 1..Len(http) : http'[i] = http[i]
        /\ http'[Len(http) + 1].id = ids + 1
        /\ http'[Len(http) + 1].kind = kind
        /\ http'[Len(http) + 1].path = p
        /\ http'[Len(http) + 1].sid = sid
        /\ http'[Len(http) + 1].service = proxies[p].service
        /\ http'[Len(http) + 1].answer = << >>
    BY <1>1, AskEffect
  <1>3. PICK n \in Nat : n = ids + 1
    BY <1>2
  <1>4. /\ proxies' \in Seq(Proxies) /\ Len(proxies') = Len(proxies)
        /\ \A q \in 1..Len(proxies) :
              /\ proxies'[q].service = proxies[q].service
              /\ proxies'[q].SID = proxies[q].SID
              /\ proxies'[q].requestId =
                   IF keep /\ q = p THEN n ELSE proxies[q].requestId
    <2>1. CASE keep
      BY <1>1, <1>3, <2>1, KeepEffect
    <2>2. CASE ~keep
      BY <1>1, <2>2 DEF EPTypes
    <2>3. QED
      BY <2>1, <2>2
  <1>5. EPTypes'
    BY <1>1, <1>2, <1>4 DEF EPTypes
  <1>6. Len(http) \in Nat /\ Len(proxies) \in Nat /\ ids \in Nat
    BY <1>1, LenProperties DEF EPTypes
  <1>7. \A q \in 1..Len(proxies) : \A s : OfProxy(s, q)' = OfProxy(s, q)
    BY <1>4 DEF OfProxy
  <1>8. ASSUME NEW i \in 1..Len(http')
        PROVE  /\ http'[i].id \in 1..ids'
               /\ http'[i].path \in 1..Len(proxies')
               /\ http'[i].service = proxies'[http'[i].path].service
               /\ i # 1 => http'[i].answer = << >>
               /\ http'[i].kind = "renew" =>
                    /\ http'[i].sid # 0 /\ OfProxy(http[i].sid, http[i].path)' \in given'
                    /\ http'[i].answer # << >> => http'[i].answer[1] \in {0, http'[i].sid}
               /\ http'[i].kind = "unsubscribe" /\ http'[i].answer # << >> =>
                    http'[i].answer[1] = 0
               /\ http'[i].answer # << >> /\ http'[i].answer[1] # 0 =>
                    OfProxy(http[i].answer[1], http[i].path)' \in given'
    <2>1. CASE i \in 1..Len(http)
      <3>1. http'[i] = http[i]
        BY <1>2, <2>1
      <3>2. /\ OfProxy(http[i].sid, http[i].path)' = OfProxy(http[i].sid, http[i].path)
            /\ OfProxy(http[i].answer[1], http[i].path)' =
                 OfProxy(http[i].answer[1], http[i].path)
        BY <1>1, <1>4, <2>1, <3>1 DEF RequestsKnown, OfProxy
      <3>3. QED
        BY SMTT(30), <1>1, <1>2, <1>4, <1>6, <2>1, <3>1, <3>2 DEF RequestsKnown
    <2>2. CASE i = Len(http) + 1
      <3>1. kind = "renew" => OfProxy(sid, p) \in given
        BY <1>1 DEF RequestsKnown
      <3>2. OfProxy(http[i].sid, http[i].path)' = OfProxy(sid, p)
        BY <1>2, <1>4, <2>2 DEF OfProxy
      <3>3. QED
        BY <1>2, <1>4, <1>6, <2>2, <3>1, <3>2
    <2>3. QED
      BY <1>2, <1>6, <2>1, <2>2
  <1>9. \A i, j \in 1..Len(http') : http'[i].id = http'[j].id => i = j
    <2>1. \A i \in 1..Len(http) : http'[i].id = http[i].id /\ http[i].id \in 1..ids
      BY <1>1, <1>2 DEF RequestsKnown
    <2>2. \A i, j \in 1..Len(http) : http[i].id = http[j].id => i = j
      BY <1>1 DEF RequestsKnown
    <2>3. \A i \in 1..Len(http') : i \in 1..Len(http) \/ i = Len(http) + 1
      BY <1>2, <1>6
    <2>4. http'[Len(http) + 1].id \notin 1..ids
      BY <1>2, <1>6
    <2>5. QED
      BY <2>1, <2>2, <2>3, <2>4
  <1>10. \A q \in 1..Len(proxies') :
           /\ proxies'[q].requestId \in 0..ids'
           /\ proxies'[q].SID # 0 => OfProxy(proxies[q].SID, q)' \in given'
           /\ \A i \in 1..Len(http') : proxies'[q].requestId = http'[i].id => http'[i].path = q
    <2> SUFFICES ASSUME NEW q \in 1..Len(proxies)
                 PROVE  /\ proxies'[q].requestId \in 0..ids'
                        /\ proxies'[q].SID # 0 => OfProxy(proxies[q].SID, q)' \in given'
                        /\ \A i \in 1..Len(http') :
                             proxies'[q].requestId = http'[i].id => http'[i].path = q
      BY <1>4
    <2>1. OfProxy(proxies[q].SID, q)' = OfProxy(proxies[q].SID, q)
      BY <1>4 DEF OfProxy
    <2>2. proxies'[q].SID # 0 => OfProxy(proxies[q].SID, q)' \in given'
      BY <1>1, <1>4, <2>1 DEF RequestsKnown
    <2>3. proxies'[q].requestId \in 0..ids'
      BY <1>1, <1>2, <1>3, <1>4, <1>6 DEF RequestsKnown
    <2>4. ASSUME NEW i \in 1..Len(http'), proxies'[q].requestId = http'[i].id
          PROVE  http'[i].path = q
      <3>1. CASE i \in 1..Len(http)
        BY <1>1, <1>2, <1>3, <1>4, <1>6, <2>4, <3>1 DEF RequestsKnown
      <3>2. CASE i = Len(http) + 1
        BY <1>1, <1>2, <1>3, <1>4, <1>6, <2>4, <3>2 DEF RequestsKnown
      <3>3. QED
        BY <1>2, <1>6, <3>1, <3>2
    <2>5. QED
      BY <2>2, <2>3, <2>4
  <1>11. RequestsKnown'
    BY <1>8, <1>9, <1>10 DEF RequestsKnown
  <1>12. QED
    BY <1>2, <1>3, <1>4, <1>5, <1>11

LEMMA AskedSubscriptions ==
  ASSUME EPInv, NEW p \in 1..Len(proxies), NEW sid \in Nat,
         NEW kind \in {"subscribe", "renew", "unsubscribe"}, EP!Ask(p, kind, sid),
         UNCHANGED << sids, subscriptions, given >>, NEW keep \in BOOLEAN,
         IF keep THEN proxies' = [proxies EXCEPT ![p].requestId = ids + 1]
                 ELSE UNCHANGED proxies,
         kind = "renew" => sid # 0 /\ sid = proxies[p].SID,
         unsure \subseteq unsure', keep <=> kind # "unsubscribe",
         kind = "subscribe" => proxies[p].requestId = 0 \/ p \in unsure'
  PROVE  EPInv'
  <1>1. EPTypes /\ RequestsKnown /\ SubscriptionsKnown
    BY DEF EPInv
  <1>2. /\ EPTypes' /\ RequestsKnown'
        /\ Len(proxies') = Len(proxies) /\ Len(http') = Len(http) + 1
        /\ \A q \in 1..Len(proxies) :
              /\ proxies'[q].SID = proxies[q].SID
              /\ proxies'[q].requestId =
                   IF keep /\ q = p THEN ids + 1 ELSE proxies[q].requestId
    BY AskedKnown
  <1>3. /\ \A i \in 1..Len(http) : http'[i] = http[i]
        /\ http'[Len(http) + 1].id = ids + 1
        /\ http'[Len(http) + 1].kind = kind
        /\ http'[Len(http) + 1].path = p
        /\ http'[Len(http) + 1].sid = sid
    BY <1>1, AskEffect
  <1>4. Len(http) \in Nat /\ ids \in Nat
    BY <1>1, LenProperties DEF EPTypes
  <1>5. 1..Len(http') = 1..Len(http) \cup {Len(http) + 1}
    BY <1>2, <1>4
  <1>6. \A q : Subscribing(q)' =
          IF q = p /\ kind = "subscribe" THEN Subscribing(q) \cup {Len(http) + 1}
                                         ELSE Subscribing(q)
    BY <1>3, <1>5 DEF Subscribing
  <1>7. ASSUME NEW q \in 1..Len(proxies), q \notin unsure'
        PROVE  SubscriptionKnown(q)'
    <2>1. SubscriptionKnown(q)
      BY <1>1, <1>7 DEF SubscriptionsKnown
    <2>2. \A i \in Subscribing(q) : i \in 1..Len(http) /\ http'[i] = http[i]
      BY <1>3 DEF Subscribing
    <2>3. \A i \in 1..Len(http') : http'[i].path = q /\ http'[i].kind = "renew" =>
            http'[i].sid = proxies'[q].SID
      BY <1>2, <1>3, <1>5, <2>1 DEF SubscriptionKnown
    <2>4. CASE q = p /\ kind = "subscribe"
      <3>1. proxies[p].requestId = 0
        BY <1>7, <2>4
      <3>2. /\ proxies[p].SID = 0 /\ Subscribing(p) = {} /\ \A s \in subscriptions : s.path # p
        BY <2>1, <2>4, <3>1 DEF SubscriptionKnown
      <3>3. Subscribing(p)' = {Len(http) + 1}
        BY <1>6, <2>4, <3>2
      <3>4. proxies'[p].requestId = ids + 1 /\ ids + 1 # 0 /\ proxies'[p].SID = 0
        BY <1>2, <1>4, <2>4, <3>2
      <3>5. QED
        BY <1>3, <2>3, <2>4, <3>2, <3>3, <3>4 DEF SubscriptionKnown
    <2>5. CASE q = p /\ kind = "renew"
      <3>1. Subscribing(p) = {} /\ Subscribing(p)' = {}
        BY <1>6, <2>1, <2>5 DEF SubscriptionKnown
      <3>2. proxies'[p].requestId = ids + 1 /\ ids + 1 # 0
        BY <1>2, <1>4, <2>5
      <3>3. QED
        BY <1>2, <2>1, <2>3, <2>5, <3>1, <3>2 DEF SubscriptionKnown
    <2>6. CASE q # p \/ kind = "unsubscribe"
      <3>1. /\ Subscribing(q)' = Subscribing(q)
            /\ proxies'[q].requestId = proxies[q].requestId
            /\ proxies'[q].SID = proxies[q].SID
        BY <1>2, <1>6, <2>6
      <3>2. QED
        BY <2>1, <2>2, <2>3, <3>1 DEF SubscriptionKnown
    <2>7. QED
      BY <2>4, <2>5, <2>6
  <1>8. SubscriptionsKnown'
    BY <1>2, <1>7 DEF SubscriptionsKnown
  <1>9. QED
    BY <1>2, <1>8 DEF EPInv

LEMMA AddedKnown ==
  ASSUME EPInv, NEW service \in Services, EP!getSubscriptionProxy(service)
  PROVE  EPInv'
  <1>1. EPTypes /\ RequestsKnown /\ SubscriptionsKnown
    BY DEF EPInv
  <1>2. UNCHANGED << http, ids, sids, subscriptions, given, unsure >>
    BY DEF EP!getSubscriptionProxy, EP!device_vars
  <1>3. /\ proxies' \in Seq(Proxies) /\ Len(proxies') = Len(proxies) + 1
        /\ \A q \in 1..Len(proxies) : proxies'[q] = proxies[q]
        /\ proxies'[Len(proxies) + 1].requestId = 0
        /\ proxies'[Len(proxies) + 1].SID = 0
    BY <1>1, AddEffect
  <1>4. Len(proxies) \in Nat /\ Len(http) \in Nat /\ ids \in Nat
    BY <1>1, LenProperties DEF EPTypes
  <1>5. 1..Len(proxies') = 1..Len(proxies) \cup {Len(proxies) + 1}
    BY <1>3, <1>4
  <1>6. EPTypes'
    BY <1>1, <1>2, <1>3, <1>5 DEF EPTypes
  <1>7. Len(proxies) + 1 \notin 1..Len(proxies)
    BY <1>4
  <1>8. \A q \in 1..Len(proxies) : \A s : OfProxy(s, q)' = OfProxy(s, q)
    BY <1>3 DEF OfProxy
  <1>9. ASSUME NEW i \in 1..Len(http)
        PROVE  /\ http[i].id \in 1..ids
               /\ http[i].path \in 1..Len(proxies')
               /\ http[i].service = proxies'[http[i].path].service
               /\ i # 1 => http[i].answer = << >>
               /\ http[i].kind = "renew" =>
                    /\ http[i].sid # 0 /\ OfProxy(http[i].sid, http[i].path)' \in given
                    /\ http[i].answer # << >> => http[i].answer[1] \in {0, http[i].sid}
               /\ http[i].kind = "unsubscribe" /\ http[i].answer # << >> =>
                    http[i].answer[1] = 0
               /\ http[i].answer # << >> /\ http[i].answer[1] # 0 =>
                    OfProxy(http[i].answer[1], http[i].path)' \in given
    <2>1. /\ OfProxy(http[i].sid, http[i].path)' = OfProxy(http[i].sid, http[i].path)
          /\ OfProxy(http[i].answer[1], http[i].path)' =
               OfProxy(http[i].answer[1], http[i].path)
      BY <1>1, <1>2, <1>3 DEF RequestsKnown, OfProxy
    <2>2. QED
      BY <1>1, <1>3, <1>5, <2>1 DEF RequestsKnown
  <1>10. ASSUME NEW q \in 1..Len(proxies')
         PROVE  /\ proxies'[q].requestId \in 0..ids
                /\ proxies'[q].SID # 0 => OfProxy(proxies[q].SID, q)' \in given
                /\ \A i \in 1..Len(http) : proxies'[q].requestId = http[i].id => http[i].path = q
    <2>1. CASE q \in 1..Len(proxies)
      <3>1. OfProxy(proxies[q].SID, q)' = OfProxy(proxies[q].SID, q)
        BY <1>3, <2>1 DEF OfProxy
      <3>2. QED
        BY <1>1, <1>3, <2>1, <3>1 DEF RequestsKnown
    <2>2. CASE q = Len(proxies) + 1
      <3>1. \A i \in 1..Len(http) : http[i].id \in 1..ids
        BY <1>1 DEF RequestsKnown
      <3>2. QED
        BY <1>3, <1>4, <2>2, <3>1
    <2>3. QED
      BY <1>5, <2>1, <2>2
  <1>11. RequestsKnown'
    BY <1>1, <1>2, <1>9, <1>10 DEF RequestsKnown
  <1>12. ASSUME NEW q \in 1..Len(proxies'), q \notin unsure'
         PROVE  SubscriptionKnown(q)'
    <2>1. Subscribing(q)' = Subscribing(q)
      BY <1>2 DEF Subscribing
    <2>2. CASE q \in 1..Len(proxies)
      BY <1>1, <1>2, <1>3, <1>12, <2>1, <2>2 DEF SubscriptionsKnown, SubscriptionKnown
    <2>3. CASE q = Len(proxies) + 1
      <3>1. \A i \in 1..Len(http) : http[i].path # q
        BY <1>1, <1>7, <2>3 DEF RequestsKnown
      <3>2. \A s \in subscriptions : s.path # q
        BY <1>1, <1>7, <2>3 DEF EPTypes
      <3>3. Subscribing(q)' = {}
        BY <2>1, <3>1 DEF Subscribing
      <3>4. QED
        BY <1>2, <1>3, <2>3, <3>1, <3>2, <3>3 DEF SubscriptionKnown
    <2>4. QED
      BY <1>5, <2>2, <2>3
  <1>13. SubscriptionsKnown'
    BY <1>12 DEF SubscriptionsKnown
  <1>14. QED
    BY <1>6, <1>11, <1>13 DEF EPInv

LEMMA ErrorKnown ==
  ASSUME EPInv, EP!httpResponse_error
  PROVE  EPInv'
  <1>1. EPTypes /\ RequestsKnown /\ SubscriptionsKnown
    BY DEF EPInv
  <1>2. /\ http' = << >> /\ unsure' = unsure \cup { http[i].path : i \in DOMAIN http }
        /\ UNCHANGED << proxies, ids, sids, subscriptions, given >>
    BY DEF EP!httpResponse_error, EP!device_vars
  <1>3. 1..Len(http') = {} /\ http' \in Seq(Requests)
    BY <1>2
  <1>4. DOMAIN http = 1..Len(http)
    BY <1>1, LenProperties DEF EPTypes
  <1>5. EPTypes'
    BY <1>1, <1>2, <1>3 DEF EPTypes
  <1>6. \A s, q : OfProxy(s, q)' = OfProxy(s, q)
    BY <1>2 DEF OfProxy
  <1>7. RequestsKnown'
    BY <1>1, <1>2, <1>3, <1>6 DEF RequestsKnown
  <1>8. ASSUME NEW q \in 1..Len(proxies), q \notin unsure'
        PROVE  SubscriptionKnown(q)'
    <2>1. \A i \in 1..Len(http) : http[i].path # q
      BY <1>2, <1>4, <1>8
    <2>2. Subscribing(q) = {}
      BY <2>1 DEF Subscribing
    <2>3. Subscribing(q)' = {}
      BY <1>3 DEF Subscribing
    <2>4. SubscriptionKnown(q)
      BY <1>1, <1>2, <1>8 DEF SubscriptionsKnown
    <2>5. QED
      BY <1>2, <1>3, <2>2, <2>3, <2>4 DEF SubscriptionKnown
  <1>9. SubscriptionsKnown'
    BY <1>2, <1>8 DEF SubscriptionsKnown
  <1>10. QED
    BY <1>5, <1>7, <1>9 DEF EPInv

LEMMA ExpiredKnown ==
  ASSUME EPInv, NEW gone \in subscriptions, EP!Expire(gone)
  PROVE  EPInv'
  <1>1. EPTypes /\ RequestsKnown /\ SubscriptionsKnown
    BY DEF EPInv
  <1>2. subscriptions' \subseteq subscriptions /\ UNCHANGED << proxies, http, ids, sids, given, unsure >>
    BY DEF EP!Expire
  <1>3. EPTypes'
    BY <1>1, <1>2 DEF EPTypes
  <1>4. \A s, q : OfProxy(s, q)' = OfProxy(s, q)
    BY <1>2 DEF OfProxy
  <1>5. RequestsKnown'
    BY <1>1, <1>2, <1>4 DEF RequestsKnown
  <1>6. \A q : Subscribing(q)' = Subscribing(q)
    BY <1>2 DEF Subscribing
  <1>7. SubscriptionsKnown'
    BY <1>1, <1>2, <1>6 DEF SubscriptionsKnown, SubscriptionKnown
  <1>8. QED
    BY <1>3, <1>5, <1>7 DEF EPInv

(* The device answers the first request.                                   *)
LEMMA AnsweredKnown ==
  ASSUME EPInv, http # << >>, Head(http).answer = << >>, NEW a \in Nat, EP!Answered(a),
         UNCHANGED << proxies, ids, unsure >>, sids' \in Nat,
         given \subseteq given', given' \subseteq Given, subscriptions' \subseteq given',
         \A s \in given' : s.path \in 1..Len(proxies),
         a # 0 => OfProxy(a, http[1].path) \in given',
         http[1].kind = "renew" => a \in {0, http[1].sid},
         http[1].kind = "unsubscribe" => a = 0,
         \A s \in subscriptions' : \/ s \in subscriptions
                                   \/ /\ http[1].kind = "subscribe"
                                      /\ s.path = http[1].path /\ s.sid = a
  PROVE  EPInv'
  <1>1. EPTypes /\ RequestsKnown /\ SubscriptionsKnown
    BY DEF EPInv
  <1>2. /\ 1 \in 1..Len(http) /\ http[1].answer = << >>
        /\ http' \in Seq(Requests) /\ Len(http') = Len(http)
        /\ \A i \in 1..Len(http) :
              /\ http'[i].id = http[i].id /\ http'[i].kind = http[i].kind
              /\ http'[i].path = http[i].path /\ http'[i].sid = http[i].sid
              /\ http'[i].service = http[i].service
              /\ i # 1 => http'[i].answer = http[i].answer
        /\ http'[1].answer = << a >>
    BY <1>1, AnswerEffect
  <1>3. EPTypes'
    BY <1>1, <1>2 DEF EPTypes
  <1>4. \A s, q : OfProxy(s, q)' = OfProxy(s, q)
    BY DEF OfProxy
  <1>5. http'[1].answer[1] = a
    BY <1>2
  <1>6. ASSUME NEW i \in 1..Len(http)
        PROVE  /\ http'[i].id \in 1..ids
               /\ http'[i].path \in 1..Len(proxies)
               /\ http'[i].service = proxies[http'[i].path].service
               /\ i # 1 => http'[i].answer = << >>
               /\ http'[i].kind = "renew" =>
                    /\ http'[i].sid # 0 /\ OfProxy(http[i].sid, http[i].path)' \in given'
                    /\ http'[i].answer # << >> => http'[i].answer[1] \in {0, http'[i].sid}
               /\ http'[i].kind = "unsubscribe" /\ http'[i].answer # << >> =>
                    http'[i].answer[1] = 0
               /\ http'[i].answer # << >> /\ http'[i].answer[1] # 0 =>
                    OfProxy(http[i].answer[1], http[i].path)' \in given'
    <2>1. OfProxy(http[i].sid, http[i].path)' = OfProxy(http[i].sid, http[i].path)
      BY <1>2 DEF OfProxy
    <2>2. CASE i = 1
      <3>1. OfProxy(http[i].answer[1], http[i].path)' = OfProxy(a, http[1].path)
        BY <1>2, <1>5, <2>2 DEF OfProxy
      <3>2. QED
        BY <1>1, <1>2, <1>5, <2>1, <2>2, <3>1 DEF RequestsKnown
    <2>3. CASE i # 1
      <3>1. /\ http'[i].id = http[i].id /\ http'[i].kind = http[i].kind
            /\ http'[i].path = http[i].path /\ http'[i].sid = http[i].sid
            /\ http'[i].service = http[i].service /\ http'[i].answer = http[i].answer
        BY <1>2, <2>3
      <3>2. /\ http[i].id \in 1..ids /\ http[i].path \in 1..Len(proxies)
            /\ http[i].service = proxies[http[i].path].service
            /\ http[i].answer = << >>
            /\ http[i].kind = "renew" =>
                 http[i].sid # 0 /\ OfProxy(http[i].sid, http[i].path) \in given
        BY <1>1, <2>3 DEF RequestsKnown
      <3>3. QED
        BY <2>1, <2>3, <3>1, <3>2
    <2>4. QED
      BY <2>2, <2>3
  <1>7. RequestsKnown'
    BY <1>1, <1>2, <1>4, <1>6 DEF RequestsKnown
  <1>8. \A q : Subscribing(q)' = Subscribing(q)
    BY <1>2 DEF Subscribing
  <1>9. ASSUME NEW q \in 1..Len(proxies), q \notin unsure
        PROVE  SubscriptionKnown(q)'
    <2>1. SubscriptionKnown(q)
      BY <1>1, <1>9 DEF SubscriptionsKnown
    <2>2. 1 \notin Subscribing(q) => \A s \in subscriptions' : s.path = q => s \in subscriptions
      BY <1>2 DEF Subscribing
    <2>3. proxies[q].requestId = 0 =>
            /\ proxies[q].SID = 0 /\ Subscribing(q)' = {} /\ \A s \in subscriptions' : s.path # q
      BY <1>8, <2>1, <2>2 DEF SubscriptionKnown
    <2>4. ASSUME NEW i \in Subscribing(q)
          PROVE  /\ proxies[q].requestId = http'[i].id /\ proxies[q].SID = 0
                 /\ \A s \in subscriptions' : s.path = q => http'[i].answer = << s.sid >>
      <3>1. i \in 1..Len(http) /\ http[i].path = q /\ http[i].kind = "subscribe"
        BY DEF Subscribing
      <3>2. /\ proxies[q].requestId = http'[i].id /\ proxies[q].SID = 0
            /\ \A s \in subscriptions : s.path = q => http[i].answer = << s.sid >>
        BY <1>2, <2>1, <3>1 DEF SubscriptionKnown
      <3>3. http[i].answer = << >>
        BY <1>1, <1>2, <3>1 DEF RequestsKnown
      <3>4. \A s \in subscriptions : s.path # q
        BY <3>2, <3>3
      <3>5. CASE i = 1
        BY <1>2, <3>2, <3>4, <3>5
      <3>6. CASE i # 1
        <4>1. 1 \notin Subscribing(q)
          BY <1>1, <1>2, <2>1, <3>1, <3>2, <3>6 DEF SubscriptionKnown, RequestsKnown
        <4>2. QED
          BY <2>2, <3>2, <3>4, <4>1
      <3>7. QED
        BY <3>5, <3>6
    <2>5. Subscribing(q)' = {} => \A s \in subscriptions' : s.path = q => proxies[q].SID = s.sid
      BY <1>8, <2>1, <2>2 DEF SubscriptionKnown
    <2>6. \A i \in 1..Len(http) : http'[i].path = q /\ http'[i].kind = "renew" =>
            http'[i].sid = proxies[q].SID
      BY <1>2, <2>1 DEF SubscriptionKnown
    <2>7. QED
      BY <1>2, <1>8, <2>3, <2>4, <2>5, <2>6 DEF SubscriptionKnown
  <1>10. SubscriptionsKnown'
    BY <1>9 DEF SubscriptionsKnown
  <1>11. QED
    BY <1>3, <1>7, <1>10 DEF EPInv

LEMMA ServedKnown ==
  ASSUME EPInv, EP!Serve
  PROVE  EPInv'
  <1> DEFINE r == Head(http)
             known == { s \in subscriptions : s.sid = r.sid }
             new == [sid |-> sids + 1, path |-> r.path, service |-> r.service]
  <1>1. EPTypes /\ RequestsKnown
    BY DEF EPInv
  <1>2. http # << >> /\ r.answer = << >> /\ UNCHANGED << proxies, ids, unsure >>
    BY DEF EP!Serve
  <1>3. 1 \in 1..Len(http) /\ r = http[1]
    BY <1>1, <1>2, TailOfSeq DEF EPTypes
  <1>4. http[1] \in Requests
    BY <1>1, <1>3, ElementOfSeq DEF EPTypes
  <1>5. /\ http[1].path \in 1..Len(proxies) /\ http[1].sid \in Nat
        /\ http[1].path \in Nat /\ http[1].service \in Services
        /\ http[1].service = proxies[http[1].path].service
    BY <1>1, <1>3, <1>4 DEF RequestsKnown, Requests
  <1>6. CASE /\ r.kind = "subscribe" /\ sids' = sids + 1
             /\ subscriptions' = subscriptions \cup {new} /\ given' = given \cup {new}
             /\ EP!Answered(sids + 1)
    <2>1. PICK a \in Nat : a = sids + 1
      BY <1>1 DEF EPTypes
    <2>2. new = OfProxy(a, http[1].path)
      BY <1>3, <1>5, <2>1 DEF OfProxy
    <2>3. new \in Given /\ new.path = http[1].path /\ new.sid = a
      BY <1>3, <1>5, <2>1 DEF Given
    <2> HIDE DEF new
    <2>4. EP!Answered(a) /\ sids' = a /\ http[1].kind = "subscribe"
      BY <1>3, <1>6, <2>1
    <2>5. subscriptions' = subscriptions \cup {new} /\ given' = given \cup {new}
      BY <1>6
    <2>6. PICK e \in Given : e = new
      BY <2>3
    <2>7. /\ subscriptions' = subscriptions \cup {e} /\ given' = given \cup {e}
          /\ e.path = http[1].path /\ e.sid = a /\ e = OfProxy(a, http[1].path)
      BY <2>2, <2>3, <2>5, <2>6
    <2>8. /\ given \subseteq Given /\ subscriptions \subseteq given
          /\ \A s \in given : s.path \in 1..Len(proxies)
      BY <1>1 DEF EPTypes
    <2>9. /\ given \subseteq given' /\ given' \subseteq Given /\ subscriptions' \subseteq given'
          /\ OfProxy(a, http[1].path) \in given'
      BY <2>6, <2>7, <2>8
    <2>10. \A s \in given' : s.path \in 1..Len(proxies)
      BY <1>5, <2>7, <2>8
    <2>11. \A s \in subscriptions' : s \in subscriptions \/ (s.path = http[1].path /\ s.sid = a)
      BY <2>7
    <2>12. QED
      BY <1>2, <2>1, <2>4, <2>9, <2>10, <2>11, AnsweredKnown
  <1>7. CASE /\ r.kind = "renew" /\ known # {} /\ EP!Answered(r.sid)
             /\ UNCHANGED << sids, subscriptions, given >>
    <2>1. PICK a \in Nat : a = r.sid
      BY <1>3, <1>5
    <2>2. EP!Answered(a) /\ http[1].kind = "renew" /\ a = http[1].sid
      BY <1>3, <1>7, <2>1
    <2>3. OfProxy(a, http[1].path) \in given
      BY <1>1, <1>3, <2>2 DEF RequestsKnown
    <2>4. QED
      BY <1>1, <1>2, <1>7, <2>1, <2>2, <2>3, AnsweredKnown DEF EPTypes
  <1>8. CASE /\ r.kind = "unsubscribe" /\ subscriptions' = subscriptions \ known /\ EP!Answered(0)
             /\ UNCHANGED << sids, given >>
    BY <1>1, <1>2, <1>8, AnsweredKnown DEF EPTypes
  <1>9. CASE EP!Answered(0) /\ UNCHANGED << sids, subscriptions, given >>
    BY <1>1, <1>2, <1>9, AnsweredKnown DEF EPTypes
  <1>10. QED
    BY <1>6, <1>7, <1>8, <1>9 DEF EP!Serve, EP!NoSid

(* An answer reaches the proxy that keeps its number.                      *)
LEMMA RespondedKnown ==
  ASSUME EPInv, EP!httpResponse
  PROVE  EPInv'
  <1>1. EPTypes /\ RequestsKnown /\ SubscriptionsKnown
    BY DEF EPInv
  <1>2. http' = Tail(http) /\ UNCHANGED << ids, sids, subscriptions, given, unsure >>
    BY DEF EP!httpResponse, EP!device_vars
  <1>3. PICK a \in Nat : a = http[1].answer[1]
    BY <1>1, ResponseEffect
  <1>4. /\ http # << >> /\ 1 \in 1..Len(http) /\ http[1].answer # << >>
        /\ proxies' \in Seq(Proxies) /\ Len(proxies') = Len(proxies)
        /\ \A q \in 1..Len(proxies) :
              /\ proxies'[q].service = proxies[q].service
              /\ proxies'[q].requestId = proxies[q].requestId
              /\ proxies'[q].SID = IF proxies[q].requestId = http[1].id /\ a # 0
                                   THEN a ELSE proxies[q].SID
    BY <1>1, <1>3, ResponseEffect
  <1>5. /\ http' \in Seq(Requests) /\ Len(http') = Len(http) - 1
        /\ \A i \in 1..Len(http') : i + 1 \in 1..Len(http) /\ http'[i] = http[i + 1]
    BY <1>1, <1>2, <1>4, PopEffect
  <1>6. EPTypes'
    BY <1>1, <1>2, <1>4, <1>5 DEF EPTypes
  <1>7. \A q \in 1..Len(proxies) : \A s : OfProxy(s, q)' = OfProxy(s, q)
    BY <1>4 DEF OfProxy
  <1>8. ASSUME NEW i \in 1..Len(http')
        PROVE  /\ http'[i].id \in 1..ids
               /\ http'[i].path \in 1..Len(proxies')
               /\ http'[i].service = proxies'[http'[i].path].service
               /\ http'[i].answer = << >>
               /\ http'[i].kind = "renew" =>
                    http'[i].sid # 0 /\ OfProxy(http[i].sid, http[i].path)' \in given
    <2>1. PICK j \in 1..Len(http) : j = i + 1 /\ j # 1 /\ http'[i] = http[j]
      BY <1>5
    <2>2. OfProxy(http[i].sid, http[i].path)' = OfProxy(http[j].sid, http[j].path)
      BY <1>1, <1>4, <2>1 DEF RequestsKnown, OfProxy
    <2>3. /\ http[j].id \in 1..ids
          /\ http[j].path \in 1..Len(proxies)
          /\ http[j].service = proxies[http[j].path].service
          /\ http[j].answer = << >>
          /\ http[j].kind = "renew" =>
               http[j].sid # 0 /\ OfProxy(http[j].sid, http[j].path) \in given
      BY <1>1, <2>1 DEF RequestsKnown
    <2>4. proxies'[http[j].path].service = proxies[http[j].path].service
      BY <1>4, <2>3
    <2>5. QED
      BY <1>4, <2>1, <2>2, <2>3, <2>4
  <1>9. \A i, j \in 1..Len(http') : http'[i].id = http'[j].id => i = j
    <2> SUFFICES ASSUME NEW i \in 1..Len(http'), NEW j \in 1..Len(http'),
                        http'[i].id = http'[j].id
                 PROVE  i = j
      OBVIOUS
    <2>1. i + 1 \in 1..Len(http) /\ j + 1 \in 1..Len(http) /\ http[i + 1].id = http[j + 1].id
      BY <1>5
    <2>2. i + 1 = j + 1
      BY <1>1, <2>1 DEF RequestsKnown
    <2>3. QED
      BY <2>2
  <1>10. ASSUME NEW q \in 1..Len(proxies)
         PROVE  /\ proxies'[q].requestId \in 0..ids
                /\ proxies'[q].SID # 0 => OfProxy(proxies[q].SID, q)' \in given
                /\ \A i \in 1..Len(http') : proxies'[q].requestId = http'[i].id => http'[i].path = q
    <2>1. proxies'[q].SID # 0 => OfProxy(proxies'[q].SID, q) \in given
      <3>1. CASE proxies[q].requestId = http[1].id /\ a # 0
        <4>1. http[1].path = q
          BY <1>1, <1>4, <3>1 DEF RequestsKnown
        <4>2. OfProxy(a, q) \in given
          BY <1>1, <1>3, <1>4, <3>1, <4>1 DEF RequestsKnown
        <4>3. QED
          BY <1>4, <3>1, <4>2
      <3>2. CASE ~(proxies[q].requestId = http[1].id /\ a # 0)
        BY <1>1, <1>4, <3>2 DEF RequestsKnown
      <3>3. QED
        BY <3>1, <3>2
    <2>2. OfProxy(proxies[q].SID, q)' = OfProxy(proxies'[q].SID, q)
      BY <1>4 DEF OfProxy
    <2>3. \A j \in 1..Len(http) : proxies[q].requestId = http[j].id => http[j].path = q
      BY <1>1 DEF RequestsKnown
    <2>4. \A i \in 1..Len(http') : proxies'[q].requestId = http'[i].id => http'[i].path = q
      BY <1>4, <1>5, <2>3
    <2>5. proxies'[q].requestId \in 0..ids
      BY <1>1, <1>4 DEF RequestsKnown
    <2>6. QED
      BY <2>1, <2>2, <2>4, <2>5
  <1>11. RequestsKnown'
    BY <1>2, <1>4, <1>8, <1>9, <1>10 DEF RequestsKnown
  <1>12. \A q : \A i \in Subscribing(q)' :
           /\ i \in 1..Len(http') /\ i + 1 # 1 /\ i + 1 \in Subscribing(q)
           /\ http'[i] = http[i + 1]
    BY <1>5 DEF Subscribing
  <1>13. \A q : \A j \in Subscribing(q) : j # 1 => j - 1 \in Subscribing(q)'
    <2> SUFFICES ASSUME NEW q, NEW j \in Subscribing(q), j # 1
                 PROVE  j - 1 \in Subscribing(q)'
      OBVIOUS
    <2>1. j \in 1..Len(http) /\ http[j].path = q /\ http[j].kind = "subscribe"
      BY DEF Subscribing
    <2>2. Len(http) \in Nat
      BY <1>1, LenProperties DEF EPTypes
    <2>3. j - 1 \in 1..Len(http') /\ (j - 1) + 1 = j
      BY <1>5, <2>1, <2>2
    <2>4. http'[j - 1] = http[j]
      BY <1>5, <2>3
    <2>5. QED
      BY <2>1, <2>3, <2>4 DEF Subscribing
  <1>14. ASSUME NEW q \in 1..Len(proxies), q \notin unsure
         PROVE  SubscriptionKnown(q)'
    <2>1. SubscriptionKnown(q)
      BY <1>1, <1>14 DEF SubscriptionsKnown
    <2>2. \A i \in 1..Len(http') : http'[i].path = q /\ http'[i].kind = "renew" =>
            http'[i].sid = proxies[q].SID /\ http'[i].sid # 0
      <3> SUFFICES ASSUME NEW i \in 1..Len(http'), http'[i].path = q, http'[i].kind = "renew"
                   PROVE  http'[i].sid = proxies[q].SID /\ http'[i].sid # 0
        OBVIOUS
      <3>1. i + 1 \in 1..Len(http) /\ http'[i] = http[i + 1]
        BY <1>5
      <3>2. \A j \in 1..Len(http) : http[j].path = q /\ http[j].kind = "renew" =>
              http[j].sid = proxies[q].SID
        BY <2>1 DEF SubscriptionKnown
      <3>3. http'[i].sid = proxies[q].SID
        BY Zenon, <3>1, <3>2
      <3>4. http'[i].sid # 0
        BY <1>8
      <3>5. QED
        BY <3>3, <3>4
    <2>3. CASE proxies'[q].SID = proxies[q].SID /\ ~(1 \in Subscribing(q) /\ a # 0)
      <3>1. proxies[q].requestId = 0 =>
              /\ proxies[q].SID = 0 /\ Subscribing(q)' = {} /\ \A s \in subscriptions : s.path # q
        BY <1>12, <2>1 DEF SubscriptionKnown
      <3>2. \A i \in Subscribing(q)' :
              /\ proxies[q].requestId = http'[i].id /\ proxies[q].SID = 0
              /\ \A s \in subscriptions : s.path = q => http'[i].answer = << s.sid >>
        BY <1>12, <2>1 DEF SubscriptionKnown
      <3>3. ASSUME Subscribing(q)' = {}, NEW s \in subscriptions, s.path = q
            PROVE  proxies[q].SID = s.sid
        <4>1. CASE Subscribing(q) = {}
          BY <2>1, <3>3, <4>1 DEF SubscriptionKnown
        <4>2. CASE Subscribing(q) # {}
          <5>1. 1 \in Subscribing(q) /\ a = 0
            BY <1>13, <2>3, <3>3, <4>2
          <5>2. proxies[q].SID = 0 /\ http[1].answer = << s.sid >>
            BY <2>1, <3>3, <5>1 DEF SubscriptionKnown
          <5>3. http[1].answer[1] = s.sid
            BY <5>2
          <5>4. QED
            BY <1>3, <5>1, <5>2, <5>3
        <4>3. QED
          BY <4>1, <4>2
      <3>4. QED
        BY <1>2, <1>4, <2>2, <2>3, <3>1, <3>2, <3>3 DEF SubscriptionKnown
    <2>4. CASE 1 \in Subscribing(q) /\ a # 0
      <3>1. /\ proxies[q].requestId = http[1].id /\ proxies[q].SID = 0
            /\ \A s \in subscriptions : s.path = q => http[1].answer = << s.sid >>
        BY <2>1, <2>4 DEF SubscriptionKnown
      <3>2. proxies'[q].SID = a
        BY <1>4, <2>4, <3>1
      <3>3. proxies'[q].requestId # 0
        BY <1>1, <1>4, <3>1 DEF RequestsKnown
      <3>4. \A j \in Subscribing(q) : j = 1
        <4> SUFFICES ASSUME NEW j \in Subscribing(q) PROVE j = 1
          OBVIOUS
        <4>1. j \in 1..Len(http) /\ http[j].id = http[1].id
          BY <2>1, <3>1 DEF SubscriptionKnown, Subscribing
        <4>2. QED
          BY <1>1, <1>4, <4>1 DEF RequestsKnown
      <3>5. Subscribing(q)' = {}
        BY <1>12, <3>4
      <3>6. \A s \in subscriptions : s.path = q => a = s.sid
        <4>1. \A s \in subscriptions : s.path = q => http[1].answer[1] = s.sid
          BY <3>1
        <4>2. QED
          BY <1>3, <4>1
      <3>7. \A i \in 1..Len(http') : ~(http'[i].path = q /\ http'[i].kind = "renew")
        BY <2>2, <3>1
      <3>8. QED
        BY <1>2, <3>2, <3>3, <3>5, <3>6, <3>7 DEF SubscriptionKnown
    <2>5. CASE proxies'[q].SID # proxies[q].SID
      <3>1. proxies[q].requestId = http[1].id /\ a # 0 /\ proxies[q].SID # a
        BY <1>4, <2>5
      <3>2. http[1].path = q /\ http[1].kind # "unsubscribe"
        BY <1>1, <1>3, <1>4, <3>1 DEF RequestsKnown
      <3>3. http[1].kind # "renew"
        BY <1>1, <1>3, <1>4, <2>1, <3>1, <3>2 DEF RequestsKnown, SubscriptionKnown
      <3>4. http[1] \in Requests
        BY <1>1, <1>4, ElementOfSeq DEF EPTypes
      <3>5. http[1].kind = "subscribe"
        BY <3>2, <3>3, <3>4 DEF Requests
      <3>6. 1 \in Subscribing(q)
        BY <1>4, <3>2, <3>5 DEF Subscribing
      <3>7. QED
        BY <2>4, <3>1, <3>6
    <2>6. QED
      BY <2>3, <2>4, <2>5
  <1>15. SubscriptionsKnown'
    BY <1>2, <1>4, <1>14 DEF SubscriptionsKnown
  <1>16. QED
    BY <1>6, <1>11, <1>15 DEF EPInv

LEMMA SameKnown ==
  ASSUME EPInv, UNCHANGED << proxies, http, ids, sids, subscriptions, given, unsure >>
  PROVE  EPInv'
  <1>1. EPTypes'
    BY DEF EPInv, EPTypes
  <1>2. RequestsKnown'
    BY DEF EPInv, RequestsKnown, OfProxy
  <1>3. SubscriptionsKnown'
    BY DEF EPInv, SubscriptionsKnown, SubscriptionKnown, Subscribing
  <1>4. QED
    BY <1>1, <1>2, <1>3 DEF EPInv

LEMMA EPInvNext == EPInv /\ [EP!Next]_(EP!vars) => EPInv'
  <1> SUFFICES ASSUME EPInv, [EP!Next]_(EP!vars) PROVE EPInv'
    OBVIOUS
  <1>1. DOMAIN proxies = 1..Len(proxies) /\ ids \in Nat
    BY LenProperties DEF EPInv, EPTypes
  <1>2. \A p \in 1..Len(proxies) : proxies[p].SID \in Nat
    <2>1. \A p \in 1..Len(proxies) : proxies[p] \in Proxies
      BY ElementOfSeq DEF EPInv, EPTypes
    <2>2. QED
      BY <2>1 DEF Proxies
  <1>3. ASSUME NEW service \in Services, EP!getSubscriptionProxy(service) PROVE EPInv'
    BY <1>3, AddedKnown
  <1>4. ASSUME NEW p \in 1..Len(proxies), EP!subscribe(p) PROVE EPInv'
    <2>1. /\ EP!Ask(p, "subscribe", 0) /\ UNCHANGED << sids, subscriptions, given >>
          /\ proxies' = [proxies EXCEPT ![p].requestId = ids + 1]
          /\ unsure' = IF proxies[p].requestId = 0 THEN unsure ELSE unsure \cup {p}
      BY <1>4 DEF EP!subscribe, EP!AskAndKeep, EP!NoSid, EP!NoRequest, EP!device_vars
    <2>2. unsure \subseteq unsure' /\ (proxies[p].requestId = 0 \/ p \in unsure')
      BY <2>1
    <2>3. QED
      BY <2>1, <2>2, AskedSubscriptions
  <1>5. ASSUME NEW p \in 1..Len(proxies), EP!renew(p) PROVE EPInv'
    <2>1. UNCHANGED << sids, subscriptions, given, unsure >>
      BY <1>5 DEF EP!renew, EP!device_vars
    <2>2. CASE proxies[p].SID = 0
      <3>1. UNCHANGED << proxies, http, ids >>
        BY <1>5, <2>2 DEF EP!renew, EP!NoSid
      <3>2. QED
        BY <2>1, <3>1, SameKnown
    <2>3. CASE proxies[p].SID # 0
      <3>1. PICK sid \in Nat : sid = proxies[p].SID
        BY <1>2
      <3>2. /\ EP!Ask(p, "renew", sid)
            /\ proxies' = [proxies EXCEPT ![p].requestId = ids + 1]
        BY <1>5, <2>3, <3>1 DEF EP!renew, EP!AskAndKeep, EP!NoSid
      <3>3. QED
        BY <2>1, <2>3, <3>1, <3>2, AskedSubscriptions
    <2>4. QED
      BY <2>2, <2>3
  <1>6. ASSUME NEW p \in 1..Len(proxies), EP!unsubscribe(p) PROVE EPInv'
    <2>1. PICK sid \in Nat : sid = proxies[p].SID
      BY <1>2
    <2>2. EP!Ask(p, "unsubscribe", sid) /\ UNCHANGED << proxies, sids, subscriptions, given, unsure >>
      BY <1>6, <2>1 DEF EP!unsubscribe, EP!device_vars
    <2>3. QED
      BY <2>2, AskedSubscriptions
  <1>7. CASE EP!httpResponse
    BY <1>7, RespondedKnown
  <1>8. CASE EP!httpResponse_error
    BY <1>8, ErrorKnown
  <1>9. CASE EP!Serve
    BY <1>9, ServedKnown
  <1>10. ASSUME NEW gone \in subscriptions, EP!Expire(gone) PROVE EPInv'
    BY <1>10, ExpiredKnown
  <1>11. CASE UNCHANGED EP!vars
    BY <1>11, SameKnown DEF EP!vars, EP!device_vars
  <1>12. QED
    BY <1>1, <1>3, <1>4, <1>5, <1>6, <1>7, <1>8, <1>9, <1>10, <1>11 DEF EP!Next

(* A proxy has a SID that the device made for it and its service, whatever *)
(* answers lie between; and at rest, one that subscribed once and had no   *)
(* error knows the subscription there is: for any services, proxies and    *)
(* requests.                                                               *)
THEOREM SidsAreTheirs == EP!Spec => []EP!OwnSid
  <1>1. EP!Init => EPInv
    <2> SUFFICES ASSUME EP!Init PROVE EPInv
      OBVIOUS
    <2>1. /\ proxies = << >> /\ http = << >> /\ ids = 0 /\ sids = 0
          /\ subscriptions = {} /\ given = {}
      BY DEF EP!Init
    <2>2. 1..Len(proxies) = {} /\ 1..Len(http) = {}
      BY <2>1
    <2>3. proxies \in Seq(Proxies) /\ http \in Seq(Requests)
      BY <2>1
    <2>4. QED
      BY <2>1, <2>2, <2>3 DEF EPInv, EPTypes, RequestsKnown, SubscriptionsKnown
  <1>2. EPInv => EP!OwnSid
    <2> SUFFICES ASSUME EPInv PROVE EP!OwnSid
      OBVIOUS
    <2>1. DOMAIN proxies = 1..Len(proxies) /\ DOMAIN http = 1..Len(http)
      BY LenProperties DEF EPInv, EPTypes
    <2>2. \A p \in DOMAIN proxies : proxies[p].SID # 0 =>
            [sid |-> proxies[p].SID, path |-> p, service |-> proxies[p].service] \in given
      BY <2>1 DEF EPInv, RequestsKnown, OfProxy
    <2>3. ASSUME NEW s \in subscriptions, s.path \notin unsure,
                 \A i \in DOMAIN http : http[i].path # s.path
          PROVE  proxies[s.path].SID = s.sid
      <3>1. s.path \in 1..Len(proxies)
        BY DEF EPInv, EPTypes
      <3>2. Subscribing(s.path) = {}
        BY <2>1, <2>3 DEF Subscribing
      <3>3. SubscriptionKnown(s.path)
        BY <2>3, <3>1 DEF EPInv, SubscriptionsKnown
      <3>4. QED
        BY <3>2, <3>3 DEF SubscriptionKnown
    <2>4. QED
      BY <2>2, <2>3 DEF EP!OwnSid, EP!NoSid
  <1>3. QED
    BY <1>1, <1>2, EPInvNext, PTL DEF EP!Spec

-----------------------------------------------------------------------------
(* The state variables of a service (StateVariable).                       *)

(* The last two elements of a sequence of at most two and one more.        *)
LEMMA LastTwo ==
  ASSUME NEW S, NEW s \in Seq(S), NEW e \in S, Len(s) <= 2,
         NEW r, r = SV!lastTwo(Append(s, e))
  PROVE  /\ r \in Seq(S) /\ Len(r) \in 1..2 /\ r[Len(r)] = e
         /\ Len(r) = 2 => Len(s) # 0 /\ r[1] = s[Len(s)]
  <1>1. PICK n \in Nat : n = Len(s)
    BY LenProperties
  <1>2. PICK t : t = Append(s, e)
    OBVIOUS
  <1>3. t \in Seq(S) /\ Len(t) = n + 1 /\ t[n + 1] = e /\ \A i \in 1..n : t[i] = s[i]
    BY <1>1, <1>2, AppendProperties
  <1>4. PICK m \in Nat : m = IF n = 0 THEN 1 ELSE n
    BY <1>1
  <1>5. r = SubSeq(t, m, n + 1)
    <2>1. SV!Max({1, n}) = m
      <3>1. m \in {1, n} /\ \A x \in {1, n} : m >= x
        BY <1>1, <1>4
      <3>2. \A y \in {1, n} : (\A x \in {1, n} : y >= x) => y = m
        BY <1>1, <1>4
      <3>3. QED
        BY <3>1, <3>2 DEF SV!Max
    <2>2. Len(t) - 1 = n
      BY <1>1, <1>3
    <2>3. SV!lastTwo(t) = SubSeq(t, SV!Max({1, Len(t) - 1}), Len(t))
      BY DEF SV!lastTwo
    <2>4. QED
      BY <1>2, <1>3, <2>1, <2>2, <2>3
  <1>6. PICK k \in Nat, l \in Nat : k + 1 = m /\ k + l = n + 1
    <2>1. CASE n = 0
      <3>1. 0 + 1 = m /\ 0 + 1 = n + 1
        BY <1>4, <2>1
      <3>2. QED
        BY <3>1
    <2>2. CASE n # 0
      <3>1. PICK k \in Nat : k + 1 = n
        BY <1>1, <2>2
      <3>2. k + 1 = m /\ k + 2 = n + 1
        BY <1>4, <2>2, <3>1
      <3>3. QED
        BY <3>2
    <2>3. QED
      BY <2>1, <2>2
  <1>7. /\ SubSeq(t, k + 1, k + l) \in Seq(S) /\ Len(SubSeq(t, k + 1, k + l)) = l
        /\ \A i \in 1..l : SubSeq(t, k + 1, k + l)[i] = t[k + i]
    <2>1. k + l <= Len(t)
      BY <1>3, <1>6
    <2>2. QED
      BY <1>3, <2>1, PartOfSeq
  <1>9. r \in Seq(S) /\ Len(r) = l /\ \A i \in 1..l : r[i] = t[k + i]
    BY <1>5, <1>6, <1>7
  <1>10. CASE n = 0
    <2>1. k = 0 /\ l = 1
      BY <1>1, <1>4, <1>6, <1>10
    <2>2. r[1] = t[1] /\ t[1] = e
      BY <1>3, <1>9, <1>10, <2>1
    <2>3. QED
      BY <1>9, <2>1, <2>2
  <1>11. CASE n # 0
    <2>1. l = 2 /\ k + 1 = n /\ k + 2 = n + 1
      BY <1>1, <1>4, <1>6, <1>11
    <2>2. r[1] = t[n] /\ r[2] = t[n + 1]
      BY <1>9, <2>1
    <2>3. t[n] = s[n] /\ t[n + 1] = e
      BY <1>1, <1>3, <1>11
    <2>4. QED
      BY <1>1, <1>9, <1>11, <2>1, <2>2, <2>3
  <1>12. QED
    BY <1>10, <1>11

(* What a variable is, and what its listeners have heard of it.            *)
IsVariable(v) ==
  /\ DOMAIN v = {"name", "dataType", "defaultValue", "allowed", "minimum", "maximum",
                 "sendEvents", "multicast", "value"}
  /\ v.sendEvents \in BOOLEAN /\ v.multicast \in BOOLEAN
VariableRight(v, signalled) ==
  /\ IsVariable(v)
  /\ v.minimum # "" => v.maximum # ""
  /\ SV!Allowed(v)
  /\ signalled = SV!Untold \/ (v.sendEvents /\ signalled = v.value)

NextKey(seq) == IF seq = SeqMax THEN 0 ELSE seq
KeysRight(ks, seq) ==
  /\ seq \in 0..SeqMax
  /\ ks \in Seq(0..SeqMax - 1) /\ Len(ks) <= 2
  /\ Len(ks) = 2 => ks[2] = (ks[1] + 1) % SeqMax
  /\ Len(ks) # 0 => NextKey(seq) = (ks[Len(ks)] + 1) % SeqMax

ServiceRight(s) ==
  /\ DOMAIN s = {"list", "seq", "wire", "told", "keys"}
  /\ (\E n \in Nat : DOMAIN s.list = 1..n) /\ DOMAIN s.told = DOMAIN s.list
  /\ \A i \in DOMAIN s.list : VariableRight(s.list[i], s.told[i])
  /\ KeysRight(s.keys, s.seq)
  /\ s.wire \in Seq(SV!ToSet(s.wire))

(* The last datagram of its own that is on the wire, the j-th, tells what  *)
(* the i-th variable is.                                                   *)
Says(s, i, j) ==
  /\ i \in DOMAIN s.list /\ j \in 1..Len(s.wire)
  /\ s.list[i].sendEvents /\ s.list[i].multicast
  /\ s.wire[j] = SV!BrisaMulticastEventMessage(s.list[i], s.keys[Len(s.keys)])
  /\ \A k \in j + 1..Len(s.wire) : s.wire[k] \in Foreign

(* Nothing is told by s to r: nothing was sent, and no variable that sends *)
(* is another.                                                             *)
Quiet(s, r) ==
  /\ r.wire = s.wire /\ r.keys = s.keys
  /\ \A k \in DOMAIN s.list :
       /\ s.list[k].sendEvents /\ s.list[k].multicast => r.list[k] = s.list[k]

LEMMA KeysGo ==
  ASSUME SV!StateVariableConstants, NEW ks, NEW seq, KeysRight(ks, seq),
         NEW next, next = SV!getNextMulticastSeq(seq)
  PROVE  /\ next.key \in 0..SeqMax - 1
         /\ LET r == SV!lastTwo(Append(ks, next.key))
            IN  KeysRight(r, next.seq) /\ Len(r) # 0 /\ r[Len(r)] = next.key
  <1>1. SeqMax \in Nat /\ SeqMax >= 1 /\ seq \in 0..SeqMax
    BY DEF SV!StateVariableConstants, KeysRight
  <1>2. PICK k : k = NextKey(seq)
    OBVIOUS
  <1>3. PICK n : n = IF seq = SeqMax THEN 1 ELSE seq + 1
    OBVIOUS
  <1>4. next.key = k /\ next.seq = n
    BY <1>2, <1>3 DEF SV!getNextMulticastSeq, NextKey
  <1>5. k \in 0..SeqMax - 1 /\ n \in 0..SeqMax
    BY <1>1, <1>2, <1>3 DEF NextKey
  <1>6. NextKey(n) = (k + 1) % SeqMax
    <2>1. k + 1 \in 1..SeqMax /\ NextKey(n) = IF k + 1 = SeqMax THEN 0 ELSE k + 1
      BY <1>1, <1>2, <1>3 DEF NextKey
    <2>2. PICK j \in Nat : j = k + 1
      BY <1>5
    <2>3. j % SeqMax = IF j = SeqMax THEN 0 ELSE j
      BY <1>1, <2>1, <2>2
    <2>4. QED
      BY <2>1, <2>2, <2>3
  <1>7. PICK r : r = SV!lastTwo(Append(ks, k))
    OBVIOUS
  <1>8. /\ r \in Seq(0..SeqMax - 1) /\ Len(r) \in 1..2 /\ r[Len(r)] = k
        /\ Len(r) = 2 => Len(ks) # 0 /\ r[1] = ks[Len(ks)]
    <2>1. PICK K : K = 0..SeqMax - 1
      OBVIOUS
    <2>2. ks \in Seq(K) /\ Len(ks) <= 2 /\ k \in K
      BY <1>5, <2>1 DEF KeysRight
    <2>3. /\ r \in Seq(K) /\ Len(r) \in 1..2 /\ r[Len(r)] = k
          /\ Len(r) = 2 => Len(ks) # 0 /\ r[1] = ks[Len(ks)]
      BY <1>7, <2>2, LastTwo
    <2>4. QED
      BY <2>1, <2>3
  <1>9. Len(r) = 2 => r[2] = (r[1] + 1) % SeqMax
    BY <1>2, <1>8 DEF KeysRight
  <1>10. Len(r) # 0 => NextKey(n) = (r[Len(r)] + 1) % SeqMax
    BY <1>6, <1>8
  <1>11. KeysRight(r, n)
    BY <1>5, <1>8, <1>9, <1>10 DEF KeysRight
  <1>12. next.key \in 0..SeqMax - 1
    BY <1>4, <1>5
  <1>13. r = SV!lastTwo(Append(ks, next.key))
    BY <1>4, <1>7
  <1>14. KeysRight(r, next.seq) /\ Len(r) # 0 /\ r[Len(r)] = next.key
    <2>1. KeysRight(r, next.seq) /\ r[Len(r)] = next.key
      BY <1>4, <1>8, <1>11
    <2>2. Len(r) # 0
      BY <1>8
    <2>3. QED
      BY <2>1, <2>2
  <1>15. QED
    BY <1>12, <1>13, <1>14

(* A value that is accepted is an allowed one.                             *)
LEMMA AcceptedIsAllowed ==
  ASSUME NEW v, NEW signalled, VariableRight(v, signalled), NEW text, SV!Accepts(v, text),
         NEW w, w = [v EXCEPT !.value = text]
  PROVE  IsVariable(w) /\ SV!Allowed(w)
  <1>1. /\ IsVariable(w) /\ w.value = text /\ w.dataType = v.dataType
        /\ w.allowed = v.allowed /\ w.minimum = v.minimum /\ w.maximum = v.maximum
    BY DEF VariableRight, IsVariable
  <1>2. SV!validateNewValue(v, text)
    BY DEF SV!Accepts
  <1>3. ASSUME v.dataType = "string", v.allowed # {} PROVE text \in v.allowed
    <2>1. SV!getDataType("string") = "String"
      BY DEF SV!getDataType
    <2>2. QED
      BY <1>2, <1>3, <2>1 DEF SV!validateNewValue
  <1>4. ASSUME v.dataType = "i4", v.minimum # ""
        PROVE  Number[text] \in Number[v.minimum] .. Number[v.maximum]
    <2>1. SV!getDataType("i4") = "Int"
      BY DEF SV!getDataType
    <2>2. SV!InRange(v, "Int", text)
      BY <1>2, <1>4, <2>1 DEF SV!validateNewValue
    <2>3. QED
      BY <1>4, <2>2 DEF SV!InRange, SV!converted, VariableRight
  <1>5. SV!Allowed(w)
    BY <1>1, <1>3, <1>4 DEF SV!Allowed
  <1>6. QED
    BY <1>1, <1>5

(* A service that has another variable and tells it.                       *)
LEMMA AttributeSet ==
  ASSUME SV!StateVariableConstants, NEW s, ServiceRight(s),
         NEW i \in DOMAIN s.list, NEW text, NEW r, r = SV!setAttribute(s, i, text)
  PROVE  /\ ServiceRight(r) /\ DOMAIN r.list = DOMAIN s.list
         /\ \/ Quiet(s, r)
            \/ Says(r, i, Len(r.wire)) /\ Len(r.keys) # 0 /\ r.wire # s.wire
  <1>1. CASE ~SV!Accepts(s.list[i], text)
    <2>1. r = s
      BY <1>1 DEF SV!setAttribute
    <2>2. QED
      BY <2>1 DEF Quiet
  <1>2. CASE SV!Accepts(s.list[i], text)
    <2>1. PICK w : w = [s.list[i] EXCEPT !.value = text]
      OBVIOUS
    <2>2. PICK t : t = [s EXCEPT !.list[i].value = text]
      OBVIOUS
    <2>3. /\ DOMAIN t = DOMAIN s /\ t.list = [s.list EXCEPT ![i] = w]
          /\ t.seq = s.seq /\ t.wire = s.wire /\ t.told = s.told /\ t.keys = s.keys
      BY <2>1, <2>2 DEF ServiceRight
    <2>4. /\ DOMAIN t.list = DOMAIN s.list /\ t.list[i] = w
          /\ \A k \in DOMAIN s.list : k # i => t.list[k] = s.list[k]
      BY <2>3
    <2>5. VariableRight(s.list[i], s.told[i])
      BY DEF ServiceRight
    <2>6. /\ IsVariable(w) /\ SV!Allowed(w) /\ w.value = text
          /\ w.minimum # "" => w.maximum # ""
          /\ w.sendEvents = s.list[i].sendEvents /\ w.multicast = s.list[i].multicast
      <3>1. PICK v : v = s.list[i]
        OBVIOUS
      <3>2. PICK signalled : signalled = s.told[i]
        OBVIOUS
      <3>3. VariableRight(v, signalled) /\ SV!Accepts(v, text) /\ w = [v EXCEPT !.value = text]
        BY <1>2, <2>1, <2>5, <3>1, <3>2
      <3>4. IsVariable(w) /\ SV!Allowed(w)
        BY <3>3, AcceptedIsAllowed
      <3>5. /\ w.value = text /\ w.minimum = v.minimum /\ w.maximum = v.maximum
            /\ w.sendEvents = v.sendEvents /\ w.multicast = v.multicast
        BY <3>3 DEF VariableRight, IsVariable
      <3>6. QED
        BY <3>1, <3>3, <3>4, <3>5 DEF VariableRight
    <2>7. r = IF s.list[i].sendEvents THEN SV!variableChanged(t, i) ELSE t
      BY <1>2, <2>2 DEF SV!setAttribute
    <2>8. CASE ~s.list[i].sendEvents
      <3>1. r = t
        BY <2>7, <2>8
      <3>2. VariableRight(w, s.told[i])
        BY <2>5, <2>6, <2>8 DEF VariableRight
      <3>3. ServiceRight(r)
        BY <2>3, <2>4, <3>1, <3>2 DEF ServiceRight
      <3>4. Quiet(s, r)
        BY <2>3, <2>4, <2>8, <3>1 DEF Quiet
      <3>5. QED
        BY <2>4, <3>1, <3>3, <3>4
    <2>9. CASE s.list[i].sendEvents
      <3>1. PICK h : h = [t EXCEPT !.told[i] = SV!getAttribute(w, "value")]
        OBVIOUS
      <3>2. /\ DOMAIN h = DOMAIN s /\ h.list = t.list
            /\ h.told = [s.told EXCEPT ![i] = text]
            /\ h.seq = s.seq /\ h.wire = s.wire /\ h.keys = s.keys
        BY <2>3, <2>6, <3>1 DEF ServiceRight, SV!getAttribute
      <3>3. /\ DOMAIN h.told = DOMAIN s.list /\ h.told[i] = text
            /\ \A k \in DOMAIN s.list : k # i => h.told[k] = s.told[k]
        BY <3>2 DEF ServiceRight
      <3>4. VariableRight(w, text)
        BY <2>6, <2>9 DEF VariableRight
      <3>5. \A k \in DOMAIN h.list : VariableRight(h.list[k], h.told[k])
        BY <2>4, <3>2, <3>3, <3>4 DEF ServiceRight
      <3>6. PICK next : next = SV!getNextMulticastSeq(s.seq)
        OBVIOUS
      <3>7. r = IF ~w.multicast THEN h
                ELSE [h EXCEPT !.seq = next.seq,
                        !.keys = SV!lastTwo(Append(@, next.key)),
                        !.wire = Append(@, SV!BrisaMulticastEventMessage(w, next.key))]
        BY <2>3, <2>4, <2>7, <2>9, <3>1, <3>6 DEF SV!variableChanged
      <3>8. CASE ~w.multicast
        <4>1. r = h
          BY <3>7, <3>8
        <4>2. ServiceRight(r)
          BY <2>4, <3>2, <3>3, <3>5, <4>1 DEF ServiceRight
        <4>3. Quiet(s, r)
          <5>1. r.wire = s.wire /\ r.keys = s.keys
            BY <3>2, <4>1
          <5>2. ~s.list[i].multicast
            BY <2>6, <3>8
          <5>3. \A k \in DOMAIN s.list : k # i => r.list[k] = s.list[k]
            BY <2>4, <3>2, <4>1
          <5>4. QED
            BY <5>1, <5>2, <5>3, Zenon DEF Quiet
        <4>4. QED
          BY <2>4, <3>2, <4>1, <4>2, <4>3
      <3>9. CASE w.multicast
        <4>1. PICK ks : ks = SV!lastTwo(Append(s.keys, next.key))
          OBVIOUS
        <4>2. PICK m : m = SV!BrisaMulticastEventMessage(w, next.key)
          OBVIOUS
        <4>3. PICK ws : ws = Append(s.wire, m)
          OBVIOUS
        <4>4. r = [h EXCEPT !.seq = next.seq, !.keys = ks, !.wire = ws]
          BY <3>2, <3>7, <3>9, <4>1, <4>2, <4>3
        <4>5. /\ DOMAIN r = DOMAIN s /\ r.list = h.list /\ r.told = h.told
              /\ r.seq = next.seq /\ r.keys = ks /\ r.wire = ws
          BY <3>2, <4>4 DEF ServiceRight
        <4>6. KeysRight(ks, next.seq) /\ Len(ks) # 0 /\ ks[Len(ks)] = next.key
          BY <3>6, <4>1, KeysGo DEF ServiceRight
        <4>7. /\ ws \in Seq(SV!ToSet(ws)) /\ Len(s.wire) \in Nat
              /\ Len(ws) = Len(s.wire) + 1 /\ ws[Len(s.wire) + 1] = m
          <5>1. PICK old : old = s.wire
            OBVIOUS
          <5>2. old \in Seq(SV!ToSet(old))
            BY <5>1 DEF ServiceRight
          <5>3. \A q : SV!ToSet(q) = ToSet(q)
            BY DEF SV!ToSet, ToSet
          <5>4. /\ Append(old, m) \in Seq(ToSet(Append(old, m))) /\ Len(old) \in Nat
                /\ Len(Append(old, m)) = Len(old) + 1 /\ Append(old, m)[Len(old) + 1] = m
            BY <5>2, <5>3, AppendToOwn
          <5>5. QED
            BY <4>3, <5>1, <5>3, <5>4
        <4>8. ServiceRight(r)
          BY <2>4, <3>2, <3>3, <3>5, <4>5, <4>6, <4>7 DEF ServiceRight
        <4>9. Says(r, i, Len(r.wire))
          <5>1. PICK n \in Nat : n = Len(ws) /\ n \in 1..n /\ ws[n] = m
            BY <4>7
          <5>2. {k \in n + 1..n : TRUE} = {}
            BY <5>1
          <5>3. i \in DOMAIN r.list /\ r.list[i] = w
            BY <2>4, <3>2, <4>5
          <5>4. r.wire[n] = SV!BrisaMulticastEventMessage(r.list[i], r.keys[Len(r.keys)])
            BY <4>2, <4>5, <4>6, <5>1, <5>3
          <5>5. QED
            BY <2>6, <2>9, <3>9, <4>5, <5>1, <5>2, <5>3, <5>4 DEF Says
        <4>10. r.wire # s.wire
          BY <4>5, <4>7
        <4>11. QED
          BY <2>4, <3>2, <4>5, <4>6, <4>8, <4>9, <4>10
      <3>10. QED
        BY <3>8, <3>9
    <2>10. QED
      BY <2>8, <2>9
  <1>3. QED
    BY <1>1, <1>2

(* What has been said is so as long as nothing else is.                    *)
LEMMA QuietSays ==
  ASSUME NEW s, NEW r, DOMAIN r.list = DOMAIN s.list, Quiet(s, r),
         NEW i, NEW j, Says(s, i, j)
  PROVE  Says(r, i, j)
  <1>1. r.list[i] = s.list[i] /\ r.wire = s.wire /\ r.keys = s.keys
    BY DEF Quiet, Says
  <1>2. QED
    BY <1>1 DEF Says

(* A description file, read up to the n-th variable.                       *)
Lists(f, document, n) ==
  f = [k \in 0..n |->
         IF k = 0 THEN << >>
         ELSE IF SV!Kept(document[k])
              THEN Append(f[k - 1], SV!BrisaStateVariable(document[k]))
         ELSE f[k - 1]]

LEMMA ListsUpTo ==
  ASSUME NEW document, NEW n \in Nat
  PROVE  \E f : Lists(f, document, n)
  <1> DEFINE T == {k \in Nat : ~ \E f : Lists(f, document, k)}
  <1>1. SUFFICES ASSUME T # {} PROVE FALSE
    OBVIOUS
  <1>2. PICK k \in T : \A j \in T : k <= j
    <2> HIDE DEF T
    <2>1. T \subseteq Nat
      BY DEF T
    <2>2. QED
      BY <1>1, <2>1, LeastOfSet
  <1>3. k # 0
    <2>1. Lists([j \in 0..0 |-> << >>], document, 0)
      BY DEF Lists
    <2>2. QED
      BY <2>1
  <1>4. PICK m \in Nat : m + 1 = k /\ m = k - 1
    BY <1>3
  <1>5. PICK f : Lists(f, document, m)
    <2>1. m \notin T
      BY <1>2, <1>4
    <2>2. QED
      BY <2>1
  <1>6. PICK last : last = IF SV!Kept(document[k])
                           THEN Append(f[m], SV!BrisaStateVariable(document[k])) ELSE f[m]
    OBVIOUS
  <1>7. PICK g : g = [j \in 0..k |-> IF j = k THEN last ELSE f[j]]
    OBVIOUS
  <1>8. /\ g = [j \in 0..k |-> g[j]] /\ g[k] = last
        /\ \A j \in 0..m : g[j] = f[j] /\ j # k
    BY <1>4, <1>7
  <1>9. ASSUME NEW j \in 0..k
        PROVE  g[j] = IF j = 0 THEN << >>
                      ELSE IF SV!Kept(document[j])
                           THEN Append(g[j - 1], SV!BrisaStateVariable(document[j]))
                      ELSE g[j - 1]
    <2>1. CASE j = k
      <3>1. m \in 0..m /\ j - 1 = m
        BY <1>4, <2>1
      <3>2. g[j - 1] = f[m]
        BY <1>8, <3>1
      <3>3. QED
        BY <1>3, <1>6, <1>8, <2>1, <3>2
    <2>2. CASE j # k
      <3>1. j \in 0..m
        BY <1>4, <2>2
      <3>2. f[j] = IF j = 0 THEN << >>
                   ELSE IF SV!Kept(document[j])
                        THEN Append(f[j - 1], SV!BrisaStateVariable(document[j]))
                   ELSE f[j - 1]
        BY <1>5, <3>1 DEF Lists
      <3>3. j = 0 \/ g[j - 1] = f[j - 1]
        <4>1. j = 0 \/ j - 1 \in 0..m
          BY <1>4, <3>1
        <4>2. QED
          BY <1>8, <4>1
      <3>4. QED
        BY <1>8, <3>1, <3>2, <3>3
    <2>3. QED
      BY <2>1, <2>2
  <1>10. Lists(g, document, k)
    BY <1>8, <1>9 DEF Lists
  <1>11. QED
    BY <1>10

(* The list of a service that has been read is one of such variables.      *)
LEMMA ParsedRight ==
  ASSUME NEW document, document \in Seq(SV!ToSet(document)),
         NEW list, list = SV!parseService(document)
  PROVE  /\ Len(list) \in Nat /\ DOMAIN list = 1..Len(list)
         /\ \A i \in DOMAIN list : VariableRight(list[i], SV!Untold)
  <1>1. PICK N \in Nat : N = Len(document)
    BY LenProperties
  <1>2. PICK f : Lists(f, document, N) /\ list = f[N]
    <2>1. \E h : Lists(h, document, N)
      BY ListsUpTo
    <2>2. Lists(CHOOSE h : Lists(h, document, N), document, N)
      BY <2>1
    <2>3. SV!parseService(document) = (CHOOSE h : Lists(h, document, N))[N]
      BY <1>1 DEF SV!parseService, Lists
    <2>4. QED
      BY <2>2, <2>3
  <1> DEFINE VS == {SV!BrisaStateVariable(e) :
                      e \in {x \in SV!ToSet(document) : SV!Kept(x)}}
             T == {k \in 0..N : f[k] \notin Seq(VS)}
  <1>3. T = {}
    <2>1. SUFFICES ASSUME T # {} PROVE FALSE
      OBVIOUS
    <2>2. PICK k \in T : \A j \in T : k <= j
      <3> HIDE DEF T
      <3>1. T \subseteq Nat
        BY DEF T
      <3>2. QED
        BY <2>1, <3>1, LeastOfSet
    <2>3. f[k] = IF k = 0 THEN << >>
                 ELSE IF SV!Kept(document[k])
                      THEN Append(f[k - 1], SV!BrisaStateVariable(document[k]))
                 ELSE f[k - 1]
      <3> HIDE DEF VS
      <3>1. k \in 0..N
        OBVIOUS
      <3>2. QED
        BY <1>2, <3>1 DEF Lists
    <2>4. k # 0
      <3> HIDE DEF VS
      <3>1. f[0] = << >> /\ << >> \in Seq(VS)
        BY <1>2 DEF Lists
      <3>2. QED
        BY <3>1
    <2>5. PICK m \in Nat : m = k - 1 /\ m \in 0..N /\ ~(k <= m)
      BY <2>4
    <2>6. f[m] \in Seq(VS)
      <3> HIDE DEF VS
      <3>1. QED
        BY <2>2, <2>5
    <2>7. document[k] \in SV!ToSet(document)
      <3>1. k \in 1..Len(document)
        BY <1>1, <2>4
      <3>2. QED
        BY <3>1, ElementOfSeq
    <2>8. SV!Kept(document[k]) => SV!BrisaStateVariable(document[k]) \in VS
      BY <2>7
    <2> HIDE DEF VS
    <2>9. SV!Kept(document[k])
            => Append(f[m], SV!BrisaStateVariable(document[k])) \in Seq(VS)
      BY <2>6, <2>8, AppendProperties
    <2>10. f[k] \in Seq(VS)
      BY <2>3, <2>4, <2>5, <2>6, <2>9
    <2>11. QED
      BY <2>10
  <1>4. list \in Seq(VS)
    <2> HIDE DEF VS
    <2>1. N \in 0..N
      BY <1>1
    <2>2. QED
      BY <1>2, <1>3, <2>1
  <1>5. ASSUME NEW v \in VS PROVE VariableRight(v, SV!Untold)
    <2>1. PICK e \in SV!ToSet(document) : SV!Kept(e) /\ v = SV!BrisaStateVariable(e)
      BY <1>5
    <2>2. IsVariable(v) /\ v.value = SV!Enumerator
      BY <2>1 DEF IsVariable, SV!BrisaStateVariable
    <2>3. v.minimum = e.minimum /\ v.maximum = e.maximum
      BY <2>1 DEF SV!BrisaStateVariable
    <2>4. v.minimum # "" => v.maximum # ""
      BY <2>1, <2>3 DEF SV!Kept, SV!HasRange
    <2>5. QED
      BY <2>2, <2>4 DEF VariableRight, SV!Allowed
  <1> HIDE DEF VS
  <1>6. Len(list) \in Nat /\ DOMAIN list = 1..Len(list) /\ \A i \in 1..Len(list) : list[i] \in VS
    BY <1>4, LenProperties, ElementOfSeq
  <1>7. QED
    BY <1>5, <1>6

(* The defaults, set up to the n-th variable.                              *)
Defaulted(s, k) == SV!setAttribute(s, k, SV!getAttribute(s.list[k], "defaultValue"))
Defaults(f, s, n) ==
  f = [k \in 0..n |-> IF k = 0 THEN s ELSE Defaulted(f[k - 1], k)]

LEMMA DefaultsUpTo ==
  ASSUME NEW s, NEW n \in Nat
  PROVE  \E f : Defaults(f, s, n)
  <1> DEFINE T == {k \in Nat : ~ \E f : Defaults(f, s, k)}
  <1>1. SUFFICES ASSUME T # {} PROVE FALSE
    OBVIOUS
  <1>2. PICK k \in T : \A j \in T : k <= j
    <2> HIDE DEF T
    <2>1. T \subseteq Nat
      BY DEF T
    <2>2. QED
      BY <1>1, <2>1, LeastOfSet
  <1>3. k # 0
    <2>1. Defaults([j \in 0..0 |-> s], s, 0)
      BY DEF Defaults
    <2>2. QED
      BY <2>1
  <1>4. PICK m \in Nat : m + 1 = k /\ m = k - 1
    BY <1>3
  <1>5. PICK f : Defaults(f, s, m)
    <2>1. m \notin T
      BY <1>2, <1>4
    <2>2. QED
      BY <2>1
  <1>6. PICK g : g = [j \in 0..k |-> IF j = k THEN Defaulted(f[m], k) ELSE f[j]]
    OBVIOUS
  <1>7. /\ g = [j \in 0..k |-> g[j]] /\ g[k] = Defaulted(f[m], k)
        /\ \A j \in 0..m : g[j] = f[j] /\ j # k
    BY <1>4, <1>6
  <1>8. ASSUME NEW j \in 0..k
        PROVE  g[j] = IF j = 0 THEN s ELSE Defaulted(g[j - 1], j)
    <2>1. CASE j = k
      <3>1. m \in 0..m /\ j - 1 = m
        BY <1>4, <2>1
      <3>2. g[j - 1] = f[m]
        BY <1>7, <3>1
      <3>3. QED
        BY <1>3, <1>7, <2>1, <3>2
    <2>2. CASE j # k
      <3>1. j \in 0..m
        BY <1>4, <2>2
      <3>2. f[j] = IF j = 0 THEN s ELSE Defaulted(f[j - 1], j)
        BY <1>5, <3>1 DEF Defaults
      <3>3. j = 0 \/ g[j - 1] = f[j - 1]
        <4>1. j = 0 \/ j - 1 \in 0..m
          BY <1>4, <3>1
        <4>2. QED
          BY <1>7, <4>1
      <3>4. QED
        BY <1>7, <3>1, <3>2, <3>3
    <2>3. QED
      BY <2>1, <2>2
  <1>9. Defaults(g, s, k)
    BY <1>7, <1>8 DEF Defaults
  <1>10. QED
    BY <1>9

(* What a service has said of late is so.                                  *)
TruthSaid(s) == Len(s.keys) # 0 => \E i, j : Says(s, i, j)

LEMMA DefaultsRight ==
  ASSUME SV!StateVariableConstants, NEW s, ServiceRight(s), Len(s.keys) = 0,
         Len(s.list) \in Nat, DOMAIN s.list = 1..Len(s.list),
         NEW r, r = SV!setDefaultValues(s)
  PROVE  ServiceRight(r) /\ TruthSaid(r)
  <1>1. PICK N \in Nat : N = Len(s.list)
    OBVIOUS
  <1>2. PICK f : Defaults(f, s, N) /\ r = f[N]
    <2>1. \E h : Defaults(h, s, N)
      BY DefaultsUpTo
    <2>2. Defaults(CHOOSE h : Defaults(h, s, N), s, N)
      BY <2>1
    <2>3. SV!setDefaultValues(s) = (CHOOSE h : Defaults(h, s, N))[N]
      BY <1>1 DEF SV!setDefaultValues, Defaults, Defaulted
    <2>4. QED
      BY <2>2, <2>3
  <1> DEFINE P(t) == ServiceRight(t) /\ DOMAIN t.list = DOMAIN s.list /\ TruthSaid(t)
             T == {k \in 0..N : ~P(f[k])}
  <1>3. T = {}
    <2>1. SUFFICES ASSUME T # {} PROVE FALSE
      OBVIOUS
    <2>2. PICK k \in T : \A j \in T : k <= j
      <3> HIDE DEF T
      <3>1. T \subseteq Nat
        BY DEF T
      <3>2. QED
        BY <2>1, <3>1, LeastOfSet
    <2>3. f[k] = IF k = 0 THEN s ELSE Defaulted(f[k - 1], k)
      <3> HIDE DEF P
      <3>1. k \in 0..N
        OBVIOUS
      <3>2. QED
        BY <1>2, <3>1 DEF Defaults
    <2>4. k # 0
      <3>1. P(s)
        BY DEF TruthSaid
      <3> HIDE DEF P
      <3>2. QED
        BY <2>3, <3>1
    <2>5. PICK m \in Nat : m = k - 1 /\ m \in 0..N /\ ~(k <= m)
      BY <2>4
    <2>6. P(f[m])
      <3> HIDE DEF P
      <3>1. QED
        BY <2>2, <2>5
    <2>7. PICK t : t = f[m]
      OBVIOUS
    <2>8. PICK u : u = f[k]
      OBVIOUS
    <2>9. PICK text : text = SV!getAttribute(t.list[k], "defaultValue")
      OBVIOUS
    <2>10. u = SV!setAttribute(t, k, text)
      BY <2>3, <2>4, <2>5, <2>7, <2>8, <2>9 DEF Defaulted
    <2>11. ServiceRight(t) /\ DOMAIN t.list = DOMAIN s.list /\ TruthSaid(t)
      BY <2>6, <2>7
    <2>12. k \in DOMAIN t.list
      BY <1>1, <2>4, <2>11
    <2>13. /\ ServiceRight(u) /\ DOMAIN u.list = DOMAIN t.list
           /\ Quiet(t, u) \/ (Says(u, k, Len(u.wire)) /\ Len(u.keys) # 0)
      <3> HIDE DEF P, T
      <3>1. ServiceRight(t)
        BY <2>11
      <3>2. QED
        BY <2>10, <2>12, <3>1, AttributeSet
    <2>14. TruthSaid(u)
      <3>1. CASE Quiet(t, u)
        <4>1. SUFFICES ASSUME Len(u.keys) # 0 PROVE \E i, j : Says(u, i, j)
          BY DEF TruthSaid
        <4>2. u.keys = t.keys
          BY <3>1 DEF Quiet
        <4>3. PICK i, j : Says(t, i, j)
          BY <2>11, <4>1, <4>2 DEF TruthSaid
        <4>4. Says(u, i, j)
          BY <2>13, <3>1, <4>3, QuietSays
        <4>5. QED
          BY <4>4
      <3>2. CASE Says(u, k, Len(u.wire))
        BY <3>2 DEF TruthSaid
      <3>3. QED
        BY <2>13, <3>1, <3>2
    <2>15. P(u)
      BY <2>11, <2>13, <2>14
    <2> HIDE DEF P
    <2>16. QED
      BY <2>8, <2>15
  <1>4. P(r)
    <2> HIDE DEF P
    <2>1. N \in 0..N
      BY <1>1
    <2>2. QED
      BY <1>2, <1>3, <2>1
  <1>5. QED
    BY <1>4

(* What the control point knows of the i-th variable, when nothing of the  *)
(* service is on its way: what that is, unless somebody else was heard.    *)
Heard(i) ==
  /\ i \in DOMAIN stateVariableList
  /\ stateVariableList[i].sendEvents /\ stateVariableList[i].multicast
  /\ \A k \in 1..Len(wire) : wire[k] \in Foreign
  /\ \/ attributes = [name |-> stateVariableList[i].name,
                      value |-> Read[stateVariableList[i].value],
                      key |-> keys[Len(keys)]]
     \/ \E m \in Foreign : m.complete /\ attributes.key = m.key

Said(i, j) ==
  /\ i \in DOMAIN stateVariableList /\ j \in 1..Len(wire)
  /\ stateVariableList[i].sendEvents /\ stateVariableList[i].multicast
  /\ wire[j] = SV!BrisaMulticastEventMessage(stateVariableList[i], keys[Len(keys)])
  /\ \A k \in j + 1..Len(wire) : wire[k] \in Foreign

LastKnown ==
  Len(keys) # 0 /\ ~missed =>
    \E i : Heard(i) \/ \E j : Said(i, j)

SVInv ==
  /\ ServiceRight(SV!Service)
  /\ ~parsed => Len(keys) = 0
  /\ LastKnown

LEMMA ServiceFields ==
  /\ DOMAIN SV!Service = {"list", "seq", "wire", "told", "keys"}
  /\ SV!Service.list = stateVariableList /\ SV!Service.seq = initialSeq
  /\ SV!Service.wire = wire /\ SV!Service.told = told /\ SV!Service.keys = keys
  BY DEF SV!Service

LEMMA SaidByService ==
  ASSUME NEW i, NEW j
  PROVE  Said(i, j) <=> Says(SV!Service, i, j)
  <1>1. PICK s : s = SV!Service
    OBVIOUS
  <1>2. s.list = stateVariableList /\ s.wire = wire /\ s.keys = keys
    BY <1>1, ServiceFields
  <1>3. Said(i, j) <=> Says(s, i, j)
    BY <1>2 DEF Said, Says
  <1>4. QED
    BY <1>1, <1>3

LEMMA Becoming ==
  ASSUME NEW r, ServiceRight(r), SV!Become(r)
  PROVE  /\ ServiceRight(SV!Service)'
         /\ Len(keys') = Len(r.keys)
         /\ \A i, j : Says(r, i, j) => Said(i, j)'
  <1>1. PICK n : n = SV!Service'
    OBVIOUS
  <1>2. /\ DOMAIN n = {"list", "seq", "wire", "told", "keys"}
        /\ n.list = r.list /\ n.seq = r.seq /\ n.wire = r.wire /\ n.told = r.told
        /\ n.keys = r.keys
    BY <1>1 DEF SV!Service, SV!Become
  <1>3. ServiceRight(n)
    BY <1>2 DEF ServiceRight
  <1>4. \A i, j : Says(r, i, j) => Said(i, j)'
    BY DEF Says, Said, SV!Become
  <1>5. QED
    BY <1>1, <1>3, <1>4 DEF SV!Become

LEMMA ParseStep ==
  ASSUME SV!StateVariableConstants, SVInv,
         NEW document \in Documents, SV!parseDescriptionFile(document)
  PROVE  SVInv'
  <1>1. PICK list : list = SV!parseService(document)
    OBVIOUS
  <1>2. PICK signalled : signalled = [i \in DOMAIN list |-> SV!Untold]
    OBVIOUS
  <1>3. PICK s : s = [SV!Service EXCEPT !.list = list, !.told = signalled]
    OBVIOUS
  <1>4. PICK r : r = SV!setDefaultValues(s)
    OBVIOUS
  <1>5. ~parsed /\ parsed' /\ SV!Become(r)
    BY <1>1, <1>2, <1>3, <1>4 DEF SV!parseDescriptionFile
  <1>6. /\ Len(list) \in Nat /\ DOMAIN list = 1..Len(list)
        /\ \A i \in DOMAIN list : VariableRight(list[i], SV!Untold)
    <2>1. document \in Seq(SV!ToSet(document))
      BY DEF SV!StateVariableConstants
    <2>2. QED
      BY <1>1, <2>1, ParsedRight
  <1>7. /\ DOMAIN s = {"list", "seq", "wire", "told", "keys"}
        /\ s.list = list /\ s.told = signalled /\ s.seq = initialSeq /\ s.wire = wire
        /\ s.keys = keys
    BY <1>3, ServiceFields
  <1>8. ServiceRight(s) /\ Len(s.keys) = 0
    <2>1. (\E n \in Nat : DOMAIN s.list = 1..n) /\ DOMAIN s.told = DOMAIN s.list
      BY <1>2, <1>6, <1>7
    <2>2. \A i \in DOMAIN s.list : VariableRight(s.list[i], s.told[i])
      BY <1>2, <1>6, <1>7
    <2>3. KeysRight(keys, initialSeq) /\ wire \in Seq(SV!ToSet(wire))
      BY ServiceFields DEF SVInv, ServiceRight
    <2>4. Len(s.keys) = 0
      BY <1>5, <1>7 DEF SVInv
    <2>5. QED
      BY <1>7, <2>1, <2>2, <2>3, <2>4 DEF ServiceRight
  <1>9. ServiceRight(r) /\ TruthSaid(r)
    BY <1>4, <1>6, <1>7, <1>8, DefaultsRight
  <1>10. /\ ServiceRight(SV!Service)'
         /\ Len(keys') = Len(r.keys)
         /\ \A i, j : Says(r, i, j) => Said(i, j)'
    BY <1>5, <1>9, Becoming
  <1>11. LastKnown'
    BY <1>9, <1>10 DEF LastKnown, TruthSaid
  <1>12. QED
    BY <1>5, <1>10, <1>11 DEF SVInv

LEMMA SetStep ==
  ASSUME SV!StateVariableConstants, SVInv, NEW name, NEW text, SV!SetValue(name, text)
  PROVE  SVInv'
  <1>1. PICK i \in SV!getVariable(name) : SV!Become(SV!setAttribute(SV!Service, i, text))
    BY DEF SV!SetValue
  <1>2. parsed /\ parsed' /\ attributes' = attributes
    BY DEF SV!SetValue
  <1>3. PICK s : s = SV!Service
    OBVIOUS
  <1>4. PICK r : r = SV!setAttribute(s, i, text)
    OBVIOUS
  <1>5. i \in DOMAIN stateVariableList
    <2> DEFINE named == {k \in DOMAIN stateVariableList :
                           SV!getAttribute(stateVariableList[k], "name") = name}
    <2>1. SV!getVariable(name) = IF named = {} THEN {} ELSE {SV!Min(named)}
      BY DEF SV!getVariable
    <2>2. named # {} /\ i = SV!Min(named)
      BY <1>1, <2>1
    <2>3. named \subseteq Nat
      <3>1. DOMAIN stateVariableList \subseteq Nat
        BY ServiceFields DEF SVInv, ServiceRight
      <3>2. QED
        BY <3>1
    <2> HIDE DEF named
    <2>4. SV!Min(named) = Min(named)
      BY DEF SV!Min, Min
    <2>5. i \in named
      BY <2>2, <2>3, <2>4, LeastOfSet
    <2>6. QED
      BY <2>5 DEF named
  <1>6. /\ s.list = stateVariableList /\ s.wire = wire /\ s.keys = keys
        /\ ServiceRight(s)
    BY <1>3, ServiceFields DEF SVInv
  <1>7. /\ ServiceRight(r) /\ DOMAIN r.list = DOMAIN s.list
        /\ \/ Quiet(s, r)
           \/ Says(r, i, Len(r.wire)) /\ Len(r.keys) # 0 /\ r.wire # s.wire
    BY <1>4, <1>5, <1>6, AttributeSet
  <1>8. SV!Become(r)
    BY <1>1, <1>3, <1>4
  <1>9. /\ ServiceRight(SV!Service)'
        /\ Len(keys') = Len(r.keys)
        /\ \A k, j : Says(r, k, j) => Said(k, j)'
    BY <1>7, <1>8, Becoming
  <1>10. CASE Says(r, i, Len(r.wire))
    BY <1>2, <1>9, <1>10 DEF SVInv, LastKnown
  <1>11. CASE Quiet(s, r)
    <2>1. /\ stateVariableList' = r.list /\ wire' = wire /\ keys' = keys
          /\ missed' = (missed /\ r.wire = wire)
      BY <1>6, <1>8, <1>11 DEF SV!Become, Quiet
    <2>2. SUFFICES ASSUME Len(keys') # 0, ~missed'
                   PROVE  \E k : Heard(k)' \/ \E j : Said(k, j)'
      BY <1>2, <1>9 DEF SVInv, LastKnown
    <2>3. Len(keys) # 0 /\ ~missed
      BY <1>6, <1>11, <2>1, <2>2 DEF Quiet
    <2>4. PICK k : Heard(k) \/ \E j : Says(s, k, j)
      BY <1>3, <2>3, SaidByService DEF SVInv, LastKnown
    <2>5. CASE Heard(k)
      <3>1. r.list[k] = s.list[k] /\ k \in DOMAIN r.list
        BY <1>6, <1>7, <1>11, <2>5 DEF Quiet, Heard
      <3>2. stateVariableList'[k] = stateVariableList[k] /\ k \in DOMAIN stateVariableList'
        BY <1>6, <2>1, <3>1
      <3>3. Heard(k)'
        BY <1>2, <2>1, <2>5, <3>2 DEF Heard
      <3>4. QED
        BY <3>3
    <2>6. ASSUME NEW j, Says(s, k, j) PROVE Said(k, j)'
      BY <1>7, <1>9, <1>11, <2>6, QuietSays
    <2>7. QED
      BY <2>4, <2>5, <2>6
  <1>12. QED
    BY <1>7, <1>10, <1>11

(* Something happens to the datagrams only.                                *)
LEMMA WireStep ==
  ASSUME SVInv, UNCHANGED << parsed, stateVariableList, initialSeq, told, keys >>,
         NEW S, wire' \in Seq(S), LastKnown'
  PROVE  SVInv'
  <1>1. wire' \in Seq(SV!ToSet(wire'))
    BY SeqOfOwn DEF SV!ToSet, ToSet
  <1>2. PICK n : n = SV!Service'
    OBVIOUS
  <1>3. /\ DOMAIN n = {"list", "seq", "wire", "told", "keys"}
        /\ n.list = stateVariableList /\ n.seq = initialSeq /\ n.wire = wire'
        /\ n.told = told /\ n.keys = keys
    BY <1>2 DEF SV!Service
  <1>4. ServiceRight(n)
    BY <1>1, <1>3, ServiceFields DEF SVInv, ServiceRight
  <1>5. QED
    BY <1>2, <1>4 DEF SVInv

(* Its own datagrams are nobody else's.                                    *)
LEMMA OwnIsNotForeign ==
  ASSUME SV!StateVariableConstants, SVInv, Len(keys) # 0, NEW i, NEW j, Said(i, j)
  PROVE  wire[j] \notin Foreign
  <1>1. PICK k : k = keys[Len(keys)]
    OBVIOUS
  <1>2. wire[j].complete /\ wire[j].key = k
    BY <1>1 DEF Said, SV!BrisaMulticastEventMessage
  <1>3. k \in 0..SeqMax - 1
    <2>1. PICK K : K = 0..SeqMax - 1
      OBVIOUS
    <2>2. keys \in Seq(K)
      BY <2>1, ServiceFields DEF SVInv, ServiceRight, KeysRight
    <2>3. keys[Len(keys)] \in K
      <3>1. Len(keys) \in 1..Len(keys)
        BY <2>2, LenProperties
      <3>2. QED
        BY <2>2, <3>1, ElementOfSeq
    <2>4. QED
      BY <1>1, <2>1, <2>3
  <1>4. QED
    BY <1>2, <1>3 DEF SV!StateVariableConstants

LEMMA ReadStep ==
  ASSUME SV!StateVariableConstants, SVInv, SV!read
  PROVE  SVInv'
  <1>1. /\ UNCHANGED << parsed, stateVariableList, initialSeq, told, keys >>
        /\ UNCHANGED missed /\ wire # << >> /\ wire' = Tail(wire)
        /\ attributes' = SV!formatMessage(Head(wire))
    BY DEF SV!read, SV!history_vars
  <1>2. PICK S : S = SV!ToSet(wire)
    OBVIOUS
  <1>3. wire \in Seq(S)
    BY <1>2, ServiceFields DEF SVInv, ServiceRight
  <1>4. PICK n \in Nat : n + 1 = Len(wire)
    <2>1. Len(wire) \in Nat /\ Len(wire) # 0
      BY <1>1, <1>3, EmptySeq, LenProperties
    <2>2. QED
      BY <2>1
  <1>5. /\ Head(wire) = wire[1] /\ wire' \in Seq(S) /\ Len(wire') = n
        /\ \A k \in 1..n : wire'[k] = wire[k + 1]
    BY <1>1, <1>3, <1>4, HeadTailProperties
  <1>6. LastKnown'
    <2>1. SUFFICES ASSUME Len(keys') # 0, ~missed'
                   PROVE  \E i : Heard(i)' \/ \E j : Said(i, j)'
      BY DEF LastKnown
    <2>2. PICK i : Heard(i) \/ \E j : Said(i, j)
      BY <1>1, <2>1 DEF SVInv, LastKnown
    <2>3. CASE Heard(i)
      <3>1. \A k \in 1..n + 1 : wire[k] \in Foreign
        BY <1>4, <2>3 DEF Heard
      <3>2. \A k \in 1..Len(wire') : wire'[k] \in Foreign
        BY <1>5, <3>1
      <3>3. Head(wire) \in Foreign
        BY <1>5, <3>1
      <3>4. \/ attributes' = attributes
            \/ Head(wire).complete /\ attributes'.key = Head(wire).key
        BY <1>1 DEF SV!formatMessage
      <3>5. Heard(i)'
        BY <1>1, <2>3, <3>2, <3>3, <3>4 DEF Heard
      <3>6. QED
        BY <3>5
    <2>4. ASSUME NEW j, Said(i, j) PROVE Heard(i)' \/ \E l : Said(i, l)'
      <3>1. j \in 1..n + 1 /\ \A k \in j + 1..n + 1 : wire[k] \in Foreign
        BY <1>4, <2>4 DEF Said
      <3>2. CASE j = 1
        <4>1. attributes' = [name |-> stateVariableList[i].name,
                             value |-> Read[stateVariableList[i].value],
                             key |-> keys[Len(keys)]]
          BY <1>1, <1>5, <2>4, <3>2
             DEF Said, SV!formatMessage, SV!BrisaMulticastEventMessage, SV!getAttribute
        <4>2. \A k \in 1..Len(wire') : wire'[k] \in Foreign
          <5>1. \A k \in 1..n : k + 1 \in j + 1..n + 1
            BY <3>2
          <5>2. QED
            BY <1>5, <3>1, <5>1
        <4>3. Heard(i)'
          BY <1>1, <2>4, <4>1, <4>2 DEF Heard, Said
        <4>4. QED
          BY <4>3
      <3>3. CASE j # 1
        <4>1. PICK l \in 1..n : l + 1 = j
          <5>1. j - 1 \in 1..n /\ (j - 1) + 1 = j
            BY <3>1, <3>3
          <5>2. QED
            BY <5>1
        <4>2. wire'[l] = wire[j]
          BY <1>5, <4>1
        <4>3. \A k \in l + 1..Len(wire') : wire'[k] \in Foreign
          <5>1. ASSUME NEW k \in l + 1..Len(wire') PROVE wire'[k] \in Foreign
            <6>1. k \in 1..n /\ k + 1 \in j + 1..n + 1
              BY <1>5, <4>1
            <6>2. QED
              BY <1>5, <3>1, <6>1
          <5>2. QED
            BY <5>1
        <4>4. Said(i, l)'
          BY <1>1, <1>5, <2>4, <4>1, <4>2, <4>3 DEF Said
        <4>5. QED
          BY <4>4
      <3>4. QED
        BY <3>2, <3>3
    <2>5. QED
      BY <2>2, <2>3, <2>4
  <1>7. QED
    BY <1>1, <1>5, <1>6, WireStep

LEMMA OthersStep ==
  ASSUME SV!StateVariableConstants, SVInv, NEW message \in Foreign, SV!Others(message)
  PROVE  SVInv'
  <1>1. /\ UNCHANGED << parsed, stateVariableList, initialSeq, told, keys >>
        /\ UNCHANGED << missed, attributes >> /\ wire' = Append(wire, message)
    BY DEF SV!Others, SV!history_vars
  <1>2. PICK n \in Nat : n = Len(wire)
    <2>1. wire \in Seq(SV!ToSet(wire))
      BY ServiceFields DEF SVInv, ServiceRight
    <2>2. QED
      BY <2>1, LenProperties
  <1>3. /\ wire' \in Seq(ToSet(wire')) /\ Len(wire') = n + 1
        /\ \A k \in 1..n : wire'[k] = wire[k]
        /\ wire'[n + 1] = message
    <2>1. \A q : SV!ToSet(q) = ToSet(q)
      BY DEF SV!ToSet, ToSet
    <2>2. wire \in Seq(ToSet(wire))
      BY <2>1, ServiceFields DEF SVInv, ServiceRight
    <2>3. PICK old, new : old = wire /\ new = wire'
      OBVIOUS
    <2>4. old \in Seq(ToSet(old)) /\ new = Append(old, message) /\ n = Len(old)
      BY <1>1, <1>2, <2>2, <2>3
    <2>5. /\ Append(old, message) \in Seq(ToSet(Append(old, message)))
          /\ Len(Append(old, message)) = Len(old) + 1
          /\ \A k \in 1..Len(old) : Append(old, message)[k] = old[k]
          /\ Append(old, message)[Len(old) + 1] = message
      BY <2>4, AppendToOwn
    <2>6. QED
      BY <2>3, <2>4, <2>5
  <1>4. LastKnown'
    <2>1. SUFFICES ASSUME Len(keys') # 0, ~missed'
                   PROVE  \E i : Heard(i)' \/ \E j : Said(i, j)'
      BY DEF LastKnown
    <2>2. PICK i : Heard(i) \/ \E j : Said(i, j)
      BY <1>1, <2>1 DEF SVInv, LastKnown
    <2>3. CASE Heard(i)
      <3>1. \A k \in 1..Len(wire') : wire'[k] \in Foreign
        BY <1>2, <1>3, <2>3 DEF Heard
      <3>2. Heard(i)'
        BY <1>1, <2>3, <3>1 DEF Heard
      <3>3. QED
        BY <3>2
    <2>4. ASSUME NEW j, Said(i, j) PROVE Said(i, j)'
      <3>1. j \in 1..n /\ \A k \in j + 1..n : wire[k] \in Foreign
        BY <1>2, <2>4 DEF Said
      <3>2. j \in 1..Len(wire') /\ wire'[j] = wire[j]
        BY <1>3, <3>1
      <3>3. \A k \in j + 1..Len(wire') : wire'[k] \in Foreign
        <4>1. ASSUME NEW k \in j + 1..n + 1 PROVE wire'[k] \in Foreign
          <5>1. CASE k = n + 1
            BY <1>3, <5>1
          <5>2. CASE k # n + 1
            <6>1. k \in 1..n /\ k \in j + 1..n
              BY <3>1, <5>2
            <6>2. QED
              BY <1>3, <3>1, <6>1
          <5>3. QED
            BY <5>1, <5>2
        <4>2. QED
          BY <1>3, <4>1
      <3>4. QED
        BY <1>1, <2>4, <3>2, <3>3 DEF Said
    <2>5. QED
      BY <2>2, <2>3, <2>4
  <1>5. QED
    BY <1>1, <1>3, <1>4, WireStep

(* The last datagram of its own is the j-th.                               *)
LEMMA LastOwnIsSaid ==
  ASSUME SV!StateVariableConstants, SVInv, Len(keys) # 0, NEW i, NEW j, Said(i, j)
  PROVE  SV!LastOwn(j)
  <1> DEFINE own == {k \in DOMAIN wire : wire[k] \notin Foreign} \cup {0}
  <1>1. wire \in Seq(SV!ToSet(wire))
    BY ServiceFields DEF SVInv, ServiceRight
  <1>2. PICK n \in Nat : n = Len(wire) /\ DOMAIN wire = 1..n
    BY <1>1, LenProperties
  <1>3. j \in 1..n /\ \A k \in j + 1..n : wire[k] \in Foreign
    BY <1>2 DEF Said
  <1>4. j \in own
    BY <1>2, <1>3, OwnIsNotForeign
  <1>5. \A k \in own : j >= k
    <2>1. ASSUME NEW k \in own PROVE j >= k
      <3>1. CASE k = 0
        BY <1>3, <3>1
      <3>2. CASE k # 0
        <4>1. k \in 1..n /\ wire[k] \notin Foreign
          BY <1>2, <3>2
        <4>2. k \notin j + 1..n
          BY <1>3, <4>1
        <4>3. QED
          BY <1>3, <4>1, <4>2
      <3>3. QED
        BY <3>1, <3>2
    <2>2. QED
      BY <2>1
  <1>6. own \subseteq Nat
    BY <1>2
  <1> HIDE DEF own
  <1>7. \A k \in own : (\A x \in own : k >= x) => k = j
    <2>1. ASSUME NEW k \in own, \A x \in own : k >= x PROVE k = j
      BY <1>4, <1>5, <1>6, <2>1
    <2>2. QED
      BY <2>1
  <1>8. SV!Max(own) = j
    BY <1>4, <1>5, <1>7 DEF SV!Max
  <1>9. QED
    BY <1>8 DEF SV!LastOwn, own

LEMMA LoseStep ==
  ASSUME SV!StateVariableConstants, SVInv, SV!Lose
  PROVE  SVInv'
  <1>1. /\ UNCHANGED << parsed, stateVariableList, initialSeq, told, keys >>
        /\ UNCHANGED attributes
    BY DEF SV!Lose
  <1>2. PICK l \in DOMAIN wire : /\ wire' = SV!RemoveAt(wire, l)
                                 /\ missed' = (missed \/ SV!LastOwn(l))
    BY DEF SV!Lose
  <1>3. PICK S : S = SV!ToSet(wire)
    OBVIOUS
  <1>4. wire \in Seq(S)
    BY <1>3, ServiceFields DEF SVInv, ServiceRight
  <1>5. PICK n \in Nat : n + 1 = Len(wire) /\ DOMAIN wire = 1..n + 1
    <2>1. PICK m \in Nat : m = Len(wire) /\ DOMAIN wire = 1..m
      BY <1>4, LenProperties
    <2>2. m # 0
      BY <1>2, <2>1
    <2>3. PICK n \in Nat : n + 1 = m
      BY <2>2
    <2>4. QED
      BY <2>1, <2>3
  <1>6. l \in 1..n + 1
    BY <1>2, <1>5
  <1>7. /\ wire' \in Seq(S) /\ Len(wire') = n
        /\ \A k \in 1..n : wire'[k] = IF k < l THEN wire[k] ELSE wire[k + 1]
    <2>1. PICK w : w = RemoveAt(wire, l)
      OBVIOUS
    <2>2. wire' = w
      BY <1>2, <2>1 DEF SV!RemoveAt, RemoveAt
    <2>3. /\ w \in Seq(S) /\ Len(w) = Len(wire) - 1
          /\ \A k \in 1..Len(wire) - 1 : w[k] = IF k < l THEN wire[k] ELSE wire[k + 1]
      BY <1>4, <1>5, <1>6, <2>1, RemoveFromSeq
    <2>4. Len(wire) - 1 = n
      BY <1>5
    <2>5. QED
      BY <2>2, <2>3, <2>4
  <1>8. LastKnown'
    <2>1. SUFFICES ASSUME Len(keys') # 0, ~missed'
                   PROVE  \E i : Heard(i)' \/ \E j : Said(i, j)'
      BY DEF LastKnown
    <2>2. Len(keys) # 0 /\ ~missed /\ ~SV!LastOwn(l)
      BY <1>1, <1>2, <2>1
    <2>3. PICK i : Heard(i) \/ \E j : Said(i, j)
      BY <2>2 DEF SVInv, LastKnown
    <2>4. CASE Heard(i)
      <3>1. \A k \in 1..n + 1 : wire[k] \in Foreign
        BY <1>5, <2>4 DEF Heard
      <3>2. \A k \in 1..Len(wire') : wire'[k] \in Foreign
        BY <1>7, <3>1
      <3>3. Heard(i)'
        BY <1>1, <2>4, <3>2 DEF Heard
      <3>4. QED
        BY <3>3
    <2>5. ASSUME NEW j, Said(i, j) PROVE \E m : Said(i, m)'
      <3>1. j \in 1..n + 1 /\ \A k \in j + 1..n + 1 : wire[k] \in Foreign
        BY <1>5, <2>5 DEF Said
      <3>2. l # j
        BY <2>2, <2>5, LastOwnIsSaid
      <3>3. PICK m \in 1..n : m = IF j < l THEN j ELSE j - 1
        BY <1>6, <3>1, <3>2
      <3>4. wire'[m] = wire[j]
        BY <1>6, <1>7, <3>1, <3>2, <3>3
      <3>5. \A k \in m + 1..Len(wire') : wire'[k] \in Foreign
        <4>1. ASSUME NEW k \in m + 1..n PROVE wire'[k] \in Foreign
          <5>1. k \in 1..n
            BY <3>3
          <5>2. CASE k < l
            <6>1. k \in j + 1..n + 1
              BY <1>6, <3>1, <3>2, <3>3, <5>1, <5>2
            <6>2. QED
              BY <1>7, <3>1, <5>1, <5>2, <6>1
          <5>3. CASE ~(k < l)
            <6>1. k + 1 \in j + 1..n + 1
              BY <1>6, <3>1, <3>2, <3>3, <5>1, <5>3
            <6>2. QED
              BY <1>7, <3>1, <5>1, <5>3, <6>1
          <5>4. QED
            BY <5>2, <5>3
        <4>2. QED
          BY <1>7, <4>1
      <3>6. Said(i, m)'
        BY <1>1, <1>7, <2>5, <3>3, <3>4, <3>5 DEF Said
      <3>7. QED
        BY <3>6
    <2>6. QED
      BY <2>3, <2>4, <2>5
  <1>9. QED
    BY <1>1, <1>7, <1>8, WireStep

(* What the invariant says of the variables and of the receiver.           *)
LEMMA KnownIsTold ==
  ASSUME SVInv
  PROVE  SV!EventsTell
  <1>1. /\ DOMAIN told = DOMAIN stateVariableList
        /\ \A i \in DOMAIN stateVariableList : VariableRight(stateVariableList[i], told[i])
        /\ KeysRight(keys, initialSeq)
    BY ServiceFields DEF SVInv, ServiceRight
  <1>2. SV!ToldCurrent /\ \A i \in DOMAIN stateVariableList : SV!Allowed(stateVariableList[i])
    BY <1>1 DEF SV!ToldCurrent, VariableRight
  <1>3. SV!KeysFollow
    BY <1>1 DEF SV!KeysFollow, KeysRight
  <1>4. SV!ReceiverCurrent
    <2>1. SUFFICES ASSUME keys # << >>, wire = << >>, ~missed,
                          \A m \in Foreign : m.complete => m.key # attributes.key
                   PROVE  \E v \in SV!ToSet(stateVariableList) :
                            /\ v.name = attributes.name
                            /\ v.value = attributes.value \/ Read[v.value] # v.value
      BY DEF SV!ReceiverCurrent
    <2>2. Len(keys) # 0
      <3>1. PICK K : K = 0..SeqMax - 1
        OBVIOUS
      <3>2. keys \in Seq(K)
        BY <1>1, <3>1 DEF KeysRight
      <3>3. QED
        BY <2>1, <3>2, EmptySeq
    <2>3. PICK i : Heard(i) \/ \E j : Said(i, j)
      BY <2>1, <2>2 DEF SVInv, LastKnown
    <2>4. ~ \E j : Said(i, j)
      <3>1. Len(wire) = 0
        BY <2>1, EmptySeq
      <3>2. QED
        BY <3>1 DEF Said
    <2>5. PICK v : v = stateVariableList[i]
      OBVIOUS
    <2>6. /\ i \in DOMAIN stateVariableList
          /\ attributes.name = v.name /\ attributes.value = Read[v.value]
      BY <2>1, <2>3, <2>4, <2>5 DEF Heard
    <2>7. v \in SV!ToSet(stateVariableList)
      BY <2>5, <2>6 DEF SV!ToSet
    <2>8. QED
      BY <2>6, <2>7
  <1>5. QED
    BY <1>2, <1>3, <1>4 DEF SV!EventsTell

(* At first there is no variable, nothing on its way and nothing told.     *)
LEMMA NothingIsTold ==
  ASSUME SV!StateVariableConstants, SV!Init
  PROVE  SVInv
  <1>1. PICK s : s = SV!Service
    OBVIOUS
  <1>2. /\ DOMAIN s = {"list", "seq", "wire", "told", "keys"}
        /\ s.list = << >> /\ s.seq = 0 /\ s.wire = << >> /\ s.told = << >> /\ s.keys = << >>
    BY <1>1, ServiceFields DEF SV!Init
  <1>3. PICK e : e = << >>
    OBVIOUS
  <1>4. \A S : e \in Seq(S) /\ Len(e) = 0
    BY <1>3, EmptySeq
  <1>5. DOMAIN e = {} /\ 1..0 = {}
    BY <1>3
  <1>6. KeysRight(e, 0)
    <2>1. 0 \in 0..SeqMax
      BY DEF SV!StateVariableConstants
    <2>2. e \in Seq(0..SeqMax - 1)
      BY <1>4
    <2>3. QED
      BY <1>4, <2>1, <2>2 DEF KeysRight
  <1>7. ServiceRight(s)
    <2>1. (\E n \in Nat : DOMAIN e = 1..n) /\ \A i \in DOMAIN e : FALSE
      BY <1>5
    <2>2. e \in Seq(SV!ToSet(e))
      BY <1>4
    <2>3. s.list = e /\ s.wire = e /\ s.told = e /\ s.keys = e
      BY <1>2, <1>3
    <2>4. QED
      BY <1>2, <1>6, <2>1, <2>2, <2>3 DEF ServiceRight
  <1>8. Len(keys) = 0
    BY EmptySeq DEF SV!Init
  <1>9. QED
    BY <1>1, <1>7, <1>8 DEF SVInv, LastKnown

LEMMA EventsStep ==
  ASSUME SV!StateVariableConstants, SVInv, [SV!Next]_(SV!vars)
  PROVE  SVInv'
  <1>1. CASE \E d \in Documents : SV!parseDescriptionFile(d)
    BY <1>1, ParseStep
  <1>2. CASE \E name \in SV!Names, text \in Texts : SV!SetValue(name, text)
    BY <1>2, SetStep
  <1>3. CASE SV!read
    BY <1>3, ReadStep
  <1>4. CASE SV!Lose
    BY <1>4, LoseStep
  <1>5. CASE \E message \in Foreign : SV!Others(message)
    BY <1>5, OthersStep
  <1>6. CASE UNCHANGED SV!vars
    BY <1>6 DEF SV!vars, SV!history_vars, SVInv, SV!Service, LastKnown, Heard, Said
  <1>7. QED
    BY <1>1, <1>2, <1>3, <1>4, <1>5, <1>6 DEF SV!Next

(* What a service tells of its variables is right, whatever its            *)
(* description, the values that its methods set, the datagrams that are    *)
(* lost and those that others send: the listeners of a variable know its   *)
(* value, the value is allowed, the keys follow each other to the largest  *)
(* and from 0 again, and the control point that has heard the last         *)
(* datagram knows the variable that changed last (setAttribute,            *)
(* getNextMulticastSeq and BrisaMulticastEventReceiver).                   *)
THEOREM ChangesAreTold ==
  ASSUME SV!StateVariableConstants
  PROVE  SV!Spec => []SV!EventsTell
  <1>1. SV!Init => SVInv
    BY NothingIsTold
  <1>2. SVInv /\ [SV!Next]_(SV!vars) => SVInv'
    BY EventsStep
  <1>3. SVInv => SV!EventsTell
    BY KnownIsTold
  <1>4. QED
    BY <1>1, <1>2, <1>3, PTL DEF SV!Spec
-----------------------------------------------------------------------------
(* The parts together (Deliveries).                                        *)

(* Every behaviour is one of each part, which moves or stands still.       *)
LEMMA DeliveryParts == DeliveriesSpec => SV!Spec /\ EP!Spec /\ WF!Spec
  <1>1. DeliveriesInit => SV!Init /\ EP!Init /\ WF!Init
    BY DEF DeliveriesInit
  <1>2. [DeliveriesNext]_deliveries_vars => [SV!Next]_(SV!vars)
    BY DEF DeliveriesNext, VariablesNext, ProxiesNext, FilesNext, deliveries_vars, sv_vars, SV!vars,
           SV!history_vars
  <1>3. [DeliveriesNext]_deliveries_vars => [EP!Next]_(EP!vars)
    BY DEF DeliveriesNext, VariablesNext, ProxiesNext, FilesNext, deliveries_vars, ep_vars, EP!vars,
           EP!device_vars
  <1>4. [DeliveriesNext]_deliveries_vars => [WF!Next]_(WF!vars)
    BY DEF DeliveriesNext, VariablesNext, ProxiesNext, FilesNext, deliveries_vars, wf_vars, WF!vars
  <1>5. QED
    BY <1>1, <1>2, <1>3, <1>4, PTL DEF DeliveriesSpec, SV!Spec, EP!Spec, WF!Spec

(* For any descriptions, values, losses and datagrams of others that have  *)
(* keys of their own: listeners know the value of a variable, keys follow  *)
(* each other, and a receiver that has read the last datagram knows the    *)
(* variable that changed last (EventsTell).                                *)
THEOREM EventsAreTold == DeliveriesSpec => []EventsTell
  <1>1. SV!Spec => []SV!EventsTell
    BY VariableAssumption, ChangesAreTold
  <1>2. SV!EventsTell => EventsTell
    BY DEF EventsTell
  <1>3. QED
    BY <1>1, <1>2, DeliveryParts, PTL

(* For any services, proxies and requests, a proxy that subscribed once    *)
(* and had no error knows the SID the device gave it (OwnSid).             *)
THEOREM ProxiesKnowTheirSid == DeliveriesSpec => []OwnSid
  <1>1. EP!OwnSid => OwnSid
    BY DEF OwnSid
  <1>2. QED
    BY <1>1, SidsAreTheirs, DeliveryParts, PTL

(* For a file of any size that nobody writes to and any range it has, the  *)
(* head of the answer is right for the file and the request, and the body  *)
(* is the whole file (HeadRight).                                          *)
THEOREM HeadsAreRight == DeliveriesSpec => []HeadRight
  <1>1. WF!Spec => []WF!HeadRight
    BY FileAssumption, AnswersFitRanges
  <1>2. WF!HeadRight => HeadRight
    BY DEF HeadRight
  <1>3. QED
    BY <1>1, <1>2, DeliveryParts, PTL
=============================================================================
