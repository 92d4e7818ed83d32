------------------------------ MODULE Messages ------------------------------
(***************************************************************************)
(* SIP messages without their text (src/src/sip): the header collection    *)
(* with its cache of positions, which every mutation has to keep true, and *)
(* what the formatter and the parser do to the body and its length.        *)
(*                                                                         *)
(* A header name stands for all its spellings, in lower case.  Positions   *)
(* count from 1, 0 for none.  Indices of Via headers are only ever cached  *)
(* in increasing order, so a set of them says the same as the list.        *)
(***************************************************************************)
EXTENDS Integers, Sequences, FiniteSetsExt

CONSTANT HeaderName   \* the names a header may have

\* The frequent headers of which only the first is cached.
SingleName == {"from", "to", "call-id", "cseq", "content-length"}

ASSUME HeaderNameAssumption == SingleName \cup {"via", "record-route"} \subseteq HeaderName

Header(n, v) == [name |-> n, value |-> v]

At(s, n) == {i \in 1..Len(s) : s[i].name = n}

\* The first header of a name, by a linear search.
FirstAt(s, n) == IF At(s, n) = {} THEN 0 ELSE Min(At(s, n))

\* rebuild_cache
Rebuilt(s) ==
    [entries |-> s, via |-> At(s, "via"), first |-> [n \in SingleName |-> FirstAt(s, n)]]

NoHeaders == Rebuilt(<<>>)

\* add keeps the cache without a rebuild.
AddHeader(h, n, v) ==
    LET idx == Len(h.entries) + 1
    IN  [entries |-> Append(h.entries, Header(n, v)),
         via |-> IF n = "via" THEN h.via \cup {idx} ELSE h.via,
         first |-> [m \in SingleName |->
                      IF m = n /\ h.first[m] = 0 THEN idx ELSE h.first[m]]]

\* Vec::retain, from the first header to the last.
Retained(s, n) ==
    LET upTo[k \in 0..Len(s)] ==
          IF k = 0 THEN <<>>
          ELSE IF s[k].name = n THEN upTo[k - 1] ELSE Append(upTo[k - 1], s[k])
    IN  upTo[Len(s)]

RemoveHeaders(h, n) == Rebuilt(Retained(h.entries, n))

SetHeader(h, n, v) == AddHeader(RemoveHeaders(h, n), n, v)

Without(s, i) == [k \in 1..(Len(s) - 1) |-> IF k < i THEN s[k] ELSE s[k + 1]]

RemoveFirstHeader(h, n) ==
    IF At(h.entries, n) = {} THEN h ELSE Rebuilt(Without(h.entries, FirstAt(h.entries, n)))

Before(e, s) == <<e>> \o s

\* insert_at(0, ..), the only position the program uses.
PushHeader(h, n, v) == Rebuilt(Before(Header(n, v), h.entries))

\* get: the cache answers for frequent headers.
GetHeader(h, n) ==
    IF n = "via" THEN IF h.via = {} THEN 0 ELSE Min(h.via)
    ELSE IF n \in SingleName THEN h.first[n]
    ELSE FirstAt(h.entries, n)

\* get_all
AllHeaders(h, n) == IF n = "via" THEN h.via ELSE At(h.entries, n)

-----------------------------------------------------------------------------
(* Bodies.  A body is its length; a message may have none at all, and the  *)
(* value of a Content-Length may be no number.                             *)

NoBody == -1
NotANumber == -1
TooShort == -2

\* format_into: a body of some length gets a Content-Length unless there is one,
\* whatever that one says.
FormattedHeaders(h, body) ==
    IF body > 0 /\ GetHeader(h, "content-length") = 0
    THEN AddHeader(h, "content-length", body) ELSE h

FormattedBody(body) == IF body > 0 THEN body ELSE 0

\* parse_body, of the bytes that follow the headers: what the message gets.
ParsedBody(h, bytes) ==
    LET at == GetHeader(h, "content-length")
        announced == h.entries[at].value
    IN  IF at = 0 THEN IF bytes = 0 THEN NoBody ELSE bytes
        ELSE IF announced = NotANumber \/ bytes < announced THEN TooShort
        ELSE IF announced = 0 THEN NoBody
        ELSE announced

\* parse_request, parse_response: one add for each header line.
ParsedHeaders(s) ==
    LET upTo[k \in 0..Len(s)] ==
          IF k = 0 THEN NoHeaders ELSE AddHeader(upTo[k - 1], s[k].name, s[k].value)
    IN  upTo[Len(s)]
=============================================================================
