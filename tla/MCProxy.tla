------------------------------ MODULE MCProxy ------------------------------
(***************************************************************************)
(* Proxy with one user of the managed domain and one outside of it, and    *)
(* what the proxy does to the headers and the credentials of a message     *)
(* (Messages, Digest), evaluated for all short lists of headers and small  *)
(* pools of users.                                                         *)
(***************************************************************************)
EXTENDS Proxy, Messages, Digest, TLC

CONSTANTS local, remote

TwoUsers == {local, remote}
OneLocalUser == {local}
ProxyHeaderName == SingleName \cup {"via", "record-route"}

-----------------------------------------------------------------------------
(* Lists of up to three headers: two cached in different ways, one not at all. *)

SampleName == {"via", "cseq", "record-route"}
Samples == UNION {[1..k -> [name : SampleName, value : {1, 2}]] : k \in 0..3}

\* The cache that add keeps (message.rs:194-212) while a message is parsed is the one
\* a rebuild would give.
ASSUME ParsedCacheTrue == \A s \in Samples : ParsedHeaders(s) = Rebuilt(s)

\* remove and remove_first (message.rs:214-231) leave the cache of positions true and
\* take away all the headers of the name, or the first.
ASSUME RemovalExact ==
    \A s \in Samples, n \in SampleName :
        LET h == Rebuilt(s)
            all == RemoveHeaders(h, n)
            one == RemoveFirstHeader(h, n)
        IN  /\ all = Rebuilt(all.entries) /\ one = Rebuilt(one.entries)
            /\ all.entries = SelectSeq(s, LAMBDA e : e.name # n)
            /\ AllHeaders(all, n) = {}
            /\ Cardinality(AllHeaders(one, n))
                 = IF At(s, n) = {} THEN 0 ELSE Cardinality(At(s, n)) - 1
            /\ \A m \in SampleName \ {n} :
                 SelectSeq(all.entries, LAMBDA e : e.name = m)
                   = SelectSeq(one.entries, LAMBDA e : e.name = m)

\* set (message.rs:188-192): exactly one header of the name is left, the new one, and
\* get finds it through the cache.
ASSUME SetExact ==
    \A s \in Samples, n \in SampleName, v \in {1, 2} :
        LET h == SetHeader(Rebuilt(s), n, v)
        IN  /\ h = Rebuilt(h.entries)
            /\ AllHeaders(h, n) = {GetHeader(h, n)}
            /\ h.entries[GetHeader(h, n)].value = v

\* What the formatter writes the parser reads back (formatter.rs:54-121,
\* parser.rs:374-412), unless the sender stated another length itself: then the body is
\* cut short, or the message is refused.
ASSUME BodiesReturn ==
    \A body \in {NoBody} \cup 0..3, announced \in {NotANumber} \cup 0..4 :
        LET bare == FormattedHeaders(NoHeaders, body)
            stated == AddHeader(NoHeaders, "content-length", announced)
            given == FormattedHeaders(stated, body)
        IN  /\ ParsedBody(bare, FormattedBody(body)) = IF body > 0 THEN body ELSE NoBody
            /\ given = stated
            /\ ParsedBody(given, FormattedBody(body))
                 \in {TooShort, IF announced = 0 THEN NoBody ELSE announced}

-----------------------------------------------------------------------------
(* Pools of up to three users; two entries may have one name. *)

Names == {local, remote}
Pools == UNION {[1..k -> [username : Names, password : 1..2]] : k \in 1..3}

\* find_by_username (user_pool/mod.rs:88-91) finds a name if and only if it is there,
\* and always the first entry of it.
ASSUME FirstOfName ==
    \A pool \in Pools, name \in Names :
        LET i == FindUser(pool, name)
        IN  IF i = 0 THEN \A j \in DOMAIN pool : pool[j].username # name
            ELSE /\ pool[i].username = name
                 /\ \A j \in DOMAIN pool : pool[j].username = name => i <= j

\* next_user (user_pool/mod.rs:67-70) is fair: within a round of the pool every entry is
\* taken once, wherever the counter stands.
ASSUME RoundRobin ==
    \A pool \in Pools : \A c \in 0..4 :
        LET taken(u) == {k \in c..(c + Len(pool) - 1) : NextUser(pool, k) = u}
        IN  \A i \in DOMAIN pool :
              Cardinality(taken(pool[i])) = Cardinality({j \in DOMAIN pool : pool[j] = pool[i]})

\* A retry (uac/mod.rs:578-640) is accepted by a proxy with the same pool exactly when
\* its realm is the one the proxy computes with (auth/mod.rs:189-270).
ASSUME RetriesAccepted ==
    \A pool \in Pools, realm \in 1..2, other \in 1..2 :
        \A i \in DOMAIN pool :
            Verified(pool, realm, "INVITE",
                     Retry(pool, pool[i].username, [realm |-> other, nonce |-> 7], "INVITE", 5))
              <=> realm = other
=============================================================================
