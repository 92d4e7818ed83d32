------------------------------- MODULE Digest -------------------------------
(***************************************************************************)
(* Digest authentication between the UAC and the proxy (auth/mod.rs,       *)
(* user_pool/mod.rs, handle_auth_challenge).  A digest is the tuple of     *)
(* what it is computed from: MD5 without collisions.                       *)
(***************************************************************************)
EXTENDS Naturals, Sequences

\* find_by_username: the position of the first entry of that name, 0 for none.
FindUser(pool, name) ==
    IF \E i \in 1..Len(pool) : pool[i].username = name
    THEN CHOOSE i \in 1..Len(pool) :
           pool[i].username = name /\ \A j \in 1..(i - 1) : pool[j].username # name
    ELSE 0

\* next_user: the round-robin over the pool, at the value the counter had.
NextUser(pool, counter) == pool[(counter % Len(pool)) + 1]

\* compute_response
Response(username, password, realm, nonce, method, uri) ==
    << <<username, realm, password>>, nonce, <<method, uri>> >>

\* create_authorization_header
Credentials(user, challenge, method, uri) ==
    [username |-> user.username, realm |-> challenge.realm, nonce |-> challenge.nonce,
     uri |-> uri,
     response |-> Response(user.username, user.password, challenge.realm,
                           challenge.nonce, method, uri)]

\* handle_auth_challenge: those of the first entry with the name in From, not of
\* the entry the call was started with.
Retry(pool, name, challenge, method, uri) ==
    Credentials(pool[FindUser(pool, name)], challenge, method, uri)

\* ProxyAuth::verify: by the proxy's own realm and the header's nonce and uri.
Verified(pool, realm, method, c) ==
    /\ FindUser(pool, c.username) # 0
    /\ c.response = Response(c.username, pool[FindUser(pool, c.username)].password,
                             realm, c.nonce, method, c.uri)
=============================================================================
