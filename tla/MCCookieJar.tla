---------------------------- MODULE MCCookieJar ----------------------------
(***************************************************************************)
(* Cookies for TLC: one for a directory without an expiry, its deletion    *)
(* from the request's own directory, one with an age in the wider scope    *)
(* that comes in quotes, and one that the client drops.                    *)
(***************************************************************************)
EXTENDS CookieJar, TLC

Paths == {Root, <<"login", "page">>}

Plain == [name |-> "sid", domain |-> "", path |-> <<"login">>, value |-> "old",
          quoted |-> FALSE, secure |-> TRUE, valid |-> TRUE, maxAge |-> 0,
          expires |-> Forever]
Deletion == [Plain EXCEPT !.path = NoPath, !.maxAge = -1]
Aged == [Plain EXCEPT !.domain = ".online", !.path = Root, !.value = "new",
                      !.quoted = TRUE, !.maxAge = 1]
Insecure == [Plain EXCEPT !.secure = FALSE]

CallSymmetry == Permutations(Calls)
SomeCookies == {Plain, Deletion, Aged, Insecure}
=============================================================================
