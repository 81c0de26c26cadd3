------------------------------- MODULE MCGuard -------------------------------
(* Tables and requests for the runs of Guard. *)
EXTENDS Guard

Folder == <<Slash, Plain("a"), Slash>>
Page == <<Slash, Plain("a")>>

\* The shape of Default's entry, and an entry like the tests' read_summary.
StaticEntry == [method |-> "GET", path |-> Folder, wild |-> TRUE,
                required |-> {}, allowed |-> {"page"}, routing |-> <<>>]
ReadEntry == [method |-> "POST", path |-> Page, wild |-> FALSE,
              required |-> {"account"}, allowed |-> {"page"},
              routing |-> [action |-> {"view", "list"}]]
OneEntryPerPath == <<StaticEntry, ReadEntry>>

Tokens == [char : {"/", ".", "\\", "a"}, depth : {0, 1}]
            \union [char : {"/", "."}, depth : {2}]

SomeNames == {"account", "page", "action"}
SomeValues == {"view", "list", "pay"}
Nothing == [account |-> <<>>, page |-> <<>>, action |-> <<>>]

PlainGet == [origin |-> "fnb", headers |-> {}, method |-> "GET", path |-> Page,
             queryValid |-> TRUE, query |-> Nothing, body |-> "none",
             form |-> Nothing, unread |-> TRUE]

\* Every path of up to three characters, and of up to four more after Page.
PathRequests ==
  {[PlainGet EXCEPT !.path = <<Slash>> \o text] : text \in BoundedSeq(Tokens, 2)}
    \union {[PlainGet EXCEPT !.path = Page \o text] : text \in BoundedSeq(Tokens, 4)}

SomeParams == [account : {<<>>, <<"view">>}, page : {<<>>, <<"view">>},
               action : {<<>>, <<"view">>, <<"list">>, <<"pay">>, <<"view", "pay">>}]

\* Every way to put the parameters into query and form, and each single defect.
ParamRequests ==
  LET forms == {[PlainGet EXCEPT !.method = "POST", !.query = query, !.body = "form", !.form = form] :
                  query \in SomeParams, form \in SomeParams}
      good == [PlainGet EXCEPT !.method = "POST", !.body = "form",
                               !.form = [Nothing EXCEPT !.account = <<"view">>, !.action = <<"view">>]]
  IN  forms
      \union {[good EXCEPT !.origin = "other"], [good EXCEPT !.queryValid = FALSE],
              [good EXCEPT !.headers = {"Cookie"}], [good EXCEPT !.method = "GET"],
              [good EXCEPT !.path = Folder]}
      \union {[good EXCEPT !.body = kind] : kind \in {"unreadable", "other_type", "malformed"}}
      \union {[PlainGet EXCEPT !.method = "POST", !.query = query] : query \in SomeParams}

AllRequests == PathRequests \union ParamRequests

\* The table is one that EveryShapePasses is about.
ASSUME TableIsPlain == PlainTable
==============================================================================
