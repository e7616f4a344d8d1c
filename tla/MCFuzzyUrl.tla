----------------------------- MODULE MCFuzzyUrl -----------------------------
(* Instances of FuzzyUrl for TLC. *)
EXTENDS FuzzyUrl

Url(host, path, query) ==
    [host |-> host, path |-> <<"">> \o path, query |-> query,
     hasQuery |-> query # <<>>, hasFragment |-> FALSE]

\* URLs of one site with two path fragments and two query values, one with
\* a repeated key, one without a query, and one of another site.
MCUrls ==
    {Url("a.com", <<x, "page">>, <<<<"id", v>>, <<"time", w>>>>) :
        x \in {"old", "new"}, v \in {"1", "2"}, w \in {"1", "2"}}
    \cup {Url("a.com", <<"new", "main">>, <<<<"id", "1">>, <<"time", "1">>>>),
          Url("a.com", <<"new", "page">>, <<<<"id", "1">>, <<"id", "2">>>>),
          Url("a.com", <<"new", "page">>, <<>>),
          Url("b.com", <<"new", "page">>, <<<<"id", "1">>, <<"time", "1">>>>)}
=============================================================================
