----------------------------- MODULE MCPageLoad -----------------------------
(* Instances of PageLoad for TLC. *)
EXTENDS PageLoad, TLC

Plain(tokens) == [t \in tokens |-> <<>>]

\* A page of these chunks and kinds in which nothing fails, no script writes or
\* adds anything but what is said, and there is no other page code.
Page(chunks, kind, writes, inserts) ==
    [chunks |-> chunks, kind |-> kind,
     writes |-> writes @@ Plain(DOMAIN kind), inserts |-> inserts @@ Plain(DOMAIN kind),
     failing |-> {}, denied |-> {}, late |-> {}, onContentLoaded |-> <<>>, onComplete |-> <<>>]

\* A style sheet holds an inline script back, which writes a script that
\* blocks the parser; a second sheet, which is preloaded; a deferred script.
StyledPage ==
    Page(<< <<"css", "in">>, <<"css2", "def">> >>,
         [css |-> "sheet", in |-> "inline", ext |-> "external", css2 |-> "sheet",
          def |-> "defer", eof |-> "eof"],
         [in |-> <<"ext">>], <<>>)

\* A blocking script writes a style sheet and an inline script, which is
\* executed without waiting for it and adds a script; an asynchronous script.
WritingPage ==
    Page(<< <<"ext", "txt">>, <<"asy">> >>,
         [ext |-> "external", css |-> "sheet", in |-> "inline", asy |-> "async",
          txt |-> "text", d1 |-> "inOrder", eof |-> "eof"],
         [ext |-> <<"css", "in">>], [in |-> <<"d1">>])

\* ... the blocking script and the asynchronous one cannot be loaded.
FailingPage == [WritingPage EXCEPT !.failing = {"ext", "asy"}, !.onContentLoaded = <<"d1">>]

\* The first of two scripts to be executed in order adds a third, page code
\* adds a fourth; an asynchronous script.
AddingPage ==
    [Page(<< <<"in">>, <<"asy">> >>,
          [in |-> "inline", asy |-> "async",
           d1 |-> "inOrder", d2 |-> "inOrder", d3 |-> "inOrder", eof |-> "eof"],
          <<>>, [in |-> <<"d1">>, d1 |-> <<"d2">>]) EXCEPT !.late = {"d3"}]

\* ... the first one is denied, or the asynchronous one; the asynchronous one
\* adds an element with the first script again.
DeniedPages == {[AddingPage EXCEPT !.denied = {s}] : s \in {"d1", "asy"}}
TwicePage == [AddingPage EXCEPT !.late = {}, !.inserts = [in |-> <<"d1">>, asy |-> <<"d1">>] @@ @]

\* ... handlers of DOMContentLoaded add the fourth, handlers of the last
\* readystatechange a fifth.
HandlersPage ==
    [AddingPage EXCEPT !.late = {}, !.onContentLoaded = <<"d3">>, !.onComplete = <<"d2">>,
                       !.inserts = [in |-> <<"d1">>] @@ @]

AllPages == {StyledPage, WritingPage, FailingPage, AddingPage, TwicePage} \cup DeniedPages
LatePages == {AddingPage, HandlersPage}
=============================================================================
