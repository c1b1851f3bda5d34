------------------------------- MODULE MCAnswer -------------------------------
(***************************************************************************)
(* Requests for TLC.                                                       *)
(***************************************************************************)
EXTENDS Answer

Field(name, bytes) == [name |-> name, bytes |-> bytes]

Plain(name) == Field(name, 0)

Path(segs, query) == [segs |-> segs, query |-> query]

Completion == Path(<<"v1", "completions">>, FALSE)
Props == Path(<<"models", "a", "props">>, FALSE)

\* A sound request to the generic endpoint, which the others vary.
Sound ==
  [line |-> "whole", size |-> 2, method |-> "POST", path |-> Completion,
   fields |-> <<Field("length", 2)>>, body |-> 2, says |-> "a", patient |-> TRUE]

\* Every shape of path, with every method.
Paths ==
  {Completion, Props, Path(<<"models", "b", "x">>, FALSE), Path(<<"models", "a", "">>, FALSE),
   Path(<<"models", "a", "">>, TRUE), Path(<<"models", "a">>, FALSE), Path(<<"models", "", "x">>, FALSE),
   Path(<<"models">>, FALSE), Path(<<"models", "">>, FALSE), Path(<<"models">>, TRUE),
   Path(<<"props", "">>, FALSE), Path(<<"v1", "models", "">>, TRUE), Path(<<"v1">>, FALSE),
   Path(<<"">>, FALSE)}

Routing ==
  {[Sound EXCEPT !.path = p, !.method = m, !.line = l] :
     p \in Paths, m \in {"GET", "HEAD", "POST", "OPTIONS", "DELETE"}, l \in {"whole"}}
  \cup {[Sound EXCEPT !.line = l] : l \in {"short", "unreadable"}}

\* Up to three header lines that say something about the body.
Headers ==
  LET some == {Field("length", n) : n \in {0, 1, 3}}
              \cup {Plain(n) : n \in {"badlength", "chunked", "expect", "no colon"}}
  IN  {<< >>} \cup {<<f>> : f \in some} \cup {<<f, g>> : f, g \in some}
      \cup {<<Plain("expect"), Plain("other"), Field("length", n)>> : n \in {1, 2}}
      \cup {<<Plain("host"), Plain("other"), Plain("other"), Field("length", 1)>>}

Bodies ==
  {[Sound EXCEPT !.path = p, !.fields = fs, !.body = n, !.patient = q] :
     p \in {Completion, Props}, fs \in Headers, n \in {0, 1, 2}, q \in BOOLEAN}
  \cup {[Sound EXCEPT !.says = w] : w \in {"a", "b", NotJson, Nameless}}

\* Heads around the bound on their bytes, short of the blank line straddling it.
Sizes == {[Sound EXCEPT !.size = n, !.path = p] : n \in {2, 5, 6, 8, 9}, p \in {Completion, Props}}

MCRequests == Routing \cup Bodies \cup Sizes

\* The blank line ends one byte past the bound.
MCStraddling == {[Sound EXCEPT !.size = 7, !.path = p] : p \in {Completion, Props}}
===============================================================================
