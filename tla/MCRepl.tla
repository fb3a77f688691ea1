------------------------------- MODULE MCRepl -------------------------------
(* TLC instances of ReplProperties. *)
EXTENDS ReplProperties

MCReaders == {"cat"}
MCMissing == {"nosuch", "", "a", "b", "A", "0", "1", "-1"}
MCGarbled == "ls"
MCVarOf   == [w \in {"$V"} |-> "V"]
MCAssignOf == [w \in {"V=*"} |-> <<"V", "*">>]
MCEnv0    == [v \in {"V", "HOME"} |-> IF v = "HOME" THEN "d" ELSE None]
MCMatches == [dir \in {"/", "d"} |->
                [pattern \in {"*", "?z"} |->
                   IF dir = "/" /\ pattern = "*" THEN <<"a", "b">> ELSE <<>>]]

\* Every line of up to three tokens, as the only line of the input.
Tokens == {"|", "&", "<<", "<", ">", "cat", "*"}
ShortLines == UNION {[1 .. n -> Tokens] : n \in 0 .. 3}
OneLiners  == {<<l>> : l \in ShortLines}

\* Sessions of several lines.
Sessions == {
  <<<<"cat", "<<", "A">>, <<"x", "A">>, <<"A">>, <<"nosuch">>, <<"ls">>>>,
  <<<<"cat", "<<", "A", "|", "cat", "<<", "B">>, <<"B">>, <<"A">>, <<"A">>, <<"B">>, <<"ls">>>>,
  <<<<"cat", "<<", "A">>, <<"ls">>>>,
  <<<<"nosuch", "&">>, <<"cat", "&">>, <<>>, <<"exit">>, <<"ls">>>>,
  <<<<"export", "V=*">>, <<"cat", "$V", "$V">>, <<"cd">>, <<"cat", "$V", "$?">>>>,
  <<<<"cd", "d", "|", "cat">>, <<"cd", "x">>, <<"exit", "$?">>>>,
  <<<<"history", "|", "cat">>, <<"history">>, <<"ls", "|", "|", "nosuch">>>>,
  <<<<"exit", "|", "cat">>, <<"cat", "a", "b", "a", "&">>>>,
  <<<<"a", "|", "b", "|", "cat", "&">>, <<"ls">>>>,
  <<<<"cat", "<", "a", ">", "b">>, <<"cat", ">">>, <<"cat", ">>", "b", ">">>, <<"cat", "<", "*", "<<", "A">>>>,
  <<<<"cat", "<<", "A", "<<", "B">>, <<"x">>, <<"A">>, <<"y">>, <<"B">>>>,
  <<<<"ls", "|", "<<", "A">>, <<"exit", "&">>, <<"A">>>>,
  <<<<"fg", "1">>, <<"help", "x">>, <<"export", "x">>, <<"cat">>, <<"ls">>, <<"ls">>>> }

SomeScripts == OneLiners \cup Sessions
====
