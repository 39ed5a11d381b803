-------------------------- MODULE MC_BuildEvidence --------------------------
(* A disk of two files and a directory, and a build for success with and    *)
(* without system libraries and for each reason to fail.                    *)
EXTENDS BuildEvidence

MCContents == {<<0, 0>>, <<1, 1>>, <<0>>}
MCDisk == <<[content |-> <<0, 0>>, is_file |-> TRUE], [content |-> <<0>>, is_file |-> FALSE]>>
MCLinks == {[p |-> 1, q |-> 1, bad |-> 1], [p |-> 2, q |-> 1, bad |-> 1]}

Build(a, p, c) ==
  [active |-> a, produced |-> p, cmake_cache |-> c]
Built(name, path) == [logical_name |-> name, path |-> path, external |-> FALSE]
Line(name, value) == [is_ggml |-> TRUE, name |-> name, value |-> value, found |-> TRUE]
Other == [is_ggml |-> FALSE, name |-> 0, value |-> "p", found |-> FALSE]

Lib == {Built(2, "p")}
MCBuilds ==
  {Build({"common"}, Lib, <<Other>>),
   Build({"system-ggml"}, Lib, <<Other, Line(1, "q")>>)}
  \cup {Build({"common"}, p, <<>>) :
          p \in {{}, Lib \cup {Built(2, "q")}, {Built(0, "p")},
                        {Built(k, "p") : k \in 1..3}}}
  \cup {Build({"system-ggml"}, Lib, c) :
          c \in {<<Other>>, <<Line(1, "bad")>>, <<Line(1, "q"), Line(1, "q")>>,
                           <<[Line(1, "q") EXCEPT !.found = FALSE]>>}}
  \cup {Build({"system-ggml", "dynamic-backends"}, Lib, <<Line(1, "q")>>),
        Build({"common", "future"}, Lib, <<>>)}
=============================================================================
