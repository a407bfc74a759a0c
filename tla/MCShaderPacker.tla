--------------------------- MODULE MCShaderPacker ---------------------------
EXTENDS ShaderPacker

MCSeps == {"/"}
MCOthers == {"a"}

\* The keyword in lower and in upper case, two known types and a word that
\* is neither (used as an entry point, or as an unknown type).
MCWords == {[text |-> "shader", caps |-> FALSE], [text |-> "shader", caps |-> TRUE],
            [text |-> "pixel", caps |-> FALSE], [text |-> "hull", caps |-> FALSE],
            [text |-> "main", caps |-> FALSE]}

\* a.a, and ./a (whose name split throws).
MCShaderFiles == {<<"a", ".", "a">>, <<".", "/", "a">>}
\* a/a, and a (no directory part).
MCOutputFiles == {<<"a", "/", "a">>, <<"a">>}
=============================================================================
