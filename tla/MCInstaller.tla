---------------------------- MODULE MCInstaller ----------------------------
(* PATHs with and without Druk, with a neighbour that begins with its      *)
(* directory, at the buffer's limit and behind it, and with characters the *)
(* code page lacks: u becomes a question mark, v a semicolon.               *)
EXTENDS Installer

MCDirs == <<"target", "bin">>
MCChars == {"D", Sep, "o", "p", "q", "r", "x", "u", "v", "?"}
MCAnsi == [c \in MCChars |-> CASE c = "u" -> "?" [] c = "v" -> Sep [] OTHER -> c]
MCPaths ==
    {<<>>, <<"o">>, <<"o", Sep>>, <<"D", Sep, "o">>, <<"o", Sep, "D", Sep, "p">>,
     <<"o", Sep, "D", "x">>, <<"o", Sep, "p", Sep, "q">>, <<"o", Sep, "p", Sep, "q", Sep, "r">>,
     <<"u", Sep, "D", Sep, "p">>, <<"o", "v", "p", "u">>}
=============================================================================
