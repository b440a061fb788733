----------------------------- MODULE MCGfServer -----------------------------
(* Small instances of GfServer: requests for a file and for an unknown key, *)
(* one with a wrong method, and one too long for the buffer.                *)
EXTENDS GfServer

CONSTANTS c1, c2

MCPaths   == {"/a", "/b"}
MCFileLen == [p \in {"/a"} |-> 3]

Get(p)  == <<"GETFILE", "GET", p, END>>
Proper  == {Get(p) : p \in MCPaths}
MCTexts == Proper \cup {<<"GETFILE", "PUT", "/a", END>>,
                        <<"GETFILE", "GET", "/a", "junk", "junk", "junk", END>>}
=============================================================================
