------------------------------ MODULE MCInvoke ------------------------------
(* Small instances of Invoke: a directory and a file under it, and the     *)
(* values of the other constants in the configurations.                    *)
EXTENDS Invoke

MCPaths == {"dir", "file"}
MCAllows == {<<"dir", "dir">>, <<"file", "file">>, <<"dir", "file">>}
=============================================================================
