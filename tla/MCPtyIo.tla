------------------------------ MODULE MCPtyIo -------------------------------
(* Small instances of PtyIo: deques of two, keys of one and three bytes.    *)
EXTENDS PtyIo

MCKeyLens == {1, 3}

=============================================================================
