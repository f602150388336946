------------------------------ MODULE MCWriter ------------------------------
(* An instance of Writer: blocks of two bytes, chunks of two blocks, content *)
(* that may look like padding.                                               *)
EXTENDS Writer

MCPieces == {<<>>, <<1>>, <<3, 2, 2>>, <<3, 3, 3, 3, 3>>}
=============================================================================
