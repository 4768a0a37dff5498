---------------------------- MODULE MCPipeStreams ----------------------------
(* All texts of up to five bytes; two bytes of a line fit the buffers.         *)
EXTENDS PipeStreams
=============================================================================
