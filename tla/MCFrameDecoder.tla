--------------------------- MODULE MCFrameDecoder ---------------------------
\* TLC: every stream of Length bytes, in every division into chunks.
EXTENDS FrameDecoder
=============================================================================
