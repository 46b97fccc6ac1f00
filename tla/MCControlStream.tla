-------------------------- MODULE MCControlStream --------------------------
EXTENDS ControlStream

MCPrefix == <<3>>
MCLines == {<<3>>, <<3, 1>>, <<3, 3, 2>>}
\* Frames with zeros and line feeds anywhere, full groups, and the longest one.
MCFrames == (SeqOf({0, 1, 4}, 3) \ {<<>>}) \cup {<<1, 1, 1, 1>>, <<3, 1, 4, 0>>, <<4, 3, 4, 1>>}
=============================================================================
