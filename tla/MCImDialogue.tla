---------------------------- MODULE MCImDialogue ----------------------------
\* Instances of ImDialogue for TLC.
EXTENDS ImDialogue

OneWindow == <<0>>
TwoWindows == <<0, 1>>
=============================================================================
