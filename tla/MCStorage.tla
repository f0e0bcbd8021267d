------------------------------ MODULE MCStorage ------------------------------
(***************************************************************************)
(* Small instances of Storage.                                             *)
(***************************************************************************)
EXTENDS Storage

\* Camera 2 keeps its event footage for good and its continuous footage
\* longer than camera 1.  Both set a favorites limit, which the code ignores.
MCCameraLimits ==
  [c \in Camera |->
     IF c = 1
       THEN [continuous |-> 0, motion |-> 0, event |-> 1, favorite |-> 0]
       ELSE [continuous |-> 1, motion |-> 1, event |-> Forever, favorite |-> 0]]

\* For the short runs of the clock: camera 1's footage expires at once, camera
\* 2 keeps its continuous footage a little longer and its events for good.
MCShortLimits ==
  [c \in Camera |->
     IF c = 1
       THEN [continuous |-> 0, motion |-> 0, event |-> 0, favorite |-> 0]
       ELSE [continuous |-> 1, motion |-> 0, event |-> Forever, favorite |-> 0]]

\* Ranges over the first two slots; a few.
MCTwoSlots == {<<0, 1>>, <<0, 2>>, <<1, 2>>}
MCFewSpans == {<<0, 1>>, <<0, 2>>}

\* Camera 1, which comes first in the index, writes the larger files.
MCSizeOf == [c \in Camera |-> IF c = 1 THEN 2 ELSE 1]
MCUnitSize == [c \in Camera |-> 1]
==============================================================================
