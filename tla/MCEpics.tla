------------------------------- MODULE MCEpics -------------------------------
(* Two containers of one design document.                                  *)
EXTENDS Epics

MCEpics == {1, 2}
MCDocs == {"design"}
MCSame == [e \in Epics |-> "design"]
=============================================================================
