---------------------------- MODULE MCFileRelay ----------------------------
(* Instances of FileRelay for TLC. *)
EXTENDS FileRelay, TLC

CONSTANTS D, E  \* requests

MCDownloads == {D, E}
MCLeaver == {D}
MCSizes == [d \in MCDownloads |-> IF d = D THEN 2 ELSE 1]

=============================================================================
