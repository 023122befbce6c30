-------------------------- MODULE MCUploadSessions --------------------------
(* Instances of UploadSessions for TLC. *)
EXTENDS UploadSessions, TLC

CONSTANTS I, J,     \* uploads
          O, P,     \* structs
          R, S,     \* requests
          K, L      \* chunks

MCTwoUploads == {I, J}
MCObjects    == {O, P}
MCRequests   == {R, S}
MCChunks     == {K, L}
MCNothing    == {}

StructSymmetry == Permutations({I, J}) \cup Permutations({O, P}) \cup Permutations({R, S})
                  \cup Permutations({K, L})

=============================================================================
