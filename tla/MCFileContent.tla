--------------------------- MODULE MCFileContent ---------------------------
(***************************************************************************)
(* An upload, of a new file or of the file's content, and saves and        *)
(* proposals of the same or of other content beside it.                    *)
(***************************************************************************)
EXTENDS FileContent

MCUploads == {"u"}
MCContents == {"a", "b"}
MCDeclared == [u \in MCUploads |-> "a"]
=============================================================================
