------------------------------ MODULE MCDecide ------------------------------
(***************************************************************************)
(* Two loops over a folder with a request of each kind.                    *)
(***************************************************************************)
EXTENDS Decide

Folder == <<"none", "answering", "none", "reading">>
=============================================================================
