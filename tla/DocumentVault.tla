---------------------------- MODULE DocumentVault ----------------------------
(***************************************************************************)
(* What core/documents/service.py promises about the uploads of one        *)
(* document, without rows, locks or a file system: the contents form a     *)
(* list that only grows, the n-th content is version n, and every content  *)
(* of the list can be read for ever.                                       *)
(***************************************************************************)
EXTENDS Sequences

CONSTANT Objects  \* the contents that can be uploaded

VARIABLE stored

Init == stored = <<>>

Upload == \E o \in Objects : stored' = Append(stored, o)

Spec == Init /\ [][Upload]_stored
=============================================================================
