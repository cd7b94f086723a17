-------------------------- MODULE MCSchemaMigration ---------------------------
(* The schema's history with releases before and after each change of rows. *)
EXTENDS SchemaMigration

MCRelease == {6, 12, 31, 36}
==============================================================================
