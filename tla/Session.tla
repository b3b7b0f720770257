------------------------------- MODULE Session -------------------------------
(***************************************************************************)
(* How one HTTP request touches the database (core/database.py, get_db):   *)
(* every request has a session of its own, which is one READ COMMITTED     *)
(* transaction, committed when the handler returns and rolled back when it *)
(* raises.  Rows are read without a lock (no with_for_update and no        *)
(* version_id_col anywhere in src/apps), changed in memory, and written    *)
(* back by the flush that precedes the commit.                             *)
(*                                                                         *)
(* The components split a handler accordingly: a step that reads the rows, *)
(* tests the guards on what it read and computes the new column values,    *)
(* and a Commit step that writes them.  Steps of other requests may come   *)
(* in between.  A handler that raises before its commit leaves no trace.   *)
(***************************************************************************)

(* The column of a row after a flush.  SQLAlchemy's UPDATE names only the  *)
(* columns whose value in memory differs from the value that was loaded; a *)
(* column that was assigned its old value keeps whatever is stored now.    *)
Flushed(loaded, assigned, stored) ==
    IF assigned = loaded THEN stored ELSE assigned

==============================================================================
