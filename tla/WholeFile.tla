----------------------------- MODULE WholeFile -----------------------------
(***************************************************************************)
(* os.ReadFile and os.WriteFile on a file that is always read and written  *)
(* as a whole and that nothing locks.  The content is what a reader makes  *)
(* of it: text it cannot parse counts as no content, None.                 *)
(***************************************************************************)

CONSTANT None

\* os.WriteFile opens the file with O_TRUNC, ...
Truncated == None

\* ... then writes at offset 0.  If somebody else has written since, the longer
\* text shows behind the shorter one, unless it is covered.
Written(content, data) == IF content = None THEN {data} ELSE {data, None}
=============================================================================
