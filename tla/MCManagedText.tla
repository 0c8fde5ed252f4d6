--------------------------- MODULE MCManagedText ---------------------------
(* Small instances of ManagedText. *)
EXTENDS ManagedText

\* A body with a newline of each kind within and behind it, none, and one that
\* holds a marker.
MCBodies == {<<"LF", "line 1", "CRLF", "line 2", "LF", "CRLF">>, <<>>, <<"line 1", "LF", "managed:end">>}

MCFirstTexts ==
  {<<"user">>,
   <<"user", "CRLF", "user", "LF">>,
   <<"---", "LF", "user", "LF", "---", "LF", "user", "LF">>,
   <<"---", "CRLF", "user", "CRLF", "---", "CRLF">>}
============================================================================
