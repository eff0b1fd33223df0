------------------------------ MODULE ContextNames ------------------------------
(***************************************************************************)
(* Context names as the system writes, cleans and compares them: what the  *)
(* conversions of backend and pages tell apart.                            *)
(***************************************************************************)
CONSTANTS Words,    \* context names, apart from how they are written
          NoFilter  \* no context

\* A name is written plainly, with a single or a double hyphen (a SQL comment
\* token), with a blank inside, without any letter of a-z, in more than 255 characters,
\* or in the first 255 of such a name; in capitals or not.
Context == [word : Words, upper : BOOLEAN,
            mark : {"plain", "hyphen", "dashes", "blank", "foreign", "long", "cut"}]

ASSUME ContextNamesAssumption == NoFilter \notin Context

Lower(c) == [c EXCEPT !.upper = FALSE]

\* contextMiddleware: lower case, "--" is stripped, 255 characters are kept, a blank
\* is kept.
MiddlewareContext(c) ==
  CASE c.mark = "dashes" -> [Lower(c) EXCEPT !.mark = "plain"]
    [] c.mark = "long"   -> [Lower(c) EXCEPT !.mark = "cut"]
    [] OTHER             -> Lower(c)

\* sanitizeContext: lower case, a blank is stripped, "-" is an allowed character, and
\* the length is as it is; nothing is left of a name in other letters, and no context is
\* no filter.
SanitizeContext(c) ==
  IF c = NoFilter \/ c.mark = "foreign" THEN NoFilter
  ELSE IF c.mark = "blank" THEN [Lower(c) EXCEPT !.mark = "plain"] ELSE Lower(c)

\* normalizeContext of the verifier page: a blank becomes a hyphen.
NormalizeContext(c) ==
  IF c.mark = "blank" THEN [Lower(c) EXCEPT !.mark = "hyphen"] ELSE Lower(c)
================================================================================
