------------------------------ MODULE MCDriver ------------------------------
(* Command lines of up to three words over three files, two of which can   *)
(* be reached by two paths.                                                *)
EXTENDS Driver

MCFileAt ==
  [p \in {"a.out", "./a.out", "x.s", "./x.s", "y.s"} |->
    CASE p \in {"a.out", "./a.out"} -> "a.out"
      [] p \in {"x.s", "./x.s"}     -> "x.s"
      [] OTHER                      -> "y.s"]

MCPaths == DOMAIN MCFileAt
MCFiles == {"a.out", "x.s", "y.s"}
MCTexts == {"good", "bad label", "bad line"}

MCWords == {w \in Words : w.kind = "bad" => w.path = "x.s"}

MCCommandLines == UNION {[1 .. k -> MCWords] : k \in 0 .. 3}
=============================================================================
