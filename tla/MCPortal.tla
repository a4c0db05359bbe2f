------------------------------ MODULE MCPortal ------------------------------
(* Two people: a1 and a2 are one person's two providers, which spell their *)
(* email differently; o1 is somebody else, at the first person's browser.  *)
EXTENDS Portal

CONSTANTS b1, b2, n1, n2, a1, a2, o1

MCEmailOf    == [s \in Subjects |-> CASE s = a1 -> "A@x" [] s = a2 -> "a@x" [] OTHER -> "o@y"]
MCLower      == [e \in {"A@x", "a@x", "o@y", "dev@maping.local"} |-> IF e = "A@x" THEN "a@x" ELSE e]
MCProviderOf == [s \in Subjects |-> IF s = a2 THEN "google" ELSE "github"]
MCCanUse     == [b \in Browsers |-> IF b = b1 THEN {a1, o1} ELSE {a2}]
MCMaxKeys    == [oidc |-> 3, dev |-> 2]
=============================================================================
