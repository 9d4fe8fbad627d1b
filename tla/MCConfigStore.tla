--------------------------- MODULE MCConfigStore ---------------------------
(* A small instance of ConfigStore for TLC. *)
EXTENDS ConfigStore

CONSTANTS p1, p2, a1, d1, d2

Made(v, profiles, projects) ==
    [version |-> v, profiles |-> profiles, projects |-> projects]

\* A migratable file, one without profiles, one whose project has no profile,
\* one from a newer webox; no file, and garbage.
SomeOriginals ==
    {Made(0, {a1}, {<<d1, a1>>}), Made(1, {}, {}), Made(1, {}, {<<d1, a1>>}),
     Made(2, {a1}, {}), Absent, Broken}
=============================================================================
