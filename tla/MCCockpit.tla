----------------------------- MODULE MCCockpit -----------------------------
(* Model values for Cockpit. *)
EXTENDS Cockpit

MCConfigured == <<"shop">>

\* Two features at a time; the wizard with those its commands can meet, which
\* are the other one that saves configurations and the one that rolls back.
Pairs == {f \in SUBSET Feature : Cardinality(f) <= 2 /\
            ("wizard" \in f => f \subseteq {"wizard", "resume", "import"})}

Entry(stem, form, raw, id, status, market) ==
    [stem |-> stem, form |-> form, raw |-> raw, id |-> id, status |-> status, market |-> market]

\* Two presets, and files that are refused or skipped.
SomeFiles == {
    Entry(1, "json", "preset", 1, "candidate", "DE"),
    Entry(2, "json", "preset", 2, "verified", "PL"),
    Entry(3, "json", "preset", 2, "verified", "PL"),
    Entry(4, "json", "invalid", 4, "verified", "PL"),
    Entry(5, "directory", "preset", 5, "verified", "PL")}

\* The registry's groups against a definition without them: every loaded
\* preset is listed once, by region, status and id, and the cursor that goes
\* down comes past all of them, for every choice of three presets' statuses
\* and markets.
ASSUME CatalogIsSorted ==
    \A s \in [1..3 -> {"verified", "research", "deprecated"}],
       g \in [1..3 -> {"none", "PL", "UK", "global", "US"}] :
        LET presets == {Entry(i, "json", "preset", i, s[i], g[i]) : i \in 1..3}
            rows == catalogRows(loadDir(presets).presets)
            place(p) == CHOOSE i \in 1..4 : DisplayOrder[i] = Region(p)
        IN  /\ ToSet(rows) = presets /\ Len(rows) = 3
            /\ \A i \in 1..2 : LET p == rows[i]  q == rows[i + 1]
                  IN  \/ place(p) < place(q)
                      \/ place(p) = place(q) /\ StatusThenID(p, q)
            /\ \A p \in presets : RowAbove(rows, RowBelow(rows, p.id)) = p.id
=============================================================================
