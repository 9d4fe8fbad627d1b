--------------------------- MODULE ProviderCatalog ---------------------------
(***************************************************************************)
(* The embedded hosting presets (package presets) as the catalogue screen  *)
(* of the cockpit lists them, and the clipboard it copies to.              *)
(*                                                                         *)
(* A directory entry is a record: its stem and form stand for the file     *)
(* name, raw for what reading and validating it gives, and id, status and  *)
(* market are the preset's.  Ids are numbers in their string order.        *)
(***************************************************************************)
EXTENDS Integers, Sequences, SequencesExt

\* Regular *.json files; neither schema.json nor names with a leading "_".
shouldLoadEntry(entry) == entry.form = "json"

\* Readable, and accepted by the schema and the secret tripwire.
Parse(entry) == entry.raw = "preset"

\* loadDir: a file that fails or whose name is not its id is an error of its
\* own and does not hide the others.  As names differ, ids do too.
loadDir(dir) ==
    LET files == {e \in dir : shouldLoadEntry(e)}
        good == {e \in files : Parse(e) /\ e.stem = e.id}
    IN  [presets |-> good, errors |-> {e.stem : e \in files \ good}]

\* Two of the codes of europeanMarkets.
EuropeanMarkets == {"DE", "UK"}
DisplayOrder == <<"Poland", "Europe", "Global", "Advanced">>

\* Preset.Region, from the first market.
Region(p) ==
    CASE p.market = "none" -> "Advanced"
      [] p.market = "PL" -> "Poland"
      [] p.market \in EuropeanMarkets -> "Europe"
      [] OTHER -> "Global"

Ranks == <<"verified", "candidate", "research", "community", "deprecated">>
statusRank(p) == CHOOSE i \in DOMAIN Ranks : Ranks[i] = p.status

\* sortByStatusThenID.
StatusThenID(p, q) ==
    statusRank(p) < statusRank(q) \/ (statusRank(p) = statusRank(q) /\ p.id < q.id)

Regions(presets) ==
    SelectSeq(DisplayOrder, LAMBDA r : \E p \in presets : Region(p) = r)

ByRegion(presets, region) ==
    SetToSortSeq({p \in presets : Region(p) = region}, StatusThenID)

\* catalogSnapshot and catalogRows: the groups of the regions, joined.
catalogRows(presets) ==
    LET regions == Regions(presets)
    IN  FlattenSeq([i \in DOMAIN regions |-> ByRegion(presets, regions[i])])

\* catalogRowIndex, counted from 1; 0 when no row has the id.
catalogRowIndex(rows, id) == SelectInSeq(rows, LAMBDA row : row.id = id)

\* The rows above and below, around the ends.
RowAbove(rows, id) ==
    LET i == catalogRowIndex(rows, id) IN rows[IF i <= 1 THEN Len(rows) ELSE i - 1].id
RowBelow(rows, id) == rows[(catalogRowIndex(rows, id) % Len(rows)) + 1].id
-----------------------------------------------------------------------------
\* A clipboard helper is run: one that is not installed cannot start; one
\* that is gets the text, but the reader of its stdin ends with an error that
\* is not io.EOF, which exec.Cmd reports.
RunHelper(installed, helper) == IF helper \in installed THEN "EOF" ELSE "not found"

clipboardCandidates == <<"xsel", "xclip", "wl-copy">>

\* clipboardCopy: the helpers in order until one returns no error.
clipboardCopy(installed) ==
    IF \E i \in DOMAIN clipboardCandidates : RunHelper(installed, clipboardCandidates[i]) = "nil"
    THEN "nil" ELSE "failed"
=============================================================================
