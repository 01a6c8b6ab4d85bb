----------------------------- MODULE GovulnWrapper -----------------------------
(***************************************************************************)
(* The vulnerability gate (hack/govulncheck_wrapper/main.go): it runs      *)
(* govulncheck for JSON, subtracts the ignore list, and runs it again for  *)
(* traces, of which it prints those of the identifiers left.               *)
(*                                                                         *)
(* A scan holds both runs, which need not agree: each has started or not,  *)
(* an exit code, and its output.  The JSON is the set of identifiers found *)
(* and whether it parses; the traces are lines, records of a kind and the  *)
(* identifier they speak of: "header", "summary", "text", or "long" for a  *)
(* line over the scanner's limit.  show tells whether traces of ignored    *)
(* identifiers are asked for; readable, whether the ignore list is.        *)
(***************************************************************************)
EXTENDS Integers, SequencesExt

\* Mutant: any exit code is taken for an answer.
runGovulncheck_AnyExit(r) == [code |-> r.rc, ok |-> r.started]

\* govulncheck ends with 0, or with 3 when it found something.
runGovulncheck(r) ==
    IF ~r.started THEN [code |-> 2, ok |-> FALSE]
    ELSE [code |-> r.rc, ok |-> r.rc \in {0, 3}]

unignoredIDs(found, ignored) == found \ ignored

\* A header starts a block, which ends before the next header or summary; lines
\* outside of a block are dropped.  The scanner stops at a line over its limit:
\* the block it is in is lost, the blocks before it stay printed.  The order of
\* the printed lines is that of the input and is left out.
filterTraces(lines, ids) ==
    LET Heads(h, i) == /\ lines[h].kind = "header" /\ h <= i
                       /\ \A j \in h + 1 .. i : lines[j].kind = "text"
        longs  == {i \in DOMAIN lines : lines[i].kind = "long"}
        Flushed(i) == \/ longs = {}
                      \/ /\ \A l \in longs : i < l
                         /\ \E j \in DOMAIN lines :
                                /\ i < j /\ lines[j].kind \in {"header", "summary"}
                                /\ \A l \in longs : j < l
    IN  [printed |-> {lines[i] : i \in {k \in DOMAIN lines : Flushed(k) /\ \E h \in 1 .. k :
                                           Heads(h, k) /\ lines[h].id \in ids}},
         failed  |-> longs # {}]

\* The second run: its own failure is the result, else the filtered traces.
Traces(scan, ids, code, unmatched) ==
    LET run      == runGovulncheck(scan.traces)
        filtered == filterTraces(scan.traces.lines, ids)
    IN  IF ~run.ok THEN [code |-> run.code, printed |-> {}]
        ELSE IF filtered.failed THEN [code |-> 2, printed |-> filtered.printed]
        ELSE IF filtered.printed = {} THEN [code |-> unmatched, printed |-> ToSet(scan.traces.lines)]
        ELSE [code |-> code, printed |-> filtered.printed]

handleIgnoredFindings(scan) ==
    IF ~scan.show \/ scan.json.found = {}
    THEN [code |-> 0, printed |-> {}]
    ELSE Traces(scan, scan.json.found, 0, 0)

\* No trace of what was found means the format changed: the raw output and 2.
handleUnignoredFindings(scan, unignored) == Traces(scan, unignored, 1, 2)

govulncheck(scan, ignored) ==
    LET json      == runGovulncheck(scan.json)
        unignored == unignoredIDs(scan.json.found, ignored)
    IN  IF ~scan.readable THEN [code |-> 2, printed |-> {}]
        ELSE IF ~json.ok THEN [code |-> json.code, printed |-> {}]
        ELSE IF ~scan.json.parses THEN [code |-> 2, printed |-> {}]
        ELSE IF unignored = {} THEN handleIgnoredFindings(scan)
        ELSE handleUnignoredFindings(scan, unignored)
=============================================================================
