-------------------------- MODULE LaunchDiagnostics --------------------------
(***************************************************************************)
(* launch_observation.rs: what sagy concludes from the standard error of a *)
(* child.  The parser is fed chunks, keeps only the part of the text that  *)
(* may still become a document, and merges the verdicts of the documents   *)
(* that are complete, free of duplicate keys and of Google's error shape.  *)
(*                                                                         *)
(* Text is a sequence of symbols: "{", "}", a quote, "n" (a newline), "x"  *)
(* (any other byte), "m" (`"r":', the comma before it included) and the    *)
(* members of Errors, each a whole member `"error":{...}' together with    *)
(* the root's `Retry-After'.  "m" and an error hold as many opening as     *)
(* closing braces and an even number of quotes, so that nothing changes    *)
(* for a count of braces that passes them, inside a string or outside.     *)
(***************************************************************************)
EXTENDS FiniteSetsExt, SequencesExt, Integers

CONSTANTS
    Errors,       \* the error members that occur
    ErrorOf,      \* each one's kind, hints, delays and reasons
    MaxDiagnostic \* MAX_DIAGNOSTIC_BYTES, in symbols

Quote   == "quote"
Known   == {"m"} \cup Errors
Symbols == {"{", "}", Quote, "n", "x"} \cup Known

ASSUME DiagnosticsAssumption ==
    /\ MaxDiagnostic \in Nat \ {0}
    /\ Errors \cap {"{", "}", Quote, "n", "x", "m"} = {}
    /\ \A e \in Errors :
         ErrorOf[e] \in [kind: {"RateLimited", "AuthRejected", "PermissionDenied", "other"},
                         hints: SUBSET Nat, delays: SUBSET Nat, reasons: SUBSET STRING]

---------------------------------------------------------------------------
(* The verdict on one document.                                            *)

Diagnostics ==
    [kind : {"None", "RateLimited", "AuthRejected", "PermissionDenied"}, after : Nat]
None == [kind |-> "None", after |-> 0]

Bounded(seconds) == IF seconds < 30 THEN 30 ELSE IF seconds > 3600 THEN 3600 ELSE seconds

\* reason_matches_kind, with two reasons of each kind.
ReasonsOf(kind) ==
    CASE kind = "RateLimited"      -> {"QUOTA_EXCEEDED", "RATE_LIMIT_EXCEEDED"}
      [] kind = "AuthRejected"     -> {"ACCESS_TOKEN_EXPIRED", "UNAUTHENTICATED"}
      [] kind = "PermissionDenied" -> {"BILLING_DISABLED", "SERVICE_DISABLED"}
      [] OTHER                     -> {}

\* read_retry_after: the hints are brought into bounds before they are compared.
Hints(e) == {Bounded(h) : h \in e.hints}

\* classify_google_error.  The delays of RetryInfo are not bounded first.
Classify(e) ==
    LET delays == Hints(e) \cup e.delays
        after  == IF delays = {} THEN 300 ELSE CHOOSE d \in delays : TRUE
    IN  IF e.kind = "other" \/ Cardinality(delays) > 1 \/ ~(e.reasons \subseteq ReasonsOf(e.kind))
        THEN None
        ELSE [kind  |-> e.kind,
              after |-> IF e.kind = "RateLimited" THEN Bounded(after) ELSE 0]

\* diagnostic_priority and merge: of two equally grave ones the first stays.
Priority(d) == CASE d.kind = "AuthRejected" -> 3 [] d.kind = "PermissionDenied" -> 2
                 [] d.kind = "RateLimited"  -> 1 [] OTHER -> 0

Merge(found, d) == IF Priority(found) >= Priority(d) THEN found ELSE d

---------------------------------------------------------------------------
(* One JSON object.  A result says how it ended: "ok" with the index of    *)
(* its last symbol and its error member, "more" when the text ends first,  *)
(* "bad" when no continuation is a document.                               *)

Outcome(how, last, members) ==
    [how |-> how, last |-> last,
     verdict |-> IF members \cap Errors = {} THEN None
                 ELSE Classify(ErrorOf[CHOOSE e \in members \cap Errors : TRUE])]
More == Outcome("more", 0, {})
Bad  == Outcome("bad", 0, {})

\* A string whose first symbol after the quote is t[i].
StringAt(t, i) ==
    LET stops == {j \in i..Len(t) : t[j] \in {Quote, "n"} \cup Known} IN
    IF stops = {} THEN More
    ELSE IF t[Min(stops)] = Quote THEN Outcome("ok", Min(stops), {}) ELSE Bad

\* What follows t[i], newlines apart.
Ahead(t, i) == {j \in i + 1 .. Len(t) : t[j] # "n"}

\* The value of the "m" at i: an object or a string.
ValueAt(t, object, i) ==
    LET from == Min(Ahead(t, i))
    IN  IF Ahead(t, i) = {} THEN More
        ELSE CASE t[from] = "{"   -> object[from + 1][{}]
               [] t[from] = Quote -> StringAt(t, from + 1)
               [] OTHER           -> Bad

\* A bare key, whose quote is at i: no colon can follow.
KeyAt(t, i) ==
    LET key == StringAt(t, i + 1)
    IN  IF key.how # "ok" THEN key
        ELSE IF \A j \in key.last + 1 .. Len(t) : t[j] = "n" THEN More ELSE Bad

\* NoDuplicateValue: what follows at i in an object that has these members.
ObjectAt(t, object, i, members) ==
    LET value == ValueAt(t, object, i) IN
        IF i > Len(t) THEN More
        ELSE CASE t[i] = "n"      -> object[i + 1][members]
               [] t[i] = "}"      -> Outcome("ok", i, members)
               [] t[i] \in Errors ->
                      IF members \cap Errors # {} THEN Bad ELSE object[i + 1][members \cup {t[i]}]
               [] t[i] = "m"      ->
                      IF "m" \in members THEN Bad
                      ELSE IF value.how = "ok" THEN object[value.last + 1][members \cup {"m"}]
                      ELSE value
               [] t[i] = Quote    -> KeyAt(t, i)
               [] OTHER           -> Bad

ObjectsOf(t) ==
    LET object[i \in 1 .. Len(t) + 1] ==
            [members \in SUBSET Known |-> ObjectAt(t, object, i, members)]
    IN  object

\* parse_first_value
FirstValue(t, i) == ObjectsOf(t)[i + 1][{}]

---------------------------------------------------------------------------
(* The extent of a candidate, whether it is a document or not.             *)

\* Where the brace is that brings the depth at i back to none, 0 if nowhere.
ClosingAt(t, closing, i, inString, depth) ==
    IF i > Len(t) THEN 0
    ELSE CASE t[i] = Quote              -> closing[i + 1][~inString][depth]
           [] t[i] = "{" /\ ~inString -> closing[i + 1][FALSE][depth + 1]
           [] t[i] = "}" /\ ~inString -> IF depth = 1 THEN i ELSE closing[i + 1][FALSE][depth - 1]
           [] OTHER                    -> closing[i + 1][inString][depth]

ClosingOf(t) ==
    LET closing[i \in 1 .. Len(t) + 1] ==
            [inString \in BOOLEAN |->
                [depth \in Nat \ {0} |-> ClosingAt(t, closing, i, inString, depth)]]
    IN  closing

\* candidate_document_extent: the index of the brace that closes t[i], 0 if none.
Extent(t, i) == ClosingOf(t)[i + 1][FALSE][1]

\* object_start_kind
ObjectStart(t, i) ==
    IF Ahead(t, i) = {} THEN "Undecided"
    ELSE IF t[Min(Ahead(t, i))] \in {Quote, "}", "m"} \cup Errors THEN "Possible"
    ELSE "Impossible"

\* rest_of_line: the index after the line that t[i] is on.
EndOfLine(t, i) == Min({j \in i..Len(t) : t[j] = "n"} \cup {Len(t)}) + 1

Skipped(t, i, otherwise) == IF Extent(t, i) # 0 THEN Extent(t, i) + 1 ELSE otherwise

\* Seeded bug: a brace that starts no object is a byte like any other.
AfterByte(t, i, atEof) ==
    LET value == FirstValue(t, i) IN
    CASE ObjectStart(t, i) = "Impossible" -> i + 1
      [] ObjectStart(t, i) = "Undecided"  -> IF atEof THEN i + 1 ELSE i
      [] OTHER -> IF value.how = "ok" THEN value.last + 1
                  ELSE IF value.how = "more" /\ ~atEof THEN i
                  ELSE Skipped(t, i, IF atEof THEN EndOfLine(t, i) ELSE i)

\* Seeded bug: a candidate that cannot become a document is left at once.
AfterHasty(t, i, atEof) ==
    LET value == FirstValue(t, i) IN
    CASE ObjectStart(t, i) = "Undecided" -> IF atEof THEN i + 1 ELSE i
      [] ObjectStart(t, i) = "Possible" /\ value.how = "ok" -> value.last + 1
      [] ObjectStart(t, i) = "Possible" /\ value.how = "more" /\ ~atEof -> i
      [] OTHER -> Skipped(t, i, EndOfLine(t, i))

\* Where to go on after the brace at i; i itself to wait for more text.
After(t, i, atEof) ==
    LET value   == FirstValue(t, i)
        lineEnd == IF atEof THEN EndOfLine(t, i) ELSE i
    IN  CASE ObjectStart(t, i) = "Impossible" ->
                 Skipped(t, i, IF \E j \in i..Len(t) : t[j] = "n" THEN EndOfLine(t, i) ELSE lineEnd)
          [] ObjectStart(t, i) = "Undecided" -> IF atEof THEN i + 1 ELSE i
          [] OTHER -> IF value.how = "ok" THEN value.last + 1
                      ELSE IF value.how = "more" /\ ~atEof THEN i
                      ELSE Skipped(t, i, lineEnd)

Evidence(t, i) ==
    IF ObjectStart(t, i) = "Possible" /\ FirstValue(t, i).how = "ok"
    THEN FirstValue(t, i).verdict ELSE None

\* LaunchDiagnosticParser::scan: what is kept and what is found, from a cursor on.
ScanAt(t, atEof, scan, cursor, found) ==
    LET braces == {i \in cursor..Len(t) : t[i] = "{"}
        i == Min(braces)
    IN  IF braces = {} THEN [pending |-> <<>>, found |-> found]
        ELSE IF After(t, i, atEof) = i
        THEN [pending |-> SubSeq(t, i, Len(t)), found |-> found]
        ELSE scan[After(t, i, atEof)][Merge(found, Evidence(t, i))]

ScanOf(t, atEof) ==
    LET scan[cursor \in 1 .. Len(t) + 1] ==
            [found \in Diagnostics |-> ScanAt(t, atEof, scan, cursor, found)]
    IN  scan

Scan(text, atEof, found) == ScanOf(text, atEof)[1][found]

---------------------------------------------------------------------------
(* LaunchDiagnosticParser.  dropped is history: a candidate was discarded. *)

NewParser == [pending |-> <<>>, found |-> None, dropped |-> FALSE]

\* What is kept of a scan is bounded.
Keep(parser, scanned) ==
    LET tooLarge == Len(scanned.pending) > MaxDiagnostic
    IN  [pending |-> IF tooLarge THEN <<>> ELSE scanned.pending,
         found   |-> scanned.found,
         dropped |-> parser.dropped \/ tooLarge]

Feed(parser, chunk) == Keep(parser, Scan(parser.pending \o chunk, FALSE, parser.found))

\* try_finish: only a child that failed proves anything.
Finish(parser, failed) == IF failed THEN Scan(parser.pending, TRUE, parser.found).found ELSE None
=============================================================================
