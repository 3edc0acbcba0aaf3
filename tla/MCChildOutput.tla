---------------------------- MODULE MCChildOutput ----------------------------
(***************************************************************************)
(* ChildOutput with short command lines and short texts.                   *)
(***************************************************************************)
EXTENDS ChildOutput

CONSTANT MaxWords

MCErrors == {"quota", "auth"}
MCErrorOf ==
    [e \in MCErrors |->
        IF e = "quota"
        THEN [kind |-> "RateLimited", hints |-> {10}, delays |-> {30}, reasons |-> {"QUOTA_EXCEEDED"}]
        ELSE [kind |-> "AuthRejected", hints |-> {}, delays |-> {}, reasons |-> {}]]

MCCommandLines == BoundedSeq(Words, MaxWords)

\* Both streams together print at most four symbols, the marker's halves among them.
MCNativeScripts ==
    {s \in [Streams -> BoundedSeq({"m1", "m2", "x"}, 3)] :
        /\ Len(s["out"]) + Len(s["err"]) <= 4
        /\ \E t \in Streams : "m1" \in Range(s[t]) /\ "m2" \in Range(s[t])}

Bytes == {"{", "}", "x", "m", "n", Quote}
\* The scan stops at braces only: of three symbols the first is one.
Around  == {uv \in BoundedSeq(Bytes, 3) \X BoundedSeq(Bytes, 1) :
                \/ Len(uv[1]) + Len(uv[2]) <= 2
                \/ Len(uv[1]) + Len(uv[2]) = 3 /\ Head(uv[1]) = "{"}

\* A document with something around it.
MCTexts == {uv[1] \o <<"{", "quota", "}">> \o uv[2] : uv \in Around}
           \cup {<<"{", "quota", "}", "{", "auth", "}">>, <<"{", "auth", "}", "{", "quota", "}">>,
                 <<"{", "quota", "auth", "}">>,
                 \* closed on a later line; too long for the parser; a string that hides a document
                 <<"{", "x", "n", "{", "quota", "}", "}">>,
                 <<"{", "m", "x", "x", "x", "x", "{", "quota", "}", "}">>,
                 <<"{", Quote, "{", "auth", "}", "n", "{", "quota", "}">>,
                 \* a brace in a string, and one on the line of a brace never closed
                 <<"{", "m", Quote, "{", Quote, "}", "{", "quota", "}", Quote, "}">>,
                 <<"{", "x", "{", "m", "n", "{", "quota", "}", "}">>}
=============================================================================
