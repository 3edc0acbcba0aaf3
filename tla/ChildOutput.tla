----------------------------- MODULE ChildOutput -----------------------------
(***************************************************************************)
(* From the words typed after `sagy' to the end of the agy they start:     *)
(* cli/mod.rs (the route and the choice of a native session),              *)
(* native_session.rs (the Keychain helper, the output guard) and the       *)
(* running half of launcher.rs (a child whose standard error is inherited, *)
(* or piped, mirrored and observed).                                       *)
(*                                                                         *)
(* A reader thread hands each chunk it reads to the loop of sagy through   *)
(* an unbounded channel, or is that loop; the model takes a chunk from the *)
(* pipe and handles it in one step.  Output that the child inherits from   *)
(* sagy does not pass through it.  In a native session a symbol is "m1" or *)
(* "m2", the halves of an authentication marker, or "x".                   *)
(***************************************************************************)
EXTENDS LaunchArguments, LaunchDiagnostics

CONSTANTS
    CommandLines,    \* what is typed
    NativeScripts,   \* what a native agy prints on each stream
    Texts,           \* what a managed agy prints on standard error
    PipeSize,        \* a pipe's capacity
    MaxChunk,        \* the buffer of a read
    MaxPreamble,     \* MAX_NATIVE_PREAMBLE_BYTES
    MaxScan,         \* MAX_AUTH_SCAN_BYTES
    TailSize,        \* NATIVE_OUTPUT_TAIL_BYTES
    MaxFaults        \* bound on the failures of reads, writes and waits

Streams == {"out", "err"}

\* The scan keeps a chunk whole and the symbol before it; the tail keeps the
\* first half of a marker.
ASSUME OutputAssumption ==
    /\ CommandLines \subseteq Seq(Words)
    /\ NativeScripts \subseteq [Streams -> Seq({"m1", "m2", "x"})]
    /\ Texts \subseteq Seq(Symbols)
    /\ {PipeSize, MaxChunk, MaxPreamble, TailSize} \subseteq Nat \ {0}
    /\ MaxScan \in Nat /\ MaxChunk < MaxScan
    /\ MaxFaults \in Nat

Silent  == [s \in Streams |-> <<>>]
Zero    == [s \in Streams |-> 0]

VARIABLES
    argv,      \* the command line, until a child is started
    plan,      \* what it was routed to, until a child is started
    phase,     \* "typed", "planned", "starting", "probing", "running", "done"
    mode,      \* how the child's output is connected
    process,   \* "none", "running", "exited", "reaped"; "lost" without a status
    failed,    \* the child's status is a failure
    script,    \* what the child prints on each stream that is piped
    printed,   \* how much of it is in the pipe or read
    got,       \* how much of it is read
    ended,     \* the streams whose reader has stopped
    out,       \* what sagy has written on each of its own streams
    guard,     \* NativeOutputGuard
    parser,    \* LaunchDiagnosticParser
    verdict,   \* the diagnostic of a managed child
    result,    \* "none"; "code" or an error once known
    faults

command == <<argv, plan>>
reading == <<script, printed, got, ended>>
shown   == <<out, guard, parser, verdict>>
outputVars == <<command, phase, mode, process, failed, reading, shown, result, faults>>

NewGuard == [open |-> FALSE, scan |-> <<>>, pre |-> Silent, tail |-> Silent, early |-> Zero]

OutputInit ==
    /\ argv \in CommandLines /\ plan = Other
    /\ phase = "typed" /\ mode = "none" /\ process = "none" /\ failed = FALSE
    /\ script = Silent /\ printed = Zero /\ got = Zero /\ ended = {}
    /\ out = Silent /\ guard = NewGuard /\ parser = NewParser /\ verdict = None
    /\ result = "none" /\ faults = 0

Fault == faults < MaxFaults /\ faults' = faults + 1

---------------------------------------------------------------------------
(* Starting.                                                               *)

Plans ==
    /\ phase = "typed" /\ phase' = "planned" /\ plan' = Route(argv)
    /\ UNCHANGED <<argv, mode, process, failed, reading, shown, result, faults>>

Forgets == argv' = <<>> /\ plan' = Other

\* No agy: another command, a dry run, no binary, a failed spawn.
Declines ==
    /\ phase \in {"planned", "starting"} /\ phase' = "done" /\ Forgets
    /\ result' = "declined"
    /\ UNCHANGED <<mode, process, failed, reading, shown, faults>>

\* maybe_run_native_session, when there is no account and a session of the
\* provider's own: the helper that looks at the Keychain is started.
Probes ==
    /\ phase = "planned" /\ MayRunNative(plan)
    /\ phase' = "probing" /\ process' = "running" /\ mode' = "native" /\ Forgets
    /\ UNCHANGED <<failed, reading, shown, result, faults>>

\* run_bounded_probe: the helper answers; or it is killed, and waited for.
ProbeEnds ==
    /\ phase = "probing"
    /\ \/ /\ phase' = "running" /\ process' = "running" /\ UNCHANGED result
          /\ \E s \in NativeScripts : script' = s
       \/ /\ phase' = "done" /\ process' = "reaped" /\ result' = "keychain" /\ UNCHANGED script
    /\ UNCHANGED <<command, mode, failed, printed, got, ended, shown, faults>>

ProbeTimesOut ==
    /\ phase = "probing" /\ phase' = "done" /\ process' = "reaped" /\ result' = "keychain"
    /\ UNCHANGED <<command, mode, failed, reading, shown, faults>>

\* run_observed_command: standard error is piped unless sagy's is a terminal.
Connects ==
    /\ phase = "planned" /\ Spawns(plan)
    /\ phase' = "starting" /\ mode' \in {"inherit", "pipe"} /\ Forgets
    /\ UNCHANGED <<process, failed, reading, shown, result, faults>>

Spawning ==
    /\ phase = "starting" /\ phase' = "running" /\ process' = "running"
    /\ IF mode = "inherit" THEN UNCHANGED script
       ELSE \E t \in Texts : script' = [Silent EXCEPT !["err"] = t]
    /\ UNCHANGED <<command, mode, failed, printed, got, ended, shown, result, faults>>

---------------------------------------------------------------------------
(* The child.                                                              *)

\* It waits while the pipe is full; a pipe without a reader takes nothing.
Prints(s) ==
    /\ phase = "running" /\ process = "running" /\ printed[s] < Len(script[s])
    /\ printed[s] - got[s] < PipeSize \/ s \in ended
    /\ printed' = [printed EXCEPT ![s] = @ + 1]
    /\ UNCHANGED <<command, phase, mode, process, failed, script, got, ended, shown, result, faults>>

AllPrinted == \A s \in Streams : printed[s] = Len(script[s])

AgyEnds ==
    /\ phase = "running" /\ process = "running" /\ process' = "exited"
    /\ failed' \in BOOLEAN /\ (~AllPrinted => failed')
    /\ UNCHANGED <<command, phase, mode, reading, shown, result, faults>>

---------------------------------------------------------------------------
(* What both loops do.                                                     *)

Running(m) == phase = "running" /\ mode = m

Chunks(s) == {SubSeq(script[s], got[s] + 1, got[s] + n) : n \in 1..Min({MaxChunk, printed[s] - got[s]})}

\* A reader takes a chunk.
Receives(s, chunk) ==
    /\ s \notin ended /\ chunk \in Chunks(s)
    /\ got' = [got EXCEPT ![s] = @ + Len(chunk)]
    /\ UNCHANGED <<command, mode, failed, script, printed, ended, verdict>>

\* The end of a stream comes when nobody holds the other end of the pipe, here
\* with the end of agy: none of its descendants keeps the pipe open.
EndOfFile(s) ==
    /\ phase = "running" /\ mode \in {"native", "pipe"} /\ s \notin ended
    /\ process # "running" /\ got[s] = printed[s]
    /\ ended' = ended \cup {s}
    /\ UNCHANGED <<command, phase, mode, process, failed, script, printed, got, shown, result, faults>>

Reaps ==
    /\ phase = "running" /\ process = "exited" /\ process' = "reaped"
    /\ UNCHANGED <<command, phase, mode, failed, reading, shown, result, faults>>

\* No status: a native child is killed and waited for once more.
WaitFails ==
    /\ phase = "running" /\ Fault
    /\ \/ mode = "native" /\ process \in {"running", "exited"} /\ process' \in {"reaped", "lost"}
       \/ mode # "native" /\ process = "exited" /\ process' = "reaped"
    /\ result' = "wait" /\ failed' = TRUE
    /\ UNCHANGED <<command, phase, mode, reading, shown>>

---------------------------------------------------------------------------
(* A native session: NativeOutputGuard and run_native_command.             *)

Marked(t) == \E i \in 1 .. Len(t) - 1 : t[i] = "m1" /\ t[i + 1] = "m2"

LastOf(t, n) == SubSeq(t, Max({1, Len(t) - n + 1}), Len(t))

\* The process group is killed and the child waited for.
Aborts(why) == phase' = "done" /\ process' = "reaped" /\ result' = why

Goes == UNCHANGED <<phase, process, result, faults>>

\* Seeded bug: the bounded tail is not flushed.
FlushPreamble(g, written) ==
    /\ out' = [s \in Streams |-> IF s \in written THEN out[s] \o g.pre[s] ELSE out[s]]
    /\ guard' = [g EXCEPT !.open = TRUE, !.pre = Silent, !.tail = Silent]

\* guard.open, or guard.finish of an open one: out is written before err.
Flush(g, written) ==
    /\ out' = [s \in Streams |-> IF s \in written THEN out[s] \o g.pre[s] \o g.tail[s] ELSE out[s]]
    /\ guard' = [g EXCEPT !.open = TRUE, !.pre = Silent, !.tail = Silent,
                          !.early = IF g.open THEN @ ELSE [s \in Streams |-> Len(g.pre[s])]]

FlushFails(g) == Fault /\ \E written \in {{}, {"out"}} : Flush(g, written)

OpensOrAborts(g) ==
    \/ Flush(g, Streams) /\ Goes
    \/ FlushFails(g) /\ Aborts("write")

\* The preamble's time is over.
Opens ==
    /\ Running("native") /\ ~guard.open
    /\ OpensOrAborts(guard)
    /\ UNCHANGED <<command, mode, failed, reading, parser, verdict>>

\* Seeded bug: each chunk is scanned on its own.
ScannedAlone(chunk) == [guard EXCEPT !.scan = chunk]

Scanned(chunk) == [guard EXCEPT !.scan = LastOf(@ \o chunk, MaxScan)]

\* The first check of guard.feed: both streams, in the order of their chunks.
SeesMarker(s, chunk) ==
    Marked(Scanned(chunk).scan) \/ (guard.open /\ Marked(guard.tail[s] \o chunk))

AuthRequired(s) == \E chunk \in Chunks(s) :
    /\ Running("native") /\ Receives(s, chunk) /\ SeesMarker(s, chunk)
    /\ Aborts("auth")
    /\ UNCHANGED <<out, guard, parser, faults>>

\* guard.feed before it opens; a full preamble opens it.
Holds(s) == \E chunk \in Chunks(s) :
    LET g == [Scanned(chunk) EXCEPT !.pre[s] = @ \o chunk] IN
    /\ Running("native") /\ ~guard.open /\ Receives(s, chunk) /\ ~SeesMarker(s, chunk)
    /\ IF Len(g.pre["out"]) + Len(g.pre["err"]) >= MaxPreamble
       THEN OpensOrAborts(g)
       ELSE guard' = g /\ UNCHANGED out /\ Goes
    /\ UNCHANGED parser

\* guard.feed when open: all but a tail is shown.
Shows(s) == \E chunk \in Chunks(s) :
    LET t == guard.tail[s] \o chunk
        kept == LastOf(t, TailSize)
        g == [Scanned(chunk) EXCEPT !.tail[s] = kept]
    IN
    /\ Running("native") /\ guard.open /\ Receives(s, chunk) /\ ~SeesMarker(s, chunk)
    /\ guard' = g
    /\ \/ /\ out' = [out EXCEPT ![s] = @ \o SubSeq(t, 1, Len(t) - Len(kept))] /\ Goes
       \/ /\ Len(t) > TailSize /\ UNCHANGED out /\ Fault /\ Aborts("write")
    /\ UNCHANGED parser

\* A reader stops with an error: the child is killed, the rest still read.
ReadFails(s) ==
    /\ Running("native") /\ s \notin ended /\ process # "lost" /\ Fault
    /\ ended' = ended \cup {s} /\ process' = "reaped" /\ failed' = TRUE
    /\ result' = IF result = "none" THEN "read" ELSE result
    /\ UNCHANGED <<command, phase, mode, script, printed, got, shown>>

NativeReturns ==
    /\ Running("native") /\ process = "reaped" /\ ended = Streams
    /\ phase' = "done" /\ UNCHANGED process
    /\ \/ /\ Flush(guard, Streams) /\ UNCHANGED faults
          /\ result' = IF result = "none" THEN "code" ELSE result
       \/ FlushFails(guard) /\ result' = "write"
    /\ UNCHANGED <<command, mode, failed, reading, parser, verdict>>

---------------------------------------------------------------------------
(* A managed launch: drain_stderr and run_observed_command_with_mode.      *)

\* Seeded bug: the thread stops reading when the mirror cannot be written.
DrainsWhileWritten == \E chunk \in Chunks("err") :
    /\ Running("pipe") /\ Receives("err", chunk) /\ faults = 0
    /\ parser' = Feed(parser, chunk)
    /\ \/ out' = [out EXCEPT !["err"] = @ \o chunk] /\ UNCHANGED faults
       \/ UNCHANGED out /\ Fault
    /\ UNCHANGED <<phase, process, result, guard>>

\* A chunk is mirrored if that works, and observed in any case.
Drains == \E chunk \in Chunks("err") :
    /\ Running("pipe") /\ Receives("err", chunk)
    /\ parser' = Feed(parser, chunk)
    /\ \/ out' = [out EXCEPT !["err"] = @ \o chunk] /\ UNCHANGED faults
       \/ UNCHANGED out /\ Fault
    /\ UNCHANGED <<phase, process, result, guard>>

\* The thread ends with an error; the child runs on.
DrainFails ==
    /\ Running("pipe") /\ "err" \notin ended /\ Fault
    /\ ended' = ended \cup {"err"}
    /\ result' = IF result = "none" THEN "read" ELSE result
    /\ UNCHANGED <<command, phase, mode, process, failed, script, printed, got, shown>>

ManagedReturns ==
    /\ phase = "running" /\ process = "reaped"
    /\ mode = "inherit" \/ (mode = "pipe" /\ "err" \in ended)
    /\ phase' = "done"
    /\ IF result = "none"
       THEN result' = "code" /\ verdict' = Finish(parser, failed)
       ELSE UNCHANGED <<result, verdict>>
    /\ UNCHANGED <<command, mode, process, failed, reading, out, guard, parser, faults>>

---------------------------------------------------------------------------
Loop == Opens \/ Reaps \/ NativeReturns \/ Drains \/ ManagedReturns

Feeds(s) == AuthRequired(s) \/ Holds(s) \/ Shows(s)

Faulty == WaitFails \/ DrainFails \/ \E s \in Streams : ReadFails(s)

OutputNext ==
    \/ Plans \/ Declines \/ Probes \/ ProbeEnds \/ ProbeTimesOut
    \/ Connects \/ Spawning
    \/ AgyEnds \/ Loop \/ Faulty
    \/ \E s \in Streams : Prints(s) \/ EndOfFile(s) \/ Feeds(s)

OutputSpec == OutputInit /\ [][OutputNext]_outputVars

\* What goes on by itself: sagy's threads, the clock of the helper's deadline,
\* agy, which prints when it can and ends when it has printed all.  No step of
\* OutputNext can be repeated for ever, so a command that is never stuck returns.
Progress ==
    \/ ProbeTimesOut \/ Loop \/ (AllPrinted /\ AgyEnds)
    \/ \E s \in Streams : Prints(s) \/ EndOfFile(s) \/ Feeds(s)

---------------------------------------------------------------------------
(* Properties.                                                             *)

\* Type invariant.
OutputTypeOK ==
    /\ phase \in {"typed", "planned", "starting", "probing", "running", "done"}
    /\ mode \in {"none", "native", "pipe", "inherit"}
    /\ process \in {"none", "running", "exited", "reaped", "lost"}
    /\ ended \subseteq Streams /\ failed \in BOOLEAN /\ faults \in 0..MaxFaults
    /\ \A s \in Streams : got[s] <= printed[s] /\ printed[s] <= Len(script[s])
    /\ result \in {"none", "code", "declined", "keychain", "auth", "read", "write", "wait"}

\* agy gets the words typed after sagy's own, all of them and in their order:
\* nothing else is taken out, and the `--' that ends sagy's words is not
\* among them (route, launch's clap arguments).  What sagy adds comes first;
\* only leading bare words are put together (final_launch_args).
ArgsForwarded ==
    phase = "planned" /\ plan.launch =>
        /\ \E i \in 1 .. Len(argv) + 1 :
              /\ plan.agy = From(argv, i)
              /\ \A j \in 1 .. i - 1 : argv[j] \in Prefix \cup LaunchFlags \cup {"--", "launch"}
              /\ i <= Len(argv) /\ argv[i] = "--" => \E j \in 1 .. i - 1 : argv[j] = "--"
        /\ LET added == IF LeadingPrompt(plan.agy) THEN <<"-p">> ELSE <<>>
           IN  FlattenSeq(Compacted(plan.agy)) = added \o plan.agy

\* sagy adds no --continue to a command line that runs natively, where nobody
\* asked for one: the test that lets a command line in (has_noninteractive_prompt)
\* and the one that keeps an injected --continue out (has_prompt_or_continue_args)
\* read the words differently, and must agree, as long as `--model' is followed
\* by a value.  A --continue the user typed is another matter: with a prompt
\* beside it the first test lets it in (native_session.rs:114).
NoContinueInjected ==
    phase = "planned" /\ MayRunNative(plan)
    /\ (\A i \in 1 .. Len(plan.agy) - 1 : plan.agy[i] = "--model" => plan.agy[i + 1] = "word")
    => <<"--continue">> \notin Range(Injected(plan.agy, Resumes(plan)))

\* A marker of an authentication request is not shown to the user of a native
\* session, however agy's output is cut into chunks, with one exception: its
\* first half came before the guard opened, and the other stream printed too.
MarkerWithheld ==
    mode = "native" => \A s \in Streams : \A i \in 1 .. Len(out[s]) - 1 :
        out[s][i] = "m1" /\ out[s][i + 1] = "m2" =>
            i <= guard.early[s] /\ \A t \in Streams : got[t] > 0

\* A command that ends with agy's status has shown everything agy printed on
\* its pipes, in order; the mirrored standard error of a managed launch may
\* lack only what could not be written.
OutputComplete ==
    phase = "done" /\ result = "code" => \A s \in Streams :
        LET all == SubSeq(script[s], 1, printed[s]) IN
        IF faults = 0 \/ mode = "native" THEN out[s] = all ELSE Len(out[s]) <= Len(all)

\* A brace that starts no object and is closed on a later line.
Stray(t) == \E i \in DOMAIN t : t[i] = "{" /\ ObjectStart(t, i) = "Impossible" /\ EndOfLine(t, i) <= Extent(t, i)

Judged == phase = "done" /\ mode = "pipe" /\ result = "code" /\ ~parser.dropped
Text   == SubSeq(script["err"], 1, printed["err"])

\* The verdict on a child depends on what it printed and not on how that was
\* cut into chunks, nor on what could be mirrored, unless a candidate
\* outgrew the bound or a stray brace was closed on a later line.
VerdictOfBytes ==
    Judged /\ ~Stray(Text) => verdict = IF failed THEN Scan(Text, TRUE, None).found ELSE None

\* A verdict rests on a document that no brace before it encloses, but for
\* braces the scan has passed: inside a candidate that ended before the document,
\* or after a brace never closed and on its line.  And a document before which
\* every brace is closed counts at least as much as it says: neither can a
\* rejected document smuggle another one in, nor can the text around a document
\* hide it.
EvidenceIsTopLevel ==
    Judged /\ ~Stray(Text) =>
        LET Braces(i) == {j \in 1 .. i - 1 : Text[j] = "{"}
            documents == {i \in DOMAIN Text : Text[i] = "{" /\ Evidence(Text, i) # None}
            Passed(j, i) == \E k \in Braces(j) :
                \/ Extent(Text, k) \in j .. i - 1
                \/ Extent(Text, k) = 0 /\ EndOfLine(Text, k) \in j + 1 .. i
        IN  /\ verdict # None => \E i \in documents :
                  /\ Evidence(Text, i) = verdict
                  /\ \A j \in Braces(i) : Extent(Text, j) < i \/ Passed(j, i)
            /\ failed => \A i \in documents :
                  (\A j \in Braces(i) : Extent(Text, j) \in 1 .. i - 1)
                  => Priority(verdict) >= Priority(Evidence(Text, i))

\* A command that started a child is never stuck before it returns: an answer
\* of the helper that does not come, a pipe that is full, a mirror that cannot
\* be written do not stop it.  Only a child whose status cannot be had at all
\* keeps it and, outside the model, a descendant of agy that holds a pipe open
\* (EndOfFile).
NeverStuck ==
    phase \in {"probing", "running"} /\ process # "lost" => ENABLED Progress
=============================================================================
