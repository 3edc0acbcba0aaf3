--------------------------- MODULE LaunchArguments ---------------------------
(***************************************************************************)
(* cli/router.rs, cli/args.rs, and the argument half of launcher.rs and    *)
(* native_session.rs: what becomes of the words typed after `sagy'.  Some  *)
(* of them are sagy's own, the rest is handed to agy; three places look at *)
(* the same words for a prompt, for a wish about the session, for a model. *)
(*                                                                         *)
(* A word stands for its kind.  `--state-dir d' and `--state-dir=d' do the *)
(* same and count as one word.  An argument of agy is a sequence of words: *)
(* the prompt that bare words are joined to has several.                   *)
(***************************************************************************)
EXTENDS SequencesExt, Integers

Shortcuts   == {"--no-resume", "--dry-run"}     \* LAUNCH_SHORTCUT_FLAGS
LaunchFlags == Shortcuts \cup {"--takeover"}
Commands    == {"launch", "list"}               \* is_known_subcmd
Prefix      == Shortcuts \cup {"--state-dir=d"}
ModelFlags  == {"--model", "--model=x"}
SessionWish == {"-c", "-p", "-p=x", "-i"}
BareWords   == {"word", ""} \cup Commands
Words       == LaunchFlags \cup Prefix \cup ModelFlags \cup SessionWish \cup BareWords
               \cup {"--", "--help", "--opt"}

\* The first word that is not one of these kinds, Len(w) + 1 if all are.
FirstNot(kinds, w) ==
    LET bad == {i \in DOMAIN w : w[i] \notin kinds} IN
    IF bad = {} THEN Len(w) + 1 ELSE CHOOSE i \in bad : \A j \in bad : i <= j

From(w, i) == SubSeq(w, i, Len(w))

---------------------------------------------------------------------------
(* The route.                                                              *)

Other == [launch |-> FALSE, flags |-> {}, agy |-> <<>>]
Launch(flags, agy) == [launch |-> TRUE, flags |-> flags, agy |-> agy]

\* with_boundary_new_session: only sagy's shortcuts may come before the `--'.
Boundary(w) ==
    LET i == FirstNot(Shortcuts, w)
    IN  IF i <= Len(w) /\ w[i] = "--" THEN {"--no-resume"} ELSE {}

\* clap on LaunchArgs: flags, then everything after `--', or everything from
\* the first bare word on; another option is an error.
ParsedLaunch(w) ==
    LET i == FirstNot(LaunchFlags, w)
        typed == SubSeq(w, 1, i - 1)
        flags == Range(typed) \cup Boundary(w)
    IN  IF ~IsInjective(typed) THEN Other
        ELSE IF i > Len(w) THEN Launch(flags, <<>>)
        ELSE IF w[i] = "--" THEN Launch(flags, From(w, i + 1))
        ELSE IF w[i] \in BareWords THEN Launch(flags, From(w, i))
        ELSE Other

\* Seeded bug: the separator is handed on.
KeepsSeparator(argv) ==
    LET i == FirstNot(Prefix, argv) IN
    Launch(Range(SubSeq(argv, 1, i - 1)) \cap Shortcuts, From(argv, i))

Route(argv) ==
    LET i == FirstNot(Prefix, argv)
        prefix == SubSeq(argv, 1, i - 1)
        rest == From(argv, i)
        shortcuts == Range(prefix) \cap Shortcuts
        first == IF rest = <<>> THEN "none" ELSE Head(rest)
    IN  IF first = "--help" THEN Other
        ELSE IF shortcuts = {} /\ first \notin Commands \cup {"--", "none"}
             THEN Launch({}, rest)                               \* passthrough
        ELSE IF ~IsInjective(prefix) THEN Other                  \* clap takes a flag once
        ELSE IF first = "--" THEN Launch(shortcuts \cup {"--no-resume"}, Tail(rest))
        ELSE IF shortcuts # {} \/ first = "none" THEN Launch(shortcuts, rest)
        ELSE IF first = "launch" THEN ParsedLaunch(Tail(rest))
        ELSE Other

\* How run_launch goes on: not at all, or agy with these arguments.
Resumes(plan) == "--no-resume" \notin plan.flags
Spawns(plan)  == plan.launch /\ "--dry-run" \notin plan.flags

---------------------------------------------------------------------------
(* launcher.rs: final_launch_args.                                         *)

ModelGiven(w) == \E i \in DOMAIN w : w[i] \in ModelFlags

\* Seeded bug: the word after `--model' is not known to be its value, and `-p'
\* is taken for an option like any other.
WishesByWord(w) == \E i \in DOMAIN w : w[i] \in (SessionWish \ {"-p"}) \cup Commands

\* has_prompt_or_continue_args.
WishesSession(w) ==
    LET wish[i \in 1..(Len(w) + 2)] ==
            IF i > Len(w) THEN FALSE
            ELSE CASE w[i] = "--"      -> i < Len(w)
                   [] w[i] = "--model" -> wish[i + 2]
                   [] w[i] \in SessionWish \cup BareWords -> TRUE
                   [] OTHER            -> wish[i + 1]
    IN  wish[1]

LeadingPrompt(w) == w # <<>> /\ Head(w) \in BareWords \ {""}

Single(w) == [i \in DOMAIN w |-> <<w[i]>>]

\* compact_bare_prompt: the leading bare words are one prompt.
Compacted(w) ==
    LET i == FirstNot(BareWords, w)
    IN  IF LeadingPrompt(w)
        THEN <<<<"-p">>, SubSeq(w, 1, i - 1)>> \o Single(From(w, i))
        ELSE Single(w)

Injected(w, resume) ==
    (IF ModelGiven(w) THEN <<>> ELSE <<<<"--model">>, <<"default">>>>)
    \o (IF resume /\ ~WishesSession(w) THEN <<<<"--continue">>>> ELSE <<>>)

FinalArgs(w, resume) == Injected(w, resume) \o Compacted(w)

---------------------------------------------------------------------------
(* native_session.rs and maybe_run_native_session.                         *)

HasNoninteractivePrompt(w) ==
    LET at == {i \in DOMAIN w : w[i] \in {"-p", "-p=x"}}
        i  == CHOOSE k \in at : \A j \in at : k <= j
    IN  /\ \A k \in DOMAIN w : w[k] # "-i"
        /\ \/ LeadingPrompt(w)
           \/ /\ at # {}
              /\ w[i] = "-p" => i < Len(w) /\ w[i + 1] # ""

MayRunNative(plan) == Spawns(plan) /\ HasNoninteractivePrompt(plan.agy)

=============================================================================
