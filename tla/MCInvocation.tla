---------------------------- MODULE MCInvocation ----------------------------
(* One argument of each sort the readers tell apart: operations of each      *)
(* class in both spellings, options that make a sync read-only, options with *)
(* a value that dispatch.py knows, does not know, or that is attached, and   *)
(* options the wrapper controls, refuses or leaves alone.                    *)
EXTENDS Invocation

MCTokens ==
  {Word, Separator, Long("--sync"), Long("--clean"), Long("--ignore"),
   Long("--makepkg"), [Long("--makepkg") EXCEPT !.attached = TRUE],
   Long("--root"), Long("--query"), Long("--yay"),
   Short(<<"S", "y", "u">>), Short(<<"S", "i">>), Short(<<"P">>),
   Short(<<"U">>), Short(<<"Q", "i">>), Short(<<"w">>)}

MCTakesValue == OptionsWithSeparateValues \cup {"--answerclean", "--answeredit", "--root"}
=============================================================================
