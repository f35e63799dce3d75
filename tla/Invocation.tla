------------------------------ MODULE Invocation ------------------------------
(* One call of yay on a system where the guard may be installed, up to the   *)
(* yay it ends in: the shim packaging/system/yay, main in cli.py,            *)
(* dispatch.py, and of yay.py what run_guarded_yay does with arguments.      *)
(*                                                                           *)
(* The same argument list is read by four readers that do not agree: three   *)
(* scans in dispatch.py, the validation in yay.py, and yay.  An argument is  *)
(* a word, "--", a bundle of one-letter options, or a long option, which may *)
(* have its value attached with "=".  A lone "-" is left out.                *)
EXTENDS Naturals, SequencesExt

CONSTANTS
  Tokens,        \* the arguments there are
  MaxArguments,  \* bound
  TakesValue     \* long options whose value yay takes from the next argument

(* LONG_OPERATIONS                                                           *)
LongOperations ==
  {<<"--build", "B">>, <<"--database", "D">>, <<"--files", "F">>,
   <<"--getpkgbuild", "G">>, <<"--query", "Q">>, <<"--remove", "R">>,
   <<"--show", "P">>, <<"--sync", "S">>, <<"--deptest", "T">>,
   <<"--upgrade", "U">>, <<"--web", "W">>, <<"--yay", "Y">>,
   <<"--help", "h">>, <<"--version", "V">>}
Operations == {op[2] : op \in LongOperations}

PassthroughLongOptions ==
  {"--clean", "--groups", "--info", "--list", "--print", "--search"}
PassthroughShortOptions == {"c", "g", "i", "l", "p", "s"}

OptionsWithSeparateValues ==
  {"--arch", "--aururl", "--aurrpcurl", "--builddir", "--cachedir", "--color",
   "--completioninterval", "--config", "--dbpath", "--editor", "--editorflags",
   "--gpg", "--gpgdir", "--gpgflags", "--hookdir", "--ignore",
   "--ignoregroup", "--logfile", "--makepkg", "--makepkgconf", "--mflags",
   "--overwrite", "--pacman", "--print-format", "--requestsplitn",
   "--searchby", "--sortby", "--sudo", "--sudoflags"}

ProtectedOptions ==
  {"--answerclean", "--answeredit", "--cleanmenu", "--combinedupgrade",
   "--editor", "--editorflags", "--editmenu", "--git", "--gitflags",
   "--makepkg", "--makepkgconf", "--mflags", "--noanswerclean",
   "--noansweredit", "--nocleanmenu", "--nocombinedupgrade", "--noeditmenu",
   "--nomakepkgconf", "--noredownload", "--norebuild", "--pacman",
   "--redownload", "--redownloadall", "--rebuild", "--rebuildall",
   "--rebuildtree", "--keepsrc", "--save", "--sudo", "--sudoflags"}

UnsupportedOptions ==
  {"--clean", "--config", "--dbpath", "--downloadonly", "--gpgdir",
   "--groups", "--hookdir", "--info", "--list", "--print", "--root",
   "--search", "--sysroot", "--disable-sandbox"}
UnsupportedLetters == {"b", "c", "g", "i", "l", "p", "r", "s", "w"}
OtherOperations == {"B", "D", "F", "G", "P", "Q", "R", "T", "U", "W", "Y"}

Spelled(kind, name, letters) ==
  [kind |-> kind, name |-> name, letters |-> letters, attached |-> FALSE]
Word == Spelled("word", "none", << >>)
Separator == Spelled("end", "none", << >>)
Short(letters) == Spelled("short", "none", letters)
Long(name) == Spelled("long", name, << >>)

WellFormed(t) ==
  /\ t.kind \in {"word", "end", "short", "long"}
  /\ t.kind = "long" <=> t.name # "none"
  /\ t.kind = "short" <=> t.letters # << >>
  /\ DOMAIN t.letters \subseteq Nat

(* The options dispatch.py takes to have a value in the next argument have   *)
(* one for yay; the converse is not assumed.                                 *)
ASSUME InvocationAssumption ==
  /\ (\A t \in Tokens : WellFormed(t)) /\ MaxArguments \in Nat
  /\ OptionsWithSeparateValues \subseteq TakesValue /\ "none" \notin TakesValue

GuardOptions ==
  <<Long("--cleanmenu"), Long("--answerclean"), Word, Long("--editmenu"),
    Long("--answeredit"), Word, Long("--editor"), Word, Long("--editorflags"),
    Word, Long("--redownloadall"), Long("--rebuildall"),
    Long("--combinedupgrade"), Long("--makepkg"), Word, Long("--mflags"),
    Word, Long("--makepkgconf"), Word>>

Upgrade == Short(<<"S", "y", "u">>)

(* What the user types and what the programs add.                            *)
Argument == Tokens \cup {Separator, Upgrade} \cup ToSet(GuardOptions)

VARIABLES
  given,      \* what the user typed behind the program's name
  shimFirst,  \* the yay that PATH leads to is the shim
  pc,         \* the program that runs, or its part
  argv,       \* its arguments
  entry,      \* "yay", or "aur-codex-guard yay"
  active,     \* AUR_CODEX_GUARD_ACTIVE is 1
  outcome     \* how the call ends
vars == <<given, shimFirst, pc, argv, entry, active, outcome>>

TypeOK ==
  /\ given \in Seq(Tokens) /\ Len(given) <= MaxArguments
  /\ shimFirst \in BOOLEAN /\ active \in BOOLEAN
  /\ pc \in {"shim", "main", "dispatch", "wrapper", "launch", "done"}
  /\ entry \in {"dispatch-yay", "yay"}
  /\ argv \in Seq(Argument)
  /\ pc \in {"dispatch", "wrapper", "launch"} /\ ~active =>
       Len(argv) <= Len(given) + 1
  /\ outcome \in {"none", "guarded", "unguarded", "refused", "failed"}

Init ==
  /\ given \in BoundedSeq(Tokens, MaxArguments)
  /\ shimFirst \in BOOLEAN
  /\ entry \in {"dispatch-yay", "yay"}
  /\ pc = IF entry = "yay" THEN "main" ELSE "shim"
  /\ argv = given /\ active = FALSE /\ outcome = "none"

---------------------------------------------------------------------------
(* The operation an argument names, as dispatch.py sees it: the letters are  *)
(* BDFGQRSTUWYVh, without the P of --show.                                   *)
DispatchLetters == Operations \ {"P"}

First(indices) == {i \in indices : \A j \in indices : i <= j}

OperationOf(t) ==
  IF t.kind = "long" THEN {op[2] : op \in {o \in LongOperations : o[1] = t.name}}
  ELSE {t.letters[k] :
          k \in First({k \in DOMAIN t.letters : t.letters[k] \in DispatchLetters})}

Options(args) ==
  {i \in DOMAIN args : \A j \in 1 .. i : args[j].kind # "end"}

(* _explicit_operation: of the first option that names one, or none.         *)
ExplicitOperation(args) ==
  UNION {OperationOf(args[i]) :
           i \in First({i \in Options(args) : OperationOf(args[i]) # {}})}

(* _sync_is_non_installing looks at every argument, behind "--" as well.     *)
SyncIsNonInstalling(args) ==
  \E t \in ToSet(args) :
    \/ t.name \in PassthroughLongOptions
    \/ ToSet(t.letters) \cap PassthroughShortOptions # {}

(* The part each argument plays if the options in known take the next one    *)
(* for their value.  "rest" is "--" and everything behind it.                *)
NextRole(before, t, known) ==
  CASE before = "takes" -> "value"
    [] before = "rest" \/ (before # "takes" /\ t.kind = "end") -> "rest"
    [] /\ before \notin {"takes", "rest"} /\ t.kind = "long"
       /\ t.name \in known /\ ~t.attached -> "takes"
    [] OTHER -> "plain"

Roles(args, known) ==
  LET role[i \in 0 .. Len(args)] ==
        IF i = 0 THEN "plain" ELSE NextRole(role[i - 1], args[i], known)
  IN role

(* Mutant: every long option is taken to have a separate value.              *)
HasPositionalTarget_AnyOption(args) ==
  LET role == Roles(args, {args[i].name : i \in DOMAIN args} \ {"none"}) IN
    \E i \in DOMAIN args :
      \/ role[i] = "plain" /\ args[i].kind = "word"
      \/ role[i] = "rest" /\ args[i].kind # "end"

(* _has_positional_target: a word that is no value of an option it knows, or *)
(* anything behind "--" but another "--".                                    *)
HasPositionalTarget(args) ==
  LET role == Roles(args, OptionsWithSeparateValues) IN
    \E i \in DOMAIN args :
      \/ role[i] = "plain" /\ args[i].kind = "word"
      \/ role[i] = "rest" /\ args[i].kind # "end"

(* decide_yay_dispatch                                                       *)
Decide(args) ==
  LET op == ExplicitOperation(args) IN
    CASE op = {"S"} -> IF SyncIsNonInstalling(args) THEN "passthrough" ELSE "guard"
      [] op \cap {"B", "U"} # {} -> "block"
      [] op \in {{"Y"}, {}} /\ HasPositionalTarget(args) -> "block"
      [] op = {} /\ ~HasPositionalTarget(args) -> "guard"
      [] OTHER -> "passthrough"

(* Mutant: guard-controlled options are not refused.                         *)
Validates_Unprotected(args) ==
  LET options == {args[i] : i \in Options(args)} IN
    /\ \A t \in options :
         /\ t.name \notin UnsupportedOptions
         /\ ToSet(t.letters) \cap (OtherOperations \cup UnsupportedLetters) = {}
    /\ \E t \in options : t.name = "--sync" \/ "S" \in ToSet(t.letters)

(* validate_yay_arguments returns.                                           *)
Validates(args) ==
  LET options == {args[i] : i \in Options(args)} IN
    /\ \A t \in options :
         /\ t.name \notin ProtectedOptions \cup UnsupportedOptions
         /\ ToSet(t.letters) \cap (OtherOperations \cup UnsupportedLetters) = {}
    /\ \E t \in options : t.name = "--sync" \/ "S" \in ToSet(t.letters)
---------------------------------------------------------------------------
End(how) ==
  /\ pc' = "done" /\ outcome' = how
  /\ UNCHANGED <<given, shimFirst, argv, entry, active>>

(* The shim executes "aur-codex-guard dispatch-yay --" with its arguments.   *)
Shim ==
  /\ pc = "shim" /\ pc' = "main"
  /\ entry' = "dispatch-yay" /\ argv' = <<Separator>> \o argv
  /\ UNCHANGED <<given, shimFirst, active, outcome>>

(* Mutant: the "--" of the shim is left to the dispatcher.                   *)
Main_Unstripped ==
  /\ pc = "main"
  /\ pc' = IF entry = "yay" THEN "wrapper" ELSE "dispatch"
  /\ UNCHANGED <<given, shimFirst, argv, entry, active, outcome>>

(* main in cli.py: one leading "--" is dropped.                              *)
Main ==
  /\ pc = "main"
  /\ pc' = IF entry = "yay" THEN "wrapper" ELSE "dispatch"
  /\ argv' = IF argv # << >> /\ argv[1] = Separator THEN Tail(argv) ELSE argv
  /\ UNCHANGED <<given, shimFirst, entry, active, outcome>>

(* Mutant: what passes is left to the yay that PATH leads to.                *)
Dispatch_ByPath ==
  /\ pc = "dispatch"
  /\ CASE Decide(argv) = "block" -> End("refused")
       [] Decide(argv) = "guard" ->
            /\ pc' = "wrapper"
            /\ argv' = IF ExplicitOperation(argv) = {}
                       THEN <<Upgrade>> \o argv ELSE argv
            /\ UNCHANGED <<given, shimFirst, entry, active, outcome>>
       [] OTHER ->
            \/ ~shimFirst /\ End("unguarded")
            \/ /\ shimFirst /\ pc' = "shim"
               /\ UNCHANGED <<given, shimFirst, argv, entry, active, outcome>>

(* dispatch_yay: what passes becomes /usr/bin/yay, if that can be executed.  *)
Dispatch ==
  /\ pc = "dispatch"
  /\ CASE Decide(argv) = "block" -> End("refused")
       [] Decide(argv) = "guard" ->
            /\ pc' = "wrapper"
            /\ argv' = IF ExplicitOperation(argv) = {}
                       THEN <<Upgrade>> \o argv ELSE argv
            /\ UNCHANGED <<given, shimFirst, entry, active, outcome>>
       [] OTHER -> End("unguarded") \/ End("failed")

(* run_guarded_yay up to the process it starts.                              *)
Wrapper ==
  /\ pc = "wrapper"
  /\ IF active \/ ~Validates(argv) THEN End("refused")
     ELSE \/ /\ pc' = "launch"
             /\ UNCHANGED <<given, shimFirst, argv, entry, active, outcome>>
          \/ End("failed")

(* The yay process: /usr/bin/yay behind the shim, otherwise PATH's, which    *)
(* may be the shim.                                                          *)
Launch ==
  /\ pc = "launch"
  /\ argv' = GuardOptions \o argv /\ active' = TRUE
  /\ IF entry = "yay" /\ shimFirst
     THEN pc' = "shim" /\ UNCHANGED outcome
     ELSE pc' = "done" /\ outcome' \in {"guarded", "failed"}
  /\ UNCHANGED <<given, shimFirst, entry>>

Next == Shim \/ Main \/ Dispatch \/ Wrapper \/ Launch

Spec == Init /\ [][Next]_vars
FairSpec == Spec /\ WF_vars(Next)

---------------------------------------------------------------------------
(* How yay reads its arguments: the next argument of an option that takes a  *)
(* value is its value whatever it looks like, and behind "--" there are only *)
(* targets.  confusing: a value or a target looks like an option.            *)
Reading(args) ==
  LET role == Roles(args, TakesValue)
      data == {i \in DOMAIN args : \/ role[i] = "value"
                                   \/ role[i] = "rest" /\ role[i - 1] = "rest"}
      options == {i \in DOMAIN args : role[i] \in {"takes", "plain"}}
      controlled == {i \in options : args[i].name \in ProtectedOptions}
  IN [ops |-> {o \in options \X Operations :
                 \/ <<args[o[1]].name, o[2]>> \in LongOperations
                 \/ o[2] \in ToSet(args[o[1]].letters)},
      letters    |-> UNION {ToSet(args[i].letters) : i \in options},
      names      |-> {args[i].name : i \in options},
      controlled |-> [i \in controlled |-> args[i].name],
      targets    |-> \E i \in DOMAIN args :
                       \/ role[i] = "plain" /\ args[i].kind = "word"
                       \/ role[i] = "rest" /\ i \in data,
      confusing  |-> \E i \in data : args[i].kind # "word"]

(* yay performs no operation if more than one is given.                      *)
Only(r, op) == \E o \in r.ops : r.ops = {o} /\ o[2] = op

QueriesOnly(r) ==
  \/ r.letters \cap PassthroughShortOptions # {}
  \/ r.names \cap PassthroughLongOptions # {}

(* Without an operation yay updates, or installs what is selected.           *)
Installs(r) ==
  \/ r.ops = {}
  \/ Only(r, "S") /\ ~QueriesOnly(r)
  \/ r.targets /\ \E op \in {"U", "B", "Y"} : Only(r, op)

(* No call of the shim ends in a yay without the guard that would install    *)
(* something, whichever scan decided (dispatch.py 75-150).  Excepted are     *)
(* calls where a value or a target looks like an option: the scans for the   *)
(* operation and its options know neither (yay -S x --mflags --clean).       *)
InstallsAreGuarded ==
  outcome = "unguarded" /\ ~Reading(argv).confusing => ~Installs(Reading(argv))

(* What the guarded yay performs, if anything, is a sync that installs, and  *)
(* the options the guard controls are there as the guard gives them and not  *)
(* once more, though the validation does not refuse every second operation   *)
(* (yay.py 183-249).  The same calls are excepted.                           *)
GuardedIsSync ==
  outcome = "guarded" =>
    LET r == Reading(argv) IN
      \/ r.confusing
      \/ /\ \E o \in r.ops : o[2] = "S"
         /\ ~QueriesOnly(r)
         /\ r.controlled = Reading(GuardOptions).controlled

ReadOnly(r) ==
  \/ \E op \in Operations \ {"S", "U", "B", "Y"} : Only(r, op)
  \/ Only(r, "S") /\ QueriesOnly(r)

(* Read-only and unrelated operations replace the dispatcher process with    *)
(* /usr/bin/yay (threat-model.md 15): none is refused or guarded.            *)
EveryReadOnlyPasses ==
  /\ entry = "dispatch-yay" /\ outcome \in {"refused", "guarded"}
  /\ ~active
  => LET r == Reading(given) IN r.confusing \/ ~ReadOnly(r)

(* The same but for -P, whose letter _explicit_operation does not look for   *)
(* (dispatch.py 89).                                                         *)
ReadOnlyPasses ==
  "P" \in Reading(given).letters \/ EveryReadOnlyPasses

(* Every call ends in a yay or is refused: the shim, the dispatcher and the  *)
(* wrapper never start each other forever, even where the wrapper finds the  *)
(* shim as its yay (yay.py 86, 361).                                         *)
InvocationEnds == <>(pc = "done")
===============================================================================
