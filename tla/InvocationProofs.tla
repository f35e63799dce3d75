---------------------------- MODULE InvocationProofs ----------------------------
(* What a call of yay ends in, for any arguments, any number of them, and    *)
(* any set of options that take a value and contains those dispatch.py has.  *)
(*                                                                           *)
(* The properties relate readers that scan the same arguments with different *)
(* tables.  So most of the argument is about one list: what part each reader *)
(* gives to an argument (Agree), and from it what the scans see of what yay  *)
(* sees (OptionsAreRead).  What the state adds is little: which list each    *)
(* stage has.                                                                *)
EXTENDS Invocation, WellFoundedInduction, SequenceTheorems, TLAPS

---------------------------------------------------------------------------
(* Induction over an interval, stated with a set so that it can be cited.    *)
LEMMA LeastNumber ==
  ASSUME NEW T, T \subseteq Nat, T # {}
  PROVE  \E x \in T : \A y \in T : x <= y
<1> DEFINE Less == OpToRel(<, Nat)
<1>1. IsWellFoundedOn(Less, Nat)
  BY NatLessThanWellFounded
<1>2. \A x, y \in Nat : <<y, x>> \in Less <=> y < x
  BY DEF OpToRel
<1> HIDE DEF Less
<1>3. PICK x \in T : \A y \in T : <<y, x>> \notin Less
  BY <1>1, WFMin
<1>4. \A y \in T : ~(y < x)
  BY <1>2, <1>3
<1>5. \A y \in T : x <= y
  BY <1>4
<1> QED
  BY <1>5

LEMMA IntervalInduction ==
  ASSUME NEW n \in Nat, NEW S, 0 \in S,
         \A i \in 1 .. n : i - 1 \in S => i \in S
  PROVE  0 .. n \subseteq S
<1> SUFFICES ASSUME (0 .. n) \ S # {} PROVE FALSE
  OBVIOUS
<1>1. PICK x \in (0 .. n) \ S : \A y \in (0 .. n) \ S : x <= y
  BY LeastNumber, (0 .. n) \ S \subseteq Nat
<1>2. x # 0 /\ x - 1 \in 0 .. n /\ x - 1 \notin (0 .. n) \ S
  BY <1>1
<1> QED
  BY <1>1, <1>2

---------------------------------------------------------------------------
LEMMA GuardOptionsAreArguments ==
  /\ GuardOptions \in Seq(Argument) /\ Len(GuardOptions) = 19
  /\ \A i \in 1 .. 19 :
       /\ WellFormed(GuardOptions[i])
       /\ GuardOptions[i].letters = << >>
       /\ GuardOptions[i].kind # "end"
       /\ GuardOptions[i].name \notin PassthroughLongOptions
<1>1. GuardOptions = [i \in 1 .. 19 |-> GuardOptions[i]] /\ Len(GuardOptions) = 19
  BY DEF GuardOptions
<1>2. \A i \in 1 .. 19 : GuardOptions[i] \in Argument
  BY <1>1 DEF Argument, ToSet
<1>3. GuardOptions \in Seq(Argument)
  BY <1>1, <1>2
<1>4. \A i \in 1 .. 19 :
        \/ GuardOptions[i] = Word
        \/ \E n \in {"--cleanmenu", "--answerclean", "--editmenu", "--answeredit",
                     "--editor", "--editorflags", "--redownloadall", "--rebuildall",
                     "--combinedupgrade", "--makepkg", "--mflags", "--makepkgconf"} :
             GuardOptions[i] = Long(n)
  BY DEF GuardOptions
<1>5. \A n : /\ Long(n).letters = << >> /\ Long(n).kind = "long"
             /\ Long(n).name = n
  BY DEF Long, Spelled
<1>6. Word.letters = << >> /\ Word.kind = "word" /\ Word.name = "none"
  BY DEF Word, Spelled
<1>7. DOMAIN << >> \subseteq Nat
  OBVIOUS
<1>8. ASSUME NEW i \in 1 .. 19
      PROVE  /\ GuardOptions[i].letters = << >>
             /\ \/ /\ GuardOptions[i].kind = "word" /\ GuardOptions[i].name = "none"
                \/ /\ GuardOptions[i].kind = "long" /\ GuardOptions[i].name # "none"
                   /\ GuardOptions[i].name \notin PassthroughLongOptions
  BY <1>4, <1>5, <1>6 DEF PassthroughLongOptions
<1>9. "none" \notin PassthroughLongOptions
  BY DEF PassthroughLongOptions
<1>10. \A i \in 1 .. 19 : WellFormed(GuardOptions[i])
  BY <1>7, <1>8 DEF WellFormed
<1> QED
  BY <1>1, <1>3, <1>8, <1>9, <1>10

LEMMA ArgumentsAreWellFormed ==
  \A t \in Argument : WellFormed(t)
<1>1. WellFormed(Separator) /\ WellFormed(Upgrade)
  BY DEF WellFormed, Separator, Upgrade, Short, Spelled
<1>2. ToSet(GuardOptions) = {GuardOptions[i] : i \in 1 .. 19}
  BY GuardOptionsAreArguments DEF ToSet
<1>3. \A t \in ToSet(GuardOptions) : WellFormed(t)
  BY <1>2, GuardOptionsAreArguments
<1> QED
  BY <1>1, <1>3, InvocationAssumption DEF Argument

---------------------------------------------------------------------------
(* The recursive definition of the parts defines what it says: there is a    *)
(* function with that equation up to every argument.                         *)
LEMMA RolesEquation ==
  ASSUME NEW args \in Seq(Argument), NEW known
  PROVE  /\ Roles(args, known)[0] = "plain"
         /\ \A i \in 1 .. Len(args) :
              Roles(args, known)[i] =
                NextRole(Roles(args, known)[i - 1], args[i], known)
<1> DEFINE n == Len(args)
           Part(g, i) == IF i = 0 THEN "plain" ELSE NextRole(g[i - 1], args[i], known)
           upTo == {m \in 0 .. n : \E g : g = [i \in 0 .. m |-> Part(g, i)]}
<1>1. n \in Nat
  OBVIOUS
<1>2. 0 \in upTo
  <2> DEFINE g == [i \in 0 .. 0 |-> "plain"]
  <2>1. g = [i \in 0 .. 0 |-> Part(g, i)]
    OBVIOUS
  <2> HIDE DEF g, Part
  <2>2. \E f : f = [i \in 0 .. 0 |-> Part(f, i)]
    BY <2>1, Zenon
  <2> QED
    BY <1>1, <2>2
<1>3. ASSUME NEW m \in 1 .. n, m - 1 \in upTo PROVE m \in upTo
  <2>1. PICK g : g = [i \in 0 .. m - 1 |-> Part(g, i)]
    BY <1>3
  <2> DEFINE h == [i \in 0 .. m |-> IF i = m THEN Part(g, m) ELSE g[i]]
  <2>2. ASSUME NEW i \in 0 .. m PROVE h[i] = Part(h, i)
    <3>1. i # 0 => i - 1 \in 0 .. m - 1 /\ h[i - 1] = g[i - 1]
      BY <1>1
    <3>2. i # m => i \in 0 .. m - 1 /\ h[i] = g[i] /\ g[i] = Part(g, i)
      BY <1>1, <2>1
    <3>3. Part(g, i) = Part(h, i)
      BY <3>1
    <3> QED
      BY <3>2, <3>3
  <2>3. h = [i \in 0 .. m |-> Part(h, i)]
    BY <2>2
  <2> HIDE DEF h, Part
  <2>4. \E f : f = [i \in 0 .. m |-> Part(f, i)]
    BY <2>3, Zenon
  <2> QED
    BY <1>1, <2>4
<1> HIDE DEF upTo
<1>4. n \in upTo
  BY <1>1, <1>2, <1>3, IntervalInduction
<1> USE DEF upTo
<1>5. \E g : g = [i \in 0 .. n |-> Part(g, i)]
  BY <1>4
<1>6. PICK role : /\ role = [i \in 0 .. n |-> Part(role, i)]
                  /\ Roles(args, known) = role
  BY <1>5, Zenon DEF Roles
<1> QED
  BY <1>1, <1>6

LEMMA RoleIsOne ==
  ASSUME NEW args \in Seq(Argument), NEW known, NEW i \in 0 .. Len(args)
  PROVE  Roles(args, known)[i] \in {"plain", "takes", "value", "rest"}
<1>1. i # 0 => i \in 1 .. Len(args)
  OBVIOUS
<1> QED
  BY <1>1, RolesEquation DEF NextRole

LEMMA Behind ==
  ASSUME NEW first \in Seq(Argument), NEW second \in Seq(Argument)
  PROVE  LET both == first \o second IN
           /\ both \in Seq(Argument)
           /\ Len(first) \in Nat /\ Len(second) \in Nat
           /\ Len(both) = Len(first) + Len(second)
           /\ DOMAIN both = 1 .. Len(first) + Len(second)
           /\ DOMAIN first = 1 .. Len(first) /\ DOMAIN second = 1 .. Len(second)
           /\ \A i \in 1 .. Len(first) : both[i] = first[i]
           /\ \A i \in 1 .. Len(second) : both[i + Len(first)] = second[i]
OBVIOUS

(* Where a list begins with another the parts of its beginning are the same. *)
LEMMA RolesOfPrefix ==
  ASSUME NEW first \in Seq(Argument), NEW second \in Seq(Argument), NEW known,
         NEW i \in 0 .. Len(first)
  PROVE  Roles(first \o second, known)[i] = Roles(first, known)[i]
<1> DEFINE both == first \o second
           same == {k \in 0 .. Len(first) :
                      Roles(both, known)[k] = Roles(first, known)[k]}
<1>1. /\ both \in Seq(Argument) /\ Len(first) \in Nat
      /\ Len(both) = Len(first) + Len(second) /\ Len(second) \in Nat
      /\ \A k \in 1 .. Len(first) : both[k] = first[k]
  BY Behind
<1>2. 0 \in same
  <2>1. Roles(both, known)[0] = "plain" /\ Roles(first, known)[0] = "plain"
    BY <1>1, RolesEquation
  <2> QED
    BY <1>1, <2>1
<1>3. ASSUME NEW k \in 1 .. Len(first), k - 1 \in same PROVE k \in same
  <2>1. k \in 1 .. Len(both)
    BY <1>1
  <2>2. Roles(both, known)[k] = NextRole(Roles(both, known)[k - 1], both[k], known)
    BY <1>1, <2>1, RolesEquation
  <2>3. Roles(first, known)[k] = NextRole(Roles(first, known)[k - 1], first[k], known)
    BY RolesEquation
  <2> QED
    BY <1>1, <1>3, <2>2, <2>3
<1> HIDE DEF same
<1>4. 0 .. Len(first) \subseteq same
  BY <1>1, <1>2, <1>3, IntervalInduction
<1> USE DEF same
<1> QED
  BY <1>4

(* No value looks like an option or like "--".                               *)
WordsAsValues(args, known) ==
  \A i \in DOMAIN args : Roles(args, known)[i] = "value" => args[i].kind = "word"

(* Then the rest begins at the first "--" there is.                          *)
LEMMA RestIsBehindEnd ==
  ASSUME NEW args \in Seq(Argument), NEW known, WordsAsValues(args, known),
         NEW i \in 0 .. Len(args)
  PROVE  Roles(args, known)[i] = "rest" <=> \E j \in 1 .. i : args[j].kind = "end"
<1> DEFINE role == Roles(args, known)
           right == {k \in 0 .. Len(args) :
                       role[k] = "rest" <=> \E j \in 1 .. k : args[j].kind = "end"}
<1>1. Len(args) \in Nat /\ DOMAIN args = 1 .. Len(args)
  OBVIOUS
<1>2. 0 \in right
  BY <1>1, RolesEquation
<1>3. ASSUME NEW k \in 1 .. Len(args), k - 1 \in right PROVE k \in right
  <2>1. role[k] = NextRole(role[k - 1], args[k], known)
    BY RolesEquation
  <2>2. role[k] = "value" => args[k].kind = "word"
    BY <1>1 DEF WordsAsValues
  <2>3. role[k] = "rest" <=> role[k - 1] = "rest" \/ args[k].kind = "end"
    BY <2>1, <2>2 DEF NextRole
  <2>4. (\E j \in 1 .. k : args[j].kind = "end") <=>
          (\E j \in 1 .. k - 1 : args[j].kind = "end") \/ args[k].kind = "end"
    BY <1>1
  <2> QED
    BY <1>1, <1>3, <2>3, <2>4
<1> HIDE DEF right
<1>4. 0 .. Len(args) \subseteq right
  BY <1>1, <1>2, <1>3, IntervalInduction
<1> USE DEF right
<1> QED
  BY <1>4

Below(f, m) ==
  /\ f = "rest" <=> m = "rest"
  /\ f = "takes" => m = "takes"
  /\ f = "value" => m = "value"

(* A reader that knows fewer options with a value takes fewer arguments for  *)
(* values than one that knows more and never takes an option for one.        *)
LEMMA Agree ==
  ASSUME NEW args \in Seq(Argument), NEW more, NEW fewer, fewer \subseteq more,
         "none" \notin more, WordsAsValues(args, more), NEW i \in 0 .. Len(args)
  PROVE  Below(Roles(args, fewer)[i], Roles(args, more)[i])
<1> DEFINE agreed == {k \in 0 .. Len(args) :
                        Below(Roles(args, fewer)[k], Roles(args, more)[k])}
<1>1. Len(args) \in Nat /\ DOMAIN args = 1 .. Len(args)
  BY LenProperties
<1>2. 0 \in agreed
  <2>1. Roles(args, fewer)[0] = "plain" /\ Roles(args, more)[0] = "plain"
    BY RolesEquation
  <2>2. Below(Roles(args, fewer)[0], Roles(args, more)[0])
    BY <2>1 DEF Below
  <2> QED
    BY <1>1, <2>2
<1>3. ASSUME NEW k \in 1 .. Len(args), k - 1 \in agreed PROVE k \in agreed
  <2>1. args[k] \in Argument
    BY <1>1
  <2>2. args[k].kind = "word" => args[k].name = "none"
    BY <2>1, ArgumentsAreWellFormed DEF WellFormed
  <2>3. Roles(args, more)[k] = "value" => args[k].kind = "word"
    BY <1>1 DEF WordsAsValues
  <2>4. Below(Roles(args, fewer)[k - 1], Roles(args, more)[k - 1])
    BY <1>3
  <2>5. /\ Roles(args, fewer)[k] = NextRole(Roles(args, fewer)[k - 1], args[k], fewer)
        /\ Roles(args, more)[k] = NextRole(Roles(args, more)[k - 1], args[k], more)
    BY RolesEquation
  <2>6. ASSUME NEW f, NEW m, Below(f, m), NEW t, t.kind = "word" => t.name = "none",
               NextRole(m, t, more) = "value" => t.kind = "word"
        PROVE  Below(NextRole(f, t, fewer), NextRole(m, t, more))
    <3>1. CASE m = "takes"
      BY <2>6, <3>1 DEF Below, NextRole
    <3>2. CASE m # "takes"
      BY <2>6, <3>2 DEF Below, NextRole
    <3> QED
      BY <3>1, <3>2
  <2>7. Below(Roles(args, fewer)[k], Roles(args, more)[k])
    BY <2>2, <2>3, <2>4, <2>5, <2>6
  <2> QED
    BY <1>1, <2>7
<1> HIDE DEF agreed
<1>4. 0 .. Len(args) \subseteq agreed
  BY <1>1, <1>2, <1>3, IntervalInduction
<1> USE DEF agreed
<1> QED
  BY <1>4

---------------------------------------------------------------------------
(* An argument that names the operation x.                                   *)
Names(t, x) == <<t.name, x>> \in LongOperations \/ x \in ToSet(t.letters)

LEMMA FirstIsOne ==
  ASSUME NEW T, T \subseteq Nat
  PROVE  /\ First(T) \subseteq T
         /\ \A i, j \in First(T) : i = j
         /\ T # {} => First(T) # {}
<1>1. T # {} => First(T) # {}
  BY LeastNumber DEF First
<1>2. \A i, j \in First(T) : i = j
  BY DEF First
<1> QED
  BY <1>1, <1>2 DEF First

LEMMA LongOperationsAreOne ==
  /\ \A n, x, y : <<n, x>> \in LongOperations /\ <<n, y>> \in LongOperations => x = y
  /\ \A x : <<"none", x>> \notin LongOperations
  /\ \A op \in LongOperations : op = <<op[1], op[2]>>
BY DEF LongOperations

(* The operation dispatch.py finds in an argument is there, it is one, and   *)
(* what it misses is the P.                                                  *)
LEMMA OperationIsNamed ==
  ASSUME NEW t \in Argument
  PROVE  /\ \A x \in OperationOf(t) : x \in Operations /\ Names(t, x)
         /\ \A x, y \in OperationOf(t) : x = y
         /\ OperationOf(t) = {} =>
              \A x \in Operations : Names(t, x) => x = "P" /\ x \in ToSet(t.letters)
<1>1. ToSet(t.letters) = {t.letters[k] : k \in DOMAIN t.letters}
  BY DEF ToSet
<1>2. CASE t.kind = "long"
  <2>1. t.letters = << >> /\ t.name # "none"
    BY <1>2, ArgumentsAreWellFormed DEF WellFormed
  <2>2. ToSet(t.letters) = {}
    BY <1>1, <2>1
  <2>3. \A x : x \in OperationOf(t) <=> <<t.name, x>> \in LongOperations
    BY <1>2, LongOperationsAreOne, Zenon DEF OperationOf
  <2>4. \A x : <<t.name, x>> \in LongOperations => x \in Operations
    BY DEF Operations
  <2> QED
    BY <2>2, <2>3, <2>4, LongOperationsAreOne DEF Names
<1>3. CASE t.kind # "long"
  <2> DEFINE at == {k \in DOMAIN t.letters : t.letters[k] \in DispatchLetters}
  <2>1. t.name = "none" /\ DOMAIN t.letters \subseteq Nat
    BY <1>3, ArgumentsAreWellFormed DEF WellFormed
  <2>2. at \subseteq Nat
    BY <2>1
  <2>3. OperationOf(t) = {t.letters[k] : k \in First(at)}
    BY <1>3 DEF OperationOf
  <2>4. \A x : <<t.name, x>> \notin LongOperations
    BY <2>1, LongOperationsAreOne
  <2>5. /\ First(at) \subseteq at
        /\ \A i, j \in First(at) : i = j
        /\ at # {} => First(at) # {}
    BY <2>2, FirstIsOne
  <2>6. \A x \in OperationOf(t) : x \in Operations /\ x \in ToSet(t.letters)
    BY <1>1, <2>3, <2>5 DEF DispatchLetters
  <2>7. \A x, y \in OperationOf(t) : x = y
    BY <2>3, <2>5
  <2>8. ASSUME OperationOf(t) = {}, NEW x \in Operations, x \in ToSet(t.letters)
        PROVE  x = "P"
    <3>1. at = {}
      BY <2>3, <2>5, <2>8
    <3> QED
      BY <1>1, <2>8, <3>1 DEF DispatchLetters
  <2> QED
    BY <2>4, <2>6, <2>7, <2>8 DEF Names
<1> QED
  BY <1>2, <1>3

LEMMA ExplicitIsFirst ==
  ASSUME NEW args \in Seq(Argument)
  PROVE  /\ \A x \in ExplicitOperation(args) :
              \E i \in Options(args) : x \in OperationOf(args[i])
         /\ \A x, y \in ExplicitOperation(args) : x = y
         /\ ExplicitOperation(args) = {} =>
              \A i \in Options(args) : OperationOf(args[i]) = {}
<1> DEFINE naming == {i \in Options(args) : OperationOf(args[i]) # {}}
<1>1. Options(args) \subseteq DOMAIN args /\ DOMAIN args \subseteq Nat
  BY DEF Options
<1>2. /\ First(naming) \subseteq naming
      /\ \A i, j \in First(naming) : i = j
      /\ naming # {} => First(naming) # {}
  BY <1>1, FirstIsOne
<1>3. \A x : x \in ExplicitOperation(args) <=>
             \E i \in First(naming) : x \in OperationOf(args[i])
  BY Zenon DEF ExplicitOperation
<1>4. \A i \in DOMAIN args : args[i] \in Argument
  OBVIOUS
<1>5. \A x, y \in ExplicitOperation(args) : x = y
  <2> SUFFICES ASSUME NEW x \in ExplicitOperation(args),
                      NEW y \in ExplicitOperation(args)
               PROVE  x = y
    OBVIOUS
  <2>1. PICK i \in First(naming) : x \in OperationOf(args[i])
    BY <1>3
  <2>2. y \in OperationOf(args[i])
    BY <1>2, <1>3
  <2> QED
    BY <1>1, <1>2, <1>4, <2>1, <2>2, OperationIsNamed
<1>6. ASSUME ExplicitOperation(args) = {}, NEW i \in Options(args)
      PROVE  OperationOf(args[i]) = {}
  BY <1>2, <1>3, <1>6
<1> QED
  BY <1>2, <1>3, <1>5, <1>6

---------------------------------------------------------------------------
(* The arguments yay takes for options.                                      *)
Read(args) ==
  {i \in DOMAIN args : Roles(args, TakesValue)[i] \in {"takes", "plain"}}

(* Where no value and no target looks like an option: values and targets are *)
(* words, and what is an option for yay is one for the scans that stop at    *)
(* the first "--", and the other way round.                                  *)
LEMMA OptionsAreRead ==
  ASSUME NEW args \in Seq(Argument), ~Reading(args).confusing
  PROVE  /\ WordsAsValues(args, TakesValue)
         /\ \A i \in DOMAIN args :
              args[i].kind \in {"long", "short"} => i \in Read(args)
         /\ Read(args) \subseteq Options(args)
         /\ \A i \in DOMAIN args :
              Roles(args, TakesValue)[i] = "rest" /\ Roles(args, TakesValue)[i - 1] = "rest"
                => args[i].kind = "word"
<1> DEFINE role == Roles(args, TakesValue)
<1>1. \A i \in DOMAIN args :
        \/ role[i] = "value"
        \/ role[i] = "rest" /\ role[i - 1] = "rest"
        => args[i].kind = "word"
  BY DEF Reading
<1>2. WordsAsValues(args, TakesValue)
  BY <1>1 DEF WordsAsValues
<1>3. DOMAIN args = 1 .. Len(args) /\ Len(args) \in Nat
  OBVIOUS
<1>4. \A i \in 1 .. Len(args) :
        /\ role[i] = NextRole(role[i - 1], args[i], TakesValue)
        /\ role[i] \in {"plain", "takes", "value", "rest"}
        /\ role[i] = "rest" <=> \E j \in 1 .. i : args[j].kind = "end"
  BY <1>2, <1>3, RolesEquation, RoleIsOne, RestIsBehindEnd
<1> HIDE DEF role
<1>5. ASSUME NEW i \in DOMAIN args, args[i].kind \in {"long", "short"}
      PROVE  role[i] \in {"takes", "plain"}
  <2>1. role[i] # "value"
    BY <1>1, <1>5
  <2>2. role[i] = "rest" => role[i - 1] = "rest"
    BY <1>3, <1>4, <1>5 DEF NextRole
  <2> QED
    BY <1>1, <1>3, <1>4, <1>5, <2>1, <2>2
<1>6. ASSUME NEW i \in DOMAIN args, role[i] \in {"takes", "plain"}
      PROVE  i \in Options(args)
  <2>1. \A j \in 1 .. i : args[j].kind # "end"
    BY <1>3, <1>4, <1>6
  <2> QED
    BY <2>1 DEF Options
<1> USE DEF role
<1> QED
  BY <1>1, <1>2, <1>5, <1>6 DEF Read

(* The operations of the reading are those its options name.                 *)
LEMMA OperationsRead ==
  ASSUME NEW args \in Seq(Argument), ~Reading(args).confusing
  PROVE  /\ \A i \in DOMAIN args, x \in Operations :
              Names(args[i], x) => i \in Read(args) /\ <<i, x>> \in Reading(args).ops
         /\ \A o \in Reading(args).ops :
              /\ o = <<o[1], o[2]>> /\ o[1] \in Read(args) /\ o[2] \in Operations
              /\ Names(args[o[1]], o[2])
<1>1. ASSUME NEW i \in DOMAIN args, NEW x \in Operations
      PROVE  /\ Names(args[i], x) => i \in Read(args)
             /\ i \in Read(args) =>
                  (<<i, x>> \in Reading(args).ops <=> Names(args[i], x))
  <2>1. args[i] \in Argument
    OBVIOUS
  <2>2. Names(args[i], x) => args[i].kind \in {"long", "short"}
    <3>1. args[i].letters = << >> => ToSet(args[i].letters) = {}
      BY DEF ToSet
    <3>2. args[i].kind \notin {"long", "short"} =>
            args[i].letters = << >> /\ args[i].name = "none"
      BY <2>1, ArgumentsAreWellFormed DEF WellFormed
    <3> QED
      BY <3>1, <3>2, LongOperationsAreOne DEF Names
  <2>3. Names(args[i], x) => i \in Read(args)
    BY <2>2, OptionsAreRead
  <2>4. i \in Read(args) => (<<i, x>> \in Reading(args).ops <=> Names(args[i], x))
    BY DEF Reading, Read, Names
  <2> QED
    BY <2>3, <2>4
<1>2. Reading(args).ops \subseteq Read(args) \X Operations
  BY DEF Reading, Read
<1>3. ASSUME NEW o \in Reading(args).ops
      PROVE  /\ o = <<o[1], o[2]>> /\ o[1] \in Read(args) /\ o[2] \in Operations
             /\ Names(args[o[1]], o[2])
  <2>1. o = <<o[1], o[2]>> /\ o[1] \in Read(args) /\ o[2] \in Operations
    BY <1>2
  <2>2. o[1] \in DOMAIN args
    BY <2>1 DEF Read
  <2> QED
    BY <1>1, <2>1, <2>2
<1> QED
  BY <1>1, <1>3

(* The operation the dispatcher goes by is one yay reads.                    *)
LEMMA ExplicitIsRead ==
  ASSUME NEW args \in Seq(Argument), ~Reading(args).confusing
  PROVE  /\ \A x \in ExplicitOperation(args) :
              /\ \E i \in Read(args) : <<i, x>> \in Reading(args).ops
              /\ \A op : Only(Reading(args), op) => op = x
         /\ ExplicitOperation(args) = {} /\ "P" \notin Reading(args).letters =>
              Reading(args).ops = {}
<1>1. ASSUME NEW x \in ExplicitOperation(args)
      PROVE  \E i \in Read(args) : <<i, x>> \in Reading(args).ops
  <2>1. PICK i \in Options(args) : x \in OperationOf(args[i])
    BY ExplicitIsFirst
  <2>2. i \in DOMAIN args /\ args[i] \in Argument
    BY DEF Options
  <2>3. x \in Operations /\ Names(args[i], x)
    BY <2>1, <2>2, OperationIsNamed
  <2> QED
    BY <2>2, <2>3, OperationsRead
<1>2. ASSUME NEW x \in ExplicitOperation(args), NEW op, Only(Reading(args), op)
      PROVE  op = x
  <2>1. PICK i \in Read(args) : <<i, x>> \in Reading(args).ops
    BY <1>1
  <2>2. PICK o \in Reading(args).ops : Reading(args).ops = {o} /\ o[2] = op
    BY <1>2 DEF Only
  <2>3. o = <<i, x>>
    BY <2>1, <2>2
  <2> QED
    BY <2>2, <2>3
<1>3. ASSUME ExplicitOperation(args) = {}, NEW o \in Reading(args).ops
      PROVE  "P" \in Reading(args).letters
  <2>1. o[1] \in Read(args) /\ o[2] \in Operations /\ Names(args[o[1]], o[2])
    BY OperationsRead
  <2>2. o[1] \in Options(args) /\ args[o[1]] \in Argument
    BY <2>1, OptionsAreRead DEF Read
  <2>3. OperationOf(args[o[1]]) = {}
    BY <1>3, <2>2, ExplicitIsFirst
  <2>4. "P" \in ToSet(args[o[1]].letters)
    BY <2>1, <2>2, <2>3, OperationIsNamed
  <2> QED
    BY <2>1, <2>4 DEF Reading, Read
<1> QED
  BY <1>1, <1>2, <1>3

(* Every option the scan for the read-only ones of a sync looks at is one    *)
(* yay reads, and the other way round.                                       *)
LEMMA QueriesAreSeen ==
  ASSUME NEW args \in Seq(Argument), ~Reading(args).confusing
  PROVE  SyncIsNonInstalling(args) <=> QueriesOnly(Reading(args))
<1> DEFINE Queries(t) == \/ t.name \in PassthroughLongOptions
                         \/ ToSet(t.letters) \cap PassthroughShortOptions # {}
<1>1. SyncIsNonInstalling(args) <=> \E i \in DOMAIN args : Queries(args[i])
  BY DEF SyncIsNonInstalling, ToSet
<1>2. QueriesOnly(Reading(args)) <=> \E i \in Read(args) : Queries(args[i])
  <2>1. /\ Reading(args).letters = UNION {ToSet(args[i].letters) : i \in Read(args)}
        /\ Reading(args).names = {args[i].name : i \in Read(args)}
    BY DEF Reading, Read
  <2> QED
    BY <2>1 DEF QueriesOnly
<1>3. ASSUME NEW i \in DOMAIN args, Queries(args[i]) PROVE i \in Read(args)
  <2>1. args[i] \in Argument
    OBVIOUS
  <2>2. args[i].letters = << >> => ToSet(args[i].letters) = {}
    BY DEF ToSet
  <2>3. args[i].kind \in {"long", "short"}
    BY <1>3, <2>1, <2>2, ArgumentsAreWellFormed DEF WellFormed, PassthroughLongOptions
  <2> QED
    BY <2>3, OptionsAreRead
<1>4. Read(args) \subseteq DOMAIN args
  BY DEF Read
<1> HIDE DEF Queries
<1> QED
  BY <1>1, <1>2, <1>3, <1>4

(* A target yay reads is one for the dispatcher.                             *)
LEMMA TargetsAreSeen ==
  ASSUME NEW args \in Seq(Argument), ~Reading(args).confusing,
         Reading(args).targets
  PROVE  HasPositionalTarget(args)
<1> DEFINE mine == Roles(args, OptionsWithSeparateValues)
           yays == Roles(args, TakesValue)
<1>1. PICK i \in DOMAIN args :
        \/ yays[i] = "plain" /\ args[i].kind = "word"
        \/ yays[i] = "rest" /\ (yays[i] = "value" \/ yays[i - 1] = "rest")
  BY DEF Reading
<1>2. DOMAIN args = 1 .. Len(args) /\ Len(args) \in Nat
  OBVIOUS
<1>3. Below(mine[i], yays[i])
  BY <1>2, OptionsAreRead, Agree, InvocationAssumption
<1>4. mine[i] \in {"plain", "takes", "value", "rest"}
  BY <1>2, RoleIsOne
<1>5. yays[i] = "rest" /\ yays[i - 1] = "rest" => args[i].kind = "word"
  BY OptionsAreRead
<1> HIDE DEF mine, yays
<1>6. \/ mine[i] = "plain" /\ args[i].kind = "word"
      \/ mine[i] = "rest" /\ args[i].kind # "end"
  BY <1>1, <1>3, <1>4, <1>5 DEF Below
<1> QED
  BY <1>6 DEF HasPositionalTarget, mine

---------------------------------------------------------------------------
(* What passes installs nothing.                                             *)
LEMMA PassedIsHarmless ==
  ASSUME NEW args \in Seq(Argument), ~Reading(args).confusing,
         Decide(args) = "passthrough"
  PROVE  ~Installs(Reading(args))
<1> DEFINE op == ExplicitOperation(args)
           r == Reading(args)
<1>1. \/ op = {"S"} /\ SyncIsNonInstalling(args)
      \/ /\ op # {"S"} /\ op # {} /\ op \cap {"B", "U"} = {}
         /\ ~(op = {"Y"} /\ HasPositionalTarget(args))
  BY DEF Decide
<1>2. PICK x \in op : op = {x}
  BY <1>1, ExplicitIsFirst
<1>3. r.ops # {} /\ \A y : Only(r, y) => y = x
  BY <1>2, ExplicitIsRead
<1>4. SyncIsNonInstalling(args) => QueriesOnly(r)
  BY QueriesAreSeen
<1>5. r.targets => HasPositionalTarget(args)
  BY TargetsAreSeen
<1> HIDE DEF op, r
<1>6. ~Installs(r)
  BY <1>1, <1>2, <1>3, <1>4, <1>5 DEF Installs
<1> QED
  BY <1>6 DEF r

(* What is blocked or guarded changes something, or shows with -P.           *)
LEMMA StoppedIsNoQuery ==
  ASSUME NEW args \in Seq(Argument), ~Reading(args).confusing,
         Decide(args) \in {"block", "guard"}, "P" \notin Reading(args).letters
  PROVE  ~ReadOnly(Reading(args))
<1> DEFINE op == ExplicitOperation(args)
           r == Reading(args)
<1>1. \/ op = {"S"} /\ ~SyncIsNonInstalling(args)
      \/ op \cap {"B", "U"} # {} \/ op \in {{"Y"}, {}}
  BY DEF Decide
<1>2. CASE op = {}
  <2>1. r.ops = {}
    BY <1>2, ExplicitIsRead
  <2> HIDE DEF op, r
  <2>2. ~ReadOnly(r)
    BY <2>1 DEF ReadOnly, Only
  <2> QED
    BY <2>2 DEF r
<1>3. CASE op # {}
  <2>1. PICK x \in op : op = {x}
    BY <1>3, ExplicitIsFirst
  <2>2. \A y : Only(r, y) => y = x
    BY <2>1, ExplicitIsRead
  <2>3. SyncIsNonInstalling(args) <=> QueriesOnly(r)
    BY QueriesAreSeen
  <2> HIDE DEF op, r
  <2>4. ~ReadOnly(r)
    BY <1>1, <2>1, <2>2, <2>3 DEF ReadOnly
  <2> QED
    BY <2>4 DEF r
<1> QED
  BY <1>2, <1>3

(* Behind the guard's options what validate_yay_arguments lets through is a  *)
(* sync that installs, and has none of the guard's own options.              *)
LEMMA ValidatedIsSync ==
  ASSUME NEW args \in Seq(Argument), Validates(args),
         ~Reading(GuardOptions \o args).confusing
  PROVE  LET r == Reading(GuardOptions \o args) IN
           /\ \E o \in r.ops : o[2] = "S"
           /\ ~QueriesOnly(r)
           /\ r.controlled = Reading(GuardOptions).controlled
<1> DEFINE both == GuardOptions \o args
           r == Reading(both)
<1>1. /\ both \in Seq(Argument) /\ Len(both) = 19 + Len(args)
      /\ DOMAIN both = 1 .. 19 + Len(args) /\ Len(args) \in Nat
      /\ DOMAIN args = 1 .. Len(args) /\ DOMAIN GuardOptions = 1 .. 19
      /\ \A i \in 1 .. 19 : both[i] = GuardOptions[i]
      /\ \A i \in 1 .. Len(args) : both[i + 19] = args[i]
  <2>1. GuardOptions \in Seq(Argument) /\ Len(GuardOptions) = 19
    BY GuardOptionsAreArguments
  <2> DEFINE Joined(first) ==
        LET list == first \o args IN
          /\ list \in Seq(Argument)
          /\ Len(first) \in Nat /\ Len(args) \in Nat
          /\ Len(list) = Len(first) + Len(args)
          /\ DOMAIN list = 1 .. Len(first) + Len(args)
          /\ DOMAIN first = 1 .. Len(first) /\ DOMAIN args = 1 .. Len(args)
          /\ \A i \in 1 .. Len(first) : list[i] = first[i]
          /\ \A i \in 1 .. Len(args) : list[i + Len(first)] = args[i]
  <2>2. \A first \in Seq(Argument) : Joined(first)
    BY Behind
  <2>3. Joined(GuardOptions)
    BY <2>1, <2>2
  <2> QED
    BY <2>1, <2>3
<1>2. /\ \A i \in Options(args) :
           /\ args[i].name \notin ProtectedOptions \cup UnsupportedOptions
           /\ ToSet(args[i].letters) \cap (OtherOperations \cup UnsupportedLetters) = {}
      /\ \E i \in Options(args) : args[i].name = "--sync" \/ "S" \in ToSet(args[i].letters)
  BY DEF Validates
<1>3. ~r.confusing
  OBVIOUS
<1> HIDE DEF both
<1>4. \E o \in r.ops : o[2] = "S"
  <2>1. PICK i \in Options(args) : args[i].name = "--sync" \/ "S" \in ToSet(args[i].letters)
    BY <1>2
  <2>2. i + 19 \in DOMAIN both /\ both[i + 19] = args[i]
    BY <1>1 DEF Options
  <2>3. Names(both[i + 19], "S")
    BY <2>1, <2>2 DEF Names, LongOperations
  <2>4. "S" \in Operations
    BY DEF Operations, LongOperations
  <2>5. <<i + 19, "S">> \in r.ops
    BY <1>1, <1>3, <2>2, <2>3, <2>4, OperationsRead
  <2> QED
    BY <2>5
<1>5. ASSUME NEW i \in Read(both), i \notin 1 .. 19
      PROVE  i - 19 \in Options(args) /\ both[i] = args[i - 19]
  <2>1. i \in Options(both)
    BY <1>1, <1>3, OptionsAreRead
  <2>2. i \in 20 .. 19 + Len(args) /\ \A j \in 1 .. i : both[j].kind # "end"
    BY <1>1, <1>5, <2>1 DEF Options
  <2>3. i - 19 \in 1 .. Len(args) /\ (i - 19) + 19 = i
    BY <1>1, <2>2
  <2>4. \A j \in 1 .. i - 19 : args[j].kind # "end"
    BY <1>1, <2>2
  <2> QED
    BY <1>1, <2>3, <2>4 DEF Options
<1>6. ~QueriesOnly(r)
  <2>1. /\ r.letters = UNION {ToSet(both[i].letters) : i \in Read(both)}
        /\ r.names = {both[i].name : i \in Read(both)}
    BY DEF Reading, Read
  <2>2. ASSUME NEW i \in Read(both)
        PROVE  /\ both[i].name \notin PassthroughLongOptions
               /\ ToSet(both[i].letters) \cap PassthroughShortOptions = {}
    <3>1. CASE i \in 1 .. 19
      <4>1. both[i].letters = << >> /\ both[i].name \notin PassthroughLongOptions
        BY <1>1, <3>1, GuardOptionsAreArguments
      <4> QED
        BY <4>1 DEF ToSet
    <3>2. CASE i \notin 1 .. 19
      <4>1. PassthroughLongOptions \subseteq UnsupportedOptions
        BY DEF PassthroughLongOptions, UnsupportedOptions
      <4>2. PassthroughShortOptions \subseteq UnsupportedLetters
        BY DEF PassthroughShortOptions, UnsupportedLetters
      <4> QED
        BY <1>2, <1>5, <3>2, <4>1, <4>2
    <3> QED
      BY <3>1, <3>2
  <2> HIDE DEF r
  <2> QED
    BY <2>1, <2>2, Zenon DEF QueriesOnly
<1>7. r.controlled = Reading(GuardOptions).controlled
  <2> DEFINE Controlled(list) == {i \in Read(list) : list[i].name \in ProtectedOptions}
  <2>1. /\ r.controlled = [i \in Controlled(both) |-> both[i].name]
        /\ Reading(GuardOptions).controlled =
             [i \in Controlled(GuardOptions) |-> GuardOptions[i].name]
    BY DEF Reading, Read
  <2>2. \A i \in 1 .. 19 : i \in Read(both) <=> i \in Read(GuardOptions)
    <3> HIDE DEF Controlled, r
    <3>1. ASSUME NEW i \in 1 .. 19
          PROVE  Roles(both, TakesValue)[i] = Roles(GuardOptions, TakesValue)[i]
      <4>1. i \in 0 .. Len(GuardOptions) /\ GuardOptions \in Seq(Argument)
        BY GuardOptionsAreArguments
      <4> QED
        BY <4>1, RolesOfPrefix DEF both
    <3>2. \A i \in 1 .. 19 : i \in DOMAIN both /\ i \in DOMAIN GuardOptions
      BY <1>1
    <3> QED
      BY <3>1, <3>2 DEF Read
  <2>3. \A i \in Controlled(both) : i \in 1 .. 19
    BY <1>2, <1>5
  <2>4. \A i \in Controlled(GuardOptions) : i \in 1 .. 19
    BY <1>1 DEF Read
  <2>5. Controlled(both) = Controlled(GuardOptions)
    BY <1>1, <2>2, <2>3, <2>4
  <2>6. \A i \in Controlled(both) : both[i].name = GuardOptions[i].name
    BY <1>1, <2>3
  <2> HIDE DEF Controlled, r
  <2> QED
    BY <2>1, <2>5, <2>6
<1> QED
  BY <1>4, <1>6, <1>7 DEF both

---------------------------------------------------------------------------
(* What argv is, at each stage, of what the user typed.                      *)
IInv ==
  /\ TypeOK
  /\ pc = "launch" => Validates(argv) /\ ~active
  /\ outcome # "none" => pc = "done"
  /\ outcome = "guarded" =>
       active /\ \E args \in Seq(Argument) : Validates(args) /\ argv = GuardOptions \o args
  /\ outcome = "unguarded" => Decide(argv) = "passthrough"
  /\ ~active =>
       /\ pc = "shim" => argv = given
       /\ pc = "main" => argv = IF entry = "yay" THEN given ELSE <<Separator>> \o given
       /\ pc = "dispatch" => argv = given /\ entry # "yay"
       /\ pc \in {"wrapper", "launch"} => entry = "yay" \/ Decide(given) = "guard"
       /\ outcome = "refused" => entry = "yay" \/ Decide(given) \in {"block", "guard"}

LEMMA ListsOfArguments ==
  /\ Seq(Tokens) \subseteq Seq(Argument)
  /\ \A list \in Seq(Argument), t \in {Separator, Upgrade} :
       /\ <<t>> \o list \in Seq(Argument) /\ Len(<<t>> \o list) = Len(list) + 1
       /\ Len(list) \in Nat /\ Tail(<<t>> \o list) = list
       /\ <<t>> \o list # << >> /\ (<<t>> \o list)[1] = t
  /\ \A list \in Seq(Argument) : GuardOptions \o list \in Seq(Argument)
  /\ \A list \in Seq(Argument) : list # << >> =>
       Tail(list) \in Seq(Argument) /\ Len(Tail(list)) = Len(list) - 1
<1>1. Seq(Tokens) \subseteq Seq(Argument)
  BY DEF Argument
<1>2. ASSUME NEW list \in Seq(Argument), NEW t \in {Separator, Upgrade}
      PROVE  /\ <<t>> \o list \in Seq(Argument) /\ Len(<<t>> \o list) = Len(list) + 1
             /\ Len(list) \in Nat /\ Tail(<<t>> \o list) = list
             /\ <<t>> \o list # << >> /\ (<<t>> \o list)[1] = t
  <2>1. t \in Argument
    BY DEF Argument
  <2> QED
    BY <2>1
<1>3. \A list \in Seq(Argument) : GuardOptions \o list \in Seq(Argument)
  BY GuardOptionsAreArguments
<1> QED
  BY <1>1, <1>2, <1>3

LEMMA InitIsInductive == Init => IInv
<1> SUFFICES ASSUME Init PROVE IInv
  OBVIOUS
<1>1. given \in Seq(Tokens) /\ Len(given) <= MaxArguments
  BY InvocationAssumption DEF Init, BoundedSeq, SeqOf
<1>2. TypeOK
  BY <1>1, ListsOfArguments DEF Init, TypeOK
<1> QED
  BY <1>2 DEF Init, IInv

LEMMA NextIsInductive == IInv /\ [Next]_vars => IInv'
<1> SUFFICES ASSUME IInv, [Next]_vars PROVE IInv'
  OBVIOUS
<1>1. TypeOK /\ given \in Seq(Argument) /\ Len(given) \in Nat
  BY ListsOfArguments DEF IInv, TypeOK
<1>2. CASE Shim
  <2>1. TypeOK'
    BY <1>1, <1>2, ListsOfArguments DEF Shim, TypeOK
  <2> QED
    BY <1>1, <1>2, <2>1 DEF IInv, Shim, TypeOK
<1>3. CASE Main
  <2>1. ~active => argv' = given \/ (entry = "yay" /\ given # << >> /\ argv' = Tail(given))
    BY <1>1, <1>3, ListsOfArguments DEF IInv, Main
  <2>2. ~active /\ entry # "yay" => argv' = given
    BY <1>1, <1>3, ListsOfArguments DEF IInv, Main
  <2>3. argv' \in Seq(Argument) /\ (~active => Len(argv') <= Len(given))
    BY <1>1, <1>3, <2>1, ListsOfArguments DEF Main, TypeOK
  <2>4. TypeOK'
    BY <1>1, <1>3, <2>3 DEF Main, TypeOK
  <2> QED
    BY <1>1, <1>3, <2>2, <2>4 DEF IInv, Main, TypeOK
<1>4. CASE Dispatch
  <2>1. CASE Decide(argv) = "guard"
    <3>1. /\ pc = "dispatch" /\ pc' = "wrapper"
          /\ argv' = argv \/ argv' = <<Upgrade>> \o argv
          /\ UNCHANGED <<given, shimFirst, entry, active, outcome>>
      BY <1>4, <2>1 DEF Dispatch
    <3>2. argv' \in Seq(Argument) /\ Len(argv') <= Len(argv) + 1
      <4>1. argv \in Seq(Argument)
        BY <1>1 DEF TypeOK
      <4>2. /\ <<Upgrade>> \o argv \in Seq(Argument) /\ Len(argv) \in Nat
            /\ Len(<<Upgrade>> \o argv) = Len(argv) + 1
        BY <4>1, ListsOfArguments
      <4>3. CASE argv' = argv
        BY <4>1, <4>2, <4>3
      <4>4. CASE argv' = <<Upgrade>> \o argv
        BY <4>2, <4>4
      <4> QED
        BY <3>1, <4>3, <4>4
    <3>3. ~active => argv = given /\ Decide(given) = "guard"
      BY <2>1, <3>1 DEF IInv
    <3>4. TypeOK'
      BY <1>1, <3>1, <3>2, <3>3 DEF TypeOK
    <3> QED
      BY <1>1, <3>1, <3>3, <3>4 DEF IInv
  <2>2. CASE Decide(argv) # "guard"
    <3>1. Decide(argv) \in {"block", "guard", "passthrough"}
      BY DEF Decide
    <3>2. \/ Decide(argv) = "block" /\ End("refused")
          \/ Decide(argv) = "passthrough" /\ (End("unguarded") \/ End("failed"))
      BY <1>4, <2>2, <3>1 DEF Dispatch
    <3> QED
      BY <1>1, <1>4, <3>2 DEF IInv, Dispatch, End, TypeOK
  <2> QED
    BY <2>1, <2>2
<1>5. CASE Wrapper
  BY <1>1, <1>5 DEF IInv, Wrapper, End, TypeOK
<1>6. CASE Launch
  <2>1. TypeOK'
    BY <1>1, <1>6, ListsOfArguments DEF Launch, TypeOK
  <2>2. Validates(argv) /\ argv \in Seq(Argument) /\ argv' = GuardOptions \o argv
    BY <1>1, <1>6 DEF IInv, Launch, TypeOK
  <2> QED
    BY <1>1, <1>6, <2>1, <2>2 DEF IInv, Launch
<1>7. CASE UNCHANGED vars
  BY <1>7 DEF IInv, TypeOK, vars
<1> QED
  BY <1>2, <1>3, <1>4, <1>5, <1>6, <1>7 DEF Next

(* The invariant holds of every call, from the shell to the yay it ends in.  *)
THEOREM Inductive == Spec => []IInv
BY InitIsInductive, NextIsInductive, PTL DEF Spec

(* Every stage has a list of arguments, and before the guard is active it is *)
(* at most one longer than what the user typed.                              *)
THEOREM TypeCorrect == Spec => []TypeOK
<1>1. IInv => TypeOK
  BY DEF IInv
<1> QED
  BY <1>1, Inductive, PTL

(* No call of the shim ends in an unguarded yay that installs.               *)
THEOREM InstallsGuarded == Spec => []InstallsAreGuarded
<1>1. IInv => InstallsAreGuarded
  BY PassedIsHarmless DEF IInv, TypeOK, InstallsAreGuarded
<1> QED
  BY <1>1, Inductive, PTL

(* A guarded yay syncs, and has the guard's options as the guard gave them.  *)
THEOREM GuardedSync == Spec => []GuardedIsSync
<1>1. IInv => GuardedIsSync
  BY ValidatedIsSync DEF IInv, GuardedIsSync
<1> QED
  BY <1>1, Inductive, PTL

(* The dispatcher refuses and guards no call that only reads, but for -P.    *)
THEOREM ReadOnlyPassed == Spec => []ReadOnlyPasses
<1>1. ASSUME IInv PROVE ReadOnlyPasses
  <2>1. given \in Seq(Argument)
    BY <1>1, ListsOfArguments DEF IInv, TypeOK
  <2>2. entry = "dispatch-yay" /\ outcome \in {"refused", "guarded"} /\ ~active
          => Decide(given) \in {"block", "guard"}
    BY <1>1 DEF IInv
  <2> QED
    BY <2>1, <2>2, StoppedIsNoQuery DEF ReadOnlyPasses, EveryReadOnlyPasses
<1> QED
  BY <1>1, Inductive, PTL
===============================================================================
