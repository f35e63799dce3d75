-------------------------- MODULE ArchiveInspection --------------------------
(* The inspection of one built package: inspect_package and what it calls in *)
(* aur_codex_guard/makepkg.py.  bsdtar reads the archive anew for each of    *)
(* its two listings and for every control file, and nothing holds the        *)
(* archive still in between.                                                 *)
(*                                                                           *)
(* An archive is a sequence of entries.  A name or a link's target is what   *)
(* is between its slashes, where there is nothing between them a slash:      *)
(* "/a//b/" is <<"/", "a", "/", "b", "/">>.  The bits of a mode are those    *)
(* that matter.  A text is good, or else too large, binary or matched by a   *)
(* rule; only regular files have one, and what bsdtar prints of anything     *)
(* else, nothing, is good.  Control characters in names, the limits on       *)
(* listings and targets that begin with exactly two slashes are left out.    *)
EXTENDS Naturals, FiniteSets, SequencesExt

CONSTANTS
  Parts,         \* what names are made of
  Archives,      \* what the package may be
  Rewrites,      \* what it may become during its inspection
  ControlFiles,  \* CONTROL_PATHS
  ControlDirs,   \* CONTROL_PATH_PREFIXES
  Installed,     \* the privileged bits of each regular file now installed
  MaxRewrites    \* bound

Privileges == {"setuid", "setgid"}

Path == Seq(Parts)
Entry ==
  [name : Path, kind : {"-", "d", "l", "h", "c"},
   bits : SUBSET (Privileges \cup {"writable", "sticky"}),
   target : Path, good : BOOLEAN]

ASSUME ArchiveAssumption ==
  /\ Archives \cup Rewrites \subseteq Seq(Entry)
  /\ \A a \in Archives \cup Rewrites : \A i \in DOMAIN a :
       a[i].kind # "-" => a[i].good
  /\ \A path \in DOMAIN Installed : Installed[path] \subseteq Privileges
  /\ MaxRewrites \in Nat

VARIABLES
  archive,   \* the file under the package's name
  pc,        \* the next step of the inspection
  plain,     \* the names bsdtar -tf has listed
  verbose,   \* the entries bsdtar -tvf has listed
  at,        \* the entry whose text may be needed next
  verdict,   \* how the inspection ended
  rewrites   \* how often the archive was rewritten
vars == <<archive, pc, plain, verbose, at, verdict, rewrites>>

Names(entries) == [i \in DOMAIN entries |-> entries[i].name]

TypeOK ==
  /\ archive \in Archives \cup Rewrites
  /\ pc \in {"stat", "plain", "verbose", "validate", "inspect", "done"}
  /\ plain \in Seq(Path)
  /\ verbose \in {<< >>} \cup Archives \cup Rewrites
  /\ at \in 1 .. Len(plain) + 1
  /\ verdict \in {"none", "accepted", "forbidden", "failed"}
  /\ rewrites \in 0 .. MaxRewrites

Init ==
  /\ archive \in Archives
  /\ pc = "stat" /\ verdict = "none" /\ rewrites = 0
  /\ plain = << >> /\ verbose = << >> /\ at = 1

---------------------------------------------------------------------------
Keep(path, part) == IF part \in {"/", "."} THEN path ELSE Append(path, part)

Normalize(name) ==
  LET upTo[i \in 0 .. Len(name)] ==
        IF i = 0 THEN << >> ELSE Keep(upTo[i - 1], name[i])
  IN upTo[Len(name)]

UnsafeName(name) == name = << >> \/ name[1] = "/" \/ ".." \in ToSet(name)

IsDuplicate(names, i) ==
  \E j \in 1 .. i - 1 : Normalize(names[j]) = Normalize(names[i])

(* Parts of the target are pushed and popped on the link's directory; where  *)
(* there is nothing to pop the target leaves the package.                    *)
Follow(link, part) ==
  IF ~link.inside \/ part \in {"/", "."} THEN link
  ELSE IF part # ".." THEN [link EXCEPT !.path = Append(@, part)]
  ELSE IF link.path = << >> THEN [link EXCEPT !.inside = FALSE]
  ELSE [link EXCEPT !.path = Front(@)]

Resolve(from, target) ==
  LET upTo[i \in 0 .. Len(target)] ==
        IF i = 0 THEN [inside |-> TRUE, path |-> from]
        ELSE Follow(upTo[i - 1], target[i])
  IN upTo[Len(target)]

Directory(path) == IF path = << >> THEN << >> ELSE Front(path)

(* Where a target starts from in that directory.                             *)
Base(directory, target) == IF target[1] = "/" THEN << >> ELSE directory

(* _resolve_archive_link returns None.                                       *)
LinkIsUnsafe(path, target) ==
  \/ target = << >>
  \/ ~Resolve(Base(Directory(path), target), target).inside

(* _privileged_mode_is_preexisting: an installed file has those bits.        *)
PreExisting(path, bits) ==
  path \in DOMAIN Installed /\ bits \cap Privileges \subseteq Installed[path]

(* Mutant: the mode of a link is looked at as well.                          *)
ModeIsForbidden_LinksToo(path, e) ==
  \/ /\ e.kind = "-" /\ e.bits \cap Privileges # {}
     /\ ~PreExisting(path, e.bits)
  \/ "writable" \in e.bits /\ "sticky" \notin e.bits

ModeIsForbidden(path, e) ==
  /\ e.kind # "l"
  /\ \/ /\ e.kind = "-" /\ e.bits \cap Privileges # {}
        /\ ~PreExisting(path, e.bits)
     \/ "writable" \in e.bits /\ "sticky" \notin e.bits

EntryIsForbidden(name, e) ==
  LET path == Normalize(name) IN
    \/ e.kind \notin {"-", "d", "l"}
    \/ e.kind = "l" /\ (e.name # name \/ LinkIsUnsafe(path, e.target))
    \/ ModeIsForbidden(path, e)

(* Mutant: only the directory of an entry is looked for among the links.     *)
BeneathLink_Direct(names, entries, i) ==
  \E j \in DOMAIN names :
    /\ entries[j].kind = "l"
    /\ Normalize(names[j]) = Directory(Normalize(names[i]))
    /\ Normalize(names[i]) # << >>

BeneathLink(names, entries, i) ==
  \E j \in DOMAIN names :
    /\ entries[j].kind = "l" /\ Normalize(names[j]) # << >>
    /\ IsStrictPrefix(Normalize(names[j]), Normalize(names[i]))

(* _validate_archive_paths raises.                                           *)
PathsAreForbidden(names, entries) ==
  \/ names = << >> \/ Len(entries) # Len(names)
  \/ \E i \in DOMAIN names :
       \/ UnsafeName(names[i]) \/ IsDuplicate(names, i)
       \/ EntryIsForbidden(names[i], entries[i])
       \/ BeneathLink(names, entries, i)

(* Mutant: a control file is recognized by the spelling of its name.         *)
IsControl_AsSpelled(name) ==
  \/ name \in ControlFiles
  \/ \E dir \in ControlDirs : IsStrictPrefix(dir, name)

(* _is_control_path                                                          *)
IsControl(name) ==
  \/ Normalize(name) \in ControlFiles
  \/ \E dir \in ControlDirs : IsStrictPrefix(dir, Normalize(name))
---------------------------------------------------------------------------
Goto(stage) == pc' = stage /\ UNCHANGED verdict
End(how) == pc' = "done" /\ verdict' = how
Fails == End("failed") /\ UNCHANGED <<archive, plain, verbose, at, rewrites>>

(* lstat, and bsdtar is looked up.                                           *)
Stat ==
  /\ pc = "stat"
  /\ \/ Goto("plain") /\ UNCHANGED <<archive, plain, verbose, at, rewrites>>
     \/ Fails

(* bsdtar -tf                                                                *)
ListPlain ==
  /\ pc = "plain"
  /\ \/ /\ plain' = Names(archive)
        /\ Goto("verbose")
        /\ UNCHANGED <<archive, verbose, at, rewrites>>
     \/ Fails

(* bsdtar -tvf                                                               *)
ListVerbose ==
  /\ pc = "verbose"
  /\ \/ /\ verbose' = archive
        /\ Goto("validate")
        /\ UNCHANGED <<archive, plain, at, rewrites>>
     \/ Fails

Validate ==
  /\ pc = "validate"
  /\ IF PathsAreForbidden(plain, verbose) THEN End("forbidden") ELSE Goto("inspect")
  /\ UNCHANGED <<archive, plain, verbose, at, rewrites>>

(* bsdtar -xOf writes the texts of the entries with that name, of which      *)
(* there are none if the archive is another one by now.                      *)
TextIsGood(name) ==
  \A i \in DOMAIN archive : archive[i].name = name => archive[i].good

(* Mutant: the loop goes one entry too far.                                  *)
Inspect_OneMore ==
  /\ pc = "inspect" /\ at <= Len(plain)
  /\ at' = at + 2 /\ Goto("inspect")
  /\ UNCHANGED <<archive, plain, verbose, rewrites>>

(* One turn of the loop of _inspect_metadata.                                *)
Inspect ==
  /\ pc = "inspect" /\ at <= Len(plain)
  /\ \/ /\ ~IsControl(plain[at]) \/ TextIsGood(plain[at])
        /\ at' = at + 1 /\ Goto("inspect")
        /\ UNCHANGED <<archive, plain, verbose, rewrites>>
     \/ /\ IsControl(plain[at]) /\ ~TextIsGood(plain[at])
        /\ End("forbidden")
        /\ UNCHANGED <<archive, plain, verbose, at, rewrites>>
     \/ IsControl(plain[at]) /\ Fails

Accept ==
  /\ pc = "inspect" /\ at > Len(plain)
  /\ End("accepted")
  /\ UNCHANGED <<archive, plain, verbose, at, rewrites>>

(* Another process writes the archive.                                       *)
Rewrite ==
  /\ pc # "done" /\ rewrites < MaxRewrites
  /\ archive' \in Rewrites \ {archive}
  /\ rewrites' = rewrites + 1
  /\ UNCHANGED <<pc, plain, verbose, at, verdict>>

Next ==
  \/ Stat \/ ListPlain \/ ListVerbose \/ Validate \/ Inspect \/ Accept
  \/ Rewrite

Spec == Init /\ [][Next]_vars

---------------------------------------------------------------------------
(* Reference definitions: what becomes of an archive that is unpacked into   *)
(* an empty tree, links being followed on the way to an entry.               *)
Enter(tree, dir, part) ==
  LET here == Append(dir, part) IN
    IF here \in DOMAIN tree /\ tree[here].kind = "l"
    THEN Resolve(Base(dir, tree[here].target), tree[here].target).path
    ELSE here

RealDirectory(tree, path) ==
  LET upTo[i \in 0 .. Len(path) - 1] ==
        IF i = 0 THEN << >> ELSE Enter(tree, upTo[i - 1], path[i])
  IN upTo[Len(path) - 1]

Spot(tree, e) ==
  LET path == Normalize(e.name) IN
    IF path = << >> THEN path ELSE Append(RealDirectory(tree, path), Last(path))

Unpack(tree, e) ==
  [p \in DOMAIN tree \cup {Spot(tree, e)} |->
     IF p = Spot(tree, e) THEN e ELSE tree[p]]

(* The tree after so many entries.                                           *)
Trees(entries) ==
  LET upTo[i \in 0 .. Len(entries)] ==
        IF i = 0 THEN << >> ELSE Unpack(upTo[i - 1], entries[i])
  IN upTo

Unpacked(entries) == Trees(entries)[Len(entries)]

(* What has been accepted, and was not rewritten meanwhile, unpacks to what  *)
(* it lists: every entry is found under its own name, not moved through a    *)
(* link and not replaced by another entry, however names are spelled and in  *)
(* whatever order they come (makepkg.py 117-171).                            *)
UnpacksAsListed ==
  verdict = "accepted" /\ rewrites = 0 =>
    \A i \in DOMAIN archive :
      LET path == Normalize(archive[i].name) IN
        path \in DOMAIN Unpacked(archive) /\ Unpacked(archive)[path] = archive[i]

(* How many of the first k parts of a target go up, and how many down.       *)
Ups(target, k) == Cardinality({j \in 1 .. k : target[j] = ".."})
Downs(target, k) ==
  Cardinality({j \in 1 .. k : target[j] \notin {"/", ".", ".."}})

(* A target that never has more ".." behind it than directories above it.    *)
StaysInside(e) ==
  LET from == Base(Directory(Normalize(e.name)), e.target)
  IN \A k \in DOMAIN e.target :
       Ups(e.target, k) <= Downs(e.target, k) + Len(from)

(* In what has been accepted, and was not rewritten meanwhile, no regular    *)
(* file has a privilege no installed file has, no link's target leaves the   *)
(* package, and every regular file at a control path has a good text.  Of a  *)
(* link at a control path this says nothing more: it has no text of its own, *)
(* nobody reads its target's, and it is accepted (makepkg.py 141-171,        *)
(* 210-246).                                                                 *)
AcceptedIsHarmless ==
  verdict = "accepted" /\ rewrites = 0 =>
    LET tree == Unpacked(archive) IN \A path \in DOMAIN tree :
      LET e == tree[path] IN
        /\ e.kind = "l" => StaysInside(e)
        /\ e.kind = "-" => e.bits \cap Privileges \subseteq
             (IF path \in DOMAIN Installed THEN Installed[path] ELSE {})
        /\ \/ e.kind # "-" \/ e.good
           \/ /\ path \notin ControlFiles
              /\ \A k \in DOMAIN path : SubSeq(path, 1, k - 1) \notin ControlDirs

(* An ordinary package is not refused: relative names that differ, regular   *)
(* files, directories and links that stay inside, no privileges, nobody      *)
(* else may write, and good texts (makepkg.py 151-154).                      *)
OrdinaryEntry(e) ==
  /\ e.kind \in {"-", "d", "l"} /\ e.good
  /\ e.kind # "l" => e.bits \subseteq {"sticky"}
  /\ e.name # << >> /\ e.name[1] # "/" /\ ".." \notin ToSet(e.name)
  /\ e.kind = "l" => e.target # << >> /\ StaysInside(e)

Ordinary(entries) ==
  /\ entries # << >> /\ \A i \in DOMAIN entries : OrdinaryEntry(entries[i])
  /\ DOMAIN Unpacked(entries) = {Normalize(entries[i].name) : i \in DOMAIN entries}
  /\ Cardinality(DOMAIN Unpacked(entries)) = Len(entries)
  /\ \A p, q \in DOMAIN Unpacked(entries) :
       IsStrictPrefix(p, q) => Unpacked(entries)[p].kind = "d"

OrdinaryIsAccepted ==
  verdict = "forbidden" /\ rewrites = 0 => ~Ordinary(archive)
=============================================================================
