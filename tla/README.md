# A specification of AUR Codex Guard

AUR Codex Guard wraps `yay`: it reviews the build metadata of AUR packages with
fixed rules and with Codex before `makepkg` may run on them, and stops the
transaction when the review is not complete or a reviewed file has changed.
These modules specify the parts of it that have state and the decisions it makes
about command lines and built packages, check them with TLC on small instances
and prove every safety property they state with TLAPS for every instance. File
names below are relative to `aur_codex_guard/`.

## The system

| part | state | operations | talks to |
|---|---|---|---|
| yay wrapper, `yay.py` | the transaction lock, a session directory, the yay process | take the lock without waiting, run the canary, prepare, run yay, record, clean up | canary, yay, audit log |
| Codex canary, `codex_review.py`, `doctor.py` | a cache file with one entry | inspect and hash Codex, look up, run the fixture, store | Codex; called by the wrapper and by `doctor --live` |
| review hook, `cli.py` | locals of one run | scan, gate, ask, write receipts, write the audit event, exit | started by yay as its editor |
| scanner, `scanner.py` | the report | list each package directory, stat, open and read each path, apply the rules | the checkouts |
| gate, `gate.py`, `models.py` | none | turn rules' findings and Codex's report into a verdict | scanner, Codex review |
| Codex review, `codex_review.py` | deadline, Codex process, reports so far | one Codex run per package, timeout and kill, aggregation | Codex |
| receipts, `receipts.py` | one authenticated file per package in the session directory | write all, verify one | written by the hook, read by the makepkg guard |
| makepkg guard, `makepkg.py` | locals of one call, the private package destination | validate arguments, verify, run makepkg, verify again, inspect every archive | started by yay instead of makepkg |
| archive inspection, `makepkg.py` | locals of one call | list an archive twice, validate names, kinds, modes and links, read the control files | bsdtar; called by the makepkg guard |
| audit log, `audit.py` | a log, a rotated log, a lock | append one event | every hook and every wrapper |
| dispatcher, `dispatch.py`, `cli.py`, the shim `yay` | the argument list, one environment variable | decide which yay invocations are guarded, passed on or refused; validate the guarded ones | wrapper, yay |
| tool checks, output, installation | none worth modelling | | |

What is hard about it: the guard does not own what it protects. yay, the user
and `makepkg` itself write the checkouts between any two of its steps; several
guard processes and several transactions run at once; any system call may fail
and any process may be interrupted or killed; Codex may ignore its deadline; and
the arguments of one call are read by four readers that do not agree.
What makes the parts correct:

- reading: what is read from a file others write is one version of it, and what
  passes verification is the version that was reviewed;
- dispatcher and wrapper: nothing is installed by a yay without the guard, what
  read-only calls do is left alone, and every call ends;
- archive inspection: an accepted package unpacks to what it lists, with no new
  privilege and no regular control file whose text was not inspected;
- hook and receipts: a receipt stands for exactly what an accepted, recorded
  review has read, and leaves nothing out;
- makepkg guard: makepkg runs on reviewed files only, and what is installed was
  verified again after its build and inspected in full;
- Codex review: an allow is unanimous and complete, in time, and leaves no
  process behind;
- wrapper: transactions do not overlap, and a reported status was recorded;
- audit log: what was acknowledged is durable and is not rotated away early;
- canary: what is vouched for has passed.

## Modules

    ReviewPolicy   Checkout            Approval (abstract)
      |     \        /   \                 ^
      |      ReviewHook  GuardedMakepkg    |  implements
    CodexReview     \     /                |
                 GuardedSession -----------+
    GuardTransactions      AuditLog      CanaryCache
    StableRead             ArchiveInspection        Invocation
      | implements
    AtomicRead (abstract)

The modules from GuardTransactions on stand by themselves. Each of StableRead and ArchiveInspection
opens one step of the session: reading a file, and deciding about an archive.

- **ReviewPolicy** (`gate.py`, `models.py`): severities, the cascade of the gate
  over one Codex report, and the aggregation of the packages' reports; pure
  operators. The gate asks only whether there are findings and limitations, so
  both are Booleans.
- **CodexReview** (`codex_review.py`): `review_with_codex`. `StartBatch`,
  `Collect`, `TimeOut`, `Reap` and `SigKill` are `Popen`, `communicate` and
  `_kill_process_group`; `leader` is the Codex process and `helper` another
  process of its group, with or without its pipes. `Tick` is the clock, which
  moves only while the guard waits and stops where a timer is due.
- **Checkout** (`receipts.py`): the package directories and the receipts. A file
  is a version (content and mode), absent, a subdirectory, a FIFO, or `Opaque`,
  which stands for everything else the scanner refuses. `Edit` and `Replace` are
  other processes.
- **ReviewHook** (`cli.py`, `scanner.py`, `gate.py`, `receipts.py`): one run of
  `hook_main`. Listing a directory, `lstat` of a path, reading a file, each
  receipt and the audit event are separate steps. A path that has become a FIFO
  since `lstat` is opened and waited for (stage "blocked"), until `FifoOpened`,
  which is somebody else's step. The regular expressions of
  the rules are abstracted to the severity of what they report (constant
  `RuleFindings`), the Codex review to any verdict.
- **GuardedMakepkg** (`makepkg.py`, `receipts.py`): one call of the makepkg guard
  per package directory at a time, the argument shapes by what they make
  makepkg do. Verification is one step per file, and waits like the hook if the
  reviewed path has become a FIFO (`OpenReturns`); makepkg itself is external.
- **GuardedSession**: the two over the same checkouts, with yay. What is assumed
  of yay is in the module's heading: it runs the hook once and not during a
  guard call, stops when the hook does, gives a package up when its guard call
  fails, and installs what a building call returned 0 for. It may otherwise call
  the guard in any order, even before the hook.
- **Approval**: the promise in four steps per package (approved, built,
  installed, and a rebuild that fails), with the record that allows builds.
- **GuardTransactions** (`yay.py`): concurrent `run_guarded_yay` processes, one
  action per step that can fail, Ctrl-C, kills, and yay with its children.
- **AuditLog** (`audit.py`): `_append_event`, one action per system call that
  matters, with a log as the sequence of events and how many of them fsync has
  covered.
- **CanaryCache** (`codex_review.py`, `doctor.py`): `ensure_codex_canary` for
  concurrent callers while Codex is upgraded. An executable is its hash.
- **StableRead** (`scanner.py`, `receipts.py`): one path, the inodes it may name,
  and one reader: the scan until it has accepted the file, then verifications of
  the receipt. Each system call is a step (`List` is `lstat`, `Open`,
  `StatOpened`, `ReadBlock`, and the second `fstat` with the comparisons in
  `FinishScan` and `FinishVerify`), and between any two of them the file is
  written, its mode or times are set, or the path is renamed or unlinked. Time
  stamps are ticks of a clock that may stand still while the file changes.
- **AtomicRead**: the same reader as the rest of the guard sees it. It opens a
  file, looks at it once, and answers later from what it saw.
- **ArchiveInspection** (`makepkg.py`): `inspect_package` over an archive as a
  sequence of entries; each reading of the archive is a step, since another
  process may rewrite it in between. `Unpack` is the reference definition: what
  becomes of the entries in an empty tree when links are followed.
- **Invocation** (the shim, `cli.py`, `dispatch.py`, `yay.py`): one call of yay,
  from what the user typed to the yay it ends in. The three scans of
  `decide_yay_dispatch` and the validation of the wrapper are operators over the
  same list of arguments; `Reading` is how yay itself reads it.
- **...Proofs**: the theorems about the module of that name
  (**GuardedSessionProofs** also: that GuardedSession implements Approval).
  **MC...**: constants for TLC.

Definitions whose comment begins with "Mutant" are not used by any
specification: each is a plausible mistake in the code, with which one of the
properties fails.

## Abstractions to keep in mind

- In the modules of the session reading a file (`open`, `fstat`, `read`, `fstat`)
  is one step after `lstat`, and so is hashing one file of a receipt. The
  comparisons around the reads are what make that step appear atomic, and
  StableRead is where this is checked and proved: what is accepted is a version
  the file had at the moment of the first `fstat` (`ReviewedIsSnapshot`,
  `VerifiedIsReviewed`), with the content `lstat` saw (`ReviewedWasListed`), and
  the reader does nothing that a reader with one look
  at that moment might not do (`ReadsAtOnce`). It holds outside one tick of the file system's clock:
  a file changed in the tick in which it was opened may be changed again without
  a trace. In the session any readable file may therefore be accepted, and one
  that differs from what `lstat` saw may be reported instead: that allows more
  than the code does, and no property of the session rests on the comparison of
  `lstat` with `fstat`, which is StableRead's `SameFile`, field by field. The
  version is one of the file that was opened: if the path is renamed between
  `open` and `fstat`, that file may since have got a version the path never
  named. The session's properties except such a file, since it was changed during
  the guard call.
- A file that grows while it is read is read to its new end. It would be read
  for ever by a writer that never stops; StableRead bounds the changes.
- In ArchiveInspection a name is the sequence of what is between its slashes, an
  empty part being written `"/"`. A text is good or not, only regular files have one
  (`bsdtar -xOf` prints nothing of a link, which passes), and control characters, the limits on listings and link targets that begin with
  exactly two slashes (which `PurePosixPath` keeps) are left out.
- In Invocation an argument is a word, `--`, a bundle of letters or a long option
  with or without an attached value; a lone `-` is left out. An argument that is
  no long option has the name "none". `Reading` assumes of
  yay that the argument behind an option with a value is its value, that `--`
  ends the options, and that two operations in one call are an error. Which
  options take a value is a constant, `TakesValue`; all that is assumed of it is
  that the options `dispatch.py` lists as such are among them.
- The limits on the size of a file and of a package are part of `Opaque`.
- A hash is its content, and a receipt with a wrong HMAC is no receipt.
- A package directory is not replaced under a running guard call, because it is
  the call's working directory. Its files may change at any time.
- A guard call that dies is a call that returns another status than 0.
- `work` in GuardTransactions is what yay has started. Ctrl-C kills yay but none
  of it, and it may go on after the lock is free.
- In AuditLog a write that is cut short is a write: the code does not look at how
  much was written. Renames and new directory entries are taken to be durable at
  once: the code never syncs the directory, so what a power failure does to a
  rename depends on the file system.
- In CanaryCache an exception of any kind is "error", and the cache holds at
  most one entry because the file does. A cached entry always has the guard's
  own version and contract, which do not change during a run.

## Runs

| run | instance | shows |
|---|---|---|
| codex_review | two packages of two and one files; the right report and every report that differs from it in one respect; timeout 2, grace 1 | `AllowIsUnanimous`, `OverridableWarning`, `DeadlineRespected`, `NoOrphans`, and that the review ends |
| session_one | one package, two files, two contents, two modes, two outside changes, up to two archives | receipts are complete, makepkg runs reviewed files, cleared packages were verified and inspected; the hook and every guard call come to an end or wait for something external |
| session_two | two packages of one file, one outside change, one archive | receipts and builds need an accepted and recorded review; refinement of Approval |
| transactions | three wrappers, one lock, one kill | transactions do not overlap, order of clean-up, meaning of the status; no wrapper waits for another's lock |
| audit_log | four writers, one event per file, one kill or power failure | acknowledged events are synced and kept; every append ends |
| canary_cache | three callers, two executables, two upgrades | what is vouched for has passed |
| stable_read | two inodes under one path, each a file or a FIFO; contents of one or two blocks, two modes, two changes, three ticks | what is reviewed is one version, what is accepted has the content `lstat` saw, what passes is that version, what nobody touched passes; refinement of AtomicRead; a read ends unless it waits for a FIFO |
| archives | every archive of up to three entries out of 24, and one rewrite | an accepted archive unpacks as listed and is harmless; ordinary ones are accepted |
| invocation | every list of up to four arguments out of 16, shim or no shim | installing calls are guarded, what is guarded is a sync under the guard's options, read-only calls pass, every call ends |

Why these bounds are enough to meet the interesting cases. Two outside changes
allow one between listing and reading and another after approval, or a change
and its reversal. Two archives are the first number at which a loop that stops
early is wrong; the same holds for two packages and a shared deadline, receipts
written in part, and the aggregated manifest. Two modes and two contents make
each comparison matter by itself. Three wrappers let a third one come while the
second waits behind a first that was killed. At one event
per file the third event is the first to throw one away, and a fourth writer
can be in the way of it at every step. Two upgrades
can bring an old executable back. Two changes let a file be written and its
times set back, or be replaced and brought back; three ticks put each in a tick
of its own, and two blocks are the fewest a mixture can be made of. Three
entries are a link, a directory beneath it and an entry beneath that, in every
order; the 24 entries hold each kind, each mode and each spelling that a
condition of the code tells apart. Four arguments are an option, its value,
`--` and what is behind it; the 16 have one of each sort the readers tell apart.
In the session runs and in stable_read every file starts in one version
(`MCInit`), which only removes starting states a change can produce. The
specifications may stop (`CHECK_DEADLOCK FALSE`): a transaction ends.

Runs that fail, each on a statement of the documentation that the code does
not keep:

| run | statement | what happens |
|---|---|---|
| session_pkgbuild | metadata is reviewed before it executes (threat model) | one root's PKGBUILD satisfies the check for all; a PKGBUILD that comes back later is in no receipt |
| session_scan_race | files that change during scanning are blocked (README) | a listed file that has become a directory is skipped without a finding |
| show_passes | read-only operations are passed to yay (threat model) | the letter `P` of `--show` is missing from the operations, so `yay -P` is taken for an update and refused |

What the code does not exclude is an exception in a property that holds, so that
the property says how far it goes:

- The lock's path depends on `XDG_RUNTIME_DIR`, so `SerialUnlessKilled` speaks of
  wrappers with the same path (`SameLock`). Its descriptor belongs to the wrapper
  alone: when a wrapper is killed its yay goes on while another may start, which
  is the exception in the name.
- Codex is hashed before it runs the canary and the hash is cached after, so
  `VouchedHasPassed` excepts executables an upgrade replaced in between (`raced`).
- The gate compares the concatenation of all packages' file lists, so
  `AllowIsUnanimous` speaks of the files of all reports together: a report may
  omit one of its own files that another package's report lists.
- After SIGTERM only the leader is waited for, so `NoOrphans` says nothing of the
  rest of the group when the leader exits by then; and Codex, in a session of its
  own, survives Ctrl-C.
- `InstallsAreGuarded` and `GuardedIsSync` except calls where the value of an
  option, or a target behind `--`, looks like an option (`confusing`): the scans
  for the operation and its options do not know values, and one of them looks
  behind `--`.
- A path that becomes a FIFO after `lstat`, or after its review, is opened without
  `O_NONBLOCK` (`scanner.py:386`, `receipts.py:118`), and `open` waits for a writer
  that may never come. `ReadEnds` and `NoStepHangs` except a reader, a hook or a
  guard call that waits there.
- `ReviewedWasListed` excepts a file that was modified in the very tick in which
  `lstat` looked at it, and one whose mtime was set by hand: ctime is not among
  what the scanner compares with `lstat`.
- `AcceptedIsHarmless` speaks of the texts of regular files. A link that is itself
  at a control path, as `.INSTALL` may be, is accepted with its target's text
  unread: nothing but its target's path is looked at. What is beneath a link is
  refused.
- The properties of the archive inspection except an archive that is rewritten
  meanwhile, which nothing in the code would notice.
- The terminal event is one step in GuardTransactions, though it waits for the
  lock of the audit log. So `NeverWaitsForLock` is about the lock of the
  transaction only; that the other wait ends is `AppendsEnd`.

## Fairness

Fairness is assumed only of the guard's own processes, which the operating
system schedules: `HookRuns` and `CallRuns` (a hook or a guard call that can go
on does), `WrapperRuns`, an appending process once it has begun, and in
CodexReview the guard's steps and the clock, in StableRead a read that has
begun, and in Invocation the one process of the call. Nothing is assumed of yay,
of `makepkg`, of Codex, of whoever edits the checkouts or has the other end of a
FIFO, of the person at the prompt or of Ctrl-C. So `NoStepHangs` ends in a state
where the prompt, makepkg or a FIFO is waited for, `NeverWaitsForLock` in one
where yay is, and `ReviewEnds` holds though Codex may never exit by itself. Weak
fairness is enough: a step that can be taken stays so until its process takes
it, except for the audit log's lock, where `AppendsEnd` holds because each
writer appends one event, so only finitely many can be served first. `ReadEnds`
rests on a bound in the same way: a file is changed finitely often, so it does
not grow for ever.

## What is proved

All theorems are about the specifications TLC runs, without the bounds: for any
sets of wrappers, lock files, packages, files, contents and modes, any
numbers of kills, changes and archives, argument lists of any length, and
archives of any length with any names, links and control paths. They assume what
the modules' ASSUMEs say and nothing else: special values (`Nobody`, `Absent`,
`Fifo`, `Opaque`, ...) are not values of the set they are added to, `LockOf` gives each
wrapper a lock file, a transaction has a package, `PKGBUILD` is a path,
arguments are well formed, yay takes a value where the dispatcher does, entries
of archives are entries of which only regular files have a bad text, and bounds
are natural numbers.

- **StableReadProofs.** The argument is about ctime. Whoever changes the opened
  inode after the first `fstat` leaves a later ctime on it than was seen, unless
  the current tick was seen (`fresh`); until then what has been read is the
  beginning of what `fstat` saw (`Stable`). When the second `fstat` sees the same
  ctime and the read is at its end, that beginning is the whole (`WholeRead`).
  `Quiet` is the same for a file nobody touches, across the scan and all
  verifications. `ReviewedIsSnapshot` alone is not inductive: it says nothing of a
  read under way. This gives `Snapshot`, `Verified` and `Untouched`.
  `Traced` is about mtime and reaches back to `lstat`: whoever writes to an inode
  after it leaves a later mtime than `lstat` saw, as long as the tick has
  passed and nobody sets times, so an opened file with that mtime still has the
  content `lstat` saw, and what has been read is the beginning of it. This gives
  `Listed`. `Refinement`, that StableRead implements AtomicRead, rests on the same
  invariant: the first `fstat` is the look, the reads are stutters, and the
  answer is given with the second `fstat`, which accepts only if
  `ReadsOneVersion`, so that what was read is what the look saw, unless the
  look was in the tick of a change and `sure` of nothing.
- **AuditLogProofs.** The properties speak of acknowledged events only; the
  invariant also follows an event on its way there. Nothing of a writer is in a
  file before it writes (`NotYet`), and between its write and its fsync the event
  stays in the log, because the writer holds the lock (`HolderOwns`, `Written`).
  `Kept` counts what came after an acknowledged event: nothing is required while
  it is in the log, as many events as the log holds once it is in the rotated
  file, and at least `Limit` when it is in neither, which a rotation of a full
  log turns into one another. They give `Synced` and `RecentKept`.
- **CanaryCacheProofs.** A call past its fixture has either run what it inspected
  or was overtaken by an upgrade; this gives `Vouched`.
- **CodexReviewProofs.** What each stage implies for the clock, the limit and the
  leader gives `InTime` and `LeavesNone`; that the reports collected so far are
  as many as the batches that were done, and what the aggregation keeps of each
  (lemmas on the worst verdict and the least confidence), gives `Asked` and
  `Unanimous`. For the list of files `Unanimous` counts: the reports together
  list as many places as there are files, and every file is at a place, so none
  is missing and none is listed twice (`ListedOnce`, with the pigeonhole facts
  of the library; `AllFiles` is a function from places for that reason).
- **GuardTransactionsProofs.** The inductive invariant `IInv` joins the type
  invariant with what each stage implies: the holders of locks are exactly the
  wrappers between `flock` and `close`; a running yay belongs to a wrapper that
  waits for it or was killed; a session directory to one between creation and
  removal, or to one that was killed or ended in error; a result "status" only
  comes with a recorded event. The properties alone are not inductive: that two
  yay processes do not overlap says nothing of a wrapper about to launch one.
  From it follow `MutualExclusion`, `Serial`, `SessionsKept` and `StatusRecorded`.
- **GuardedSessionProofs.** `TypeCorrect` first; then `SInv`, in three parts.
  `HookInv` ties the hook's stage, verdict, audit event and receipts together,
  so that a receipt implies an accepted review and an audit event implies that
  every receipt is written. `CallInv` says what a guard call has
  verified so far: each covered file is as reviewed, or still to do, or was
  written since the call's checkpoint; without the second and third case the
  invariant breaks at each step of the loop or of another process. `ArchiveInv`
  says the same of the loop over archives. They give `Approved`, `RunsReviewed`,
  `Audited`, `GoodArchives` and, as an action property, `ClearedVerified`.
- **GuardedSessionProofs**, second part. `CompleteReceipts` needs `ScanInv`: a listed path is read,
  still to do, a subdirectory, or has left a finding, and every finding of a
  path that was not read blocks (lemma `BlockingFindings`). `Refinement` shows
  that every step of the session is a step of Approval or leaves it unchanged,
  using `SInv` for the guards of the abstract actions.

- **InvocationProofs.** The state adds little: which list of arguments each stage
  has. The work is about one list, read with two tables. `Agree`: a scan that
  knows fewer options with values than yay agrees with it on what is behind `--`,
  and what it takes for a value or for an option with one, yay does too, by
  induction along the list, if the values are words.
  `OptionsAreRead`: outside the confusing calls yay therefore reads as options
  all that look like options, so what the dispatcher's scans find or miss yay
  finds or misses too (`ExplicitIsRead`, `QueriesAreSeen`, `TargetsAreSeen`).
  `PassedIsHarmless` and `StoppedIsNoQuery` put that together for each arm of
  `decide_yay_dispatch`, and `ValidatedIsSync` for the wrapper's validation and
  the options it puts in front. They give `InstallsGuarded`, `GuardedSync` and
  `ReadOnlyPassed`.
- **ArchiveInspectionProofs.** `ResolvedInside`: a link's target is followed to a
  place inside exactly when no beginning of it goes further up than it has come
  down, which makes the scan of `_resolve_archive_link` exact (`ScanIsExact`).
  `PlacedUnderItsName`: an entry is unpacked under its own name unless an entry
  before it is a link on the way there; with names that differ and none beneath
  a link this holds of every entry, by induction along the archive
  (`AllowedIsPlaced`), and nothing is overwritten (`TreeKeeps`). For an ordinary
  archive it is the other way round: as many entries are unpacked as listed, so
  no two share a place, and what is on the way is a directory. The invariant
  `Inv` says that an archive nobody has rewritten is what has been listed, and
  which names the loop has passed. They give `Unpacks`, `Harmless` and
  `OrdinaryAccepted`.

Induction. The library's induction theorems take an operator, which the provers
here cannot instantiate. The two modules above derive from `WFMin`, whose
parameters are sets, that a set of numbers has a least one, and from it
induction over an interval for a set (`IntervalInduction`). Recursion is written
as recursive functions, and one lemma each (`NormalizeEquation`,
`ResolveEquation`, `TreesEquation`, `RolesEquation`) shows that the function with
that equation exists for every length.

Only model-checked: the liveness properties (`ReviewEnds`, `NoStepHangs`,
`NeverWaitsForLock`, `AppendsEnd`, `ReadEnds`, `InvocationEnds`), which need
fairness and ENABLED and are out of TLAPS's reach; and what the failing runs
show. Every invariant and action property of a passing run is proved. The type
invariants of StableRead, GuardTransactions and AuditLog are proved (`TypeCorrect`)
and left out of their runs.

## Not modelled

The rules' regular expressions and `_git_diff` (text, and data for Codex), which
is why the scanner is only partly modelled; the version and option checks in
`compatibility.py`, `executables.py` and `doctor.py`, which parse the output of
other programs once and keep nothing, and appear as a success or a failure of
the step they guard; the text of `makepkg.conf`; terminal output other than the
prompt; the installation scripts, run once by hand, except for the shim they
install; and the evaluation script, a developer's tool.

A short write of `makepkg.conf` (`yay.py:274`) or of an audit event
(`audit.py:76`) goes unnoticed by the code and so by these modules.

## Plan

Done: the modules above, and proofs of all their invariants, action properties
and of both refinements.

What could follow:

1. ArchiveInspection under GuardedMakepkg as a refinement: the session decides
   about an archive in one step, and a rewrite during the inspection is an
   exception of `AcceptedIsHarmless`.
2. An abstract transaction that GuardTransactions implements.
3. An installation that is interrupted (`scripts/install-system.sh`).
