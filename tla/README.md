# Verification of python3-setup

`python3-setup` is one C program that builds a Python 3 with all its libraries
into a prefix: it downloads thirteen tarballs, checks their SHA-256 sums,
unpacks them, runs the configure, build and install commands of each package in
order and writes a receipt. It keeps its state in files
(`~/.python3-setup/downloads`, `~/.python3-setup/installing`, the prefix), it
can fail or be killed at every step, and it is run again over whatever is left.
This directory holds TLA+ models of it, TLC configurations that check them on
small instances, and TLAPS proofs that some results hold for every instance.

File names without a path are in `src/`; `setup.c:107` is line 107 of
`src/setup.c`.

## The system

| Part | State it keeps | Operations |
| --- | --- | --- |
| Download and uncompress (`setup.c:107-177`, `core/http.c`, `core/sha256sum.c`, `core/tar.c`) | the files in `downloads/`, shared by all processes and by every later run | stat, hash, truncating fetch, hash again, extract |
| Setup run (`setup.c:593-1159`) | `installing/<package>`, the prefix, the receipt, the current directory, the environment | preflight, gmake, cmake, twelve times (remove, mkdir, download, chdir, configure, build, install), receipt |
| Setup command (`setup.c:1161-1329`) | the effective configuration | defaults, parse, merge |
| Configuration parser (`config-parse.c`) | a key and a value while it scans YAML tokens | one step per token |
| Self upgrade (`upgrade-self.c`, `core/cp.c`, `core/self.c`) | `tmp/latest.json`, the new tarball, the running executable | fetch, compare versions, fetch, extract, unlink, copy, chmod |
| Removal (`core/rm-r.c`) | a directory tree | walk, unlink, rmdir |
| Command search (`core/exe.c`) | none | first executable in PATH |
| Utilities (`util.c`, `core/base16.c`, `core/base64.c`, `core/zlib-flate.c`) | none | encode, decode, hash |
| Command line (`python3-setup.c`), completion (`integrate.c`), information commands | none, or one file | dispatch, print |

How they interact: the setup command calls the parser, then the run. The run
calls download-and-uncompress for gmake and for each package, rm_r before each
package, exe_lookup for cmake (and for gmake on platforms without a prebuilt
one), and a child process for each command, which it waits for. Runs interact
with earlier runs, and processes with each other, through the files they share;
there is no lock. The current directory and the environment are shared by
everything in a process: a package leaves the process where it worked, xz even
one level deeper, and all later uses of relative paths depend on that.

What is hard: the failure of any step, the death of the process between any two
steps, and what a later run with another configuration makes of the leftovers;
a cache that may hold anything; two processes in one cache; paths that change
their meaning with `chdir`. What must hold, per part:

- *Download*: success means exactly the wanted content was extracted; a
  poisoned cache heals by itself; a good file is never damaged; a call returns.
- *Setup run*: success means a complete prefix of the wanted releases, built
  against each other; builds start clean; the receipt comes last and tells the
  truth; leftovers never make a run fail; packages land in the prefix only.
- *Parser*: what is applied is what the file says, all of it or nothing; every
  documented key takes effect; memory is freed once and not used afterwards.
- *Self upgrade*: outside the window between unlink and copy there is a program
  to run; it never gets older; a newer release gets installed; leftovers of
  earlier upgrades do no harm; when the copy fails, the new program is there to
  be copied by hand; what the messages say is so.
- *Removal*: all of the tree, and outside it nothing but what links in it lead
  to, whatever the order of the entries and whatever others do meanwhile.
- *Command texts*: no path and no variable is cut, and it is known which ends of
  which commands are.

PROJECT.json lists every hazard at its line with the properties that cover it.

## The modules

| Module | What it is |
| --- | --- |
| `VerifiedSource` | abstract: what download-and-uncompress promises (call, succeed with the wanted tree, or fail) |
| `Download` | the calls of several processes in one downloads directory; implements `VerifiedSource` |
| `MCDownload` | instances of `Download` |
| `DownloadProofs` | theorems about `Download`, the refinement of `VerifiedSource` among them |
| `Provision` | abstract: what a run promises about the prefix and the receipt |
| `Setup` | one run after another on one machine; implements `Provision`; uses the promise of `VerifiedSource` for its Fetch step |
| `MCSetup` | instances of `Setup` |
| `SetupProofs` | theorems about `Setup`: types, clean builds, completeness, the order of the receipt |
| `PrefixProofs` | more of them: where packages land, the truth of the receipt, what may stop a run, the refinement of `Provision` |
| `ConfigParse` | the setup command around a run: defaults, the parser's token machine, the merge, what is allocated and freed |
| `MCConfigParse` | instances of `ConfigParse` |
| `ConfigParseProofs` | theorems about `ConfigParse` |
| `UpgradeSelf` | upgrades of the program by several processes that share `tmp/` and the path of the program |
| `MCUpgradeSelf` | instances of `UpgradeSelf` |
| `UpgradeSelfProofs` | theorems about `UpgradeSelf` |
| `TreeWalk` | the recursive walks: `rm_r`, which Setup takes by its outcomes, and `list_files` of `tar_create`, which no command of the program calls |
| `MCTreeWalk` | instances of `TreeWalk` |
| `TreeWalkProofs` | theorems about `TreeWalk` |
| `Commands` | the lengths of the texts a run of `Setup` puts together, and of the arrays they go into |
| `MCCommands` | instances of `Setup` with lengths |
| `CommandsProofs` | theorems about `Commands` |

### Download

A file is a sequence of at most `NChunks` chunks, each of one content (`Blob`).
A request is a file name (what `basename(url)` gives) and the content its sum
names; SHA-256 is taken to identify contents. `pc` follows the call:

| Label | Actions | Code |
| --- | --- | --- |
| idle | Call | the caller has made a fresh directory |
| stat | Stat | `setup.c:133` |
| check | ReadChunk, ReadError, CheckCached | `setup.c:134-148`, `core/sha256sum.c` |
| open | OpenForWrite, OpenError | `fopen(.., "wb")`, `core/http.c:102` |
| fetch | WriteChunk, FetchDone, FetchLosesTail, FetchError | `core/http.c:16-113` |
| verify | ReadChunk, ReadError, CheckFetched | `setup.c:157-167` |
| extract | ReadChunk, Extract, ExtractError | `setup.c:176`, `core/tar.c:59-207` |
| any | Kill | the process dies |

Each process reads and writes at its own offset, so another process's `fopen`
can shrink a file under a reader (it sees the end of the file) or under a
writer (the next write leaves a `Hole`). `faulty` is a history variable: the
processes whose present call the environment failed (an I/O or network error, a
wrong content served, a kill). The cache starts with any leftovers of earlier
runs. `Extract` turns what was read into a tree: a whole content, nothing (an
empty file is an empty archive to libarchive), or a torn tree with an error.

### Setup

`platform` is what sysinfo reports; `run` the configuration and prefix of the
current run; `pc`, `step` and `phase` say where it stands (`phase` indexes
`Phases(package)`, the commands of the package in the order of
`setup.c:239-591`); `cwd` is the current directory; `work[p]` is the tree and
stage of `installing/p`; `installed[r][p]` is what root `r` has of `p`: the
release and what it was configured against. A root is the absolute prefix or,
for a relative one, the directory it is taken relative to. `gmakeIn` are the
roots with a `bin/gmake`. Each label has one action with all its outcomes:
success, an error the code detects by itself (`Return`), or a failure of the
environment (`Fail`, which sets the history variable `fault`). `Kill` ends the
run at any label and may leave that step half done.

The commands of a package (`./configure`, gmake, cmake) are external. They are
modelled by what the code passes them: configure sees the packages of `Uses` in
the prefix (`-I`, `-L`, `*_LIBS`, `--with-openssl` and the like), build needs
gmake to be executable from the current directory, install puts the package
into the prefix or leaves it torn when it fails. `Uses` is read off the
configure options and the exported variables; python3, the last, also uses
ncurses and readline, which it finds by the `-I` and `-L` that every package is
given (`setup.c:707-738`). Removal (`rm_r`) is taken for
trees without links to directories: all gone, or stopped half way.

Platforms are pairs of kind and arch; `binShaGmake` says whose tarball has the
sum the source demands, which is how a wrong sum shows.

### ConfigParse

A file is a sequence of at most `MaxEntries` entries, and may end in a syntax
error. `Tokens` is external: what libyaml's scanner makes of an entry, with
plain, anchored (or tagged) and missing keys, and with values that are text,
white space, missing, or open with another token: a list (or a tag), whose
scalars the parser drops, or a nested mapping, whose own entries follow as
entries of the file, as they do in the stream of tokens, and are stored under
their own keys.
`at` is the token to scan next. `lastTokenType`, `configKeyCode` and the NULL
fields are the parser's own variables; `parsed` and `field` are the struct it
builds, and `heap` what is allocated. A copied string is named by the entry it
came from, which is also how the properties recognise it. Each kind of token in
each state of the parser is an action, as are the failures of fopen, of the
scanner and of calloc; strdup's failure is an outcome of `set_value`, whose
result the code does not check. `Merge` and `Run` are the rest of the command.

`Meaning` says what a file means by its entries. It follows the code where YAML
would not: a value whose key is missing or anchored belongs to the last plain
key before it, because `configKeyCode` is never reset (`config-parse.c:315`).

### UpgradeSelf

The program is a path that names at most one inode (`path`), and `body` says of
each inode which version it holds, whether all of it, and whether it may be
executed. A process keeps the inode it was started from (`exe`) after the path
lost it; the copy writes the inode it opened (`dst`), whatever the path names
by then. That is what makes two upgrades interesting. `json`, `tarball` and
`unpacked` are the files in `tmp/`, which all processes and all later upgrades
share. `latest` is what GitHub answers; a release may be published at any time.

| Label | Actions | Code |
| --- | --- | --- |
| idle | Start | `python3-setup.c:39-51`, the mkdirs of `upgrade-self.c:33-61` |
| ask, answer | OpenJson, Answer | `upgrade-self.c:65-75`, `core/http.c` |
| scan | Scan | `upgrade-self.c:77-199` |
| fetch, write | OpenTarball, WriteTarball, CloseTarball | `upgrade-self.c:203-235`, `core/http.c` |
| unpack, unpacking | Unpack, Unpacked | `upgrade-self.c:239-247`, `core/tar.c` |
| self | SelfPath | `upgrade-self.c:253-259`, `core/self.c` |
| unlink | Unlink | `upgrade-self.c:261-265` |
| open, copy | OpenCopy, Copied | `upgrade-self.c:267-271`, `core/cp.c` |
| chmod | Chmod | `upgrade-self.c:273-287` |
| any | Fails, LosesTail, Kill | every error return; the two `fclose` whose result is dropped; death |

Versions are triples, compared as `upgrade-self.c:186-199` does. A tag is a
version with or without a `+commit`; without one the scan fails. The JSON file
is taken by what the scan finds in it. `BY_HAND` is the end of a call that
printed the advice of `upgrade-self.c:284`; `met` and `faulty` are history
variables, the processes whose call overlapped another one or was failed by
the environment. A run has tarballs (`Asset`) under the tags publish.yml makes,
or also under the versions alone; `LeftoversHarmless` and its theorem hold for
any. `EndsWell` says what a lone upgrade may end in: a program that works and is
not older than the release, or an error when the tag was no version, or names
no tarball once it is cut. `ByName` tells the systems where `self_realpath` looks the
program up by its name from those where the kernel names the file.

### TreeWalk

A tree gives each entry its directory, its kind (file, directory, link) and,
for a link, where it leads; what has entries in it is a directory, and no
directory is in itself or below itself (`TreeAssumption`, what any file system
guarantees). `there` are the entries that exist. The recursion
is `stack`: the open directories, each with the entry it was opened by (`via`,
the name that is given to `rmdir`) and the entries `readdir` has yet to return,
in any order. `Target` is what `stat` finds: through links, or nothing when the
link dangles or the path goes through more than `MaxLinks` links, which is how
the kernel bounds a recursion that links lead back up the tree. `Create` and
`Delete` are other processes that work below the directory at the same time; an
entry created while its directory is open may be returned by `readdir` or not,
one deleted may still be (`Gone`). `noise` counts how often a call was
disturbed by them or by a failure.

### Commands

For each command of each package: the length of its text and the length of the
array, in terms of the length of the prefix, of the path of gmake or cmake, of
the digits of `--jobs` and of the log level. gmake and cmake found in PATH come
with a length that counts the final NUL, the prebuilt gmake with one that does
not (`ToolLength`), so the same array holds a digit more in one case. `Paths`
and `Exported` are the other texts of a run: the directories under HOME and the
environment variables. `Lost` is what snprintf cuts off a command and `Missing`
what the source lets one expect: nine characters of xz's configure, its
trailing `--silent` (`setup.c:338`: with another log level it is a trailing
blank that goes), and the digits of `--jobs` beyond the third, or the fourth
where gmake comes from PATH (`setup.c:254`). `CutsAreKnown` says that the two
are equal for every command, so that neither a prefix nor any other option is
ever cut.

## The runs

| Run | Instance | Question |
| --- | --- | --- |
| `download_alone` | 1 process, 2 files, 2 contents, 3 chunks; two sums for one file; fair | is success only for the verified tree, does the cache heal, are good files kept, is VerifiedSource implemented, does every call return |
| `download_shared` | 2 processes, one file, 2 chunks | what can a race do at worst: an empty tree, never a torn one |
| `setup_rerun` | 2 runs, on an empty machine and after a successful run; 3 configurations: the default, one that differs in every package, one that upgrades only what others build against; absolute prefix; fair | completeness, clean builds, receipt last and true, leftovers never make a run fail, Provision implemented, runs end |
| `setup_paths` | 2 runs, absolute and relative prefix, 4 platforms; paths of 1 and 255 characters, 1, 3, 4, 5 and 10 digits of jobs | the current directory of one package never leaks into the next; no path or variable is cut; which commands are, and by how much |
| `config_mixed` | every file of up to 3 entries over 4 names: two fields of one package, one key merged but not parsed, one parsed but not merged | is what is applied what is written, all or nothing, without leak or dangling pointer, and when is the pointer NULL |
| `upgrade_pair` | 2 processes, 2 versions and a tag that is none, 2 chunks, 4 inodes; tarballs also under the version alone; fair | one writer at a time; a broken program only between unlink and chmod, after a failure there, or by the unnoticed loss of the copy's end; leftovers harmless; never older; by hand is possible; upgrades end |
| `treewalk` | every tree of up to 3 entries below the top (files, directories, links to anything) beside one of 3 outside, 2 links per path, 1 disturbance per call; fair | what is removed at most, what success leaves, what is listed, that the walk ends |
| `setup_relative` | 1 run, relative prefix | finding: the documented relative prefix fails |
| `setup_netbsd` | 1 run on NetBSD amd64 | finding: gmake's sum is another platform's |
| `config_example` | files of up to 2 entries over keys of the README's example | finding: python3's keys are dropped |
| `upgrade_published` | 1 process, tarballs under the published tags only | finding: the tarball of a newer release is not found |
| `upgrade_torn` | 1 process, tarballs also under the version alone | finding: "up to date" is said of a torn program |

`setup_rerun` and the other Setup runs do not check for deadlock: after
`MaxRuns` runs the user starts no other, and nothing has to happen. The
ConfigParse runs do not either: the command is one pass and exits.

Why the bounds are enough. Three chunks give a file that is empty, cut in the
first or last chunk, or whole; a call remembers nothing of other calls except
the file, so one process with two contents meets every leftover. Two processes
with two chunks give every overlap of a truncation with a read or a write.
Two runs give every interruption and what the next run makes of it; what a
third would find on disk is again what a failed run left. Two releases suffice
to tell new from old. Three entries let a value come after a key of its own,
after another's, and after a repetition with something in between; the parser
remembers one mark and one key. Two upgrades give every pair of steps, and as
each goes on for ever, every leftover; four inodes are one for the path, one
each for the programs the two run from, and one to copy into; of the two
versions, 2.0.1 has the larger major and the smaller minor number, so that a
wrong comparison shows. Three entries give a link before and
after its file, a directory in a directory, a link in a directory that is
reached through a link, and a loop. The lengths of `Commands` are linear, so
two values of each tell; three, four and five digits are where the cuts begin.

The bounds are the number of runs, `MaxRuns`, of chunks, `NChunks`, of entries
of a file, `MaxEntries`, the disturbances of a walk, `MaxNoise`, and the inodes,
`Inode`; `MaxLinks` is the kernel's. All are constants of the specifications,
and the proofs hold for every value.

Fairness. `Download` assumes weak fairness of the steps a process takes by
itself, `Setup` of the run's own steps (`Proceed`): the code never waits for
another process of its own, and a network read or a child command is taken to
end, with or without success. `UpgradeSelf` does so for the steps of each
process: nothing is locked, so none waits for another. `TreeWalk` does so for
the steps of the walk; `WalkEnds` is about a walk that is left alone, since one
in a directory that others keep filling need not end. Failures and kills are never required to happen,
and starting a run is never required either.

## What is proved

By TLAPS, for every set of processes, files, contents and chunks (`Download`),
every set of releases, configurations and platforms and any number of runs
(`Setup`), every set of keys and number of entries (`ConfigParse`), every set of
processes, versions and inodes (`UpgradeSelf`), trees of every size and depth
(`TreeWalk`) and every set of lengths (`Commands`):

| Module | Theorem | Statement | From |
| --- | --- | --- | --- |
| `DownloadProofs` | `TypeCorrect` | `Spec => []TypeOK` | |
| | `OnlyVerifiedExtracted` | `Spec => []OnlyVerified` | `Disjoint` |
| | `CacheAlwaysHeals` | `Spec => []CacheHeals` | `Disjoint` |
| | `GoodFilesAreKept` | `Spec => GoodFileKept` | `Disjoint` |
| | `DownloadImplementsSource` | `Spec => ImplementsVerifiedSource` | `Disjoint` |
| | `NoTornTreeShared` | `Spec => []NoTornSuccess` | `Agreed`, `[]Honest` |
| `SetupProofs` | `TypeCorrect` | `Spec => []TypeOK` | |
| | `BuildsAreClean` | `Spec => []CleanBuild` | |
| | `SuccessComplete` | `Spec => []SuccessIsComplete` | `Absolute` |
| | `ReceiptComesLast` | `Spec => ReceiptIsLast` | `Absolute` |
| `PrefixProofs` | `LandsRight` | `Spec => []LandsInOwnTree` | |
| | `ReceiptTrue` | `Spec => []ReceiptIsTrue` | `Absolute` |
| | `OnlyFaultsStop` | `Spec => []NoFaultMeansSuccess` | `Absolute`, `SumsRight` |
| | `SetupImplementsProvision` | `Spec => ImplementsProvision` | `Absolute` |
| `ConfigParseProofs` | `TypeCorrect` | `Spec => []TypeOK` | |
| | `Applied` | `Spec => []AppliedAsWritten` | |
| | `NoHalfFile` | `Spec => []AllOrNothing` | |
| | `PointersLive` | `Spec => []NoDangling` | |
| | `EverythingFreed` | `Spec => []NoLeak` | |
| | `CrashOnlyWhenEmpty` | `Spec => []NullOnlyWithoutValue` | |
| `UpgradeSelfProofs` | `TypeCorrect` | `Spec => []TypeOK` | |
| | `WritersExclude` | `Spec => []SingleWriter` | |
| | `AdviceIsTrue` | `Spec => ByHandIsPossible` | |
| | `ProgramSurvives` | `Spec => []BrokenOnlyInside` | |
| | `NoDowngrade` | `Spec => NeverOlder` | |
| | `UpgradeWorks` | `Spec => LeftoversHarmless` | |
| `TreeWalkProofs` | `TypeCorrect` | `Spec => []TypeOK` | |
| | `RemovesOnlyReached` | `Spec => []OnlyReachedRemoved` | |
| | `SuccessClears` | `Spec => SuccessMeansGone` | |
| | `CalmWalkSucceeds` | `Spec => CalmSucceeds` | |
| | `FoundOnce` | `Spec => ListedOnce` | |
| `CommandsProofs` | `CutsExact` | `Spec => []CutsAreKnown` | |
| | `PathsAreWhole` | `Spec => []PathsWhole` | |

The hypotheses:

- `Disjoint`: no two processes ever ask for the same cache file. Without it
  `OnlyVerified` is false (a race can extract an empty file), which is what
  `download_shared` is about. One process at a time satisfies it, whatever it
  asks for.
- `Agreed` and `[]Honest`: processes that share a file want the same content of
  it, and servers send what was asked for. Otherwise one process can verify its
  content and extract what the other puts in its place. Earlier runs may
  still have left a whole or cut file of any content in the cache.
- `Absolute`: prefixes are absolute. With a relative one the packages are
  scattered over the build directories (finding 1).
- `SumsRight`: for the platforms of the instance that have a prebuilt gmake, the
  sum in the source is that gmake's. It is so for all but NetBSD amd64
  (finding 2).

*Download*. `OnlyVerified` is not inductive: that the tree is right on return
depends on what was hashed, that on what was read, and that on what the file
holds. `CallInv` says so for each label: while reading, `seen` is a prefix of
the file; while fetching, the file is exactly the chunks written so far; from
a successful comparison on, the file is whole. With `Disjoint`, nobody else
writes the file, so a step of one process keeps `CallInv` of every other; the
proof has one lemma for the frame and one step per action. `KeptInv` adds for
`GoodFileKept` that a process about to truncate its file found something else in
it. The refinement of `VerifiedSource` follows from the same invariant: of the
concrete steps only Call and those that return change what the caller sees, and
a return with OK has the wanted tree by `OnlyVerified`.

With shared files nothing is left of `CallInv`: any file may change under any
reader. What survives is that a file is *pure* (the wanted content and holes,
no other content) or *foreign* (nothing of the wanted content), which is
`SharedInv`. A sequence of chunks that hash to the wanted content cannot have
come from a foreign file, and once a file is pure or empty no step makes it
foreign again; so whatever is extracted after a successful comparison is the
wanted content, a hole-ridden piece of it, which libarchive reports, or nothing.

*Setup*. `TypeInv` adds to `TypeOK` where each label finds the loop (`StepInv`).
`BuildInv` says the build directory is the run's own from mkdir to configure;
it needs nothing about the prefix. `FillInv` says that the packages the loop
has passed are complete and that the package at hand was configured against
what this run installed: the first part is what `SuccessIsComplete` is at the
end of the loop, the second is what install turns into completeness. It rests
on the lemma `BuildOrder`: whatever package *i* uses is among the packages
before it, so that configure sees this run's release and not an earlier one's.

`LandsInOwnTree` needs that commands run below their package's build directory
(`CwdInv`): every package changes there before its first command, and the only
other chdir is xz's. `ReceiptIsTrue` is inductive beside `FillInv`. For
`NoFaultMeansSuccess`, `GmakeInv` keeps the gmake installed first in the prefix
until the builds look for it. `ImplementsProvision` maps each step to a step of
`Provision` or to a stutter: what is installed must record what the prefix held
(`FoundInv`), a run that stops leaves at most the package at hand torn, and a
receipt that could not be written is torn and not half true (`TornInv`).

*ConfigParse*. One invariant, `ParseInv`, for all theorems. `ScanInv` says which
token of its entry the scan is at and that `lastTokenType` tells a key from a
value, also inside collections, whose scalars look like values; `KeyInv` that
`configKeyCode` belongs to the last plain key, the rule `Meaning` states;
`FieldInv` that each field holds the last value given so far. `MemInv` says that
the heap is exactly the struct and the strings of its fields, each of an entry
of its own, from which both the freeing of an overwritten value and the absence
of leaks follow. `ValueInv` and `PhaseInv` tie the struct and the status to how
far the command is. There is no recursion over the file: each step adds one
entry to what the fields are compared with.

*UpgradeSelf*. That two copies never write the same inode rests on the unlink:
`WriterInv` adds to `SingleWriter` that a process between its unlink and its
`fopen` finds no file at the path and is the only one there (`Opening`), and
that what is being copied is not whole yet (`Copying`), so that no process can
be started from it. `OpenCopy` then always takes an inode nobody uses. `AdviceIsTrue` and
`ProgramSurvives` rest on `SoloInv`: while an upgrade runs that nobody overlapped,
each label vouches for what its earlier steps left (the tarball is exactly the
chunks written, the program is unpacked, the path names the copy), whatever
failed upgrades had left in the tmp directory; a second upgrade voids it by
putting both into `met`. `NeverOlder` and `LeftoversHarmless` add `Track`: the
program at the path is the upgrade's own up to the unlink and then the one it
found, which is newer and, while the upgrade is alone, what `json` names; so it
ends badly only where `EndsWell` says, and with a program that works, as the
unlink comes after everything that can fail without a failure of the
environment. That the scan's comparison is an order (`Older`) is a
lemma; the code compares three numbers one after another.

*TreeWalk*. `Reached` is the least set of directories that has the top and, with
a directory, every directory that an entry of it is or leads to; `OnlyReachedRemoved`
says that nothing goes but entries of these. The proof takes any closed set in
place of the least one: `RInv` says of each that the open directories are in
it, and so is the directory of every entry `readdir` has yet to return
(`WalkIn`), and of every one that has gone (`GoneIn`). A walk enters a directory
only as an entry of an open one or through a link there, which closed sets
allow, so one lemma (`ReachStep`) covers every action. What has gone was thus in
every closed set, and so in the least. There is no hypothesis about links: a
link to a directory in a build tree lets rm_r empty what it leads to (`rm-r.c:59`
asks stat, not lstat), and then fail at the link. The theorem says that this is
the extent of it: what is reached by no other way stays, the linked directory
itself, what is beside it, the targets of links to files.

`SuccessMeansGone` holds with links and with interference because the last thing
a successful rm_r does is a successful `rmdir` of the top: then nothing is in it,
and `Rooted` (what exists is in a directory that exists) leaves nothing below,
as the tree is well-founded. `CalmSucceeds` needs more: `Chain` says that the
open directories are a path down the tree and that readdir has yet to return
only entries that exist, `Cleared` that of those already returned only the next
open directory is left, so that each `rmdir` finds its directory empty. For
`ListedOnce`, `Collected` says that what exists in a directory the walk has
entered is yet to be returned, or entered, or listed, and only one of these. At
the end no directory is open, and well-foundedness takes the place of an
induction over the depth: the set of what is neither entered nor listed would
have each of its members' directory in it.

*Commands*. No induction: for each package and each command, the lengths of text
and array differ by what `Missing` says, by linear arithmetic over any lengths.

The assumptions on constants (`RequestAssumption`, `ConfigAssumption`,
`PrefixAssumption` and the others) are evaluated by TLC in every run.

Only model-checked: liveness (`CallsReturn`, `RunsEnd`, `UpgradeEnds`,
`WalkEnds`), which is out of the prover's reach. Every invariant and every action
property of the passing runs is stated by a theorem.

## Findings

1. `setup --prefix=.python3`, an example of README.md:269, cannot succeed where
   a prebuilt gmake exists: its path is relative (`setup.c:1037`) and is used
   after `chdir` (`setup.c:502`). Run `setup_relative`.
2. On NetBSD amd64 `setup.c:924` demands for gmake the sum of the linux aarch64
   tarball (`setup.c:895`). Run `setup_netbsd`.
3. The example of README.md:338-339 sets `src-url-python3` and
   `src-sha-python3`, which the parser does not know (`config-parse.c:174-207`):
   the default release is built, without a word. Run `config_example`.
4. `upgrade-self` reads the latest release's tag up to its `+`
   (`upgrade-self.c:136`) and asks for the tarball under that
   (`upgrade-self.c:225`), but `.github/workflows/publish.yml:460-466` creates
   the releases under the whole tag, `version+commit`. There is no tarball at
   that address: no upgrade to a newer release succeeds. Run
   `upgrade_published`; in the other runs the tarballs are there under the
   version too, so that they get past this step.
5. `copy_file` drops the result of the `fclose` that writes the end of the new
   executable (`core/cp.c:43-47`). When it does not fit on the disk, the torn
   file is made executable and the upgrade reports "python3-setup is up to date
   with version ..." (`upgrade-self.c:282`), after the old program was unlinked.
   Run `upgrade_torn`.

A configuration file without any scalar value, an empty one for instance, ends
the program with a NULL pointer (`setup.c:1224`). No document says otherwise, so
it is stated as what the code does: `NullOnlyWithoutValue`.

## Not modelled

Formatting, logging, colours, the silent and verbose modes (also
`setup.c:928-967`, which redirect output, except that opening `/dev/null` may
fail), memory allocation failures outside ConfigParse, and the contents of
archives. Two setup runs at the same time share `installing/` as well as the cache; only the cache is
modelled. A child process that outlives its killed parent is not modelled. A
stale receipt after a failed rerun is how the code works: no property forbids
it. `Setup` takes `rm_r` for trees without links to directories; what links do
is in `TreeWalk`: no document says that rm_r keeps to the build directory, so
that it empties what links lead to is stated as what the code does
(`OnlyReachedRemoved`). `list_files` is modelled although nothing but `tar_create`
calls it, and nothing `tar_create`: it is the other walk of the library, and
`ListedOnce` is about the library, not about a command. `Commands` has the lengths of the texts, not their words: how
`run_cmd` splits them at blanks, which changes every command when the prefix
has a blank in it, is not modelled. Of `latest.json`, the scan in pieces of 29
bytes, and its search for the colon beyond a piece's end
(`upgrade-self.c:88-108`), are taken by what they find: a tag or none. Two upgrades at the same time can spoil each
other's tarball and end without a program, or with a torn one, and the code
promises nothing for them beyond `SingleWriter`: the properties on results speak
of calls that overlap no other. Of archives, path stripping, listing and writing
are left out, as are the encoders and hash wrappers (`util.c`,
`core/base16.c`, `core/base64.c`, `core/zlib-flate.c`), the search in PATH beyond its
outcomes, the command line, completion, what `core/sysinfo.c` reads from the
system, and the information commands, which print and keep no state.

## Plan

In this order:

1. Done: `Download`, `Setup`, `ConfigParse`, `UpgradeSelf`, `TreeWalk`,
   `Commands`, each with theorems for every safety property of its runs, and both
   refinements.
2. Proofs: what the promise of `TreeWalk` means for the Clean step of `Setup`, and
   that of `VerifiedSource` for its Fetch step, as theorems that join the modules.
3. The search in PATH, path stripping of archives, base16 and base64 as
   functions, the command line, completion: small and sequential, one module of
   operators checked against reference definitions.

A run of the whole program beside another (shared `installing/`) is considered
after these: it needs a coarser Setup.
