------------------------------- MODULE Commands -------------------------------
(***************************************************************************)
(* The texts a run of Setup puts together with snprintf, by their lengths: *)
(* the commands of each package, the paths under ~/.python3-setup and the  *)
(* variables it exports. Each goes into an array whose length is computed  *)
(* apart from the text; what does not fit is cut off without a word, and   *)
(* the cut command is run. An array of n holds n - 1 characters.           *)
(***************************************************************************)
EXTENDS Setup

CONSTANTS PathLength,  \* the lengths paths may have
          JobsDigits   \* the decimal digits --jobs may have

ASSUME LengthAssumption == PathLength \subseteq Nat /\ JobsDigits \subseteq Nat \ {0}

LogLevel == {"silent", "normal", "verbose", "very_verbose"}

\* What the texts of a run are made from: the length of its prefix, of the
\* command found in PATH (gmake or cmake), the digits of jobs, -q to -vv.
Args == [prefix : PathLength, exe : PathLength, digits : JobsDigits, level : LogLevel]

-----------------------------------------------------------------------------
(* The tools: length of the path, and the length the code takes it to have. *)

Tool(a) == IF package \notin CMakePackages /\ platform \in binUrlGmake
           THEN a.prefix + 10    \* <prefix>/bin/gmake
           ELSE a.exe

\* exe_lookup counts the final NUL, setup_internal takes it off.
ToolLength(a) == IF package \notin CMakePackages /\ platform \in binUrlGmake
                 THEN Tool(a) ELSE Tool(a) + 1

-----------------------------------------------------------------------------
(* The options the caller hands to cmakew and configurew. *)

ExtraOptions(p, L) ==
  CASE p = "zlib"     -> 24 + (L + 14)
    [] p = "libbz2"   -> 48
    [] p = "expat"    -> 123
    [] p = "gdbm"     -> 42
    [] p = "sqlite"   -> 37
    [] p = "libffi"   -> 32
    [] p = "ncurses"  -> 377 + (L + 14) + L
    [] p = "readline" -> 33 + L
    [] p = "python3"  -> 171 + L
    [] OTHER          -> 0

\* The length handed on with them.
ExtraOptionsLength(p, L) ==
  CASE p = "ncurses"  -> 380 + (L + 14) + L
    [] p = "readline" -> 34 + L
    [] p = "python3"  -> 174 + L
    [] OTHER          -> ExtraOptions(p, L)

\* The array they are put together in; the others are literals.
ExtraOptionsRoom(p, L) ==
  CASE p = "zlib"                               -> ExtraOptionsLength(p, L) + 1
    [] p \in {"ncurses", "readline", "python3"} -> ExtraOptionsLength(p, L)
    [] OTHER                                    -> ExtraOptions(p, L) + 1

-----------------------------------------------------------------------------
(* The command the run is at. *)

ConfigureText(a) ==
  CASE package = "perl"    -> 108 + a.prefix
    [] package = "openssl" -> 72 + 2 * a.prefix
    [] package = "xz"      -> 38 + a.prefix + (IF a.level = "silent" THEN 8 ELSE 0)
    [] package \in CMakePackages ->
         118 + Tool(a) + a.prefix + (IF a.level \in {"silent", "normal"} THEN 3 ELSE 2)
             + ExtraOptions(package, a.prefix)
    [] OTHER ->
         54 + a.prefix + (IF a.level = "silent" THEN 8 ELSE 0)
            + ExtraOptions(package, a.prefix)

\* Mutant of ConfigureRoom: openssl's, with one of its two prefixes counted.
ConfigureRoom_OnePrefix(a) ==
  CASE package = "perl"    -> a.prefix + 110
    [] package = "openssl" -> a.prefix + 73
    [] package = "xz"      -> a.prefix + 38
    [] package \in CMakePackages ->
         ToolLength(a) + a.prefix + ExtraOptionsLength(package, a.prefix) + 124
    [] OTHER -> a.prefix + ExtraOptionsLength(package, a.prefix) + 64

ConfigureRoom(a) ==
  CASE package = "perl"    -> a.prefix + 110
    [] package = "openssl" -> 2 * a.prefix + 73
    [] package = "xz"      -> a.prefix + 38
    [] package \in CMakePackages ->
         ToolLength(a) + a.prefix + ExtraOptionsLength(package, a.prefix) + 124
    [] OTHER -> a.prefix + ExtraOptionsLength(package, a.prefix) + 64

\* Up to the "=" of --jobs=.
BuildHead(a) == Tool(a) + IF package \in CMakePackages THEN 27 ELSE 8
BuildRoom(a) == ToolLength(a) + IF package \in CMakePackages THEN 30 ELSE 12

InstallText(a) == Tool(a) + IF package \in CMakePackages THEN 18 ELSE 8
InstallRoom(a) == ToolLength(a) + 20

\* The command and its array, of n characters and the final NUL.
Text(a) == CASE Current = "configure" -> ConfigureText(a)
             [] Current = "build"     -> BuildHead(a) + a.digits
             [] OTHER                 -> InstallText(a)
Room(a) == CASE Current = "configure" -> ConfigureRoom(a)
             [] Current = "build"     -> BuildRoom(a)
             [] OTHER                 -> InstallRoom(a)

\* What snprintf cuts off its end.
Lost(a) == IF Text(a) < Room(a) THEN 0 ELSE Text(a) - (Room(a) - 1)

-----------------------------------------------------------------------------
(* The paths under HOME of length H, and what is made of a prefix of       *)
(* length L and of an old value of length V (PATH, LD_LIBRARY_PATH): the   *)
(* lengths of the text and of the array it is put together in.             *)

HomeDir(H)    == [text |-> H + 15, room |-> H + 18]
Below(d, n, r) == [text |-> d.text + n, room |-> d.room + r]
Downloads(H)  == Below(HomeDir(H), 10, 11)
Installing(H) == Below(HomeDir(H), 11, 12)
DefaultDir(H) == Below(HomeDir(H), 8, 11)
LogFile(H)    == Below(Installing(H), 8, 9)

\* Mutant of PackageDir: the length of the text of installing/ is taken for
\* the length of its array.
PackageDir_NoNul(H, n) == [text |-> Installing(H).text + 1 + n, room |-> Installing(H).text + n]

\* installing/<name>, with a name of length n; its "/" has no room of its own.
PackageDir(H, n) == Below(Installing(H), 1 + n, n)

Paths(H, n) == {HomeDir(H), Downloads(H), Installing(H), DefaultDir(H), LogFile(H), PackageDir(H, n)}

Exported(L, V) ==
  LET lib == L + 4  include == L + 8
  IN  {[text |-> lib + 10,              room |-> lib + 11],              \* PKG_CONFIG_*
       [text |-> (L + 4) + 1 + V,       room |-> (L + 4) + V + 2],       \* PATH
       [text |-> 15 + V,                room |-> V + 16],                \* LD_LIBRARY_PATH
       [text |-> 2 * include + 14,      room |-> 2 * include + 15],      \* CPPFLAGS
       [text |-> 2 * L + 55,            room |-> 2 * L + 56],            \* LDFLAGS, -vv
       [text |-> 2 * L + 48,            room |-> 2 * L + 49],            \* LDFLAGS
       [text |-> lib + 9,               room |-> lib + 10],              \* GDBM_LIBS, LIBLZMA_LIBS
       [text |-> lib + 6,               room |-> lib + 7],               \* ZLIB_LIBS
       [text |-> lib + 8,               room |-> lib + 10],              \* BZIP2_LIBS
       [text |-> lib + 18,              room |-> lib + 19],              \* LIBSQLITE3_LIBS
       [text |-> (L + 4) + 6,           room |-> (L + 4) + 7],           \* defaultGmakePath
       [text |-> L + 12,                room |-> L + 13]}                \* receiptFilePath

-----------------------------------------------------------------------------
(* Properties *)

\* The digits of --jobs that fit: three, and four for a gmake found in PATH.
DigitsKept == IF package \in CMakePackages \/ platform \in binUrlGmake THEN 3 ELSE 4

\* What the arrays are too short for: the last option of xz's configure,
\* " --silent" (9 characters), of which a blank is left with another log
\* level, and the last digits of a large number of jobs.
Missing(a) ==
  CASE Current = "configure" /\ package = "xz"     -> IF a.level = "silent" THEN 9 ELSE 1
    [] Current = "build" /\ a.digits > DigitsKept -> a.digits - DigitsKept
    [] OTHER                                      -> 0

\* Whatever the length of the prefix, of the tools' paths, the jobs and the
\* log level, a command loses exactly what Missing says and nothing else:
\* never a prefix, never an option but xz's --silent. --jobs=1234 is cut to
\* --jobs=123, which still builds (setup.c:239-456, 508-589).
CutsAreKnown ==
  pc = "command" /\ Current \in {"configure", "build", "install"} =>
    \A a \in Args : /\ Lost(a) = Missing(a)
                    /\ ExtraOptions(package, a.prefix) < ExtraOptionsRoom(package, a.prefix)

\* No path under HOME and no exported variable is cut, so that what setup
\* creates, what it enters and what the compilers are told are the same
\* directories (setup.c:465-467, 610-656, 678-829, 850-870, 933-986).
PathsWhole ==
  pc = "command" =>
    \A l, v \in PathLength, n \in 1..8 : \A b \in Paths(l, n) \cup Exported(l, v) : b.text < b.room
===============================================================================
