---------------------------- MODULE CommandsProofs ----------------------------
(***************************************************************************)
(* What the arrays of Commands hold and what they cut off, for paths of    *)
(* any length and any number of jobs.                                      *)
(***************************************************************************)
EXTENDS Commands, TLAPS

LEMMA ArgsType ==
  ASSUME NEW a \in Args
  PROVE  /\ a.prefix \in Nat /\ a.exe \in Nat /\ a.digits \in Nat /\ a.digits > 0
         /\ Tool(a) \in Nat
         /\ ToolLength(a) \in {Tool(a), Tool(a) + 1}
<1>1. a.prefix \in Nat /\ a.exe \in Nat /\ a.digits \in Nat \ {0}
  BY LengthAssumption DEF Args
<1> QED
  BY <1>1 DEF Tool, ToolLength

\* A command from PATH comes with room for its final NUL.
LEMMA CMakeLength ==
  ASSUME NEW a \in Args, package \in CMakePackages
  PROVE  ToolLength(a) = Tool(a) + 1
  BY DEF ToolLength

\* The options handed on fit their array, and are no longer than announced.
LEMMA OptionsFit ==
  ASSUME NEW p, NEW L \in Nat
  PROVE  /\ ExtraOptions(p, L) \in Nat /\ ExtraOptionsLength(p, L) \in Nat
         /\ ExtraOptions(p, L) <= ExtraOptionsLength(p, L)
         /\ ExtraOptions(p, L) < ExtraOptionsRoom(p, L)
<1>1. CASE p = "zlib"
  BY <1>1 DEF ExtraOptions, ExtraOptionsLength, ExtraOptionsRoom
<1>2. CASE p = "ncurses"
  BY <1>2 DEF ExtraOptions, ExtraOptionsLength, ExtraOptionsRoom
<1>3. CASE p = "readline"
  BY <1>3 DEF ExtraOptions, ExtraOptionsLength, ExtraOptionsRoom
<1>4. CASE p = "python3"
  BY <1>4 DEF ExtraOptions, ExtraOptionsLength, ExtraOptionsRoom
<1>5. CASE p \notin {"zlib", "ncurses", "readline", "python3"}
  <2>1. ExtraOptions(p, L) \in Nat
    BY <1>5 DEF ExtraOptions
  <2>2. /\ ExtraOptionsLength(p, L) = ExtraOptions(p, L)
        /\ ExtraOptionsRoom(p, L) = ExtraOptions(p, L) + 1
    BY <1>5 DEF ExtraOptionsLength, ExtraOptionsRoom
  <2> QED
    BY <2>1, <2>2
<1> QED
  BY <1>1, <1>2, <1>3, <1>4, <1>5

LEMMA ConfigureLost ==
  ASSUME NEW a \in Args, Current = "configure"
  PROVE  Lost(a) = Missing(a)
<1> DEFINE L == a.prefix
<1>1. L \in Nat /\ Tool(a) \in Nat
  BY ArgsType
<1>2. /\ ExtraOptions(package, L) \in Nat /\ ExtraOptionsLength(package, L) \in Nat
      /\ ExtraOptions(package, L) <= ExtraOptionsLength(package, L)
  BY <1>1, OptionsFit
<1>3. Text(a) = ConfigureText(a) /\ Room(a) = ConfigureRoom(a)
  BY DEF Text, Room
<1>4. CASE package = "xz"
  <2>1. /\ ConfigureText(a) = 38 + L + (IF a.level = "silent" THEN 8 ELSE 0)
        /\ ConfigureRoom(a) = L + 38
    BY <1>4 DEF ConfigureText, ConfigureRoom, CMakePackages
  <2>2. Lost(a) = IF a.level = "silent" THEN 9 ELSE 1
    BY <1>1, <1>3, <2>1 DEF Lost
  <2> QED
    BY <1>4, <2>2 DEF Missing
<1>5. ASSUME package # "xz", ConfigureText(a) < ConfigureRoom(a)
      PROVE  Lost(a) = Missing(a)
  BY <1>3, <1>5 DEF Lost, Missing
<1>6. CASE package = "perl"
  <2>1. ConfigureText(a) < ConfigureRoom(a)
    BY <1>1, <1>6 DEF ConfigureText, ConfigureRoom, CMakePackages
  <2> QED
    BY <1>5, <1>6, <2>1
<1>7. CASE package = "openssl"
  <2>1. ConfigureText(a) < ConfigureRoom(a)
    BY <1>1, <1>7 DEF ConfigureText, ConfigureRoom, CMakePackages
  <2> QED
    BY <1>5, <1>7, <2>1
<1>8. CASE package \in CMakePackages
  <2>1. package \notin {"perl", "openssl", "xz"}
    BY <1>8 DEF CMakePackages
  <2>2. /\ ConfigureText(a) \in Nat
        /\ ConfigureText(a) <= 118 + Tool(a) + L + 3 + ExtraOptions(package, L)
    BY <1>1, <1>2, <1>8, <2>1 DEF ConfigureText
  <2>3. ConfigureRoom(a) = Tool(a) + 1 + L + ExtraOptionsLength(package, L) + 124
    BY <1>8, <2>1, CMakeLength DEF ConfigureRoom
  <2>4. ConfigureText(a) < ConfigureRoom(a)
    BY <1>1, <1>2, <2>2, <2>3
  <2> QED
    BY <1>5, <2>1, <2>4
<1>9. CASE package \notin {"perl", "openssl", "xz"} \cup CMakePackages
  <2>1. ConfigureText(a) \in Nat /\ ConfigureText(a) <= 54 + L + 8 + ExtraOptions(package, L)
    BY <1>1, <1>2, <1>9 DEF ConfigureText
  <2>2. ConfigureRoom(a) = L + ExtraOptionsLength(package, L) + 64
    BY <1>9 DEF ConfigureRoom
  <2>3. ConfigureText(a) < ConfigureRoom(a)
    BY <1>1, <1>2, <2>1, <2>2
  <2> QED
    BY <1>5, <1>9, <2>3
<1> QED
  BY <1>4, <1>6, <1>7, <1>8, <1>9

\* With a prebuilt gmake the length of its path is taken right; one from PATH,
\* and cmake, are taken one too long, which keeps a fourth digit for gmake.
LEMMA BuildLost ==
  ASSUME NEW a \in Args, Current = "build"
  PROVE  Lost(a) = Missing(a)
<1>1. Tool(a) \in Nat /\ a.digits \in Nat
  BY ArgsType
<1>2. Text(a) = BuildHead(a) + a.digits /\ Room(a) = BuildRoom(a)
  BY DEF Text, Room
<1>3. Missing(a) = IF a.digits > DigitsKept THEN a.digits - DigitsKept ELSE 0
  BY DEF Missing
<1>4. BuildRoom(a) = BuildHead(a) + DigitsKept + 1 /\ BuildHead(a) \in Nat
  <2>1. CASE package \in CMakePackages
    BY <1>1, <2>1, CMakeLength DEF BuildHead, BuildRoom, DigitsKept
  <2>2. CASE package \notin CMakePackages /\ platform \in binUrlGmake
    BY <1>1, <2>2 DEF BuildHead, BuildRoom, DigitsKept, ToolLength
  <2>3. CASE package \notin CMakePackages /\ platform \notin binUrlGmake
    BY <1>1, <2>3 DEF BuildHead, BuildRoom, DigitsKept, ToolLength
  <2> QED
    BY <2>1, <2>2, <2>3
<1>5. DigitsKept \in {3, 4}
  BY DEF DigitsKept
<1> QED
  BY <1>1, <1>2, <1>3, <1>4, <1>5 DEF Lost

LEMMA InstallLost ==
  ASSUME NEW a \in Args, Current = "install"
  PROVE  Lost(a) = Missing(a)
<1>1. Tool(a) \in Nat /\ ToolLength(a) \in {Tool(a), Tool(a) + 1}
  BY ArgsType
<1> QED
  BY <1>1 DEF Lost, Missing, Text, Room, InstallText, InstallRoom

\* For prefixes, tool paths and numbers of jobs of any length, what a command
\* of any package loses to its array is what Missing says.
THEOREM CutsExact == Spec => []CutsAreKnown
<1>1. CutsAreKnown
  <2> SUFFICES ASSUME Current \in {"configure", "build", "install"}, NEW a \in Args
               PROVE  /\ Lost(a) = Missing(a)
                      /\ ExtraOptions(package, a.prefix) < ExtraOptionsRoom(package, a.prefix)
    BY DEF CutsAreKnown
  <2>1. ExtraOptions(package, a.prefix) < ExtraOptionsRoom(package, a.prefix)
    BY ArgsType, OptionsFit
  <2>2. Lost(a) = Missing(a)
    BY ConfigureLost, BuildLost, InstallLost
  <2> QED
    BY <2>1, <2>2
<1> QED
  BY <1>1, PTL

\* For a HOME, a prefix and old values of any length, no path under HOME and
\* no exported variable is cut.
THEOREM PathsAreWhole == Spec => []PathsWhole
<1>1. PathsWhole
  <2> SUFFICES ASSUME NEW l \in PathLength, NEW v \in PathLength, NEW n \in 1..8,
                      NEW b \in Paths(l, n) \cup Exported(l, v)
               PROVE  b.text < b.room
    BY DEF PathsWhole
  <2>1. l \in Nat /\ v \in Nat /\ n \in Nat
    BY LengthAssumption
  <2>2. CASE b \in Paths(l, n)
    BY <2>1, <2>2 DEF Paths, HomeDir, Below, Downloads, Installing, DefaultDir, LogFile, PackageDir
  <2>3. CASE b \in Exported(l, v)
    BY <2>1, <2>3 DEF Exported
  <2> QED
    BY <2>2, <2>3
<1> QED
  BY <1>1, PTL

===============================================================================
