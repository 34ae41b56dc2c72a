---------------------------- MODULE ConfigParse ----------------------------
(***************************************************************************)
(* python3_setup_setup (setup.c) up to and after setup_internal: the       *)
(* defaults, python3_setup_config_parse (config-parse.c) over the tokens   *)
(* of libyaml, the merge of the two configurations, and what is freed.     *)
(*                                                                         *)
(* The parser keeps the kind of the last mark (lastTokenType) and the last *)
(* key it read (configKeyCode); it sees no nesting and no end of an entry. *)
(* A string the program copies is named by the entry it was copied from.   *)
(***************************************************************************)
EXTENDS Integers, Sequences, FiniteSets, FiniteSetsExt, Functions

CONSTANTS Names,      \* the plain scalar keys a file can have
          MaxEntries  \* bound on the entries of a file

\* Keys that are no plain scalar: none at all (": v") or one behind an anchor
\* or a tag ("&a k: v").
NoKey    == "no key"
Anchored == "anchored"

ASSUME NamesAssumption == Names \subseteq STRING /\ Names \cap {NoKey, Anchored} = {}
ASSUME MaxEntriesAssumption == MaxEntries \in Nat \ {0}

\* The names config-parse.c knows, which are also the fields it frees.
ParsedKeys == {"src-url-zlib",    "src-sha-zlib",    "src-url-libbz2", "src-sha-libbz2",
               "src-url-libffi",  "src-sha-libffi",  "src-url-sqlite", "src-sha-sqlite",
               "src-url-expat",   "src-sha-expat",   "src-url-cmake",  "src-sha-cmake",
               "src-url-openssl", "src-sha-openssl", "src-url-perl",   "src-sha-perl"}

\* The fields setup.c takes over: not cmake's, and five packages of its own.
MergedKeys == (ParsedKeys \ {"src-url-cmake", "src-sha-cmake"}) \cup
              {"src-url-python3", "src-sha-python3", "src-url-readline", "src-sha-readline",
               "src-url-ncurses", "src-sha-ncurses", "src-url-gdbm",     "src-sha-gdbm",
               "src-url-xz",      "src-sha-xz"}

Unknown == "unknown"
Default == 0   \* as a field of config: the string literal of the program
Struct  == 0   \* as a block of the heap: the Python3SetupConfig itself

VARIABLES file,           \* the --config file, or that none is given
          at,             \* the entry and the token of it to scan next
          pc,             \* where the command stands
          lastTokenType,  \* 1 after a KEY token, 2 after a VALUE token, else 0
          configKeyCode,  \* the field the last scanned key names
          parsed,         \* whether userSpecifiedConfig is there (not NULL)
          field,          \* its fields that are not NULL, by the entry copied
          heap,           \* the blocks allocated and not freed
          config,         \* the effective configuration
          ret,            \* the status
          starved         \* whether an allocation has failed (history)

parser == <<lastTokenType, configKeyCode>>
memory == <<parsed, field, heap>>
vars   == <<file, at, pc, parser, memory, config, ret, starved>>

Entry == [key : Names \cup {NoKey, Anchored}, value : {"text", "blank", "none", "list", "map"}]
File  == {f \in [given : BOOLEAN, entries : UNION {[1..n -> Entry] : n \in 0..MaxEntries}, broken : BOOLEAN] :
            f.given \/ (f.entries = <<>> /\ ~f.broken)}
Labels  == {"start", "scan", "merge", "run", "finalize", "done", "crashed"}
Results == {"OK", "ERROR", "FORMULA_SYNTAX", "MEMORY_ALLOCATE", "SETUP_ERROR"}

TypeOK ==
  /\ file \in File
  /\ at \in (1..MaxEntries + 1) \X (1..7)
  /\ pc \in Labels
  /\ lastTokenType \in 0..2
  /\ configKeyCode \in ParsedKeys \cup {Unknown}
  /\ parsed \in BOOLEAN
  /\ DOMAIN field \subseteq ParsedKeys
  /\ Range(field) \subseteq 1..MaxEntries
  /\ heap \subseteq 0..MaxEntries
  /\ config \in [MergedKeys -> 0..MaxEntries]
  /\ ret \in Results
  /\ starved \in BOOLEAN

Init ==
  /\ file \in File
  /\ at = <<1, 1>>
  /\ pc = "start"
  /\ lastTokenType = 0
  /\ configKeyCode = Unknown
  /\ parsed = FALSE
  /\ field = <<>>
  /\ heap = {}
  /\ config = [k \in MergedKeys |-> Default]
  /\ ret = "OK"
  /\ starved = FALSE

-----------------------------------------------------------------------------
(* What libyaml's scanner makes of an entry. A list stands for every value  *)
(* that opens with another token and has no key in it: a sequence of        *)
(* scalars, an alias, a scalar behind an anchor or a tag. A map stands for  *)
(* the opening of a nested mapping, or of a sequence of mappings: its own   *)
(* entries follow as entries of the file, as in the stream of tokens. The   *)
(* tokens around the entries only reset lastTokenType.                      *)

Mark(type)   == [type |-> type, value |-> ""]
Scalar(text) == [type |-> "SCALAR", value |-> text]

KeyTokens(key) ==
  CASE key = NoKey    -> <<>>
    [] key = Anchored -> <<Mark("KEY"), Mark("OTHER"), Scalar("k")>>
    [] OTHER          -> <<Mark("KEY"), Scalar(key)>>

ValueTokens(value) ==
  CASE value = "none" -> <<Mark("VALUE")>>
    [] value = "list" -> <<Mark("VALUE"), Mark("OTHER"), Scalar("text"), Mark("OTHER")>>
    [] value = "map"  -> <<Mark("VALUE"), Mark("OTHER")>>
    [] OTHER          -> <<Mark("VALUE"), Scalar(value)>>

Tokens(i) == KeyTokens(file.entries[i].key) \o ValueTokens(file.entries[i].value)

Scanning == pc = "scan" /\ at[1] <= Len(file.entries)
AtEnd    == pc = "scan" /\ at[1] > Len(file.entries)
token    == Tokens(at[1])[at[2]]

Advance == at' = IF at[2] < Len(Tokens(at[1])) THEN <<at[1], at[2] + 1>> ELSE <<at[1] + 1, 1>>

-----------------------------------------------------------------------------
(* Memory. *)

\* python3_setup_config_free: the strings, then the struct.
config_free ==
  /\ heap' = heap \ (IF parsed THEN Range(field) \cup {Struct} ELSE {})
  /\ parsed' = FALSE
  /\ field' = <<>>

\* The string a field of the struct points to, if it points to one.
Held(k) == IF k \in DOMAIN field THEN {field[k]} ELSE {}

\* Mutant of key_code_from_key_name: the key table without its last branch: the name itself.
key_code_from_key_name_Any(name) == name

key_code_from_key_name(name) == IF name \in ParsedKeys THEN name ELSE Unknown

\* python3_setup_config_set_value. A value of white space alone is none. The
\* result of strdup is not checked: without memory the field is NULL again.
set_value(k, value) ==
  \/ /\ k = Unknown \/ value = "blank"
     /\ heap' = heap \cup {Struct}
     /\ UNCHANGED <<field, starved>>
  \/ /\ k # Unknown /\ value # "blank"
     /\ field' = [f \in DOMAIN field \cup {k} |-> IF f = k THEN at[1] ELSE field[f]]
     /\ heap' = (heap \ Held(k)) \cup {Struct, at[1]}
     /\ UNCHANGED starved
  \/ /\ k # Unknown /\ value # "blank"
     /\ field' = Restrict(field, DOMAIN field \ {k})
     /\ heap' = (heap \ Held(k)) \cup {Struct}
     /\ starved' = TRUE

-----------------------------------------------------------------------------
(* Actions. *)

Start ==
  /\ pc = "start"
  /\ pc' = IF file.given THEN "scan" ELSE "run"
  /\ UNCHANGED <<file, at, parser, memory, config, ret, starved>>

\* fopen or yaml_parser_initialize fails.
OpenError ==
  /\ pc = "start"
  /\ file.given
  /\ pc' = "finalize"
  /\ ret' = "ERROR"
  /\ UNCHANGED <<file, at, parser, memory, config, starved>>

\* Mutant of ScanMark: collections do not reset the mark: their scalars become values.
ScanMark_NoReset ==
  /\ Scanning
  /\ token.type # "SCALAR"
  /\ lastTokenType' = CASE token.type = "KEY" -> 1 [] token.type = "VALUE" -> 2 [] OTHER -> lastTokenType
  /\ Advance
  /\ UNCHANGED <<file, pc, configKeyCode, memory, config, ret, starved>>

\* KEY, VALUE and every token but a scalar.
ScanMark ==
  /\ Scanning
  /\ token.type # "SCALAR"
  /\ lastTokenType' = CASE token.type = "KEY" -> 1 [] token.type = "VALUE" -> 2 [] OTHER -> 0
  /\ Advance
  /\ UNCHANGED <<file, pc, configKeyCode, memory, config, ret, starved>>

ScanKeyName ==
  /\ Scanning
  /\ token.type = "SCALAR"
  /\ lastTokenType = 1
  /\ configKeyCode' = key_code_from_key_name(token.value)
  /\ Advance
  /\ UNCHANGED <<file, pc, lastTokenType, memory, config, ret, starved>>

\* Mutant of ScanText: the struct is allocated for a known key only.
ScanText_KnownOnly ==
  /\ Scanning
  /\ token.type = "SCALAR"
  /\ lastTokenType = 2
  /\ parsed' = (parsed \/ configKeyCode # Unknown)
  /\ set_value(configKeyCode, token.value)
  /\ Advance
  /\ UNCHANGED <<file, pc, parser, config, ret>>

\* The struct is allocated for the first value, whatever its key.
ScanText ==
  /\ Scanning
  /\ token.type = "SCALAR"
  /\ lastTokenType = 2
  /\ parsed' = TRUE
  /\ set_value(configKeyCode, token.value)
  /\ Advance
  /\ UNCHANGED <<file, pc, parser, config, ret>>

\* A scalar inside a collection, or behind an anchor or a tag.
ScanOther ==
  /\ Scanning
  /\ token.type = "SCALAR"
  /\ lastTokenType = 0
  /\ Advance
  /\ UNCHANGED <<file, pc, parser, memory, config, ret, starved>>

OutOfMemory ==
  /\ Scanning
  /\ token.type = "SCALAR"
  /\ lastTokenType = 2
  /\ ~parsed
  /\ pc' = "finalize"
  /\ ret' = "MEMORY_ALLOCATE"
  /\ starved' = TRUE
  /\ UNCHANGED <<file, at, parser, memory, config>>

\* Mutant of ScanError: the scanner's error leaves the loop as the end of the stream does.
ScanError_AsEnd ==
  /\ AtEnd
  /\ file.broken
  /\ pc' = "merge"
  /\ UNCHANGED <<file, at, parser, memory, config, ret, starved>>

\* Mutant of ScanError: the scanner's error returns without freeing what the file gave so far.
ScanError_Leaks ==
  /\ AtEnd
  /\ file.broken
  /\ parsed' = FALSE
  /\ field' = <<>>
  /\ pc' = "finalize"
  /\ ret' = "FORMULA_SYNTAX"
  /\ UNCHANGED <<file, at, parser, heap, config, starved>>

\* The scanner finds no token where the entries that are well formed end.
ScanError ==
  /\ AtEnd
  /\ file.broken
  /\ config_free
  /\ pc' = "finalize"
  /\ ret' = "FORMULA_SYNTAX"
  /\ UNCHANGED <<file, at, parser, config, starved>>

StreamEnd ==
  /\ AtEnd
  /\ ~file.broken
  /\ pc' = "merge"
  /\ UNCHANGED <<file, at, parser, memory, config, ret, starved>>

\* Mutant of Merge: the user's configuration is freed as soon as it is merged.
Merge_ThenFrees ==
  /\ pc = "merge"
  /\ parsed
  /\ config' = [k \in MergedKeys |-> IF k \in DOMAIN field THEN field[k] ELSE config[k]]
  /\ config_free
  /\ pc' = "run"
  /\ UNCHANGED <<file, at, parser, ret, starved>>

\* The fields that are not NULL replace the defaults, URL and sum each alone.
Merge ==
  /\ pc = "merge"
  /\ parsed
  /\ config' = [k \in MergedKeys |-> IF k \in DOMAIN field THEN field[k] ELSE config[k]]
  /\ pc' = "run"
  /\ UNCHANGED <<file, at, parser, memory, ret, starved>>

\* A file without a value leaves the pointer NULL, which the merge follows.
MergeNull ==
  /\ pc = "merge"
  /\ ~parsed
  /\ pc' = "crashed"
  /\ UNCHANGED <<file, at, parser, memory, config, ret, starved>>

\* setup_internal: its outcomes. It reads the strings of config until it ends.
Run ==
  /\ pc = "run"
  /\ ret' \in {"OK", "SETUP_ERROR"}
  /\ pc' = "finalize"
  /\ UNCHANGED <<file, at, parser, memory, config, starved>>

Finalize ==
  /\ pc = "finalize"
  /\ config_free
  /\ pc' = "done"
  /\ UNCHANGED <<file, at, parser, config, ret, starved>>

Next ==
  \/ Start    \/ OpenError   \/ ScanMark  \/ ScanKeyName \/ ScanText  \/ ScanOther
  \/ OutOfMemory \/ ScanError \/ StreamEnd \/ Merge       \/ MergeNull \/ Run
  \/ Finalize

Spec == Init /\ [][Next]_vars
-----------------------------------------------------------------------------
(* What a file means, by its entries and not by its tokens. *)

\* The parser files a value under the last plain key before it: with NoKey
\* and Anchored that is the key of an earlier entry.
OwnerOf(i) ==
  LET plain == {j \in 1..i : file.entries[j].key \in Names}
  IN  IF plain = {} THEN Unknown ELSE file.entries[Max(plain)].key

Given(k) == {i \in 1..Len(file.entries) : OwnerOf(i) = k /\ file.entries[i].value = "text"}

Meaning(k) == IF k \in ParsedKeys THEN Max(Given(k) \cup {Default}) ELSE Default

\* The configuration setup_internal is given is the file's: of each key the
\* parser knows the last value that is not blank, and else the default, for
\* any mixture of repeated keys, blank values, lists and odd keys. A key
\* counts at whatever depth of nested mappings it stands, since the parser
\* sees none; a scalar of a list never does (config-parse.c:295-321 and
\* setup.c:1224-1318).
AppliedAsWritten ==
  pc = "run" /\ ~starved => \A k \in MergedKeys : config[k] = Meaning(k)

\* A file that cannot be opened or scanned to its end has no effect at all: no
\* setup starts, and no value it set before the error survives (setup.c:1220).
AllOrNothing ==
  ret \in {"ERROR", "FORMULA_SYNTAX", "MEMORY_ALLOCATE"} \/ (file.broken /\ pc \notin {"start", "scan"})
    => /\ pc \in {"finalize", "done"}
       /\ ret # "OK"
       /\ \A k \in MergedKeys : config[k] = Default

\* No pointer outlives its string: the struct's fields, and while the setup
\* runs the effective configuration, which shares them (setup.c:1327). The
\* free and strdup of a repeated key must not leave the old pointer behind.
NoDangling ==
  /\ parsed => Range(field) \cup {Struct} \subseteq heap
  /\ pc = "run" => \A k \in MergedKeys : config[k] # Default => config[k] \in heap

\* Whatever way the command ends, it has freed the struct and every string it
\* copied, once overwritten values and parse errors included (setup.c:1325).
NoLeak == pc = "done" => heap = {}

\* The merge follows a NULL pointer only after a file without any scalar
\* value: one value, of any key and even blank, is enough to allocate.
NullOnlyWithoutValue ==
  pc = "crashed" => \A i \in 1..Len(file.entries) : file.entries[i].value \notin {"text", "blank"}

\* The keys of the example of README.md:338-360.
DocumentedKeys ==
  (ParsedKeys \ {"src-url-cmake", "src-sha-cmake"}) \cup {"src-url-python3", "src-sha-python3"}

\* Every key of the README's example, given a value, replaces the default.
DocumentedKeysApply ==
  pc = "run" /\ ~starved =>
    \A i \in 1..Len(file.entries) :
      file.entries[i].key \in DocumentedKeys /\ file.entries[i].value = "text"
        => config[file.entries[i].key] # Default
=============================================================================
