-------------------------- MODULE ConfigParseProofs --------------------------
(***************************************************************************)
(* Proofs about ConfigParse, for every set of plain keys and every number  *)
(* of entries in the file.                                                 *)
(***************************************************************************)
EXTENDS ConfigParse, SequenceTheorems, TLAPS

Count == Len(file.entries)

-----------------------------------------------------------------------------
(* The tokens of an entry *)

LEMMA FileTyped ==
  ASSUME file \in File
  PROVE  /\ Count \in 0..MaxEntries
         /\ \A i \in 1..Count : file.entries[i] \in Entry
         /\ file.broken \in BOOLEAN
         /\ ~file.given => Count = 0 /\ ~file.broken
<1>1. PICK n \in 0..MaxEntries : file.entries \in [1..n -> Entry]
      BY DEF File
<1>2. Count = n
      BY <1>1, MaxEntriesAssumption DEF Count
<1> QED BY <1>1, <1>2 DEF File

Token == {Mark("KEY"), Mark("VALUE"), Mark("OTHER"), Scalar("k")} \cup
         {Scalar(text) : text \in Names \cup {"text", "blank"}}

\* The tokens of a key and of a value,
LEMMA KeyTable ==
  ASSUME NEW key \in Names \cup {NoKey, Anchored}
  PROVE  /\ key \in Names =>
              Len(KeyTokens(key)) = 2 /\ KeyTokens(key) = <<Mark("KEY"), Scalar(key)>>
         /\ key = NoKey => Len(KeyTokens(key)) = 0
         /\ key = Anchored =>
              Len(KeyTokens(key)) = 3
              /\ KeyTokens(key) = <<Mark("KEY"), Mark("OTHER"), Scalar("k")>>
         /\ KeyTokens(key) \in Seq(Token)
<1>1. Mark("KEY") \in Token /\ Mark("OTHER") \in Token /\ Scalar("k") \in Token
      BY DEF Token
<1>2. CASE key \in Names
  <2>1. key # NoKey /\ key # Anchored /\ Scalar(key) \in Token
        BY <1>2, NamesAssumption DEF Token
  <2>2. KeyTokens(key) = <<Mark("KEY"), Scalar(key)>>
        BY <2>1 DEF KeyTokens
  <2> QED BY <1>1, <1>2, <2>1, <2>2
<1>3. CASE key = NoKey
  <2>1. KeyTokens(key) = <<>> /\ key # Anchored /\ key \notin Names
        BY <1>3, NamesAssumption DEF KeyTokens, NoKey, Anchored
  <2> QED BY <1>3, <2>1
<1>4. CASE key = Anchored
  <2>1. KeyTokens(key) = <<Mark("KEY"), Mark("OTHER"), Scalar("k")>>
        /\ key # NoKey /\ key \notin Names
        BY <1>4, NamesAssumption DEF KeyTokens, NoKey, Anchored
  <2> QED BY <1>1, <1>4, <2>1
<1> QED BY <1>2, <1>3, <1>4

LEMMA ValueTable ==
  ASSUME NEW value \in {"text", "blank", "none", "list", "map"}
  PROVE  /\ value = "none" => Len(ValueTokens(value)) = 1
         /\ value = "list" => Len(ValueTokens(value)) = 4
         /\ value = "map" => Len(ValueTokens(value)) = 2 /\ ValueTokens(value)[2] = Mark("OTHER")
         /\ value \in {"text", "blank"} =>
              Len(ValueTokens(value)) = 2 /\ ValueTokens(value)[2] = Scalar(value)
         /\ value = "list" =>
              /\ ValueTokens(value)[2] = Mark("OTHER")
              /\ ValueTokens(value)[3] = Scalar("text")
              /\ ValueTokens(value)[4] = Mark("OTHER")
         /\ ValueTokens(value)[1] = Mark("VALUE")
         /\ ValueTokens(value) \in Seq(Token)
<1>1. /\ Mark("VALUE") \in Token /\ Mark("OTHER") \in Token /\ Scalar("text") \in Token
      /\ value \in {"text", "blank"} => Scalar(value) \in Token
      BY DEF Token
<1>2. CASE value = "none"
  <2>1. ValueTokens(value) = <<Mark("VALUE")>>
        BY <1>2 DEF ValueTokens
  <2>2. Len(ValueTokens(value)) = 1 /\ ValueTokens(value)[1] = Mark("VALUE")
        BY <2>1
  <2>3. ValueTokens(value) \in Seq(Token)
        BY <1>1, <2>1
  <2> QED BY <1>2, <2>2, <2>3
<1>3. CASE value = "list"
  <2>1. ValueTokens(value) = <<Mark("VALUE"), Mark("OTHER"), Scalar("text"), Mark("OTHER")>>
        BY <1>3 DEF ValueTokens
  <2>2. /\ Len(ValueTokens(value)) = 4 /\ ValueTokens(value)[1] = Mark("VALUE")
        /\ ValueTokens(value)[2] = Mark("OTHER") /\ ValueTokens(value)[3] = Scalar("text")
        /\ ValueTokens(value)[4] = Mark("OTHER")
        BY <2>1
  <2>3. ValueTokens(value) \in Seq(Token)
        BY <1>1, <2>1
  <2> QED BY <1>3, <2>2, <2>3
<1>4. CASE value \in {"text", "blank"}
  <2>1. ValueTokens(value) = <<Mark("VALUE"), Scalar(value)>>
        BY <1>4 DEF ValueTokens
  <2> QED BY <1>1, <1>4, <2>1
<1>5. CASE value = "map"
  <2>1. ValueTokens(value) = <<Mark("VALUE"), Mark("OTHER")>>
        BY <1>5 DEF ValueTokens
  <2>2. Len(ValueTokens(value)) = 2 /\ ValueTokens(value)[1] = Mark("VALUE")
        /\ ValueTokens(value)[2] = Mark("OTHER")
        BY <2>1
  <2>3. ValueTokens(value) \in Seq(Token)
        BY <1>1, <2>1
  <2> QED BY <1>5, <2>2, <2>3
<1> QED BY <1>2, <1>3, <1>4, <1>5

KeyLen(i) == Len(KeyTokens(file.entries[i].key))

\* and of an entry: the mark of a key, the key, the mark of a value, the value.
LEMMA TokenTable ==
  ASSUME NEW i, file.entries[i] \in Entry
  PROVE  /\ file.entries[i].key \in Names => KeyLen(i) = 2
         /\ file.entries[i].key = NoKey => KeyLen(i) = 0
         /\ file.entries[i].key = Anchored => KeyLen(i) = 3
         /\ KeyLen(i) \in {0, 2, 3}
         /\ Len(Tokens(i)) = KeyLen(i) + Len(ValueTokens(file.entries[i].value))
         /\ Len(ValueTokens(file.entries[i].value)) \in {1, 2, 4}
         /\ \A j \in 1..KeyLen(i) : Tokens(i)[j] = KeyTokens(file.entries[i].key)[j]
         /\ \A j \in 1..Len(ValueTokens(file.entries[i].value)) :
              Tokens(i)[KeyLen(i) + j] = ValueTokens(file.entries[i].value)[j]
<1> DEFINE K == KeyTokens(file.entries[i].key)
           V == ValueTokens(file.entries[i].value)
<1>1. file.entries[i].key \in Names \cup {NoKey, Anchored}
      /\ file.entries[i].value \in {"text", "blank", "none", "list", "map"}
      BY DEF Entry
<1>2. K \in Seq(Token) /\ V \in Seq(Token)
      BY <1>1, KeyTable, ValueTable
<1>3. /\ file.entries[i].key \in Names => KeyLen(i) = 2
      /\ file.entries[i].key = NoKey => KeyLen(i) = 0
      /\ file.entries[i].key = Anchored => KeyLen(i) = 3
      BY <1>1, KeyTable DEF KeyLen
<1>4. Len(V) \in {1, 2, 4}
      BY <1>1, ValueTable
<1>5. /\ Len(K \o V) = Len(K) + Len(V)
      /\ \A j \in 1..Len(K) + Len(V) :
           (K \o V)[j] = IF j <= Len(K) THEN K[j] ELSE V[j - Len(K)]
      BY <1>2, ConcatProperties
<1>6. Len(K) \in Nat /\ Len(V) \in Nat
      BY <1>2, LenProperties
<1>7. \A j \in 1..Len(K) : (K \o V)[j] = K[j]
      BY <1>5, <1>6
<1>8. ASSUME NEW j \in 1..Len(V) PROVE (K \o V)[Len(K) + j] = V[j]
  <2>1. Len(K) + j \in 1..Len(K) + Len(V) /\ ~(Len(K) + j <= Len(K))
        /\ Len(K) + j - Len(K) = j
        BY <1>6
  <2> QED BY <1>5, <2>1
<1> QED BY <1>1, <1>3, <1>4, <1>5, <1>7, <1>8 DEF KeyLen, Tokens

-----------------------------------------------------------------------------
(* The inductive invariant *)

\* Token j of entry i is its plain key, its plain value, or a scalar the
\* parser is to pass over: one behind an anchor or inside a list.
KeyAt(i, j)   == file.entries[i].key \in Names /\ j = 2
ValueAt(i, j) == file.entries[i].value \in {"text", "blank"} /\ j = KeyLen(i) + 2
InnerAt(i, j) == \/ file.entries[i].key = Anchored /\ j = 3
                 \/ file.entries[i].value = "list" /\ j = KeyLen(i) + 3

\* Where the scan stands: the last mark tells which of the three a scalar is,
\* and the last key is the owner of the value to come.
ScanInv ==
  /\ at[1] \in 1..(Count + 1)
  /\ pc = "start" => at = <<1, 1>>
  /\ Scanning =>
       /\ at[2] \in 1..Len(Tokens(at[1]))
       /\ KeyAt(at[1], at[2])   => lastTokenType = 1
       /\ ValueAt(at[1], at[2]) => lastTokenType = 2
       /\ InnerAt(at[1], at[2]) => lastTokenType = 0

Owner == IF file.entries[at[1]].key \in Names /\ at[2] <= 2
         THEN OwnerOf(at[1] - 1) ELSE OwnerOf(at[1])
KeyInv == /\ pc = "start" => configKeyCode = Unknown
          /\ Scanning => configKeyCode = key_code_from_key_name(Owner)

\* The heap is exactly what the struct holds, each string of another entry.
MemInv ==
  /\ heap = IF parsed THEN Range(field) \cup {Struct} ELSE {}
  /\ DOMAIN field \subseteq ParsedKeys
  /\ ~parsed => DOMAIN field = {}
  /\ \A k \in DOMAIN field : field[k] \in 1..(at[1] - 1)
  /\ \A k, l \in DOMAIN field : field[k] = field[l] => k = l
  /\ pc \in {"start", "done", "crashed"} => ~parsed

\* What the first n entries give key k; a field has the last of them.
GivenBefore(k, n) == {i \in 1..n : OwnerOf(i) = k /\ file.entries[i].value = "text"}
FieldInv ==
  pc \in {"start", "scan", "merge", "run"} /\ ~starved =>
    \A k \in ParsedKeys :
      /\ k \in DOMAIN field => /\ field[k] \in GivenBefore(k, at[1] - 1)
                               /\ \A i \in GivenBefore(k, at[1] - 1) : field[k] >= i
      /\ k \notin DOMAIN field => GivenBefore(k, at[1] - 1) = {}

\* No struct, no value yet.
ValueInv ==
  pc \in {"start", "scan", "merge", "crashed"} /\ ~parsed =>
    \A i \in 1..(at[1] - 1) : file.entries[i].value \notin {"text", "blank"}

\* Where the command stands, what its status is and what the setup is given.
PhaseInv ==
  /\ pc \in {"start", "scan", "merge", "crashed"} =>
       ret = "OK" /\ config = [k \in MergedKeys |-> Default]
  /\ pc \in {"merge", "run", "crashed"} => ~file.broken /\ at[1] = Count + 1
  /\ pc = "run" => /\ ret = "OK"
                   /\ \A k \in MergedKeys :
                        config[k] = IF k \in DOMAIN field THEN field[k] ELSE Default
  /\ pc \in {"finalize", "done"} /\
       (ret \in {"ERROR", "FORMULA_SYNTAX", "MEMORY_ALLOCATE"} \/ file.broken) =>
       ret # "OK" /\ config = [k \in MergedKeys |-> Default]

ParseInv == TypeOK /\ ScanInv /\ KeyInv /\ MemInv /\ FieldInv /\ ValueInv /\ PhaseInv

LEMMA InitParse == Init => ParseInv
<1> SUFFICES ASSUME Init PROVE ParseInv
    OBVIOUS
<1>1. /\ Count \in 0..MaxEntries /\ at[1] = 1 /\ at[2] = 1
      /\ at \in (1..MaxEntries + 1) \X (1..7)
      BY FileTyped, MaxEntriesAssumption DEF Init
<1>2. DOMAIN field = {} /\ Range(field) = {}
      BY DEF Init, Range
<1>3. TypeOK
  <2>1. /\ 0 \in 0..MaxEntries /\ lastTokenType \in 0..2 /\ Range(field) \subseteq 1..MaxEntries
        BY <1>2, MaxEntriesAssumption DEF Init
  <2>2. config \in [MergedKeys -> 0..MaxEntries]
        BY <2>1 DEF Init, Default
  <2>3. pc \in Labels /\ ret \in Results /\ file \in File
        BY DEF Init, Labels, Results
  <2>4. /\ heap \subseteq 0..MaxEntries /\ DOMAIN field \subseteq ParsedKeys
        /\ parsed \in BOOLEAN /\ starved \in BOOLEAN
        /\ configKeyCode \in ParsedKeys \cup {Unknown}
        BY <1>2 DEF Init
  <2> QED BY <1>1, <2>1, <2>2, <2>3, <2>4 DEF TypeOK
<1>4. ScanInv /\ KeyInv
      BY <1>1, MaxEntriesAssumption DEF Init, ScanInv, KeyInv, Scanning
<1>5. MemInv /\ ValueInv /\ PhaseInv
      BY <1>1, <1>2 DEF Init, MemInv, ValueInv, PhaseInv
<1>6. FieldInv
      BY <1>1, <1>2 DEF Init, FieldInv, GivenBefore
<1> QED BY <1>3, <1>4, <1>5, <1>6 DEF ParseInv

-----------------------------------------------------------------------------
(* The scan *)

\* The kinds of tokens, by their place in the entry.
LEMMA TokenKind ==
  ASSUME NEW i, file.entries[i] \in Entry, NEW j \in 1..Len(Tokens(i))
  PROVE  /\ Tokens(i)[j].type = "SCALAR" <=> KeyAt(i, j) \/ ValueAt(i, j) \/ InnerAt(i, j)
         /\ KeyAt(i, j) => Tokens(i)[j].value = file.entries[i].key
         /\ ValueAt(i, j) => Tokens(i)[j].value = file.entries[i].value
         /\ KeyAt(i, j + 1) => Tokens(i)[j].type = "KEY"
         /\ ValueAt(i, j + 1) => Tokens(i)[j].type = "VALUE"
         /\ InnerAt(i, j + 1) => Tokens(i)[j].type = "OTHER"
         /\ ValueAt(i, j) => j = Len(Tokens(i))
         /\ Len(Tokens(i)) \in 1..7
         /\ file.entries[i].key \in Names => 3 <= Len(Tokens(i))
         /\ file.entries[i].value \in {"text", "blank"} => ValueAt(i, Len(Tokens(i)))
<1> DEFINE key == file.entries[i].key
           value == file.entries[i].value
           K == KeyLen(i)
           V == Len(ValueTokens(value))
<1>1. key \in Names \cup {NoKey, Anchored} /\ value \in {"text", "blank", "none", "list", "map"}
      BY DEF Entry
<1>2. /\ key \in Names => K = 2
      /\ key = NoKey => K = 0
      /\ key = Anchored => K = 3
      /\ Len(Tokens(i)) = K + V
      BY TokenTable
<1>3. /\ value = "none" => V = 1
      /\ value = "list" => V = 4
      /\ value \in {"text", "blank", "map"} => V = 2
      BY <1>1, ValueTable
<1>4. NoKey # Anchored /\ NoKey \notin Names /\ Anchored \notin Names
      BY NamesAssumption DEF NoKey, Anchored
<1>5. /\ Mark("KEY").type = "KEY" /\ Mark("VALUE").type = "VALUE" /\ Mark("OTHER").type = "OTHER"
      /\ \A t : Scalar(t).type = "SCALAR" /\ Scalar(t).value = t
      BY DEF Mark, Scalar
<1>8. K = KeyLen(i) /\ key = file.entries[i].key /\ value = file.entries[i].value
      OBVIOUS
<1>9. K \in {0, 2, 3} /\ V \in {1, 2, 4}
      BY <1>1, <1>2, <1>3
<1>10. /\ \A n \in 1..K : Tokens(i)[n] = KeyTokens(key)[n]
       /\ \A n \in 1..V : Tokens(i)[K + n] = ValueTokens(value)[n]
       BY TokenTable
<1>11. j \in 1..(K + V)
       BY <1>2
<1> HIDE DEF key, value, K, V
<1>6. CASE j \in 1..K
  <2>1. Tokens(i)[j] = KeyTokens(key)[j]
        BY <1>6, <1>10
  <2>2. CASE key \in Names
    <3>1. KeyTokens(key) = <<Mark("KEY"), Scalar(key)>>
          BY <2>2, <1>1, KeyTable
    <3>2. j \in {1, 2} /\ K = 2
          BY <1>2, <1>6, <2>2
    <3>3. V \in {1, 2, 4} /\ key # Anchored
          BY <1>4, <1>9, <2>2
    <3>4. Tokens(i)[j] = IF j = 1 THEN Mark("KEY") ELSE Scalar(key)
          BY <2>1, <3>1, <3>2
    <3> QED BY <1>2, <1>3, <1>1, <1>5, <1>8, <2>2, <3>2, <3>3, <3>4 DEF KeyAt, ValueAt, InnerAt
  <2>3. CASE key = Anchored
    <3>1. KeyTokens(key) = <<Mark("KEY"), Mark("OTHER"), Scalar("k")>>
          BY <2>3, <1>1, KeyTable
    <3>2. j \in {1, 2, 3} /\ K = 3
          BY <1>2, <1>6, <2>3
    <3>3. V \in {1, 2, 4} /\ key \notin Names
          BY <1>4, <1>9, <2>3
    <3>4. Tokens(i)[j] = IF j = 1 THEN Mark("KEY") ELSE IF j = 2 THEN Mark("OTHER") ELSE Scalar("k")
          BY <2>1, <3>1, <3>2
    <3> QED BY <1>2, <1>3, <1>1, <1>5, <1>8, <2>3, <3>2, <3>3, <3>4 DEF KeyAt, ValueAt, InnerAt
  <2> QED BY <1>1, <1>2, <1>6, <2>2, <2>3
<1>7. CASE j \notin 1..K
  <2> DEFINE m == j - K
  <2>2. m \in 1..V /\ j = K + m
        BY <1>7, <1>9, <1>11
  <2>3. Tokens(i)[j] = ValueTokens(value)[m]
        BY <2>2, <1>10
  <2>4. /\ ValueTokens(value)[1] = Mark("VALUE")
        /\ value \in {"text", "blank"} => ValueTokens(value)[2] = Scalar(value)
        /\ value = "list" => /\ ValueTokens(value)[2] = Mark("OTHER")
                             /\ ValueTokens(value)[3] = Scalar("text")
                             /\ ValueTokens(value)[4] = Mark("OTHER")
        /\ value = "map" => ValueTokens(value)[2] = Mark("OTHER")
        BY <1>1, ValueTable
  <2>5. ~KeyAt(i, j) /\ ~KeyAt(i, j + 1) /\ (key = Anchored => j # 3 /\ j + 1 # 3)
        BY <1>2, <1>7, <1>8, <1>9, <1>11 DEF KeyAt
  <2> HIDE DEF m
  <2>6. CASE value = "none"
        BY <1>2, <1>3, <1>5, <1>8, <1>9, <2>2, <2>3, <2>4, <2>5, <2>6 DEF ValueAt, InnerAt
  <2>7. CASE value \in {"text", "blank"}
    <3>1. m = 1 \/ m = 2
          BY <1>3, <2>2, <2>7
    <3> QED BY <1>2, <1>3, <1>5, <1>8, <1>9, <2>2, <2>3, <2>4, <2>5, <2>7, <3>1 DEF ValueAt, InnerAt
  <2>8. CASE value = "list"
    <3>1. m = 1 \/ m = 2 \/ m = 3 \/ m = 4
          BY <1>3, <2>2, <2>8
    <3> QED BY <1>2, <1>3, <1>5, <1>8, <1>9, <2>2, <2>3, <2>4, <2>5, <2>8, <3>1 DEF ValueAt, InnerAt
  <2>9. CASE value = "map"
    <3>1. m = 1 \/ m = 2
          BY <1>3, <2>2, <2>9
    <3> QED BY <1>2, <1>3, <1>5, <1>8, <1>9, <2>2, <2>3, <2>4, <2>5, <2>9, <3>1 DEF ValueAt, InnerAt
  <2> QED BY <1>1, <2>6, <2>7, <2>8, <2>9
<1> QED BY <1>6, <1>7

\* An entry starts with a mark.
LEMMA FirstToken ==
  ASSUME NEW i, file.entries[i] \in Entry
  PROVE  /\ Len(Tokens(i)) \in 1..7
         /\ ~KeyAt(i, 1) /\ ~ValueAt(i, 1) /\ ~InnerAt(i, 1)
<1>1. \A k \in {0, 2, 3}, v \in {1, 2, 4} :
        k + v \in 1..7 /\ 1 # k + 2 /\ 1 # k + 3 /\ 1 # 2 /\ 1 # 3
      OBVIOUS
<1>2. /\ KeyLen(i) \in {0, 2, 3} /\ Len(ValueTokens(file.entries[i].value)) \in {1, 2, 4}
      /\ Len(Tokens(i)) = KeyLen(i) + Len(ValueTokens(file.entries[i].value))
      BY TokenTable
<1> QED BY <1>1, <1>2, Zenon DEF KeyAt, ValueAt, InnerAt

\* The entry at hand, and the one after it.
LEMMA AtEntry ==
  ASSUME TypeOK, ScanInv, Scanning
  PROVE  /\ at[1] \in 1..Count
         /\ file.entries[at[1]] \in Entry
         /\ at[2] \in 1..Len(Tokens(at[1]))
         /\ Count \in 0..MaxEntries
BY FileTyped DEF TypeOK, ScanInv, Scanning, Count

LEMMA Moved ==
  ASSUME TypeOK, ScanInv, Scanning, Advance, UNCHANGED <<file, pc>>
  PROVE  /\ at' \in (1..MaxEntries + 1) \X (1..7)
         /\ at'[1] \in 1..(Count + 1)
         /\ \/ /\ at'[1] = at[1] /\ at'[2] = at[2] + 1 /\ at[2] < Len(Tokens(at[1]))
               /\ at'[2] \in 1..Len(Tokens(at[1])) /\ ~ValueAt(at[1], at[2])
            \/ at'[1] = at[1] + 1 /\ at'[2] = 1 /\ at[2] = Len(Tokens(at[1]))
<1>1. /\ at[1] \in 1..Count /\ file.entries[at[1]] \in Entry /\ Count \in 0..MaxEntries
      /\ at[2] \in 1..Len(Tokens(at[1]))
      BY AtEntry
<1>2. /\ Len(Tokens(at[1])) \in 1..7
      /\ ValueAt(at[1], at[2]) => at[2] = Len(Tokens(at[1]))
      BY <1>1, TokenKind
<1>0. \A m \in 1..7 : \A n \in 1..m : n < m => n + 1 \in 1..m /\ n + 1 \in 1..7
      OBVIOUS
<1>3. CASE at[2] < Len(Tokens(at[1]))
  <2>1. at' = <<at[1], at[2] + 1>>
        BY <1>3 DEF Advance
  <2>2. at[2] + 1 \in 1..Len(Tokens(at[1])) /\ at[2] + 1 \in 1..7
        BY <1>0, <1>1, <1>2, <1>3
  <2>3. at[1] \in 1..MaxEntries + 1 /\ at[1] \in 1..(Count + 1)
        BY <1>1, MaxEntriesAssumption
  <2>4. ~ValueAt(at[1], at[2])
        BY <1>1, <1>2, <1>3
  <2> QED BY <1>3, <2>1, <2>2, <2>3, <2>4
<1>4. CASE ~(at[2] < Len(Tokens(at[1])))
  <2>1. at' = <<at[1] + 1, 1>>
        BY <1>4 DEF Advance
  <2> QED BY <1>1, <1>2, <1>4, <2>1, MaxEntriesAssumption
<1> QED BY <1>3, <1>4

\* Each scan action meets the token it is for.
LEMMA ScanAct ==
  ASSUME TypeOK, ScanInv
  PROVE  /\ ScanMark => ~KeyAt(at[1], at[2]) /\ ~ValueAt(at[1], at[2]) /\ ~InnerAt(at[1], at[2])
         /\ ScanKeyName => KeyAt(at[1], at[2]) /\ token.value = file.entries[at[1]].key
         /\ ScanText => ValueAt(at[1], at[2]) /\ token.value = file.entries[at[1]].value
         /\ OutOfMemory => ValueAt(at[1], at[2])
         /\ ScanOther => InnerAt(at[1], at[2])
<1> SUFFICES ASSUME Scanning
             PROVE  /\ token.type = "SCALAR" <=> \/ KeyAt(at[1], at[2]) \/ ValueAt(at[1], at[2])
                                                 \/ InnerAt(at[1], at[2])
                    /\ KeyAt(at[1], at[2]) => token.value = file.entries[at[1]].key
                    /\ ValueAt(at[1], at[2]) => token.value = file.entries[at[1]].value
    BY DEF ScanMark, ScanKeyName, ScanText, OutOfMemory, ScanOther, ScanInv
<1> QED BY AtEntry, TokenKind DEF token

LEMMA ScanStep == ParseInv /\ [Next]_vars => ScanInv'
<1> SUFFICES ASSUME ParseInv, [Next]_vars PROVE ScanInv'
    OBVIOUS
<1>t. TypeOK /\ ScanInv
      BY DEF ParseInv
<1>1. CASE ScanMark \/ ScanKeyName \/ ScanText \/ ScanOther
  <2>1. Scanning /\ Advance /\ UNCHANGED <<file, pc>> /\ pc = "scan"
        BY <1>1 DEF ScanMark, ScanKeyName, ScanText, ScanOther, Scanning
  <2>0. PICK i \in 1..Count : i = at[1]
        BY <1>t, <2>1, AtEntry
  <2>2. PICK j \in 1..Len(Tokens(i)) : i = at[1] /\ j = at[2]
        BY <1>t, <2>0, <2>1, AtEntry
  <2>3. /\ at'[1] \in 1..(Count + 1)
        /\ \/ at'[1] = i /\ at'[2] = j + 1 /\ j < Len(Tokens(i)) /\ at'[2] \in 1..Len(Tokens(i))
           \/ at'[1] = i + 1 /\ at'[2] = 1
        BY <1>t, <2>1, <2>2, Moved
  <2>4. file.entries[i] \in Entry
        BY <1>t, <2>1, <2>2, AtEntry
  <2>5. CASE at'[1] = i /\ at'[2] = j + 1 /\ at'[2] \in 1..Len(Tokens(i))
    <3>1. /\ KeyAt(i, j + 1) => Tokens(i)[j].type = "KEY"
          /\ ValueAt(i, j + 1) => Tokens(i)[j].type = "VALUE"
          /\ InnerAt(i, j + 1) => Tokens(i)[j].type = "OTHER"
          BY <2>4, TokenKind
    <3>2. token = Tokens(i)[j]
          BY <2>2 DEF token
    <3>3. KeyAt(i, j + 1) \/ ValueAt(i, j + 1) \/ InnerAt(i, j + 1) => ScanMark
          BY <1>1, <3>1, <3>2 DEF ScanKeyName, ScanText, ScanOther
    <3>4. /\ KeyAt(i, j + 1)   => lastTokenType' = 1
          /\ ValueAt(i, j + 1) => lastTokenType' = 2
          /\ InnerAt(i, j + 1) => lastTokenType' = 0
          BY <3>1, <3>2, <3>3 DEF ScanMark
    <3>5. Scanning' /\ Tokens(i)' = Tokens(i)
          BY <2>1, <2>2, <2>5 DEF Scanning, Tokens
    <3> QED BY <2>1, <2>3, <2>5, <3>4, <3>5
            DEF ScanInv, Count, KeyAt, ValueAt, InnerAt, KeyLen, Tokens
  <2>6. CASE at'[1] = i + 1 /\ at'[2] = 1
    <3>1. ASSUME Scanning'
          PROVE  /\ Len(Tokens(i + 1)) \in 1..7
                 /\ ~KeyAt(i + 1, 1) /\ ~ValueAt(i + 1, 1) /\ ~InnerAt(i + 1, 1)
      <4>1. i + 1 \in 1..Count
            BY <2>1, <2>3, <2>6, <3>1 DEF Scanning, Count
      <4>2. file.entries[i + 1] \in Entry
            BY <1>t, <4>1, FileTyped DEF TypeOK
      <4> QED BY <4>2, FirstToken
    <3> QED BY <2>1, <2>3, <2>6, <3>1
            DEF ScanInv, Count, KeyAt, ValueAt, InnerAt, KeyLen, Tokens
  <2> QED BY <2>3, <2>5, <2>6
<1>2. CASE Start
  <2>1. at[1] = 1 /\ at[2] = 1 /\ UNCHANGED <<file, at>> /\ pc' # "start"
        BY <1>2, <1>t DEF Start, ScanInv
  <2>2. Count \in 0..MaxEntries
        BY <1>t, FileTyped DEF TypeOK
  <2>3. ASSUME Scanning'
        PROVE  Len(Tokens(1)) \in 1..7 /\ ~KeyAt(1, 1) /\ ~ValueAt(1, 1) /\ ~InnerAt(1, 1)
    <3>1. 1 \in 1..Count
          BY <2>1, <2>2, <2>3 DEF Scanning, Count
    <3>2. file.entries[1] \in Entry
          BY <1>t, <3>1, FileTyped DEF TypeOK
    <3> QED BY <3>2, FirstToken
  <2> QED BY <2>1, <2>2, <2>3 DEF ScanInv, Count, KeyAt, ValueAt, InnerAt, KeyLen, Tokens
<1>3. CASE OpenError \/ OutOfMemory \/ ScanError \/ StreamEnd \/ Merge \/ MergeNull \/ Run \/ Finalize
  <2>1. UNCHANGED <<file, at>> /\ pc' \notin {"start", "scan"}
        BY <1>3 DEF OpenError, OutOfMemory, ScanError, StreamEnd, Merge, MergeNull, Run, Finalize
  <2> QED BY <1>t, <2>1 DEF ScanInv, Scanning, Count
<1>4. CASE UNCHANGED vars
  <2>1. UNCHANGED <<file, at, pc, lastTokenType>>
        BY <1>4 DEF vars, parser
  <2> QED BY <1>t, <2>1 DEF ScanInv, Scanning, Count, Tokens, KeyAt, ValueAt, InnerAt, KeyLen
<1> QED BY <1>1, <1>2, <1>3, <1>4 DEF Next

-----------------------------------------------------------------------------
(* The owner of a value *)

LEMMA MaxIs ==
  ASSUME NEW S \in SUBSET Int, NEW m \in S, \A n \in S : m >= n
  PROVE  Max(S) = m
<1>1. Max(S) \in S /\ \A n \in S : Max(S) >= n
      BY Zenon DEF Max
<1>2. Max(S) >= m /\ m >= Max(S) /\ Max(S) \in Int /\ m \in Int
      BY <1>1
<1> QED BY <1>2

\* A plain key owns the values from its own on, up to the next one.
LEMMA OwnerNext ==
  ASSUME NEW i \in Nat \ {0}
  PROVE  OwnerOf(i) = IF file.entries[i].key \in Names THEN file.entries[i].key
                                                       ELSE OwnerOf(i - 1)
<1> DEFINE plain(n) == {j \in 1..n : file.entries[j].key \in Names}
<1>1. OwnerOf(i) = IF plain(i) = {} THEN Unknown ELSE file.entries[Max(plain(i))].key
      BY DEF OwnerOf
<1>2. OwnerOf(i - 1) = IF plain(i - 1) = {} THEN Unknown ELSE file.entries[Max(plain(i - 1))].key
      BY DEF OwnerOf
<1>3. CASE file.entries[i].key \in Names
  <2>1. i \in plain(i) /\ plain(i) \in SUBSET Int /\ \A n \in plain(i) : i >= n
        BY <1>3
  <2>2. Max(plain(i)) = i
        BY <2>1, MaxIs
  <2> QED BY <1>1, <1>3, <2>1, <2>2
<1>4. CASE file.entries[i].key \notin Names
  <2>1. plain(i) = plain(i - 1)
        BY <1>4
  <2> QED BY <1>1, <1>2, <1>4, <2>1
<1> QED BY <1>3, <1>4

LEMMA OwnerZero == OwnerOf(0) = Unknown /\ key_code_from_key_name(Unknown) = Unknown
BY DEF OwnerOf, key_code_from_key_name, Unknown, ParsedKeys

\* OwnerOf is about the file only.
LEMMA SameOwner == ASSUME file' = file PROVE \A i : OwnerOf(i)' = OwnerOf(i)
BY DEF OwnerOf

LEMMA KeyStep == ParseInv /\ [Next]_vars => KeyInv'
<1> SUFFICES ASSUME ParseInv, [Next]_vars PROVE KeyInv'
    OBVIOUS
<1>t. TypeOK /\ ScanInv /\ KeyInv
      BY DEF ParseInv
<1>f. file' = file
      BY DEF Next, Start, OpenError, ScanMark, ScanKeyName, ScanText, ScanOther, OutOfMemory,
             ScanError, StreamEnd, Merge, MergeNull, Run, Finalize, vars
<1>1. CASE ScanMark \/ ScanKeyName \/ ScanText \/ ScanOther
  <2>1. Scanning /\ Advance /\ UNCHANGED <<file, pc>> /\ pc = "scan"
        BY <1>1 DEF ScanMark, ScanKeyName, ScanText, ScanOther, Scanning
  <2>2. PICK i \in 1..Count : i = at[1]
        BY <1>t, <2>1, AtEntry
  <2>3. PICK j \in 1..Len(Tokens(i)) : j = at[2]
        BY <1>t, <2>1, <2>2, AtEntry
  <2>4. file.entries[i] \in Entry
        BY <1>t, <2>1, <2>2, AtEntry
  <2>5. /\ file.entries[i].key \in Names => 3 <= Len(Tokens(i))
        /\ Len(Tokens(i)) \in 1..7
        BY <2>4, TokenKind
  <2>6. /\ ScanKeyName => KeyAt(i, j) /\ configKeyCode' = key_code_from_key_name(file.entries[i].key)
        /\ ~ScanKeyName => ~KeyAt(i, j) /\ configKeyCode' = configKeyCode
    <3>1. ScanText => ValueAt(i, j)
          BY <1>t, <2>2, <2>3, ScanAct
    <3>2. KeyAt(i, j) => ~ValueAt(i, j)
          BY <2>4, TokenTable DEF KeyAt, ValueAt
    <3>3. KeyAt(i, j) => ~InnerAt(i, j)
      <4>1. Anchored \notin Names /\ (file.entries[i].key \in Names => KeyLen(i) = 2)
            BY <2>4, NamesAssumption, TokenTable
      <4> QED BY <4>1 DEF KeyAt, InnerAt
    <3>4. /\ ScanKeyName => KeyAt(i, j) /\ token.value = file.entries[i].key
          /\ ScanMark => ~KeyAt(i, j)
          /\ ScanOther => InnerAt(i, j)
          BY <1>t, <2>2, <2>3, ScanAct
    <3> QED BY <1>1, <3>1, <3>2, <3>3, <3>4
            DEF ScanMark, ScanKeyName, ScanText, ScanOther, parser
  <2>7. OwnerOf(i) = IF file.entries[i].key \in Names THEN file.entries[i].key ELSE OwnerOf(i - 1)
        BY OwnerNext
  <2>8. configKeyCode = key_code_from_key_name(
          IF file.entries[i].key \in Names /\ j <= 2 THEN OwnerOf(i - 1) ELSE OwnerOf(i))
        BY <1>t, <2>1, <2>2, <2>3 DEF KeyInv, Owner
  <2>9. configKeyCode' = key_code_from_key_name(
          IF file.entries[i].key \in Names /\ j + 1 <= 2 THEN OwnerOf(i - 1) ELSE OwnerOf(i))
    <3>1. CASE ScanKeyName
          BY <2>6, <2>7, <3>1 DEF KeyAt
    <3>2. CASE ~ScanKeyName
      <4>1. file.entries[i].key \in Names => j # 2
            BY <2>6, <3>2 DEF KeyAt
      <4>2. file.entries[i].key \in Names => (j <= 2 <=> j + 1 <= 2)
            BY <4>1, <2>5
      <4> QED BY <2>6, <2>8, <3>2, <4>2
    <3> QED BY <3>1, <3>2
  <2>10. \/ at'[1] = i /\ at'[2] = j + 1
         \/ at'[1] = i + 1 /\ at'[2] = 1 /\ j = Len(Tokens(i))
        BY <1>t, <2>1, <2>2, <2>3, Moved
  <2>11. CASE at'[1] = i /\ at'[2] = j + 1
    <3>1. Owner' = IF file.entries[i].key \in Names /\ j + 1 <= 2 THEN OwnerOf(i - 1) ELSE OwnerOf(i)
          BY <2>1, <2>11 DEF Owner, OwnerOf
    <3> QED BY <2>1, <2>9, <3>1 DEF KeyInv
  <2>12. CASE at'[1] = i + 1 /\ at'[2] = 1 /\ j = Len(Tokens(i))
    <3>1. Owner' = IF file.entries[i + 1].key \in Names THEN OwnerOf(i + 1 - 1) ELSE OwnerOf(i + 1)
          BY <2>1, <2>12 DEF Owner, OwnerOf
    <3>2. i + 1 - 1 = i /\ i + 1 \in Nat \ {0}
          OBVIOUS
    <3>3. Owner' = OwnerOf(i)
          BY <3>1, <3>2, OwnerNext
    <3>4. configKeyCode' = key_code_from_key_name(OwnerOf(i))
          BY <2>5, <2>9, <2>12
    <3> QED BY <2>1, <3>3, <3>4 DEF KeyInv
  <2> QED BY <2>10, <2>11, <2>12
<1>2. CASE Start
  <2>1. at[1] = 1 /\ at[2] = 1 /\ UNCHANGED <<file, at, configKeyCode>> /\ pc' # "start"
        /\ configKeyCode = Unknown
        BY <1>2, <1>t DEF Start, ScanInv, KeyInv, parser
  <2>2. Owner' = IF file.entries[1].key \in Names THEN OwnerOf(1 - 1) ELSE OwnerOf(1)
        BY <2>1 DEF Owner, OwnerOf
  <2>3. 1 - 1 = 0 /\ 1 \in Nat \ {0}
        OBVIOUS
  <2>4. Owner' = OwnerOf(0)
        BY <2>2, <2>3, OwnerNext
  <2> QED BY <2>1, <2>4, OwnerZero DEF KeyInv
<1>3. CASE OpenError \/ OutOfMemory \/ ScanError \/ StreamEnd \/ Merge \/ MergeNull \/ Run \/ Finalize
      BY <1>3 DEF OpenError, OutOfMemory, ScanError, StreamEnd, Merge, MergeNull, Run, Finalize,
                  KeyInv, Scanning
<1>4. CASE UNCHANGED vars
      BY <1>4, <1>t DEF vars, parser, KeyInv, Scanning, Owner, OwnerOf
<1> QED BY <1>1, <1>2, <1>3, <1>4 DEF Next

-----------------------------------------------------------------------------
(* The heap *)

\* What ScanText does: it passes over the value, stores it, or loses the field.
LEMMA SetValue ==
  ASSUME ParseInv, ScanText
  PROVE  LET k == configKeyCode
             i == at[1]
         IN  /\ at'[1] = i + 1 /\ i \in 1..Count /\ Scanning
             /\ file.entries[i].value \in {"text", "blank"}
             /\ k = key_code_from_key_name(OwnerOf(i))
             /\ \/ /\ k = Unknown \/ file.entries[i].value = "blank"
                   /\ heap' = heap \cup {Struct}
                   /\ UNCHANGED <<field, starved>>
                \/ /\ k \in ParsedKeys /\ file.entries[i].value = "text"
                   /\ field' = [f \in DOMAIN field \cup {k} |-> IF f = k THEN i ELSE field[f]]
                   /\ heap' = (heap \ Held(k)) \cup {Struct, i}
                   /\ UNCHANGED starved
                \/ /\ k \in ParsedKeys
                   /\ field' = Restrict(field, DOMAIN field \ {k})
                   /\ heap' = (heap \ Held(k)) \cup {Struct}
                   /\ starved' = TRUE
<1>t. TypeOK /\ ScanInv /\ KeyInv
      BY DEF ParseInv
<1>1. Scanning /\ Advance /\ UNCHANGED <<file, pc>> /\ set_value(configKeyCode, token.value)
      BY DEF ScanText
<1>2. ValueAt(at[1], at[2]) /\ token.value = file.entries[at[1]].value
      BY <1>t, ScanAct
<1>3. at[1] \in 1..Count /\ file.entries[at[1]] \in Entry
      BY <1>t, <1>1, AtEntry
<1>4. at'[1] = at[1] + 1
      BY <1>t, <1>1, <1>2, Moved
<1>5. configKeyCode = key_code_from_key_name(OwnerOf(at[1]))
  <2>1. KeyLen(at[1]) = 2 \/ file.entries[at[1]].key \notin Names
        BY <1>3, TokenTable
  <2>2. ~(file.entries[at[1]].key \in Names /\ at[2] <= 2)
        BY <1>2, <2>1 DEF ValueAt
  <2> QED BY <1>t, <1>1, <2>2 DEF KeyInv, Owner
<1>6. configKeyCode # Unknown => configKeyCode \in ParsedKeys
      BY <1>t DEF TypeOK
<1>7. file.entries[at[1]].value \in {"text", "blank"}
      BY <1>2 DEF ValueAt
<1> QED BY <1>1, <1>2, <1>3, <1>4, <1>5, <1>6, <1>7 DEF set_value

\* The scan only goes forward.
LEMMA AtGrows ==
  ASSUME TypeOK, ScanInv, [Next]_vars
  PROVE  at[1] \in Nat \ {0} /\ at'[1] \in {at[1], at[1] + 1}
<1>1. at[1] \in Nat \ {0}
      BY DEF TypeOK
<1>2. CASE ScanMark \/ ScanKeyName \/ ScanText \/ ScanOther
      BY <1>1, <1>2, Moved DEF ScanMark, ScanKeyName, ScanText, ScanOther
<1>3. CASE ~(ScanMark \/ ScanKeyName \/ ScanText \/ ScanOther)
      BY <1>1, <1>3 DEF Next, Start, OpenError, OutOfMemory, ScanError, StreamEnd, Merge,
                        MergeNull, Run, Finalize, vars
<1> QED BY <1>1, <1>2, <1>3

LEMMA MemStep == ParseInv /\ [Next]_vars => MemInv'
<1> SUFFICES ASSUME ParseInv, [Next]_vars PROVE MemInv'
    OBVIOUS
<1>t. TypeOK /\ ScanInv /\ MemInv
      BY DEF ParseInv
<1>a. at[1] \in Nat \ {0} /\ at'[1] \in {at[1], at[1] + 1}
      BY <1>t, AtGrows
<1>1. ASSUME UNCHANGED memory, pc' \notin {"start", "done", "crashed"} \/ pc' = pc \/ ~parsed
      PROVE  MemInv'
  <2>1. UNCHANGED <<parsed, field, heap>>
        BY <1>1 DEF memory
  <2> QED BY <1>1, <1>t, <1>a, <2>1 DEF MemInv, Range
<1>2. ASSUME config_free PROVE MemInv'
  <2>1. ~parsed' /\ DOMAIN field' = {} /\ heap' = {}
        BY <1>2, <1>t DEF config_free, MemInv
  <2> QED BY <2>1 DEF MemInv
<1>3. CASE ScanText
  <2> DEFINE k == configKeyCode
             i == at[1]
             D == DOMAIN field
  <2>1. /\ at'[1] = i + 1 /\ parsed' = TRUE /\ pc' = "scan"
        /\ \/ heap' = heap \cup {Struct} /\ field' = field
           \/ /\ k \in ParsedKeys
              /\ field' = [f \in D \cup {k} |-> IF f = k THEN i ELSE field[f]]
              /\ heap' = (heap \ Held(k)) \cup {Struct, i}
           \/ /\ k \in ParsedKeys
              /\ field' = Restrict(field, D \ {k})
              /\ heap' = (heap \ Held(k)) \cup {Struct}
        BY <1>3, SetValue DEF ScanText, Scanning
  <2>2. /\ heap \cup {Struct} = Range(field) \cup {Struct}
        /\ D \subseteq ParsedKeys
        /\ \A f \in D : field[f] \in 1..(i - 1)
        /\ \A f, g \in D : field[f] = field[g] => f = g
        BY <1>t DEF MemInv, Range
  <2>3. Struct \notin Range(field) /\ i \notin Range(field) /\ Struct = 0
        BY <1>a, <2>2 DEF Struct, Range
  <2>7. ASSUME heap' = Range(field') \cup {Struct}, DOMAIN field' \subseteq ParsedKeys,
               \A f \in DOMAIN field' : field'[f] \in 1..i,
               \A f, g \in DOMAIN field' : field'[f] = field'[g] => f = g
        PROVE  MemInv'
    <3>1. at'[1] - 1 = i /\ parsed' = TRUE /\ pc' \notin {"start", "done", "crashed"}
          BY <1>a, <2>1
    <3>2. Range(field') = Range(field)'
          BY DEF Range
    <3> HIDE DEF i, k, D
    <3> QED BY <2>7, <3>1, <3>2 DEF MemInv
  <2>4. CASE heap' = heap \cup {Struct} /\ field' = field
        BY <1>a, <2>1, <2>2, <2>4 DEF MemInv, Range
  <2>5. CASE /\ k \in ParsedKeys
             /\ field' = [f \in D \cup {k} |-> IF f = k THEN i ELSE field[f]]
             /\ heap' = (heap \ Held(k)) \cup {Struct, i}
    <3>1. DOMAIN field' = D \cup {k} /\ field'[k] = i /\ \A f \in D \ {k} : field'[f] = field[f]
          BY <2>5
    <3>2. Range(field') = {field[f] : f \in D \ {k}} \cup {i}
          BY <3>1 DEF Range
    <3>3. (heap \ Held(k)) \cup {Struct} = {field[f] : f \in D \ {k}} \cup {Struct}
          BY <2>2, <2>3 DEF Held, Range
    <3>4. heap' = Range(field') \cup {Struct}
          BY <2>5, <3>2, <3>3
    <3>5. \A f \in DOMAIN field' : field'[f] \in 1..i
          BY <1>a, <2>2, <3>1
    <3>6. \A f, g \in DOMAIN field' : field'[f] = field'[g] => f = g
      <4>1. \A f \in D \ {k} : field'[f] # i
            BY <1>a, <2>2, <3>1
      <4> QED BY <2>2, <3>1, <4>1
    <3>7. DOMAIN field' \subseteq ParsedKeys
          BY <2>2, <2>5, <3>1
    <3> QED BY <2>7, <3>4, <3>5, <3>6, <3>7
  <2>6. CASE /\ k \in ParsedKeys
             /\ field' = Restrict(field, D \ {k})
             /\ heap' = (heap \ Held(k)) \cup {Struct}
    <3>1. DOMAIN field' = D \ {k} /\ \A f \in D \ {k} : field'[f] = field[f]
          BY <2>6 DEF Restrict
    <3>2. Range(field') = {field[f] : f \in D \ {k}}
          BY <3>1 DEF Range
    <3>3. (heap \ Held(k)) \cup {Struct} = {field[f] : f \in D \ {k}} \cup {Struct}
          BY <2>2, <2>3 DEF Held, Range
    <3>4. \A f \in DOMAIN field' : field'[f] \in 1..i
          BY <1>a, <2>2, <3>1
    <3>5. \A f, g \in DOMAIN field' : field'[f] = field'[g] => f = g
          BY <2>2, <3>1
    <3>6. heap' = Range(field') \cup {Struct} /\ DOMAIN field' \subseteq ParsedKeys
          BY <2>2, <2>6, <3>1, <3>2, <3>3
    <3> QED BY <2>7, <3>4, <3>5, <3>6
  <2> QED BY <2>1, <2>4, <2>5, <2>6
<1>4. CASE Start \/ OpenError \/ ScanMark \/ ScanKeyName \/ ScanOther \/ OutOfMemory \/ StreamEnd
           \/ Merge \/ MergeNull \/ Run
      BY <1>1, <1>4 DEF Start, OpenError, ScanMark, ScanKeyName, ScanOther, OutOfMemory, StreamEnd,
                        Merge, MergeNull, Run
<1>5. CASE ScanError \/ Finalize
      BY <1>2, <1>5 DEF ScanError, Finalize
<1>6. CASE UNCHANGED vars
      BY <1>1, <1>6 DEF vars
<1> QED BY <1>3, <1>4, <1>5, <1>6 DEF Next

-----------------------------------------------------------------------------
(* The other parts of the invariant *)

LEMMA TypeStep == ParseInv /\ [Next]_vars => TypeOK'
<1> SUFFICES ASSUME ParseInv, [Next]_vars PROVE TypeOK'
    OBVIOUS
<1>t. TypeOK /\ ScanInv /\ MemInv
      BY DEF ParseInv
<1>m. MemInv'
      BY MemStep
<1>1. file' = file
      BY DEF Next, Start, OpenError, ScanMark, ScanKeyName, ScanText, ScanOther, OutOfMemory,
             ScanError, StreamEnd, Merge, MergeNull, Run, Finalize, vars
<1>2. at' \in (1..MaxEntries + 1) \X (1..7)
  <2>1. CASE ScanMark \/ ScanKeyName \/ ScanText \/ ScanOther
        BY <1>t, <2>1, Moved DEF ScanMark, ScanKeyName, ScanText, ScanOther
  <2>2. CASE ~(ScanMark \/ ScanKeyName \/ ScanText \/ ScanOther)
    <3>1. at' = at
          BY <2>2 DEF Next, Start, OpenError, OutOfMemory, ScanError, StreamEnd, Merge,
                      MergeNull, Run, Finalize, vars
    <3> QED BY <1>t, <3>1 DEF TypeOK
  <2> QED BY <2>1, <2>2
<1>3. pc' \in Labels /\ ret' \in Results /\ starved' \in BOOLEAN /\ parsed' \in BOOLEAN
      BY <1>t DEF Next, Start, OpenError, ScanMark, ScanKeyName, ScanText, ScanOther, OutOfMemory,
                  ScanError, StreamEnd, Merge, MergeNull, Run, Finalize, vars, memory, config_free,
                  set_value, TypeOK, Labels, Results, Scanning
<1>4. lastTokenType' \in 0..2
  <2>1. CASE ScanMark
    <3>1. lastTokenType' = 0 \/ lastTokenType' = 1 \/ lastTokenType' = 2
          BY <2>1 DEF ScanMark
    <3> QED BY <3>1
  <2>2. CASE ~ScanMark
    <3>1. lastTokenType' = lastTokenType
          BY <2>2 DEF Next, Start, OpenError, ScanKeyName, ScanText, ScanOther, OutOfMemory,
                      ScanError, StreamEnd, Merge, MergeNull, Run, Finalize, vars, parser
    <3> QED BY <1>t, <3>1 DEF TypeOK
  <2> QED BY <2>1, <2>2
<1>5. configKeyCode' \in ParsedKeys \cup {Unknown}
  <2>1. CASE ScanKeyName
        BY <2>1 DEF ScanKeyName, key_code_from_key_name
  <2>2. CASE ~ScanKeyName
    <3>1. configKeyCode' = configKeyCode
          BY <2>2 DEF Next, Start, OpenError, ScanMark, ScanText, ScanOther, OutOfMemory,
                      ScanError, StreamEnd, Merge, MergeNull, Run, Finalize, vars, parser
    <3> QED BY <1>t, <3>1 DEF TypeOK
  <2> QED BY <2>1, <2>2
<1>6. DOMAIN field' \subseteq ParsedKeys /\ Range(field') \subseteq 1..MaxEntries
  <2>1. \A k \in DOMAIN field' : field'[k] \in 1..(at'[1] - 1)
        BY <1>m DEF MemInv
  <2>2. at'[1] - 1 \in 0..MaxEntries
        BY <1>2, MaxEntriesAssumption
  <2>3. \A k \in DOMAIN field' : field'[k] \in 1..MaxEntries
        BY <2>1, <2>2, MaxEntriesAssumption
  <2> QED BY <1>m, <2>3 DEF MemInv, Range
<1>7. heap' \subseteq 0..MaxEntries
  <2>1. heap' \subseteq Range(field') \cup {Struct}
        BY <1>m DEF MemInv, Range
  <2> QED BY <1>6, <2>1, MaxEntriesAssumption DEF Struct
<1>8. config' \in [MergedKeys -> 0..MaxEntries]
  <2>1. CASE Merge
    <3>1. \A k \in MergedKeys : k \in DOMAIN field => field[k] \in 0..MaxEntries
          BY <1>t, MaxEntriesAssumption DEF TypeOK, Range
    <3>2. config' = [k \in MergedKeys |-> IF k \in DOMAIN field THEN field[k] ELSE config[k]]
          BY <2>1 DEF Merge
    <3> QED BY <1>t, <3>1, <3>2 DEF TypeOK
  <2>2. CASE ~Merge
    <3>1. config' = config
          BY <2>2 DEF Next, Start, OpenError, ScanMark, ScanKeyName, ScanText, ScanOther,
                      OutOfMemory, ScanError, StreamEnd, MergeNull, Run, Finalize, vars
    <3> QED BY <1>t, <3>1 DEF TypeOK
  <2> QED BY <2>1, <2>2
<1>9. (DOMAIN field)' = DOMAIN field' /\ Range(field)' = Range(field')
      BY DEF Range
<1> QED BY <1>t, <1>1, <1>2, <1>3, <1>4, <1>5, <1>6, <1>7, <1>8, <1>9 DEF TypeOK

\* Only ScanText leaves an entry with a scalar value.
LEMMA NoValue ==
  ASSUME TypeOK, ScanInv, ScanMark \/ ScanKeyName \/ ScanOther, at'[1] = at[1] + 1
  PROVE  file.entries[at[1]].value \notin {"text", "blank"}
<1>1. Scanning /\ Advance /\ UNCHANGED <<file, pc>>
      BY DEF ScanMark, ScanKeyName, ScanOther
<1>2. at[1] \in 1..Count /\ file.entries[at[1]] \in Entry /\ at[2] \in 1..Len(Tokens(at[1]))
      BY <1>1, AtEntry
<1>3. at[2] = Len(Tokens(at[1]))
      BY <1>1, <1>2, Moved
<1>4. file.entries[at[1]].value \in {"text", "blank"} => ValueAt(at[1], at[2])
      BY <1>2, <1>3, TokenKind
<1>5. ValueAt(at[1], at[2]) => lastTokenType = 2 /\ token.type = "SCALAR"
      BY <1>1, <1>2, TokenKind DEF ScanInv, token
<1> QED BY <1>4, <1>5 DEF ScanMark, ScanKeyName, ScanOther

LEMMA ValueStep == ParseInv /\ [Next]_vars => ValueInv'
<1> SUFFICES ASSUME ParseInv, [Next]_vars,
                    pc' \in {"start", "scan", "merge", "crashed"}, ~parsed',
                    NEW i \in 1..(at'[1] - 1)
             PROVE  file'.entries[i].value \notin {"text", "blank"}
    BY DEF ValueInv
<1>t. TypeOK /\ ScanInv /\ ValueInv /\ at[1] \in Nat \ {0} /\ at'[1] \in {at[1], at[1] + 1}
      BY AtGrows DEF ParseInv
<1>1. ~ScanText /\ ~ScanError /\ ~Finalize /\ ~Merge /\ ~Run /\ ~OpenError /\ ~OutOfMemory
      BY DEF ScanText, ScanError, Finalize, Merge, Run, OpenError, OutOfMemory
<1>2. UNCHANGED <<file, parsed>> /\ pc \in {"start", "scan", "merge", "crashed"}
      BY <1>1 DEF Next, Start, ScanMark, ScanKeyName, ScanOther, StreamEnd, MergeNull, vars,
                  memory, Scanning, AtEnd
<1>3. CASE i \in 1..(at[1] - 1)
      BY <1>2, <1>3, <1>t DEF ValueInv
<1>4. CASE i \notin 1..(at[1] - 1)
  <2>1. i = at[1] /\ at'[1] = at[1] + 1
        BY <1>t, <1>4
  <2>2. ScanMark \/ ScanKeyName \/ ScanOther
        BY <1>t, <1>1, <2>1 DEF Next, Start, StreamEnd, MergeNull, vars
  <2> QED BY <1>2, <1>t, <2>1, <2>2, NoValue
<1> QED BY <1>3, <1>4

LEMMA PhaseStep == ParseInv /\ [Next]_vars => PhaseInv'
<1> SUFFICES ASSUME ParseInv, [Next]_vars PROVE PhaseInv'
    OBVIOUS
<1>t. TypeOK /\ ScanInv /\ MemInv /\ PhaseInv
      BY DEF ParseInv
<1>f. /\ Count \in 0..MaxEntries /\ file.broken \in BOOLEAN
      /\ ~file.given => Count = 0 /\ ~file.broken
      /\ at[1] \in 1..(Count + 1)
      BY <1>t, FileTyped DEF TypeOK, ScanInv
<1>1. CASE Start
  <2>1. ~parsed /\ DOMAIN field = {} /\ at[1] = 1 /\ ret = "OK"
        /\ config = [k \in MergedKeys |-> Default]
        BY <1>1, <1>t DEF Start, MemInv, ScanInv, PhaseInv
  <2>2. UNCHANGED <<file, at, field, config, ret>> /\ pc' = IF file.given THEN "scan" ELSE "run"
        BY <1>1 DEF Start, memory
  <2>3. \A k \in MergedKeys : config[k] = Default
        BY <2>1
  <2> QED BY <1>f, <2>1, <2>2, <2>3 DEF PhaseInv, Count
<1>2. CASE ScanMark \/ ScanKeyName \/ ScanText \/ ScanOther
      BY <1>2, <1>t DEF ScanMark, ScanKeyName, ScanText, ScanOther, Scanning, PhaseInv
<1>3. CASE OpenError \/ OutOfMemory \/ ScanError
      BY <1>3, <1>t DEF OpenError, OutOfMemory, ScanError, Scanning, AtEnd, PhaseInv
<1>4. CASE StreamEnd
  <2>1. at[1] = Count + 1
        BY <1>4, <1>f DEF StreamEnd, AtEnd, Count
  <2> QED BY <1>4, <1>t, <2>1 DEF StreamEnd, AtEnd, PhaseInv, Count
<1>5. CASE Merge
  <2>1. config' = [k \in MergedKeys |-> IF k \in DOMAIN field THEN field[k] ELSE Default]
        BY <1>5, <1>t DEF Merge, PhaseInv
  <2>2. UNCHANGED <<file, at, field, ret>> /\ pc' = "run" /\ pc = "merge"
        BY <1>5 DEF Merge, memory
  <2> QED BY <1>t, <2>1, <2>2 DEF PhaseInv, Count
<1>6. CASE MergeNull
      BY <1>6, <1>t DEF MergeNull, PhaseInv, Count
<1>7. CASE Run
      BY <1>7, <1>t DEF Run, PhaseInv
<1>8. CASE Finalize
      BY <1>8, <1>t DEF Finalize, PhaseInv
<1>9. CASE UNCHANGED vars
      BY <1>9, <1>t DEF vars, memory, PhaseInv, Count
<1> QED BY <1>1, <1>2, <1>3, <1>4, <1>5, <1>6, <1>7, <1>8, <1>9 DEF Next

\* An entry adds itself to what its owner is given, or nothing to anyone.
LEMMA GivenNext ==
  ASSUME NEW k, NEW i \in Nat \ {0}
  PROVE  GivenBefore(k, i) = GivenBefore(k, i - 1) \cup
           (IF OwnerOf(i) = k /\ file.entries[i].value = "text" THEN {i} ELSE {})
<1>1. 1..i = (1..(i - 1)) \cup {i}
      OBVIOUS
<1> QED BY <1>1 DEF GivenBefore

LEMMA FieldStep == ParseInv /\ [Next]_vars => FieldInv'
<1> SUFFICES ASSUME ParseInv, [Next]_vars PROVE FieldInv'
    OBVIOUS
<1>f. file' = file
      BY DEF Next, Start, OpenError, ScanMark, ScanKeyName, ScanText, ScanOther, OutOfMemory,
             ScanError, StreamEnd, Merge, MergeNull, Run, Finalize, vars
<1> SUFFICES ASSUME pc' \in {"start", "scan", "merge", "run"}, ~starved', NEW k \in ParsedKeys
             PROVE  /\ k \in DOMAIN field' =>
                         /\ field'[k] \in GivenBefore(k, at'[1] - 1)
                         /\ \A i \in GivenBefore(k, at'[1] - 1) : field'[k] >= i
                    /\ k \notin DOMAIN field' => GivenBefore(k, at'[1] - 1) = {}
    BY <1>f, SameOwner DEF FieldInv, GivenBefore
<1>t. TypeOK /\ ScanInv /\ MemInv /\ FieldInv /\ at[1] \in Nat \ {0} /\ at'[1] \in {at[1], at[1] + 1}
      BY AtGrows DEF ParseInv
<1>1. ~OpenError /\ ~OutOfMemory /\ ~ScanError /\ ~MergeNull /\ ~Run /\ ~Finalize
      BY DEF OpenError, OutOfMemory, ScanError, MergeNull, Run, Finalize
<1>2. pc \in {"start", "scan", "merge", "run"} /\ ~starved
      BY <1>1, <1>t DEF Next, Start, ScanMark, ScanKeyName, ScanText, ScanOther, StreamEnd, Merge, vars,
                  Scanning, AtEnd, set_value, TypeOK
<1>3. /\ k \in DOMAIN field => /\ field[k] \in GivenBefore(k, at[1] - 1)
                               /\ \A i \in GivenBefore(k, at[1] - 1) : field[k] >= i
      /\ k \notin DOMAIN field => GivenBefore(k, at[1] - 1) = {}
      BY <1>t, <1>2 DEF FieldInv
<1>4. PICK i \in Nat \ {0} : i = at[1]
      BY <1>t
<1>5. GivenBefore(k, i) = GivenBefore(k, i - 1) \cup
        (IF OwnerOf(i) = k /\ file.entries[i].value = "text" THEN {i} ELSE {})
      BY GivenNext
<1>6. CASE ScanText
  <2>1. /\ at'[1] = i + 1 /\ i + 1 - 1 = i
        /\ configKeyCode = key_code_from_key_name(OwnerOf(i))
        /\ \/ configKeyCode = Unknown /\ field' = field
           \/ file.entries[i].value = "blank" /\ field' = field
           \/ /\ configKeyCode \in ParsedKeys /\ file.entries[i].value = "text"
              /\ field' = [f \in DOMAIN field \cup {configKeyCode} |->
                             IF f = configKeyCode THEN i ELSE field[f]]
    <3>1. \A n \in Nat \ {0} : n + 1 - 1 = n
          OBVIOUS
    <3> QED BY <1>4, <1>6, <3>1, SetValue
  <2>2. Unknown \notin ParsedKeys
        BY DEF Unknown, ParsedKeys
  <2>3. OwnerOf(i) = k <=> configKeyCode = k
        BY <2>1, <2>2 DEF key_code_from_key_name
  <2>4. CASE configKeyCode = k /\ file.entries[i].value = "text"
    <3>1. k \in DOMAIN field' /\ field'[k] = i
          BY <2>1, <2>2, <2>4
    <3>2. GivenBefore(k, i) \subseteq 1..i /\ i \in GivenBefore(k, i)
          BY <2>3, <2>4, <1>5 DEF GivenBefore
    <3> QED BY <2>1, <3>1, <3>2
  <2>5. CASE ~(configKeyCode = k /\ file.entries[i].value = "text")
    <3>1. GivenBefore(k, i) = GivenBefore(k, i - 1)
          BY <1>5, <2>3, <2>5
    <3>2. (k \in DOMAIN field' <=> k \in DOMAIN field) /\ (k \in DOMAIN field => field'[k] = field[k])
          BY <2>1, <2>5
    <3> QED BY <1>3, <1>4, <2>1, <3>1, <3>2
  <2> QED BY <2>4, <2>5
<1>7. CASE ScanMark \/ ScanKeyName \/ ScanOther
  <2>1. field' = field
        BY <1>7 DEF ScanMark, ScanKeyName, ScanOther, memory
  <2>2. CASE at'[1] = at[1]
        BY <1>3, <2>1, <2>2
  <2>3. CASE at'[1] = at[1] + 1
    <3>1. file.entries[i].value \notin {"text", "blank"} /\ i + 1 - 1 = i
          BY <1>t, <1>4, <1>7, <2>3, NoValue
    <3>2. GivenBefore(k, i) = GivenBefore(k, i - 1)
          BY <1>5, <3>1
    <3> QED BY <1>3, <1>4, <2>1, <2>3, <3>1, <3>2
  <2> QED BY <1>t, <2>2, <2>3
<1>8. CASE Start \/ StreamEnd \/ Merge \/ UNCHANGED vars
  <2>1. UNCHANGED <<at, field>>
        BY <1>8 DEF Start, StreamEnd, Merge, vars, memory
  <2> QED BY <1>3, <2>1
<1> QED BY <1>1, <1>6, <1>7, <1>8 DEF Next

-----------------------------------------------------------------------------
(* The theorems *)

LEMMA NextParse == ParseInv /\ [Next]_vars => ParseInv'
BY TypeStep, ScanStep, KeyStep, MemStep, FieldStep, ValueStep, PhaseStep DEF ParseInv

LEMMA Parses == Spec => []ParseInv
BY InitParse, NextParse, PTL DEF Spec

\* The state of the command and of the parser keeps its types: the scan never
\* leaves the tokens of the file, and the fields, the heap and the effective
\* configuration name entries of it (config-parse.c:266-333).
THEOREM TypeCorrect == Spec => []TypeOK
<1>1. ParseInv => TypeOK
      BY DEF ParseInv
<1> QED BY <1>1, Parses, PTL

\* The setup is given what the file means by its entries, whatever tokens the
\* scanner makes of them: for any number of entries and any keys, the last value
\* that is not blank of each key the parser knows, else the default
\* (config-parse.c:295-321 and setup.c:1224-1318).
THEOREM Applied == Spec => []AppliedAsWritten
<1>1. ASSUME ParseInv, pc = "run", ~starved, NEW k \in MergedKeys
      PROVE  config[k] = Meaning(k)
  <2>t. /\ TypeOK /\ MemInv
        /\ at[1] = Count + 1 /\ Count \in Nat
        /\ config[k] = IF k \in DOMAIN field THEN field[k] ELSE Default
        BY <1>1, FileTyped, MaxEntriesAssumption DEF ParseInv, PhaseInv, TypeOK
  <2>1. CASE k \in ParsedKeys
    <3>1. Given(k) = GivenBefore(k, at[1] - 1) /\ Meaning(k) = Max(Given(k) \cup {Default})
          BY <2>1, <2>t DEF Given, GivenBefore, Count, Meaning
    <3>2. /\ k \in DOMAIN field => field[k] \in Given(k) /\ \A i \in Given(k) : field[k] >= i
          /\ k \notin DOMAIN field => Given(k) = {}
          BY <1>1, <2>1, <3>1 DEF ParseInv, FieldInv
    <3>3. Given(k) \cup {Default} \in SUBSET Int /\ \A i \in Given(k) : i >= Default
          BY DEF Given, Default
    <3>4. CASE k \in DOMAIN field
      <4>1. field[k] \in Given(k) \cup {Default} /\ \A i \in Given(k) \cup {Default} : field[k] >= i
            BY <3>2, <3>3, <3>4
      <4>2. Max(Given(k) \cup {Default}) = field[k]
            BY <3>3, <4>1, MaxIs
      <4> QED BY <2>t, <3>1, <3>4, <4>2
    <3>5. CASE k \notin DOMAIN field
      <4>1. Given(k) \cup {Default} = {Default} /\ Default >= Default
            BY <3>2, <3>5 DEF Default
      <4>2. Max(Given(k) \cup {Default}) = Default
            BY <3>3, <4>1, MaxIs
      <4> QED BY <2>t, <3>1, <3>5, <4>2
    <3> QED BY <3>4, <3>5
  <2>2. CASE k \notin ParsedKeys
        BY <2>2, <2>t DEF MemInv, Meaning
  <2> QED BY <2>1, <2>2
<1>2. ParseInv => AppliedAsWritten
      BY <1>1 DEF AppliedAsWritten
<1> QED BY <1>2, Parses, PTL

\* A file that cannot be opened, scanned to its end or stored starts no setup
\* and leaves every default as it is, whatever it had set before (setup.c:1220).
THEOREM NoHalfFile == Spec => []AllOrNothing
<1>1. ParseInv => AllOrNothing
  <2> SUFFICES ASSUME ParseInv,
                      \/ ret \in {"ERROR", "FORMULA_SYNTAX", "MEMORY_ALLOCATE"}
                      \/ file.broken /\ pc \notin {"start", "scan"}
               PROVE  /\ pc \in {"finalize", "done"} /\ ret # "OK"
                      /\ \A k \in MergedKeys : config[k] = Default
      BY DEF AllOrNothing
  <2>1. TypeOK /\ PhaseInv
        BY DEF ParseInv
  <2>2. pc \in {"finalize", "done"}
        BY <2>1 DEF TypeOK, PhaseInv, Labels
  <2>3. ret # "OK" /\ config = [k \in MergedKeys |-> Default]
        BY <2>1, <2>2 DEF PhaseInv
  <2> QED BY <2>2, <2>3
<1> QED BY <1>1, Parses, PTL

\* No field of the struct, and while the setup runs no field of the effective
\* configuration, points to a string that was freed (setup.c:1327).
THEOREM PointersLive == Spec => []NoDangling
<1>1. ParseInv => NoDangling
  <2> SUFFICES ASSUME ParseInv PROVE NoDangling
      OBVIOUS
  <2>1. MemInv /\ PhaseInv
        BY DEF ParseInv
  <2>2. parsed => Range(field) \cup {Struct} \subseteq heap
        BY <2>1 DEF MemInv
  <2>3. ASSUME pc = "run", NEW k \in MergedKeys, config[k] # Default PROVE config[k] \in heap
    <3>1. k \in DOMAIN field /\ config[k] = field[k]
          BY <2>1, <2>3 DEF PhaseInv
    <3>2. parsed /\ field[k] \in Range(field)
          BY <2>1, <3>1 DEF MemInv, Range
    <3> QED BY <2>2, <3>1, <3>2
  <2> QED BY <2>2, <2>3 DEF NoDangling
<1> QED BY <1>1, Parses, PTL

\* However the command ends, everything the parser allocated is freed: no string
\* is lost when a key is given twice or the file breaks off (setup.c:1325).
THEOREM EverythingFreed == Spec => []NoLeak
<1>1. ParseInv => NoLeak
      BY DEF ParseInv, MemInv, NoLeak
<1> QED BY <1>1, Parses, PTL

\* Only a file without any scalar value makes the merge follow the NULL pointer
\* (config-parse.c:303, setup.c:1224).
THEOREM CrashOnlyWhenEmpty == Spec => []NullOnlyWithoutValue
<1>1. ParseInv => NullOnlyWithoutValue
  <2> SUFFICES ASSUME ParseInv, pc = "crashed", NEW i \in 1..Len(file.entries)
               PROVE  file.entries[i].value \notin {"text", "blank"}
      BY DEF NullOnlyWithoutValue
  <2>1. ~parsed /\ at[1] = Count + 1 /\ Count \in Nat
        BY FileTyped, MaxEntriesAssumption DEF ParseInv, MemInv, PhaseInv, TypeOK
  <2> QED BY <2>1 DEF ParseInv, ValueInv, Count
<1> QED BY <1>1, Parses, PTL
=============================================================================
