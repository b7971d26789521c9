----------------------------- MODULE ConfigProofs ----------------------------
(***************************************************************************)
(* Theorems about the settings, for a file of any length, any lists, any    *)
(* numbers and any names: what runs is usable, it is what the file says or  *)
(* the default, and the log holds the warnings that FallbackIsReported      *)
(* names and no other.                                                      *)
(***************************************************************************)
EXTENDS Config, SequenceTheorems, WellFoundedInduction, TLAPS

-----------------------------------------------------------------------------
(* The default settings. *)

LEMMA Limits ==
  MAX_PORT \in Nat /\ MAX_PORT >= 9000 /\ MAX_SANE_CLIENTS \in Nat /\ MAX_SANE_CLIENTS >= 64
  BY DEF MAX_PORT, MAX_SANE_CLIENTS

LEMMA EntryFacts ==
  /\ 0 \in Entries /\ Ports \subseteq Entries /\ Entries \subseteq Int
  /\ \A e \in Entries : e # 0 => e \in Ports
  BY Limits DEF Entries, Ports

LEMMA DefaultSequence ==
  /\ Len(DEFAULT_SEQUENCE) = 3
  /\ DEFAULT_SEQUENCE[1] = 7000 /\ DEFAULT_SEQUENCE[2] = 8000
  /\ DEFAULT_SEQUENCE[3] = 9000
  /\ 1..3 \subseteq Places /\ 3 \in Places /\ MAX_KNOCK_SEQ_LEN \in Nat
  /\ MAX_KNOCK_SEQ_LEN >= 3
  BY RoomAssumption DEF DEFAULT_SEQUENCE, Places

LEMMA DefaultNumbers ==
  /\ DEFAULT \in [IntKeys -> Int]
  /\ \A key \in IntKeys : InRange(key, DEFAULT[key])
  /\ DEFAULT["log_level"] = 2
  <1>1. DEFAULT \in [IntKeys -> Int]
    BY DEF DEFAULT, IntKeys
  <1>2. \A key \in IntKeys : InRange(key, DEFAULT[key])
    <2>1. /\ DEFAULT["port"] = 22 /\ DEFAULT["timeout"] = 30 /\ DEFAULT["window"] = 15
          /\ DEFAULT["max_clients"] = 64 /\ DEFAULT["log_level"] = 2
      BY DEF DEFAULT
    <2>2. /\ 22 \in Ports /\ 30 > 0 /\ 15 > 0 /\ 64 \in 1..MAX_SANE_CLIENTS
          /\ 2 \in 0..3
      BY Limits DEF Ports
    <2> QED BY <2>1, <2>2, Zenon DEF IntKeys, InRange
  <1>3. DEFAULT["log_level"] = 2
    BY DEF DEFAULT
  <1> QED BY <1>1, <1>2, <1>3

LEMMA LineKeys ==
  ASSUME NEW line \in Lines
  PROVE  /\ line.key \in IntKeys => line.val = <<>> \/ \E n \in Int : line.val = <<n>>
         /\ line.key = "sequence" => line.val \in Seq(Int)
         /\ line.key = "interface" => line.val \in Names
  BY FileAssumption DEF Lines, IntKeys

-----------------------------------------------------------------------------
(* What the parsers leave. *)

LEMMA OverwriteTypes ==
  ASSUME CTypeOK, NEW list \in Seq(Int), GoodList(list), Overwrite(list)
  PROVE  /\ KNOCK_SEQUENCE' \in [Places -> Entries]
         /\ KNOCK_SEQ_LEN' \in Places
         /\ KNOCK_SEQ_LEN' = Len(list)
         /\ \A i \in 1..Len(list) : KNOCK_SEQUENCE'[i] = list[i]
  <1>1. Len(list) \in Nat /\ 1..Len(list) \subseteq Places
    BY RoomAssumption DEF GoodList, Places
  <1>2. \A i \in 1..Len(list) : list[i] \in Ports
    BY DEF GoodList
  <1>3. KNOCK_SEQ_LEN' = Len(list) /\ Len(list) \in Places
    BY DEF Overwrite, GoodList
  <1>4. \A i \in Places : i <= Len(list) => i \in 1..Len(list)
    BY <1>1 DEF Places
  <1>5. KNOCK_SEQUENCE' \in [Places -> Entries]
    BY <1>2, <1>4, EntryFacts DEF Overwrite, CTypeOK
  <1>6. \A i \in 1..Len(list) : KNOCK_SEQUENCE'[i] = list[i]
    BY <1>1 DEF Overwrite
  <1> QED BY <1>3, <1>5, <1>6

LEMMA DefaultIsGood ==
  DEFAULT_SEQUENCE \in Seq(Int) /\ GoodList(DEFAULT_SEQUENCE)
  <1>1. DEFAULT_SEQUENCE \in Seq(Int)
    BY DEF DEFAULT_SEQUENCE
  <1>2. \A i \in 1..3 : i = 1 \/ i = 2 \/ i = 3
    OBVIOUS
  <1> QED BY <1>1, <1>2, DefaultSequence, Limits DEF GoodList, Ports

LEMMA WarningTypes ==
  ASSUME CTypeOK, NEW n \in Nat, NEW keys \in SUBSET Topics, log_warn(n, keys)
  PROVE  reported' \subseteq Nat \X Topics
  BY DEF CTypeOK, log_warn

LEMMA LineWarningTypes ==
  ASSUME CTypeOK, NEW key \in Topics, WarnOfLine(key)
  PROVE  reported' \subseteq Nat \X Topics
  <1>1. Len(read) + 1 \in Nat
    BY DEF CTypeOK
  <1> QED BY <1>1, WarningTypes DEF WarnOfLine

LEMMA ValidateTypes ==
  ASSUME CTypeOK, NEW w \in SUBSET {"file"}, config_validate(w)
  PROVE  /\ KNOCK_SEQUENCE' \in [Places -> Entries]
         /\ KNOCK_SEQ_LEN' \in Places
         /\ setting' \in [IntKeys -> Int]
         /\ reported' \subseteq Nat \X Topics
  <1>1. KNOCK_SEQUENCE' \in [Places -> Entries] /\ KNOCK_SEQ_LEN' \in Places
    <2>1. CASE SeqOK
      BY <2>1 DEF config_validate, sequence, CTypeOK
    <2>2. CASE ~SeqOK
      BY <2>2, DefaultIsGood, OverwriteTypes DEF config_validate
    <2> QED BY <2>1, <2>2
  <1>2. setting' \in [IntKeys -> Int]
    BY DefaultNumbers DEF config_validate, CTypeOK
  <1>3. reported' \subseteq Nat \X Topics
    <2>1. PICK keys \in SUBSET Topics : log_warn(0, keys)
      BY DEF config_validate, Topics
    <2> QED BY <2>1, WarningTypes
  <1> QED BY <1>1, <1>2, <1>3

LEMMA ConfigInit == CInit => CTypeOK
  <1> SUFFICES ASSUME CInit PROVE CTypeOK
    OBVIOUS
  <1>1. /\ config_explicit \in BOOLEAN /\ verbose \in BOOLEAN /\ unread \in BOOLEAN
        /\ KNOCK_SEQUENCE = [i \in Places |-> IF i <= Len(DEFAULT_SEQUENCE)
                                              THEN DEFAULT_SEQUENCE[i] ELSE 0]
        /\ KNOCK_SEQ_LEN = Len(DEFAULT_SEQUENCE) /\ setting = DEFAULT
        /\ read = <<>> /\ reported = {} /\ phase = "open" /\ KNOCK_INTERFACE \in Names
    BY FileAssumption, Zenon DEF CInit
  <1>2. KNOCK_SEQUENCE \in [Places -> Entries]
    <2>1. \A i \in Places : i <= 3 => i \in {1, 2, 3}
      BY DEF Places
    <2>2. \A i \in {1, 2, 3} : DEFAULT_SEQUENCE[i] \in Ports
      BY DefaultSequence, Limits DEF Ports
    <2> QED BY <1>1, <2>1, <2>2, DefaultSequence, EntryFacts
  <1>3. KNOCK_SEQ_LEN \in Places /\ setting \in [IntKeys -> Int]
    BY <1>1, DefaultSequence, DefaultNumbers
  <1>4. read \in Seq(Lines)
    BY <1>1
  <1> QED BY <1>1, <1>2, <1>3, <1>4 DEF CTypeOK

(* One turn of the loop in config_load(), by the kind of the line. *)
LEMMA ReadLineCases ==
  ASSUME NEW line \in Lines, ReadLine(line)
  PROVE  \/ /\ line.key \in IntKeys /\ parse_int(line.key, line.val)
            /\ UNCHANGED <<sequence, KNOCK_INTERFACE>>
         \/ /\ line.key = "sequence" /\ parse_sequence(line.val)
            /\ UNCHANGED <<setting, KNOCK_INTERFACE>>
         \/ /\ line.key = "interface" /\ parse_interface(line.val)
            /\ UNCHANGED <<sequence, setting>>
         \/ line.key = "other" /\ WarnOfLine("other") /\ UNCHANGED settings
         \/ line.key = "comment" /\ UNCHANGED <<settings, reported>>
  BY Zenon DEF ReadLine

LEMMA ReadLineTypes ==
  ASSUME CTypeOK, NEW line \in Lines, ReadLine(line)
  PROVE  CTypeOK'
  <1>0. IntKeys \subseteq Topics /\ {"sequence", "interface", "other"} \subseteq Topics
    BY DEF Topics
  <1>1. /\ phase' = phase /\ config_explicit' = config_explicit /\ verbose' = verbose
        /\ unread' = unread /\ read' \in Seq(Lines)
    BY DEF ReadLine, args, CTypeOK
  <1>2. CASE /\ line.key \in IntKeys /\ parse_int(line.key, line.val)
             /\ UNCHANGED <<sequence, KNOCK_INTERFACE>>
    <2>1. CASE line.val = <<>>
      <3>1. WarnOfLine(line.key) /\ setting' = setting
        BY <1>2, <2>1 DEF parse_int
      <3>2. reported' \subseteq Nat \X Topics
        BY <1>0, <1>2, <3>1, LineWarningTypes
      <3> QED BY <1>1, <1>2, <3>1, <3>2 DEF CTypeOK, sequence
    <2>2. CASE line.val # <<>>
      <3>1. line.val[1] \in Int
        BY <1>2, <2>2, LineKeys
      <3>2. setting' \in [IntKeys -> Int] /\ reported' = reported
        BY <1>2, <2>2, <3>1 DEF parse_int, CTypeOK
      <3> QED BY <1>1, <1>2, <3>2 DEF CTypeOK, sequence
    <2> QED BY <2>1, <2>2
  <1>3. CASE /\ line.key = "sequence" /\ parse_sequence(line.val)
             /\ UNCHANGED <<setting, KNOCK_INTERFACE>>
    <2>1. CASE GoodList(line.val)
      <3>1. KNOCK_SEQUENCE' \in [Places -> Entries] /\ KNOCK_SEQ_LEN' \in Places
        BY <1>3, <2>1, LineKeys, OverwriteTypes DEF parse_sequence
      <3> QED BY <1>1, <1>3, <2>1, <3>1 DEF parse_sequence, CTypeOK
    <2>2. CASE ~GoodList(line.val)
      <3>1. WarnOfLine("sequence") /\ UNCHANGED sequence
        BY <1>3, <2>2 DEF parse_sequence
      <3>2. reported' \subseteq Nat \X Topics
        BY <1>0, <3>1, LineWarningTypes
      <3> QED BY <1>1, <1>3, <3>1, <3>2 DEF CTypeOK, sequence
    <2> QED BY <2>1, <2>2
  <1>4. CASE /\ line.key = "interface" /\ parse_interface(line.val)
             /\ UNCHANGED <<sequence, setting>>
    <2>1. KNOCK_INTERFACE' \in Names
      BY <1>4, LineKeys DEF parse_interface, CTypeOK
    <2>2. reported' \subseteq Nat \X Topics
      BY <1>0, <1>4, LineWarningTypes DEF parse_interface, CTypeOK
    <2> QED BY <1>1, <1>4, <2>1, <2>2 DEF CTypeOK, sequence
  <1>5. CASE line.key = "other" /\ WarnOfLine("other") /\ UNCHANGED settings
    <2>1. reported' \subseteq Nat \X Topics
      BY <1>0, <1>5, LineWarningTypes
    <2> QED BY <1>1, <1>5, <2>1 DEF CTypeOK, settings, sequence
  <1>6. CASE line.key = "comment" /\ UNCHANGED <<settings, reported>>
    BY <1>1, <1>6 DEF CTypeOK, settings, sequence
  <1> QED BY <1>2, <1>3, <1>4, <1>5, <1>6, ReadLineCases

(* The steps that are no line of the file. *)
LEMMA ConfigSteps ==
  ASSUME [CNext]_cvars
  PROVE  \/ OpenFails \/ Opens \/ (\E line \in Lines : ReadLine(line)) \/ EndOfFile
         \/ Decide \/ UNCHANGED cvars
  BY Zenon DEF CNext, Done

LEMMA ConfigTypes ==
  ASSUME CTypeOK, [CNext]_cvars
  PROVE  CTypeOK'
  <1>1. CASE OpenFails
    <2>1. unread' \in BOOLEAN
      BY <1>1, Zenon DEF OpenFails
    <2> QED BY <1>1, <2>1, ValidateTypes DEF OpenFails, CTypeOK, args
  <1>2. CASE Opens
    BY <1>2 DEF Opens, CTypeOK, settings, sequence, args, ghosts
  <1>3. ASSUME NEW line \in Lines, ReadLine(line) PROVE CTypeOK'
    BY <1>3, ReadLineTypes
  <1>4. CASE EndOfFile
    <2>1. unread' \in BOOLEAN
      BY <1>4, Zenon DEF EndOfFile
    <2>2. PICK w \in SUBSET {"file"} : config_validate(w)
      BY <1>4 DEF EndOfFile
    <2> QED BY <1>4, <2>1, <2>2, ValidateTypes DEF EndOfFile, CTypeOK, args
  <1>5. CASE Decide
    <2>1. phase' \in {"refused", "running"}
      BY <1>5 DEF Decide
    <2>2. setting' \in [IntKeys -> Int]
      BY <1>5 DEF Decide, CTypeOK, IntKeys, LEVEL_DEBUG
    <2> QED BY <1>5, <2>1, <2>2 DEF Decide, CTypeOK, sequence, args, ghosts
  <1>6. CASE UNCHANGED cvars
    BY <1>6 DEF cvars, CTypeOK, settings, sequence, args, ghosts
  <1> QED BY <1>1, <1>2, <1>3, <1>4, <1>5, <1>6, ConfigSteps

(* config_load() and config_validate() keep every setting of its type and    *)
(* the sequence within its array, for a file of any length.                  *)
THEOREM ConfigTypeCorrect == CSpec => []CTypeOK
  <1>1. CTypeOK /\ [CNext]_cvars => CTypeOK'
    BY ConfigTypes
  <1> QED BY ConfigInit, <1>1, PTL DEF CSpec

-----------------------------------------------------------------------------
(* From validation on, the settings are usable. *)

Validated == phase \in {"loaded", "missing", "refused", "running"}

SequenceUsable ==
    /\ KNOCK_SEQ_LEN \in 2..MAX_KNOCK_SEQ_LEN
    /\ \A i \in 1..KNOCK_SEQ_LEN : KNOCK_SEQUENCE[i] \in Ports
    /\ \A i, j \in 1..KNOCK_SEQ_LEN :
          KNOCK_SEQUENCE[i] = KNOCK_SEQUENCE[j] => i = j

Usable == Validated => /\ SequenceUsable
                       /\ \A key \in IntKeys : InRange(key, setting[key])

LEMMA ValidateUsable ==
  ASSUME CTypeOK, NEW w \in SUBSET {"file"}, config_validate(w)
  PROVE  SequenceUsable' /\ \A key \in IntKeys : InRange(key, setting'[key])
  <1>1. \A key \in IntKeys : InRange(key, setting'[key])
    <2> SUFFICES ASSUME NEW key \in IntKeys PROVE InRange(key, setting'[key])
      OBVIOUS
    <2>1. setting'[key] = IF InRange(key, setting[key]) THEN setting[key]
                          ELSE DEFAULT[key]
      BY DEF config_validate
    <2> QED BY <2>1, DefaultNumbers
  <1>2. CASE SeqOK
    <2>1. /\ KNOCK_SEQ_LEN' = KNOCK_SEQ_LEN /\ KNOCK_SEQUENCE' = KNOCK_SEQUENCE
      BY <1>2 DEF config_validate, sequence
    <2>2. \A i \in 1..KNOCK_SEQ_LEN : KNOCK_SEQUENCE[i] \in Ports
      <3>1. 1..KNOCK_SEQ_LEN \subseteq Places
        BY RoomAssumption DEF CTypeOK, Places
      <3>2. \A i \in Places : KNOCK_SEQUENCE[i] \in Entries
        BY DEF CTypeOK
      <3>3. \A i \in 1..KNOCK_SEQ_LEN : KNOCK_SEQUENCE[i] # 0
        BY <1>2 DEF SeqOK
      <3> QED BY <3>1, <3>2, <3>3, EntryFacts
    <2>3. SequenceUsable
      BY <1>2, <2>2 DEF SequenceUsable, SeqOK
    <2> QED BY <1>1, <2>1, <2>3 DEF SequenceUsable
  <1>3. CASE ~SeqOK
    <2>1. /\ KNOCK_SEQ_LEN' = 3
          /\ \A i \in 1..3 : KNOCK_SEQUENCE'[i] = DEFAULT_SEQUENCE[i]
      <3>1. Overwrite(DEFAULT_SEQUENCE)
        BY <1>3 DEF config_validate
      <3>2. /\ KNOCK_SEQ_LEN' = Len(DEFAULT_SEQUENCE)
            /\ \A i \in 1..Len(DEFAULT_SEQUENCE) :
                  KNOCK_SEQUENCE'[i] = DEFAULT_SEQUENCE[i]
        BY <3>1, DefaultIsGood, OverwriteTypes
      <3> QED BY <3>2, DefaultSequence
    <2>2. \A i \in 1..3 : DEFAULT_SEQUENCE[i] \in Ports
      BY DefaultIsGood, DefaultSequence DEF GoodList
    <2>3. \A i, j \in 1..3 : DEFAULT_SEQUENCE[i] = DEFAULT_SEQUENCE[j] => i = j
      <3>1. \A i \in 1..3 : i = 1 \/ i = 2 \/ i = 3
        OBVIOUS
      <3> QED BY <3>1, DefaultSequence
    <2>4. 3 \in 2..MAX_KNOCK_SEQ_LEN
      BY DefaultSequence
    <2> QED BY <1>1, <2>1, <2>2, <2>3, <2>4 DEF SequenceUsable
  <1> QED BY <1>2, <1>3

LEMMA UsableKept ==
  ASSUME CTypeOK, Usable, [CNext]_cvars
  PROVE  Usable'
  <1>1. CASE OpenFails
    BY <1>1, ValidateUsable DEF OpenFails, Usable
  <1>2. CASE Opens \/ \E line \in Lines : ReadLine(line)
    BY <1>2 DEF Opens, ReadLine, Usable, Validated
  <1>3. CASE EndOfFile
    <2>1. PICK w \in SUBSET {"file"} : config_validate(w)
      BY <1>3 DEF EndOfFile
    <2> QED BY <2>1, ValidateUsable DEF Usable
  <1>4. CASE Decide
    <2>1. /\ Validated /\ KNOCK_SEQUENCE' = KNOCK_SEQUENCE
          /\ KNOCK_SEQ_LEN' = KNOCK_SEQ_LEN
      BY <1>4 DEF Decide, Validated, sequence
    <2>2. SequenceUsable'
      BY <2>1 DEF Usable, SequenceUsable
    <2>3. \A key \in IntKeys : InRange(key, setting[key])
      BY <2>1 DEF Usable
    <2>4. CASE setting' = setting
      BY <2>2, <2>3, <2>4 DEF Usable
    <2>5. CASE setting' = [setting EXCEPT !["log_level"] = LEVEL_DEBUG]
      <3>1. InRange("log_level", LEVEL_DEBUG)
        BY DEF InRange, LEVEL_DEBUG
      <3>2. \A key \in IntKeys : InRange(key, setting'[key])
        BY <2>3, <2>5, <3>1 DEF CTypeOK
      <3> QED BY <2>2, <3>2 DEF Usable
    <2> QED BY <1>4, <2>4, <2>5 DEF Decide
  <1>5. CASE UNCHANGED cvars
    BY <1>5 DEF cvars, settings, sequence, Usable, Validated, SequenceUsable
  <1> QED BY <1>1, <1>2, <1>3, <1>4, <1>5, ConfigSteps

(* Whatever is in the file, the daemon runs with settings that the knock     *)
(* state machine and the firewall can work with: what those assume of their  *)
(* constants.                                                                *)
THEOREM RunsOnUsableSettings == CSpec => []UsableConfiguration
  <1>1. CInit => Usable
    BY Zenon DEF CInit, Usable, Validated
  <1>2. CTypeOK /\ Usable /\ [CNext]_cvars => Usable'
    BY UsableKept
  <1>3. CTypeOK /\ Usable => UsableConfiguration
    <2> SUFFICES ASSUME CTypeOK, Usable, phase = "running" PROVE UsableConfiguration
      BY DEF UsableConfiguration
    <2>1. SequenceUsable /\ \A key \in IntKeys : InRange(key, setting[key])
      BY DEF Usable, Validated
    <2>2. \A key \in IntKeys : setting[key] \in Int
      BY DEF CTypeOK
    <2>3. /\ InRange("window", setting["window"])
          /\ InRange("timeout", setting["timeout"])
          /\ InRange("max_clients", setting["max_clients"])
          /\ InRange("port", setting["port"])
          /\ InRange("log_level", setting["log_level"])
      BY <2>1 DEF IntKeys
    <2>4. setting["window"] \in Nat \ {0} /\ setting["timeout"] \in Nat \ {0}
      BY <2>2, <2>3 DEF InRange, IntKeys
    <2>5. /\ setting["max_clients"] \in 1..MAX_SANE_CLIENTS
          /\ setting["port"] \in Ports /\ setting["log_level"] \in 0..3
      BY <2>3 DEF InRange
    <2> QED BY <2>1, <2>4, <2>5 DEF UsableConfiguration, SequenceUsable
  <1> QED BY ConfigTypeCorrect, <1>1, <1>2, <1>3, PTL DEF CSpec

-----------------------------------------------------------------------------
(* The file: which line of a key counts. *)

LEMMA LastIsOne ==
  ASSUME NEW n \in Nat, NEW S \in SUBSET (1..n), S # {}
  PROVE  LastOf(S) \in S /\ \A j \in S : j <= LastOf(S)
  <1>0. \A i \in S : i \in Nat /\ n - i \in Nat
    OBVIOUS
  <1> DEFINE T == {n - i : i \in S}
  <1>1. T \subseteq Nat /\ T # {}
    BY <1>0
  <1>2. PICK x \in T : \A y \in T : ~(<<y, x>> \in OpToRel(<, Nat))
    BY <1>1, WFMin, NatLessThanWellFounded, Zenon
  <1>3. \A y \in T : ~(y < x)
    BY <1>1, <1>2 DEF OpToRel
  <1>4. PICK m \in S : x = n - m
    OBVIOUS
  <1>5. \A j \in S : ~(n - j < n - m)
    BY <1>3, <1>4
  <1> HIDE DEF T
  <1>6. ASSUME NEW j \in S PROVE j <= m
    <2>1. j \in Nat /\ m \in Nat
      BY <1>0
    <2>2. ~(n - j < n - m)
      BY <1>5
    <2> QED BY <2>1, <2>2
  <1> QED BY <1>6 DEF LastOf

(* A line that was just read comes after all others. *)
LEMMA LastIsNew ==
  ASSUME NEW n \in Nat, NEW S \in SUBSET (1..n)
  PROVE  LastOf(S \cup {n + 1}) = n + 1
  <1>1. S \cup {n + 1} \in SUBSET (1..n + 1) /\ S \cup {n + 1} # {}
    OBVIOUS
  <1> DEFINE m == LastOf(S \cup {n + 1})
  <1>2. m \in S \cup {n + 1} /\ n + 1 <= m
    BY <1>1, LastIsOne
  <1> HIDE DEF m
  <1>3. m = n + 1
    BY <1>2
  <1> QED BY <1>3 DEF m

LEMMA ReadAppended ==
  ASSUME CTypeOK, NEW line \in Lines, ReadLine(line)
  PROVE  /\ Len(read) \in Nat /\ Len(read') = Len(read) + 1
         /\ read'[Len(read) + 1] = line
         /\ \A i \in 1..Len(read) : read'[i] = read[i]
         /\ 1..Len(read') = 1..Len(read) \cup {Len(read) + 1}
  <1>1. read' = Append(read, line) /\ read \in Seq(Lines)
    BY DEF ReadLine, CTypeOK
  <1>2. Len(read) \in Nat /\ Len(read') = Len(read) + 1
    BY <1>1
  <1>3. /\ read'[Len(read) + 1] = line
        /\ \A i \in 1..Len(read) : read'[i] = read[i]
    BY <1>1, AppendProperties
  <1> QED BY <1>2, <1>3

(* The lines of a key that can be parsed, for the three kinds of key. *)
NumberLines(key, n) == {i \in 1..n : read[i].key = key /\ read[i].val # <<>>}
SequenceLines == {i \in 1..Len(read) : read[i].key = "sequence" /\ GoodList(read[i].val)}
InterfaceLines == {i \in 1..Len(read) : /\ read[i].key = "interface"
                                        /\ NameLen(read[i].val) < IFNAME_MAX}

(* Which line counts, in terms of these sets. *)
LEMMA CountingLines ==
  /\ \A key, n : NumberAfter(key, n) =
        IF NumberLines(key, n) = {} THEN DEFAULT[key]
        ELSE read[LastOf(NumberLines(key, n))].val[1]
  /\ LastList = IF SequenceLines = {} THEN DEFAULT_SEQUENCE
                ELSE read[LastOf(SequenceLines)].val
  /\ SaidInterface = IF InterfaceLines = {} THEN ""
                     ELSE read[LastOf(InterfaceLines)].val
  BY Zenon DEF NumberAfter, NumberLines, LastList, SequenceLines, SaidInterface,
               InterfaceLines

(* The lines read before this one say what they said. *)
LEMMA EarlierNumbersKept ==
  ASSUME CTypeOK, NEW line \in Lines, ReadLine(line), NEW key, NEW n \in 0..Len(read)
  PROVE  NumberAfter(key, n)' = NumberAfter(key, n)
  <1>1. Len(read) \in Nat /\ n \in Nat /\ 1..n \subseteq 1..Len(read)
    BY ReadAppended
  <1>2. NumberLines(key, n)' = NumberLines(key, n) /\ NumberLines(key, n) \in SUBSET (1..n)
    BY <1>1, ReadAppended DEF NumberLines
  <1>3. NumberLines(key, n) # {} => LastOf(NumberLines(key, n)) \in 1..Len(read)
    BY <1>1, <1>2, LastIsOne
  <1>4. NumberAfter(key, n)' = IF NumberLines(key, n)' = {} THEN DEFAULT[key]
                               ELSE read'[LastOf(NumberLines(key, n)')].val[1]
    BY Zenon DEF NumberAfter, NumberLines
  <1> QED BY <1>2, <1>3, <1>4, CountingLines, ReadAppended

LEMMA NumbersAppended ==
  ASSUME CTypeOK, NEW line \in Lines, ReadLine(line), NEW key
  PROVE  LastNumber(key)' = IF line.key = key /\ line.val # <<>> THEN line.val[1]
                            ELSE LastNumber(key)
  <1> DEFINE n == Len(read)
             S == NumberLines(key, n)
             T == NumberLines(key, Len(read))'
  <1>1. n \in Nat /\ S \in SUBSET (1..n)
    BY ReadAppended DEF NumberLines
  <1>0. /\ LastNumber(key) = IF S = {} THEN DEFAULT[key] ELSE read[LastOf(S)].val[1]
        /\ LastNumber(key)' = IF T = {} THEN DEFAULT[key] ELSE read'[LastOf(T)].val[1]
    BY Zenon DEF LastNumber, NumberAfter, NumberLines
  <1>2. CASE line.key = key /\ line.val # <<>>
    <2>1. T = S \cup {n + 1}
      BY <1>2, ReadAppended DEF NumberLines
    <2>2. LastOf(T) = n + 1 /\ T # {}
      BY <1>1, <2>1, LastIsNew
    <2> HIDE DEF S, T
    <2> QED BY <1>0, <1>2, <2>2, ReadAppended
  <1>3. CASE ~(line.key = key /\ line.val # <<>>)
    <2>1. T = S
      BY <1>3, ReadAppended DEF NumberLines
    <2>2. S # {} => LastOf(S) \in 1..n
      BY <1>1, LastIsOne
    <2> HIDE DEF S, T
    <2> QED BY <1>0, <1>3, <2>1, <2>2, ReadAppended
  <1> QED BY <1>2, <1>3

LEMMA SequencesAppended ==
  ASSUME CTypeOK, NEW line \in Lines, ReadLine(line)
  PROVE  LastList' = IF line.key = "sequence" /\ GoodList(line.val) THEN line.val
                        ELSE LastList
  <1> DEFINE n == Len(read)
  <1>0. LastList' = IF SequenceLines' = {} THEN DEFAULT_SEQUENCE
                    ELSE read'[LastOf(SequenceLines')].val
    BY Zenon DEF LastList, SequenceLines
  <1>1. n \in Nat /\ SequenceLines \in SUBSET (1..n)
    BY ReadAppended DEF SequenceLines
  <1>2. CASE line.key = "sequence" /\ GoodList(line.val)
    <2>1. SequenceLines' = SequenceLines \cup {n + 1}
      BY <1>2, ReadAppended DEF SequenceLines
    <2>2. LastOf(SequenceLines') = n + 1 /\ SequenceLines' # {}
      BY <1>1, <2>1, LastIsNew
    <2> QED BY <1>0, <1>2, <2>2, ReadAppended
  <1>3. CASE ~(line.key = "sequence" /\ GoodList(line.val))
    <2>1. SequenceLines' = SequenceLines
      BY <1>3, ReadAppended DEF SequenceLines
    <2>2. SequenceLines # {} => LastOf(SequenceLines) \in 1..n
      BY <1>1, LastIsOne
    <2> QED BY <1>0, <1>3, <2>1, <2>2, CountingLines, ReadAppended
  <1> QED BY <1>2, <1>3

LEMMA InterfacesAppended ==
  ASSUME CTypeOK, NEW line \in Lines, ReadLine(line)
  PROVE  SaidInterface' = IF line.key = "interface" /\ NameLen(line.val) < IFNAME_MAX
                         THEN line.val ELSE SaidInterface
  <1> DEFINE n == Len(read)
  <1>0. SaidInterface' = IF InterfaceLines' = {} THEN ""
                         ELSE read'[LastOf(InterfaceLines')].val
    BY Zenon DEF SaidInterface, InterfaceLines
  <1>1. n \in Nat /\ InterfaceLines \in SUBSET (1..n)
    BY ReadAppended DEF InterfaceLines
  <1>2. CASE line.key = "interface" /\ NameLen(line.val) < IFNAME_MAX
    <2>1. InterfaceLines' = InterfaceLines \cup {n + 1}
      BY <1>2, ReadAppended DEF InterfaceLines
    <2>2. LastOf(InterfaceLines') = n + 1 /\ InterfaceLines' # {}
      BY <1>1, <2>1, LastIsNew
    <2> QED BY <1>0, <1>2, <2>2, ReadAppended
  <1>3. CASE ~(line.key = "interface" /\ NameLen(line.val) < IFNAME_MAX)
    <2>1. InterfaceLines' = InterfaceLines
      BY <1>3, ReadAppended DEF InterfaceLines
    <2>2. InterfaceLines # {} => LastOf(InterfaceLines) \in 1..n
      BY <1>1, LastIsOne
    <2> QED BY <1>0, <1>3, <2>1, <2>2, CountingLines, ReadAppended
  <1> QED BY <1>2, <1>3

-----------------------------------------------------------------------------
(* The list that counts is one of the file or the default. *)

LEMMA LastListIsGood ==
  ASSUME CTypeOK
  PROVE  LastList \in Seq(Int) /\ GoodList(LastList)
  <1>1. CASE SequenceLines = {}
    BY <1>1, DefaultIsGood, CountingLines
  <1>2. CASE SequenceLines # {}
    <2>1. SequenceLines \in SUBSET (1..Len(read)) /\ Len(read) \in Nat
      BY DEF SequenceLines, CTypeOK
    <2>2. LastOf(SequenceLines) \in SequenceLines
      BY <1>2, <2>1, LastIsOne
    <2> DEFINE last == read[LastOf(SequenceLines)]
    <2>3. last \in Lines /\ last.key = "sequence" /\ GoodList(last.val)
      BY <2>1, <2>2 DEF SequenceLines, CTypeOK
    <2>4. last.val \in Seq(Int)
      BY <2>3, LineKeys
    <2> QED BY <1>2, <2>3, <2>4, CountingLines
  <1> QED BY <1>1, <1>2

-----------------------------------------------------------------------------
(* The array holds this list, and nothing else of it is in use. *)
Holds(list) == /\ KNOCK_SEQ_LEN = Len(list)
               /\ \A i \in 1..Len(list) : KNOCK_SEQUENCE[i] = list[i]

(* While the file is read the settings are those of the last lines that      *)
(* parsed, in or out of range; after validation they are what the file says. *)
Followed ==
    /\ ~Validated => /\ Holds(LastList)
                     /\ \A key \in IntKeys : setting[key] = LastNumber(key)
    /\ Validated => /\ Holds(SaidSequence)
                    /\ \A key \in IntKeys :
                          setting[key] = IF phase = "running" /\ verbose
                                            /\ key = "log_level"
                                         THEN LEVEL_DEBUG ELSE SaidNumber(key)
    /\ KNOCK_INTERFACE = SaidInterface

LEMMA FollowedInit == CInit => Followed
  <1> SUFFICES ASSUME CInit PROVE Followed
    OBVIOUS
  <1>1. /\ KNOCK_SEQUENCE = [i \in Places |-> IF i <= Len(DEFAULT_SEQUENCE)
                                              THEN DEFAULT_SEQUENCE[i] ELSE 0]
        /\ KNOCK_SEQ_LEN = Len(DEFAULT_SEQUENCE) /\ setting = DEFAULT
        /\ read = <<>> /\ phase = "open"
    BY Zenon DEF CInit
  <1>2. 1..Len(read) = {}
    BY <1>1
  <1>3. /\ SequenceLines = {} /\ InterfaceLines = {}
        /\ \A key \in IntKeys : NumberLines(key, Len(read)) = {}
    BY <1>2, Zenon DEF SequenceLines, InterfaceLines, NumberLines
  <1>4. LastList = DEFAULT_SEQUENCE /\ \A key \in IntKeys : LastNumber(key) = DEFAULT[key]
    BY <1>3, CountingLines, Zenon DEF LastNumber
  <1>5. KNOCK_INTERFACE = SaidInterface
    BY <1>3, CountingLines, Zenon DEF CInit
  <1>6. Holds(LastList)
    <2>1. \A i \in 1..3 : i \in Places /\ i <= 3
      BY DefaultSequence
    <2> QED BY <1>1, <1>4, <2>1, DefaultSequence DEF Holds
  <1>7. ~Validated
    BY <1>1 DEF Validated
  <1> QED BY <1>1, <1>4, <1>5, <1>6, <1>7 DEF Followed

LEMMA ReadLineFollowed ==
  ASSUME CTypeOK, Followed, NEW line \in Lines, ReadLine(line)
  PROVE  Followed'
  <1>1. ~Validated /\ ~Validated'
    BY DEF ReadLine, Validated
  <1>2. /\ Holds(LastList) /\ \A key \in IntKeys : setting[key] = LastNumber(key)
        /\ KNOCK_INTERFACE = SaidInterface
    BY <1>1 DEF Followed
  <1>n. ASSUME line.key \notin IntKeys, setting' = setting
        PROVE  \A key \in IntKeys : setting'[key] = LastNumber(key)'
    BY <1>n, <1>2, NumbersAppended
  <1>s. ASSUME ~(line.key = "sequence" /\ GoodList(line.val)), UNCHANGED sequence
        PROVE  Holds(LastList)'
    <2>1. LastList' = LastList
      BY <1>s, SequencesAppended
    <2> QED BY <1>s, <1>2, <2>1 DEF Holds, sequence
  <1>i. ASSUME line.key # "interface", KNOCK_INTERFACE' = KNOCK_INTERFACE
        PROVE  KNOCK_INTERFACE' = SaidInterface'
    BY <1>i, <1>2, InterfacesAppended
  <1>k. \A key \in IntKeys : key \notin {"sequence", "interface", "other", "comment"}
    BY DEF IntKeys
  <1>3. CASE /\ line.key \in IntKeys /\ parse_int(line.key, line.val)
             /\ UNCHANGED <<sequence, KNOCK_INTERFACE>>
    <2>1. \A key \in IntKeys : setting'[key] = LastNumber(key)'
      <3>1. CASE line.val = <<>>
        BY <1>2, <1>3, <3>1, NumbersAppended DEF parse_int
      <3>2. CASE line.val # <<>>
        <4>1. setting' = [setting EXCEPT ![line.key] = line.val[1]]
          BY <1>3, <3>2 DEF parse_int
        <4> QED BY <1>2, <1>3, <3>2, <4>1, NumbersAppended DEF CTypeOK
      <3> QED BY <3>1, <3>2
    <2>2. line.key # "sequence" /\ line.key # "interface"
      BY <1>3, <1>k
    <2> QED BY <1>1, <1>3, <1>s, <1>i, <2>1, <2>2 DEF Followed
  <1>4. CASE /\ line.key = "sequence" /\ parse_sequence(line.val)
             /\ UNCHANGED <<setting, KNOCK_INTERFACE>>
    <2>1. Holds(LastList)'
      <3>1. CASE GoodList(line.val)
        <4>1. LastList' = line.val
          BY <1>4, <3>1, SequencesAppended
        <4>2. /\ KNOCK_SEQ_LEN' = Len(line.val)
              /\ \A i \in 1..Len(line.val) : KNOCK_SEQUENCE'[i] = line.val[i]
          BY <1>4, <3>1, LineKeys, OverwriteTypes DEF parse_sequence
        <4> QED BY <4>1, <4>2 DEF Holds
      <3>2. CASE ~GoodList(line.val)
        BY <1>4, <1>s, <3>2 DEF parse_sequence
      <3> QED BY <3>1, <3>2
    <2>2. line.key \notin IntKeys /\ line.key # "interface"
      BY <1>4, <1>k
    <2> QED BY <1>1, <1>4, <1>n, <1>i, <2>1, <2>2 DEF Followed
  <1>5. CASE /\ line.key = "interface" /\ parse_interface(line.val)
             /\ UNCHANGED <<sequence, setting>>
    <2>1. KNOCK_INTERFACE' = SaidInterface'
      BY <1>2, <1>5, InterfacesAppended DEF parse_interface
    <2>2. line.key \notin IntKeys /\ line.key # "sequence"
      BY <1>5, <1>k
    <2> QED BY <1>1, <1>5, <1>n, <1>s, <2>1, <2>2 DEF Followed
  <1>6. CASE line.key \in {"other", "comment"} /\ UNCHANGED settings
    <2>1. line.key \notin IntKeys /\ line.key # "sequence" /\ line.key # "interface"
      BY <1>6, <1>k
    <2> QED BY <1>1, <1>6, <1>n, <1>s, <1>i, <2>1 DEF Followed, settings
  <1> QED BY <1>3, <1>4, <1>5, <1>6, ReadLineCases

(* Validation accepts the list in the array just when it is long enough and  *)
(* without a repeat.                                                         *)
LEMMA HeldListOK ==
  ASSUME CTypeOK, Followed, ~Validated
  PROVE  SeqOK <=> Len(LastList) >= 2 /\ Distinct(LastList)
  <1>a. Holds(LastList) /\ LastList \in Seq(Int) /\ GoodList(LastList)
    BY LastListIsGood DEF Followed
  <1>1. Len(LastList) \in 1..MAX_KNOCK_SEQ_LEN /\ MAX_KNOCK_SEQ_LEN \in Nat
    BY <1>a, RoomAssumption DEF GoodList, Places
  <1>2. KNOCK_SEQ_LEN \in 2..MAX_KNOCK_SEQ_LEN <=> Len(LastList) >= 2
    BY <1>a, <1>1 DEF Holds
  <1>3. \A i \in 1..KNOCK_SEQ_LEN : KNOCK_SEQUENCE[i] # 0
    BY <1>a DEF Holds, GoodList, Ports
  <1>4. (\A i, j \in 1..KNOCK_SEQ_LEN : KNOCK_SEQUENCE[i] = KNOCK_SEQUENCE[j] => i = j)
           <=> Distinct(LastList)
    BY <1>a DEF Holds, Distinct
  <1> QED BY <1>2, <1>3, <1>4 DEF SeqOK

(* Validation turns the last values into what the file says. *)
LEMMA ValidateFollowed ==
  ASSUME CTypeOK, Followed, ~Validated, NEW w \in SUBSET {"file"},
         config_validate(w), read' = read
  PROVE  /\ Holds(SaidSequence)'
         /\ \A key \in IntKeys : setting'[key] = SaidNumber(key)'
  <1>1. /\ Holds(LastList) /\ \A key \in IntKeys : setting[key] = LastNumber(key)
    BY DEF Followed
  <1>2. SaidSequence' = SaidSequence /\ \A key : SaidNumber(key)' = SaidNumber(key)
    BY Zenon DEF SaidSequence, LastList, SaidNumber, LastNumber, NumberAfter
  <1>3. \A key \in IntKeys : setting'[key] = SaidNumber(key)'
    <2> SUFFICES ASSUME NEW key \in IntKeys PROVE setting'[key] = SaidNumber(key)
      BY <1>2
    <2>1. setting'[key] = IF InRange(key, setting[key]) THEN setting[key]
                          ELSE DEFAULT[key]
      BY DEF config_validate
    <2> QED BY <1>1, <2>1 DEF SaidNumber
  <1>4. LastList \in Seq(Int) /\ GoodList(LastList)
    BY LastListIsGood
  <1>5. SeqOK <=> Len(LastList) >= 2 /\ Distinct(LastList)
    BY HeldListOK
  <1>6. Holds(SaidSequence)'
    <2>1. CASE SeqOK
      <3>1. SaidSequence' = LastList
        BY <1>2, <1>5, <2>1 DEF SaidSequence
      <3>2. UNCHANGED sequence
        BY <2>1 DEF config_validate
      <3> QED BY <1>1, <3>1, <3>2 DEF Holds, sequence
    <2>2. CASE ~SeqOK
      <3>1. SaidSequence' = DEFAULT_SEQUENCE
        BY <1>2, <1>5, <2>2 DEF SaidSequence
      <3>2. Overwrite(DEFAULT_SEQUENCE)
        BY <2>2 DEF config_validate
      <3>3. /\ KNOCK_SEQ_LEN' = Len(DEFAULT_SEQUENCE)
            /\ \A i \in 1..Len(DEFAULT_SEQUENCE) :
                  KNOCK_SEQUENCE'[i] = DEFAULT_SEQUENCE[i]
        BY <3>2, DefaultIsGood, OverwriteTypes
      <3> QED BY <3>1, <3>3 DEF Holds
    <2> QED BY <2>1, <2>2
  <1> QED BY <1>3, <1>6

(* What the file says only changes when a line is read. *)
LEMMA SaidUnchanged ==
  ASSUME read' = read
  PROVE  /\ LastList' = LastList /\ SaidSequence' = SaidSequence
         /\ SaidInterface' = SaidInterface
         /\ \A key : LastNumber(key)' = LastNumber(key) /\ SaidNumber(key)' = SaidNumber(key)
         /\ \A key, n : NumberAfter(key, n)' = NumberAfter(key, n)
  BY Zenon DEF SaidSequence, LastList, SaidInterface, SaidNumber, LastNumber, NumberAfter

LEMMA FollowedKept ==
  ASSUME CTypeOK, Followed, [CNext]_cvars
  PROVE  Followed'
  <1>1. ASSUME ~Validated, NEW w \in SUBSET {"file"}, config_validate(w),
               read' = read, KNOCK_INTERFACE' = KNOCK_INTERFACE,
               phase' \in {"loaded", "missing"}
        PROVE  Followed'
    <2>1. /\ Holds(SaidSequence)'
          /\ \A key \in IntKeys : setting'[key] = SaidNumber(key)'
      BY <1>1, ValidateFollowed
    <2>2. KNOCK_INTERFACE' = SaidInterface'
      BY <1>1, SaidUnchanged DEF Followed
    <2>3. Validated' /\ phase' # "running"
      BY <1>1 DEF Validated
    <2> QED BY <2>1, <2>2, <2>3 DEF Followed
  <1>2. CASE OpenFails
    <2>1. /\ ~Validated /\ config_validate({"file"}) /\ read' = read
          /\ KNOCK_INTERFACE' = KNOCK_INTERFACE /\ phase' = "missing"
      BY <1>2 DEF OpenFails, Validated
    <2> QED BY <1>1, <2>1
  <1>3. CASE EndOfFile
    <2>1. PICK w \in SUBSET {"file"} : config_validate(w)
      BY <1>3 DEF EndOfFile
    <2>2. /\ ~Validated /\ read' = read
          /\ KNOCK_INTERFACE' = KNOCK_INTERFACE /\ phase' = "loaded"
      BY <1>3 DEF EndOfFile, Validated
    <2> QED BY <1>1, <2>1, <2>2
  <1>4. CASE Opens
    <2>1. ~Validated /\ ~Validated' /\ read' = read /\ UNCHANGED settings
      BY <1>4 DEF Opens, Validated, ghosts
    <2> QED BY <2>1, SaidUnchanged DEF Followed, settings, sequence, Holds
  <1>5. ASSUME NEW line \in Lines, ReadLine(line) PROVE Followed'
    BY <1>5, ReadLineFollowed
  <1>6. CASE Decide
    <2>1. /\ Validated /\ phase # "running" /\ read' = read /\ verbose' = verbose
          /\ UNCHANGED sequence /\ KNOCK_INTERFACE' = KNOCK_INTERFACE
      BY <1>6 DEF Decide, Validated, ghosts, args
    <2>2. /\ Holds(SaidSequence) /\ KNOCK_INTERFACE = SaidInterface
          /\ \A key \in IntKeys : setting[key] = SaidNumber(key)
      BY <2>1 DEF Followed
    <2>3. /\ Holds(SaidSequence)' /\ KNOCK_INTERFACE' = SaidInterface'
          /\ \A key \in IntKeys : SaidNumber(key)' = SaidNumber(key)
      BY <2>1, <2>2, SaidUnchanged DEF Holds, sequence
    <2>4. CASE phase' = "refused" /\ setting' = setting
      BY <2>2, <2>3, <2>4 DEF Followed, Validated
    <2>5. CASE /\ phase' = "running"
               /\ setting' = IF verbose THEN [setting EXCEPT !["log_level"] = LEVEL_DEBUG]
                             ELSE setting
      <3>1. \A key \in IntKeys :
               setting'[key] = IF verbose /\ key = "log_level" THEN LEVEL_DEBUG
                               ELSE SaidNumber(key)
        BY <2>2, <2>5 DEF CTypeOK
      <3> QED BY <2>1, <2>3, <2>5, <3>1 DEF Followed, Validated
    <2> QED BY <1>6, <2>4, <2>5 DEF Decide
  <1>7. CASE UNCHANGED cvars
    <2>1. /\ read' = read /\ phase' = phase /\ verbose' = verbose /\ UNCHANGED settings
      BY <1>7 DEF cvars, ghosts, args
    <2>2. Validated' = Validated
      BY <2>1 DEF Validated
    <2>3. Holds(SaidSequence)' = Holds(SaidSequence) /\ Holds(LastList)' = Holds(LastList)
      BY <2>1, SaidUnchanged DEF Holds, settings, sequence
    <2> QED BY <2>1, <2>2, <2>3, SaidUnchanged DEF Followed, settings
  <1> QED BY <1>2, <1>3, <1>4, <1>5, <1>6, <1>7, ConfigSteps

LEMMA FollowedInvariant == CSpec => []Followed
  <1>1. CTypeOK /\ Followed /\ [CNext]_cvars => Followed'
    BY FollowedKept
  <1> QED BY ConfigTypeCorrect, FollowedInit, <1>1, PTL DEF CSpec

(* The daemon runs on what the file says, key by key, or on the default: the *)
(* knock sequence is one whole list, whatever lists, good or bad, came       *)
(* before and after it.                                                      *)
THEOREM RunsOnWhatTheFileSays == CSpec => []SettingsAreTheFiles
  <1>1. CTypeOK /\ Followed => SettingsAreTheFiles
    <2> SUFFICES ASSUME CTypeOK, Followed, phase = "running"
                 PROVE  SettingsAreTheFiles
      BY DEF SettingsAreTheFiles
    <2>1. /\ Holds(SaidSequence) /\ KNOCK_INTERFACE = SaidInterface
          /\ \A key \in IntKeys :
                setting[key] = IF key = "log_level" /\ verbose THEN LEVEL_DEBUG
                               ELSE SaidNumber(key)
      BY DEF Followed, Validated
    <2>2. SaidSequence \in Seq(Int)
      BY LastListIsGood, DefaultIsGood DEF SaidSequence
    <2> DEFINE array == [i \in Places |-> KNOCK_SEQUENCE[i]]
               used  == SubSeq(array, 1, KNOCK_SEQ_LEN)
    <2>3. KNOCK_SEQ_LEN \in Nat /\ KNOCK_SEQ_LEN >= 1 /\ 1..KNOCK_SEQ_LEN \subseteq Places
      BY RoomAssumption DEF CTypeOK, Places
    <2>4. \A i \in 1..KNOCK_SEQ_LEN : array[i] = KNOCK_SEQUENCE[i] /\ array[i] \in Int
      BY <2>3, EntryFacts DEF CTypeOK
    <2> HIDE DEF array
    <2>5. /\ used \in Seq(Int) /\ Len(used) = KNOCK_SEQ_LEN
          /\ \A i \in 1..KNOCK_SEQ_LEN : used[i] = array[i]
      <3>1. /\ used \in Seq(Int)
            /\ Len(used) = IF 1 <= KNOCK_SEQ_LEN THEN KNOCK_SEQ_LEN - 1 + 1 ELSE 0
            /\ \A i \in 1..KNOCK_SEQ_LEN - 1 + 1 : used[i] = array[1 + i - 1]
        BY <2>3, <2>4, SubSeqProperties
      <3> QED BY <2>3, <3>1
    <2> HIDE DEF used
    <2>6. used = SaidSequence
      <3>1. Len(used) = Len(SaidSequence)
        BY <2>1, <2>5 DEF Holds
      <3>2. \A i \in 1..Len(used) : used[i] = SaidSequence[i]
        BY <2>1, <2>4, <2>5 DEF Holds
      <3> QED BY <2>2, <2>5, <3>1, <3>2, SeqEqual
    <2> QED BY <2>1, <2>6 DEF SettingsAreTheFiles, used, array
  <1> QED BY ConfigTypeCorrect, FollowedInvariant, <1>1, PTL

-----------------------------------------------------------------------------
(* The log. *)

(* While the file is read the log tells of the lines so far; from validation *)
(* on it tells of the whole file.                                            *)
Told ==
    /\ ~Validated => ~unread /\ reported = LineWarnings(Len(read))
    /\ Validated => reported = LineWarnings(Len(read)) \cup FinalWarnings

LEMMA ToldInit == CInit => Told
  <1> SUFFICES ASSUME CInit PROVE Told
    OBVIOUS
  <1>1. read = <<>> /\ unread = FALSE /\ phase = "open" /\ reported = {}
    BY Zenon DEF CInit
  <1>2. 1..Len(read) = {}
    BY <1>1
  <1>3. LineWarnings(Len(read)) = {}
    BY <1>2, Zenon DEF LineWarnings
  <1> QED BY <1>1, <1>3 DEF Told, Validated

(* Before validation the threshold of log_msg() is the level that counts.    *)
LEMMA ThresholdIs ==
  ASSUME CTypeOK, Followed, ~Validated
  PROVE  LEVEL_WARN > setting["log_level"] <=> ~Audible(Len(read))
  <1>1. setting["log_level"] = NumberAfter("log_level", Len(read))
    BY DEF Followed, IntKeys, LastNumber
  <1>2. setting["log_level"] \in Int
    BY DEF CTypeOK, IntKeys
  <1> QED BY <1>1, <1>2 DEF Audible, LEVEL_WARN

(* One more line adds its own warning, if any, to those before it. *)
LEMMA LineWarningsAppended ==
  ASSUME CTypeOK, NEW line \in Lines, ReadLine(line)
  PROVE  LineWarnings(Len(read))' =
            LineWarnings(Len(read)) \cup
            IF Unparseable(Len(read))' /\ Audible(Len(read))
            THEN {<<Len(read) + 1, line.key>>} ELSE {}
  <1> DEFINE n == Len(read)
             Told1 == {j \in 1..n : Unparseable(j) /\ Audible(j - 1)}
             Told2 == {j \in 1..(n + 1) : Unparseable(j)' /\ Audible(j - 1)'}
  <1>1. /\ n \in Nat /\ Len(read') = n + 1 /\ read'[n + 1] = line
        /\ \A i \in 1..n : read'[i] = read[i]
        /\ 1..n + 1 = 1..n \cup {n + 1}
    BY ReadAppended
  <1>2. \A j \in 1..n : Unparseable(j)' <=> Unparseable(j)
    BY <1>1, Zenon DEF Unparseable
  <1>3. \A j \in 0..n : Audible(j)' <=> Audible(j)
    BY EarlierNumbersKept, Zenon DEF Audible
  <1>4. /\ \A j \in 1..n : j - 1 \in 0..n
        /\ n + 1 - 1 = n /\ n \in 0..n
    BY <1>1
  <1>5. Told2 = Told1 \cup IF Unparseable(Len(read))' /\ Audible(n) THEN {n + 1} ELSE {}
    <2>1. \A j \in 1..n : j \in Told2 <=> j \in Told1
      BY <1>1, <1>2, <1>3, <1>4
    <2>2. n + 1 \in Told2 <=> Unparseable(Len(read))' /\ Audible(n)
      <3>1. \A j : j = n + 1 => (Unparseable(j)' <=> Unparseable(Len(read))')
        BY <1>1 DEF Unparseable
      <3>2. \A j : j = n => (Audible(j)' <=> Audible(n))
        BY <1>3, <1>4
      <3>3. \A j : j = n + 1 => j - 1 = n /\ j \in 1..(n + 1)
        BY <1>1
      <3>4. PICK m : m = n + 1
        OBVIOUS
      <3>5. m \in Told2 <=> Unparseable(m)' /\ Audible(m - 1)'
        BY <3>3, <3>4
      <3> QED BY <3>1, <3>2, <3>3, <3>4, <3>5
    <2>3. Told1 \subseteq 1..n /\ Told2 \subseteq 1..n \cup {n + 1} /\ n + 1 \notin 1..n
      BY <1>1
    <2> HIDE DEF Told1, Told2
    <2> QED BY <2>1, <2>2, <2>3
  <1>6. /\ LineWarnings(n) = {<<i, read[i].key>> : i \in Told1}
        /\ LineWarnings(Len(read))' = {<<i, read'[i].key>> : i \in Told2}
    BY <1>1, Zenon DEF LineWarnings
  <1>7. Told1 \subseteq 1..n
    OBVIOUS
  <1> HIDE DEF Told1, Told2
  <1>8. {<<i, read'[i].key>> : i \in Told1} = {<<i, read[i].key>> : i \in Told1}
    BY <1>1, <1>7
  <1> QED BY <1>1, <1>5, <1>6, <1>8

(* The parsers warn of a line exactly when it cannot be parsed. *)
LEMMA ReadLineWarns ==
  ASSUME CTypeOK, NEW line \in Lines, ReadLine(line)
  PROVE  IF Unparseable(Len(read))' THEN WarnOfLine(line.key)
         ELSE reported' = reported
  <1>1. read'[Len(read')] = line
    BY ReadAppended
  <1>2. Unparseable(Len(read))' <=>
           \/ line.key \in IntKeys /\ line.val = <<>>
           \/ line.key = "sequence" /\ ~GoodList(line.val)
           \/ line.key = "interface" /\ ~(NameLen(line.val) < IFNAME_MAX)
           \/ line.key = "other"
    <2>1. Unparseable(Len(read))' <=>
             LET new == read'[Len(read')] IN
             \/ new.key \in IntKeys /\ new.val = <<>>
             \/ new.key = "sequence" /\ ~GoodList(new.val)
             \/ new.key = "interface" /\ ~(NameLen(new.val) < IFNAME_MAX)
             \/ new.key = "other"
      BY Zenon DEF Unparseable
    <2> QED BY <1>1, <2>1, Zenon
  <1>3. \A key \in IntKeys : key \notin {"sequence", "interface", "other", "comment"}
    BY DEF IntKeys
  <1>4. CASE line.key \in IntKeys /\ parse_int(line.key, line.val)
    BY <1>2, <1>3, <1>4 DEF parse_int
  <1>5. CASE line.key = "sequence" /\ parse_sequence(line.val)
    BY <1>2, <1>3, <1>5 DEF parse_sequence
  <1>6. CASE line.key = "interface" /\ parse_interface(line.val)
    BY <1>2, <1>3, <1>6 DEF parse_interface
  <1>7. CASE line.key = "other" /\ WarnOfLine("other")
    BY <1>2, <1>7
  <1>8. CASE line.key = "comment" /\ reported' = reported
    BY <1>2, <1>3, <1>8
  <1> QED BY <1>4, <1>5, <1>6, <1>7, <1>8, ReadLineCases

LEMMA ReadLineTold ==
  ASSUME CTypeOK, Followed, Told, NEW line \in Lines, ReadLine(line)
  PROVE  Told'
  <1>1. ~Validated /\ ~Validated' /\ unread' = unread
    BY DEF ReadLine, Validated
  <1>2. ~unread /\ reported = LineWarnings(Len(read))
    BY <1>1 DEF Told
  <1>3. LEVEL_WARN > setting["log_level"] <=> ~Audible(Len(read))
    BY <1>1, ThresholdIs
  <1>4. reported' = LineWarnings(Len(read))'
    <2> DEFINE own == <<Len(read) + 1, line.key>>
    <2>1. {Len(read) + 1} \X {line.key} = {own}
      OBVIOUS
    <2>2. CASE Unparseable(Len(read))'
      <3>1. reported' = IF Audible(Len(read)) THEN reported \cup {own} ELSE reported
        BY <1>3, <2>1, <2>2, ReadLineWarns DEF WarnOfLine, log_warn
      <3> QED BY <1>2, <2>2, <3>1, LineWarningsAppended
    <2>3. CASE ~Unparseable(Len(read))'
      BY <1>2, <2>3, ReadLineWarns, LineWarningsAppended
    <2> QED BY <2>2, <2>3
  <1> QED BY <1>1, <1>2, <1>4 DEF Told

(* What there is to warn of only changes when a line is read. *)
LEMMA WarningsUnchanged ==
  ASSUME read' = read
  PROVE  /\ LineWarnings(Len(read))' = LineWarnings(Len(read))
         /\ OutOfRange' = OutOfRange /\ Audible(Len(read))' = Audible(Len(read))
  <1>1. LineWarnings(Len(read))' = LineWarnings(Len(read))
    BY Zenon DEF LineWarnings, Unparseable, Audible, NumberAfter
  <1>2. OutOfRange' = OutOfRange /\ Audible(Len(read))' = Audible(Len(read))
    BY Zenon DEF OutOfRange, Audible, NumberAfter, LastNumber, SaidSequence, LastList
  <1> QED BY <1>1, <1>2

(* Validation reports what it resets. *)
LEMMA ValidateTold ==
  ASSUME CTypeOK, Followed, Told, ~Validated, Validated', read' = read,
         NEW w, config_validate(w), w = IF unread' THEN {"file"} ELSE {}
  PROVE  Told'
  <1> DEFINE bad == {k \in IntKeys : ~InRange(k, setting[k])}
             seq == IF SeqOK THEN {} ELSE {"sequence"}
  <1>1. bad = {k \in IntKeys : ~InRange(k, LastNumber(k))}
    BY DEF Followed
  <1>2. seq = IF SaidSequence = LastList THEN {} ELSE {"sequence"}
    <2>1. SeqOK <=> Len(LastList) >= 2 /\ Distinct(LastList)
      BY HeldListOK
    <2>2. Len(DEFAULT_SEQUENCE) >= 2 /\ Distinct(DEFAULT_SEQUENCE)
      <3>1. \A i \in 1..3 : i = 1 \/ i = 2 \/ i = 3
        OBVIOUS
      <3> QED BY <3>1, DefaultSequence DEF Distinct
    <2> QED BY <2>1, <2>2 DEF SaidSequence
  <1>3. bad \cup seq = OutOfRange
    BY <1>1, <1>2, Zenon DEF OutOfRange
  <1> HIDE DEF bad, seq
  <1>4. LineWarnings(Len(read))' = LineWarnings(Len(read))
    BY WarningsUnchanged
  <1>5. OutOfRange' = OutOfRange /\ Audible(Len(read))' = Audible(Len(read))
    BY WarningsUnchanged
  <1>6. FinalWarnings' = IF Audible(Len(read)) THEN {0} \X (OutOfRange \cup w) ELSE {}
    BY <1>5, Zenon DEF FinalWarnings
  <1>7. reported' = IF Audible(Len(read))
                    THEN LineWarnings(Len(read)) \cup {0} \X (w \cup bad \cup seq)
                    ELSE LineWarnings(Len(read))
    <2>1. reported = LineWarnings(Len(read))
      BY DEF Told
    <2>2. log_warn(0, w \cup bad \cup seq)
      BY DEF config_validate, bad, seq
    <2> QED BY <2>1, <2>2, ThresholdIs DEF log_warn
  <1>8. w \cup bad \cup seq = OutOfRange \cup w
    BY <1>3
  <1>9. reported' = LineWarnings(Len(read))' \cup FinalWarnings'
    BY <1>4, <1>6, <1>7, <1>8
  <1> QED BY <1>9 DEF Told

LEMMA ToldKept ==
  ASSUME CTypeOK, Followed, Told, [CNext]_cvars
  PROVE  Told'
  <1>1. CASE OpenFails
    <2>1. /\ ~Validated /\ Validated' /\ config_validate({"file"}) /\ read' = read
      BY <1>1 DEF OpenFails, Validated
    <2>2. {"file"} = IF unread' THEN {"file"} ELSE {}
      BY <1>1, Zenon DEF OpenFails
    <2> QED BY <2>1, <2>2, ValidateTold
  <1>2. CASE EndOfFile
    <2>1. config_validate(IF unread' THEN {"file"} ELSE {})
      BY <1>2, Zenon DEF EndOfFile
    <2>2. ~Validated /\ Validated' /\ read' = read
      BY <1>2 DEF EndOfFile, Validated
    <2> QED BY <2>1, <2>2, ValidateTold
  <1>3. ASSUME NEW line \in Lines, ReadLine(line) PROVE Told'
    BY <1>3, ReadLineTold
  <1>4. ASSUME read' = read, unread' = unread, reported' = reported,
               Validated' = Validated
        PROVE  Told'
    <2>1. LineWarnings(Len(read))' = LineWarnings(Len(read))
      BY <1>4, WarningsUnchanged
    <2>2. FinalWarnings' = FinalWarnings
      BY <1>4, WarningsUnchanged, Zenon DEF FinalWarnings
    <2> QED BY <1>4, <2>1, <2>2, Zenon DEF Told
  <1>5. CASE Opens
    <2>1. Validated' = Validated
      BY <1>5 DEF Opens, Validated
    <2> QED BY <1>4, <1>5, <2>1 DEF Opens, ghosts
  <1>6. CASE Decide
    <2>1. Validated' = Validated
      BY <1>6 DEF Decide, Validated
    <2> QED BY <1>4, <1>6, <2>1 DEF Decide, ghosts
  <1>7. CASE UNCHANGED cvars
    <2>1. Validated' = Validated
      BY <1>7 DEF cvars, Validated
    <2> QED BY <1>4, <1>7, <2>1 DEF cvars, ghosts
  <1> QED BY <1>1, <1>2, <1>3, <1>5, <1>6, <1>7, ConfigSteps

(* config.c warns of exactly the lines that it cannot parse, the values it   *)
(* resets and a file it cannot read, each as long as the log level in force  *)
(* at that moment lets it, for a file of any length.                         *)
THEOREM FallbacksAreLogged == CSpec => []FallbackIsReported
  <1>1. CTypeOK /\ Followed /\ Told /\ [CNext]_cvars => Told'
    BY ToldKept
  <1>2. Told => FallbackIsReported
    BY DEF Told, Validated, FallbackIsReported
  <1> QED BY ConfigTypeCorrect, FollowedInvariant, ToldInit, <1>1, <1>2, PTL DEF CSpec

=============================================================================
