------------------------------- MODULE Config --------------------------------
(***************************************************************************)
(* Start-up as far as the settings go: config_load() reads the file line    *)
(* by line, config_validate() puts right what is out of range, and main()   *)
(* decides whether to run with the result.                                  *)
(*                                                                          *)
(* A line is what one fgets() delivers (the rest of a line that is too long *)
(* for the buffer is a line of its own, as it is for the code), with its    *)
(* blanks and comments taken off.  The log is modelled by the warnings that *)
(* log_msg() lets through, each with the line and the key it is about: the  *)
(* threshold is one of the settings that are being read.  Advice that       *)
(* changes no setting (file mode, a timeout over an hour, a knock port that *)
(* is the protected one) is left out.                                       *)
(***************************************************************************)
EXTENDS Integers, Sequences

CONSTANTS
    MAX_KNOCK_SEQ_LEN,  \* room in KNOCK_SEQUENCE
    PortLists,          \* the lists a sequence line may hold, good and bad
    Numbers,            \* the numbers a line may hold
    Names,              \* interface names, the empty one among them
    IFNAME_MAX,         \* an interface name of this length or more is refused
    NameLen(_),         \* strlen() of a name
    MaxLines            \* bound: lines in the file

DEFAULT_SEQUENCE == <<7000, 8000, 9000>>

DEFAULT == [port |-> 22, timeout |-> 30, window |-> 15, max_clients |-> 64,
            log_level |-> 2]

MAX_SANE_CLIENTS == 65536

(* The largest port number. *)
MAX_PORT == 65535

(* The default sequence fits into the array. *)
ASSUME RoomAssumption ==
    MAX_KNOCK_SEQ_LEN \in Nat /\ MAX_KNOCK_SEQ_LEN >= Len(DEFAULT_SEQUENCE)

ASSUME FileAssumption ==
    /\ PortLists \subseteq Seq(Int) /\ Numbers \subseteq Int /\ "" \in Names
    /\ MaxLines \in Nat

IntKeys == {"port", "timeout", "window", "max_clients", "log_level"}

(* A number that is missing, followed by garbage or wider than an int is     *)
(* <<>>; any other is <<n>>.  A list entry that is no number is 0: it is     *)
(* rejected just as a port out of range.  "comment" stands for every line    *)
(* that is skipped, "other" for an unknown key or a line without '='.        *)
Lines ==
    [key : IntKeys, val : {<<>>} \cup {<<n>> : n \in Numbers}]
    \cup [key : {"sequence"}, val : PortLists]
    \cup [key : {"interface"}, val : Names]
    \cup [key : {"comment", "other"}, val : {<<>>}]

VARIABLES
    KNOCK_SEQUENCE,   \* the array
    KNOCK_SEQ_LEN,    \* how much of it is in use
    setting,          \* the numbers: PROTECTED_PORT, ACCESS_TIMEOUT, ...
    KNOCK_INTERFACE,
    phase,            \* where start-up is
    config_explicit,  \* was the file named with -c?
    verbose,          \* was -v given?
    reported,         \* the warnings in the log: <<line, key>>, line 0 for
                      \* those of validation and about the file itself
    read,             \* the lines read so far
    unread            \* was all or the rest of the file unreadable?

sequence == <<KNOCK_SEQUENCE, KNOCK_SEQ_LEN>>
settings == <<sequence, setting, KNOCK_INTERFACE>>
args == <<config_explicit, verbose>>
ghosts == <<read, unread>>
cvars == <<settings, phase, args, reported, ghosts>>

Places == 1..MAX_KNOCK_SEQ_LEN
Ports == 1..MAX_PORT

(* What a warning can be about. *)
Topics == IntKeys \cup {"sequence", "interface", "other", "file"}

(* What a place of the array can hold: a port, or 0 as long as it is unused. *)
Entries == 0..MAX_PORT

CTypeOK ==
    /\ KNOCK_SEQUENCE \in [Places -> Entries]
    /\ KNOCK_SEQ_LEN \in Places
    /\ setting \in [IntKeys -> Int]
    /\ KNOCK_INTERFACE \in Names
    /\ phase \in {"open", "read", "loaded", "missing", "refused", "running"}
    /\ config_explicit \in BOOLEAN /\ verbose \in BOOLEAN
    /\ reported \subseteq Nat \X Topics
    /\ read \in Seq(Lines) /\ unread \in BOOLEAN

-----------------------------------------------------------------------------
LEVEL_WARN == 1
LEVEL_DEBUG == 3

(* log_warn() about these keys, at this line: log_msg() drops what is above  *)
(* LOG_LEVEL.                                                                *)
log_warn(line, keys) ==
    reported' = IF LEVEL_WARN > setting["log_level"] THEN reported
                ELSE reported \cup {line} \X keys

(* A warning about the line that is being read. *)
WarnOfLine(key) == log_warn(Len(read) + 1, {key})

(* memcpy() into the front of the array: what was behind it stays. *)
Overwrite(list) ==
    /\ KNOCK_SEQUENCE' = [i \in Places |-> IF i <= Len(list) THEN list[i]
                                           ELSE KNOCK_SEQUENCE[i]]
    /\ KNOCK_SEQ_LEN' = Len(list)

parse_int(key, val) ==
    IF val = <<>>
    THEN WarnOfLine(key) /\ UNCHANGED setting
    ELSE setting' = [setting EXCEPT ![key] = val[1]] /\ UNCHANGED reported

(* Seeded fault: the entries are not counted. *)
GoodList_AnyLength(list) ==
    list # <<>> /\ \A i \in 1..Len(list) : list[i] \in Ports

GoodList(list) ==
    /\ Len(list) \in Places
    /\ \A i \in 1..Len(list) : list[i] \in Ports

(* Seeded fault: the good entries are kept. *)
parse_sequence_Partial(list) ==
    LET good == SelectSeq(list, LAMBDA p : p \in Ports) IN
    IF GoodList(good) THEN Overwrite(good) /\ UNCHANGED reported
    ELSE WarnOfLine("sequence") /\ UNCHANGED sequence

(* One bad entry, or one too many, and the whole list is rejected. *)
parse_sequence(list) ==
    IF GoodList(list)
    THEN Overwrite(list) /\ UNCHANGED reported
    ELSE WarnOfLine("sequence") /\ UNCHANGED sequence

parse_interface(name) ==
    IF NameLen(name) < IFNAME_MAX
    THEN KNOCK_INTERFACE' = name /\ UNCHANGED reported
    ELSE WarnOfLine("interface") /\ UNCHANGED KNOCK_INTERFACE

InRange(key, n) ==
    CASE key = "port"        -> n \in Ports
      [] key = "timeout"     -> n > 0
      [] key = "window"      -> n > 0
      [] key = "max_clients" -> n \in 1..MAX_SANE_CLIENTS
      [] key = "log_level"   -> n \in 0..3

(* Seeded fault: only neighbours are compared. *)
SeqOK_Neighbours ==
    /\ KNOCK_SEQ_LEN \in 2..MAX_KNOCK_SEQ_LEN
    /\ \A i \in 1..KNOCK_SEQ_LEN : KNOCK_SEQUENCE[i] # 0
    /\ \A i \in 1..KNOCK_SEQ_LEN - 1 : KNOCK_SEQUENCE[i] # KNOCK_SEQUENCE[i+1]

(* The sequence survives: two ports at least, none 0, none twice. *)
SeqOK ==
    /\ KNOCK_SEQ_LEN \in 2..MAX_KNOCK_SEQ_LEN
    /\ \A i \in 1..KNOCK_SEQ_LEN : KNOCK_SEQUENCE[i] # 0
    /\ \A i, j \in 1..KNOCK_SEQ_LEN :
          KNOCK_SEQUENCE[i] = KNOCK_SEQUENCE[j] => i = j

(* Seeded fault: numbers are reset without a word. *)
config_validate_Quiet(warnings) ==
    /\ IF SeqOK THEN UNCHANGED sequence ELSE Overwrite(DEFAULT_SEQUENCE)
    /\ setting' = [k \in IntKeys |-> IF InRange(k, setting[k])
                                     THEN setting[k] ELSE DEFAULT[k]]
    /\ log_warn(0, warnings \cup IF SeqOK THEN {} ELSE {"sequence"})

(* Everything out of range goes back to its default, with a warning each.    *)
(* The log level comes last, so all warnings meet the level that was read.   *)
(* warnings are those config_load() gives just before.                       *)
config_validate(warnings) ==
    LET bad == {k \in IntKeys : ~InRange(k, setting[k])} IN
    /\ IF SeqOK THEN UNCHANGED sequence ELSE Overwrite(DEFAULT_SEQUENCE)
    /\ setting' = [k \in IntKeys |-> IF k \in bad THEN DEFAULT[k]
                                     ELSE setting[k]]
    /\ log_warn(0, warnings \cup bad \cup IF SeqOK THEN {} ELSE {"sequence"})

-----------------------------------------------------------------------------
CInit ==
    /\ KNOCK_SEQUENCE = [i \in Places |-> IF i <= Len(DEFAULT_SEQUENCE)
                                          THEN DEFAULT_SEQUENCE[i] ELSE 0]
    /\ KNOCK_SEQ_LEN = Len(DEFAULT_SEQUENCE)
    /\ setting = DEFAULT
    /\ KNOCK_INTERFACE = ""
    /\ phase = "open"
    /\ config_explicit \in BOOLEAN /\ verbose \in BOOLEAN
    /\ reported = {} /\ read = <<>> /\ unread = FALSE

(* fopen() fails: the defaults are validated all the same, and -1 returned. *)
OpenFails ==
    /\ phase = "open" /\ phase' = "missing"
    /\ unread' = TRUE
    /\ config_validate({"file"})
    /\ UNCHANGED <<KNOCK_INTERFACE, args, read>>

Opens ==
    /\ phase = "open" /\ phase' = "read"
    /\ UNCHANGED <<settings, args, reported, ghosts>>

(* One turn of the while loop of config_load(). *)
ReadLine(line) ==
    /\ phase = "read" /\ Len(read) < MaxLines
    /\ read' = Append(read, line)
    /\ \/ /\ line.key \in IntKeys
          /\ parse_int(line.key, line.val)
          /\ UNCHANGED <<sequence, KNOCK_INTERFACE>>
       \/ /\ line.key = "sequence"
          /\ parse_sequence(line.val)
          /\ UNCHANGED <<setting, KNOCK_INTERFACE>>
       \/ /\ line.key = "interface"
          /\ parse_interface(line.val)
          /\ UNCHANGED <<sequence, setting>>
       \/ line.key = "other" /\ WarnOfLine("other") /\ UNCHANGED settings
       \/ line.key = "comment" /\ UNCHANGED <<settings, reported>>
    /\ UNCHANGED <<phase, args, unread>>

(* The end of the file, or a read error, which is logged and otherwise taken *)
(* for the end: 0 is returned either way.                                    *)
EndOfFile ==
    /\ phase = "read" /\ phase' = "loaded"
    /\ unread' \in BOOLEAN
    /\ config_validate(IF unread' THEN {"file"} ELSE {})
    /\ UNCHANGED <<KNOCK_INTERFACE, args, read>>

(* main(): a file named with -c must be there; then -v overrides log_level. *)
Decide ==
    /\ phase \in {"loaded", "missing"}
    /\ IF phase = "missing" /\ config_explicit
       THEN phase' = "refused" /\ UNCHANGED setting
       ELSE /\ phase' = "running"
            /\ setting' = IF verbose
                          THEN [setting EXCEPT !["log_level"] = LEVEL_DEBUG]
                          ELSE setting
    /\ UNCHANGED <<sequence, KNOCK_INTERFACE, args, reported, ghosts>>

(* From here on the settings are only read. *)
Done == phase \in {"refused", "running"} /\ UNCHANGED cvars

CNext ==
    \/ OpenFails \/ Opens \/ (\E line \in Lines : ReadLine(line)) \/ EndOfFile
    \/ Decide \/ Done

CSpec == CInit /\ [][CNext]_cvars

-----------------------------------------------------------------------------
(* Whatever the file holds, the daemon runs with settings the other parts    *)
(* can work with ("Either way the configuration is left in a usable,         *)
(* validated state", config.h:55): what Knocker assumes of KNOCK_SEQUENCE,   *)
(* KNOCK_WINDOW and MAX_CLIENTS and Firewall of ACCESS_TIMEOUT and           *)
(* MAX_CLIENTS.                                                              *)
UsableConfiguration ==
    phase = "running" =>
        /\ KNOCK_SEQ_LEN \in 2..MAX_KNOCK_SEQ_LEN
        /\ \A i \in 1..KNOCK_SEQ_LEN : KNOCK_SEQUENCE[i] \in Ports
        /\ \A i, j \in 1..KNOCK_SEQ_LEN :
              KNOCK_SEQUENCE[i] = KNOCK_SEQUENCE[j] => i = j
        /\ setting["window"] \in Nat \ {0}
        /\ setting["max_clients"] \in 1..MAX_SANE_CLIENTS
        /\ setting["timeout"] \in Nat \ {0}
        /\ setting["port"] \in Ports
        /\ setting["log_level"] \in 0..3

LastOf(S) == CHOOSE i \in S : \A j \in S : j <= i

Distinct(list) == \A i, j \in 1..Len(list) : list[i] = list[j] => i = j

(* The number that counts after the first n lines: that of the last line of  *)
(* this key that can be parsed, in or out of range.                          *)
NumberAfter(key, n) ==
    LET said == {i \in 1..n : read[i].key = key /\ read[i].val # <<>>} IN
    IF said = {} THEN DEFAULT[key] ELSE read[LastOf(said)].val[1]

LastNumber(key) == NumberAfter(key, Len(read))

LastList ==
    LET said == {i \in 1..Len(read) : /\ read[i].key = "sequence"
                                      /\ GoodList(read[i].val)} IN
    IF said = {} THEN DEFAULT_SEQUENCE ELSE read[LastOf(said)].val

(* What the file says: if the last line of a key that can be parsed is out   *)
(* of range the default counts, not an earlier line.                         *)
SaidNumber(key) ==
    IF InRange(key, LastNumber(key)) THEN LastNumber(key) ELSE DEFAULT[key]

SaidSequence ==
    IF Len(LastList) >= 2 /\ Distinct(LastList) THEN LastList
    ELSE DEFAULT_SEQUENCE

SaidInterface ==
    LET said == {i \in 1..Len(read) : /\ read[i].key = "interface"
                                      /\ NameLen(read[i].val) < IFNAME_MAX} IN
    IF said = {} THEN "" ELSE read[LastOf(said)].val

(* The daemon listens for one whole list of the file or for the default,     *)
(* never for a mixture of two lists, of a list and the default or of the     *)
(* good entries of a bad one ("listening on a half-parsed version of it      *)
(* would be worse than falling back", config.c:98); every other setting is   *)
(* what the file says or its default, whatever the order of the lines.       *)
SettingsAreTheFiles ==
    phase = "running" =>
        /\ SubSeq([i \in Places |-> KNOCK_SEQUENCE[i]], 1, KNOCK_SEQ_LEN)
              = SaidSequence
        /\ \A key \in IntKeys :
              setting[key] = IF key = "log_level" /\ verbose THEN LEVEL_DEBUG
                             ELSE SaidNumber(key)
        /\ KNOCK_INTERFACE = SaidInterface

(* Line i has an unknown key, no '=', or a value that cannot be parsed. *)
Unparseable(i) ==
    \/ read[i].key \in IntKeys /\ read[i].val = <<>>
    \/ read[i].key = "sequence" /\ ~GoodList(read[i].val)
    \/ read[i].key = "interface" /\ ~(NameLen(read[i].val) < IFNAME_MAX)
    \/ read[i].key = "other"

(* The keys whose last value that can be parsed is not followed. *)
OutOfRange ==
    {k \in IntKeys : ~InRange(k, LastNumber(k))}
    \cup IF SaidSequence = LastList THEN {} ELSE {"sequence"}

(* After the first n lines warnings get into the log: LOG_LEVEL is what      *)
(* those lines made it, in or out of range.                                  *)
Audible(n) == NumberAfter("log_level", n) >= LEVEL_WARN

(* The warnings about the first n lines. *)
LineWarnings(n) ==
    {<<i, read[i].key>> :
        i \in {j \in 1..n : Unparseable(j) /\ Audible(j - 1)}}

(* The warnings after the last line: about the file, and of validation. *)
FinalWarnings ==
    IF Audible(Len(read))
    THEN {0} \X (OutOfRange \cup IF unread THEN {"file"} ELSE {})
    ELSE {}

(* The log of a daemon that runs tells exactly this: each line that cannot   *)
(* be parsed, each key whose last parsed value went back to its default      *)
(* because it is out of range, and a file that cannot be read ("falls back   *)
(* to its built-in default and says so in the log", README.md:147).  It does *)
(* not tell of a line that a later one of its key replaces, and not of       *)
(* anything while the level that the lines so far have set, be it valid or   *)
(* not, is below that of warnings; a later level brings none of them back.   *)
(* Two words of that sentence of the README are therefore not kept.          *)
(* "Missing": a key that the file does not set falls back in silence.  "Out  *)
(* of range": a negative log_level hides every warning, the one about itself *)
(* included, before validation puts the level back.                          *)
FallbackIsReported ==
    phase = "running" => reported = LineWarnings(Len(read)) \cup FinalWarnings

(* main.c:270, "A config file named on the command line has to exist.        *)
(* Carrying on with the built-in defaults would mean running with the knock  *)
(* sequence that is published in the README": with -c the daemon runs only   *)
(* on a file it has read.                                                    *)
ExplicitFileWasRead == phase = "running" /\ config_explicit => ~unread

=============================================================================
