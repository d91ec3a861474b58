-------------------------------- MODULE Ini --------------------------------
(***************************************************************************)
(* CIni of config.cpp: OpenFile reads a configuration line by line into    *)
(* m_Map, GetKey and GetStr look a value up. A line is what the parser     *)
(* tells apart:                                                            *)
(*   header     [name]                                                     *)
(*   pair       key=value                                                  *)
(*   bracketed  key=value with a '[' and a ']' in it, which is taken for a *)
(*              header whose name is the line without the two brackets     *)
(*   reversed   a '[' behind a ']', whatever else: a header too, but what  *)
(*              is erased is the character before the ']', which stays in  *)
(*              the name                                                   *)
(*   fatal      the same with the ']' in front: nothing is before it, and  *)
(*              erase throws, which nobody catches                         *)
(*   other      anything else (comments, blank lines)                      *)
(* Lines fit the buffer of CONFIGLEN; keys and values are not trimmed.     *)
(***************************************************************************)
EXTENDS Naturals, Sequences, FiniteSets

CONSTANTS Sections, Keys, Values,
          Files    \* the contents considered: sequences of Line
                   \* "" stands for a name or a value that is empty

Line ==
    [kind : {"header"}, name : Sections]
    \cup [kind : {"pair", "bracketed"}, key : Keys, value : Values]
    \cup [kind : {"reversed", "fatal", "other"}]

ASSUME FilesAssumption == Files \subseteq Seq(Line)

VARIABLES
    file,            \* the lines of the file
    ipc,             \* "read" in the loop, "done" when OpenFile has returned, "thrown"
    pos,             \* lines read
    szLastMainKey,
    mLastMap,
    m_Map

iniVars == <<file, ipc, pos, szLastMainKey, mLastMap, m_Map>>
----------------------------------------------------------------------------
(* std::map<string, T>: a function on the keys that are present.           *)
EmptyMap == [k \in {} |-> ""]

Assign(map, k, v) == [j \in DOMAIN map \cup {k} |-> IF j = k THEN v ELSE map[j]]

Init ==
    /\ file \in Files
    /\ ipc = "read" /\ pos = 0
    /\ szLastMainKey = "" /\ mLastMap = EmptyMap
    /\ m_Map = EmptyMap

NextLine == file[pos + 1]

(* The section read so far is stored under its name, over whatever an      *)
(* earlier section of the same name left there.                            *)
StoreSection == m_Map' = Assign(m_Map, szLastMainKey, mLastMap)

IsHeader(line) == line.kind \in {"header", "bracketed", "reversed"}

(* Names that are not given in brackets hold a '=' or a ']': nobody asks   *)
(* for them.                                                               *)
HeaderName(line) == IF line.kind = "header" THEN line.name ELSE line.kind

(* Mutant: the keys of the section before are kept.                        *)
ReadHeader_NoClear ==
    /\ ipc = "read" /\ pos < Len(file)
    /\ IsHeader(NextLine)
    /\ StoreSection
    /\ szLastMainKey' = HeaderName(NextLine)
    /\ pos' = pos + 1
    /\ UNCHANGED <<file, ipc, mLastMap>>

ReadHeader ==
    /\ ipc = "read" /\ pos < Len(file)
    /\ IsHeader(NextLine)
    /\ StoreSection
    /\ mLastMap' = EmptyMap
    /\ szLastMainKey' = HeaderName(NextLine)
    /\ pos' = pos + 1
    /\ UNCHANGED <<file, ipc>>

ReadPair ==
    /\ ipc = "read" /\ pos < Len(file)
    /\ NextLine.kind = "pair"
    /\ mLastMap' = Assign(mLastMap, NextLine.key, NextLine.value)
    /\ pos' = pos + 1
    /\ UNCHANGED <<file, ipc, szLastMainKey, m_Map>>

ReadOther ==
    /\ ipc = "read" /\ pos < Len(file)
    /\ NextLine.kind = "other"
    /\ pos' = pos + 1
    /\ UNCHANGED <<file, ipc, szLastMainKey, mLastMap, m_Map>>

(* erase(npos, 1): std::out_of_range ends the program.                     *)
Throw ==
    /\ ipc = "read" /\ pos < Len(file)
    /\ NextLine.kind = "fatal"
    /\ ipc' = "thrown"
    /\ UNCHANGED <<file, pos, szLastMainKey, mLastMap, m_Map>>

EndOfFile ==
    /\ ipc = "read" /\ pos = Len(file)
    /\ StoreSection
    /\ ipc' = "done"
    /\ UNCHANGED <<file, pos, szLastMainKey, mLastMap>>

(* fopen failed: OpenFile returns before it touches m_Map, and no caller   *)
(* looks at what it returns.                                               *)
OpenFails ==
    /\ ipc = "read" /\ pos = 0
    /\ ipc' = "unopened"
    /\ UNCHANGED <<file, pos, szLastMainKey, mLastMap, m_Map>>

(* What GetKey leaves in pValue; it always returns INI_SUCCESS, so GetStr  *)
(* returns the same.                                                       *)
GetStr(section, key) ==
    IF section \in DOMAIN m_Map /\ key \in DOMAIN m_Map[section]
    THEN m_Map[section][key]
    ELSE ""

(* m_Map[mAttr] leaves an empty section behind when there was none.        *)
GetKey(section) ==
    /\ ipc \notin {"read", "thrown"}
    /\ section \notin DOMAIN m_Map
    /\ m_Map' = Assign(m_Map, section, EmptyMap)
    /\ UNCHANGED <<file, ipc, pos, szLastMainKey, mLastMap>>

Next ==
    \/ ReadHeader \/ ReadPair \/ ReadOther \/ Throw \/ EndOfFile \/ OpenFails
    \/ \E section \in Sections : GetKey(section)

Spec == Init /\ [][Next]_iniVars
----------------------------------------------------------------------------
(* What a configuration says, read as a whole.                             *)

Greatest(S) == CHOOSE i \in S : \A j \in S : j <= i

HeadersUpTo(i) == {j \in 1..i : file[j].kind = "header"}

SectionAt(i) ==
    IF HeadersUpTo(i) = {} THEN "" ELSE file[Greatest(HeadersUpTo(i))].name

Settings(section, key) ==
    {i \in 1..Len(file) : /\ file[i].kind \in {"pair", "bracketed"}
                          /\ file[i].key = key
                          /\ SectionAt(i) = section}

(* The last setting of the key in the section counts.                      *)
Says(section, key) ==
    IF Settings(section, key) = {} THEN "" ELSE file[Greatest(Settings(section, key))].value

(* Each section once (the one before the first header has no name), and no *)
(* brackets outside of headers.                                            *)
Plain ==
    /\ \A i \in 1..Len(file) : file[i].kind \notin {"bracketed", "reversed", "fatal"}
    /\ \A i \in 1..Len(file) : file[i].kind = "header" => file[i].name # ""
    /\ \A i, j \in 1..Len(file) :
           file[i].kind = "header" /\ file[j].kind = "header" /\ file[i].name = file[j].name
               => i = j

(* What GetStr returns once OpenFile has returned is what the file says,   *)
(* for a plain file; asking for a key, present or not, changes no answer.  *)
ReadsWhatFileSays ==
    ipc = "done" /\ Plain =>
        \A section \in Sections, key \in Keys : GetStr(section, key) = Says(section, key)
=============================================================================
