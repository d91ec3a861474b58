----------------------------- MODULE IniProofs -----------------------------
(***************************************************************************)
(* That CIni reads what a plain file says, for files of any length over    *)
(* any sections, keys and values.                                          *)
(***************************************************************************)
EXTENDS Ini, SequenceTheorems, TLAPS

(* What the first n lines say.                                             *)
SettingsUpTo(n, section, key) == {i \in Settings(section, key) : i <= n}

SaysUpTo(n, section, key) ==
    IF SettingsUpTo(n, section, key) = {} THEN ""
    ELSE file[Greatest(SettingsUpTo(n, section, key))].value

(* The last of the headers among the first i lines, when there is one.     *)
HasLastHeader(i) ==
    HeadersUpTo(i) # {} =>
        /\ Greatest(HeadersUpTo(i)) \in HeadersUpTo(i)
        /\ \A j \in HeadersUpTo(i) : j <= Greatest(HeadersUpTo(i))

Lookup(map, key) == IF key \in DOMAIN map THEN map[key] ELSE ""

(* While the file is read, mLastMap is what the lines so far say in the    *)
(* present section, and m_Map what they say in all others.                 *)
Reading ==
    ipc = "read" =>
        /\ \A i \in 0..pos : HasLastHeader(i)
        /\ szLastMainKey = SectionAt(pos)
        /\ \A key \in Keys : Lookup(mLastMap, key) = SaysUpTo(pos, szLastMainKey, key)
        /\ \A section \in Sections \ {szLastMainKey}, key \in Keys :
               GetStr(section, key) = SaysUpTo(pos, section, key)

WasRead ==
    ipc = "done" =>
        \A section \in Sections, key \in Keys : GetStr(section, key) = Says(section, key)

IniInv ==
    /\ file \in Seq(Line) /\ pos \in 0..Len(file)
    /\ Plain => Reading /\ WasRead
----------------------------------------------------------------------------
LEMMA GreatestOfMore ==
    ASSUME NEW S \in SUBSET Nat, NEW n \in Nat, \A j \in S : j < n
    PROVE  Greatest(S \cup {n}) = n
<1> DEFINE T == S \cup {n}
           g == CHOOSE i \in T : \A j \in T : j <= i
<1>1. n \in T /\ \A j \in T : j <= n
    OBVIOUS
<1>2. g \in T /\ \A j \in T : j <= g
    BY <1>1
<1>3. g \in Nat /\ g <= n /\ n <= g
    BY <1>1, <1>2
<1> QED
    BY <1>3 DEF Greatest

(* The section of the next line.                                           *)
LEMMA NextSection ==
    ASSUME NEW n \in Nat
    PROVE  LET header == file[n + 1].kind = "header" IN
           /\ header => HeadersUpTo(n + 1) = HeadersUpTo(n) \cup {n + 1}
           /\ header => Greatest(HeadersUpTo(n + 1)) = n + 1
           /\ header => SectionAt(n + 1) = file[n + 1].name
           /\ ~header => HeadersUpTo(n + 1) = HeadersUpTo(n) /\ SectionAt(n + 1) = SectionAt(n)
           /\ HasLastHeader(n) => HasLastHeader(n + 1)
<1> DEFINE header == file[n + 1].kind = "header"
<1>1. header => HeadersUpTo(n + 1) = HeadersUpTo(n) \cup {n + 1}
    BY DEF HeadersUpTo
<1>2. ~header => HeadersUpTo(n + 1) = HeadersUpTo(n)
    BY DEF HeadersUpTo
<1>3. HeadersUpTo(n) \in SUBSET Nat /\ \A j \in HeadersUpTo(n) : j < n + 1
    BY DEF HeadersUpTo
<1>4. header => Greatest(HeadersUpTo(n + 1)) = n + 1
    BY <1>1, <1>3, GreatestOfMore
<1>5. header => SectionAt(n + 1) = file[n + 1].name
    BY <1>1, <1>4 DEF SectionAt
<1>6. ~header => SectionAt(n + 1) = SectionAt(n)
    BY <1>2 DEF SectionAt
<1>7. HasLastHeader(n) => HasLastHeader(n + 1)
    <2>1. CASE header
        BY <1>1, <1>3, <1>4, <2>1 DEF HasLastHeader
    <2>2. CASE ~header
        BY <1>2, <2>2 DEF HasLastHeader
    <2> QED
        BY <2>1, <2>2
<1> QED
    BY <1>1, <1>2, <1>4, <1>5, <1>6, <1>7

(* What the next line adds to what was said.                               *)
LEMMA NextSays ==
    ASSUME Plain, NEW n \in Nat, n + 1 \in 1..Len(file), NEW section, NEW key
    PROVE  LET setting == /\ file[n + 1].kind = "pair" /\ file[n + 1].key = key
                          /\ SectionAt(n + 1) = section IN
           /\ setting => SaysUpTo(n + 1, section, key) = file[n + 1].value
           /\ ~setting => SaysUpTo(n + 1, section, key) = SaysUpTo(n, section, key)
<1> DEFINE setting == /\ file[n + 1].kind = "pair" /\ file[n + 1].key = key
                      /\ SectionAt(n + 1) = section
           S == SettingsUpTo(n, section, key)
<1>1. n + 1 \in Settings(section, key) <=> setting
    BY DEF Settings, Plain
<1>2. Settings(section, key) \in SUBSET Nat
    BY DEF Settings
<1>3. setting => SettingsUpTo(n + 1, section, key) = S \cup {n + 1}
    BY <1>1, <1>2 DEF SettingsUpTo
<1>4. ~setting => SettingsUpTo(n + 1, section, key) = S
    BY <1>1, <1>2 DEF SettingsUpTo
<1>5. S \in SUBSET Nat /\ n + 1 \in Nat /\ \A j \in S : j < n + 1
    BY <1>2 DEF SettingsUpTo
<1> HIDE DEF setting, S
<1>6. setting => Greatest(SettingsUpTo(n + 1, section, key)) = n + 1
    <2>1. Greatest(S \cup {n + 1}) = n + 1
        BY <1>5, GreatestOfMore
    <2> QED
        BY <1>3, <2>1
<1>7. setting => SaysUpTo(n + 1, section, key) = file[n + 1].value
    BY <1>3, <1>6 DEF SaysUpTo
<1>8. ~setting => SaysUpTo(n + 1, section, key) = SaysUpTo(n, section, key)
    BY <1>4 DEF SaysUpTo, S
<1> QED
    BY <1>7, <1>8 DEF setting

(* A section that begins has not begun before.                             *)
LEMMA NewSection ==
    ASSUME Plain, NEW n \in Nat, n + 1 \in 1..Len(file), file[n + 1].kind = "header",
           \A i \in 0..n : HasLastHeader(i), NEW key
    PROVE  SaysUpTo(n, file[n + 1].name, key) = ""
<1> DEFINE new == file[n + 1].name
<1>1. ASSUME NEW i \in SettingsUpTo(n, new, key) PROVE FALSE
    <2>1. i \in 1..Len(file) /\ i <= n /\ SectionAt(i) = new
        BY <1>1 DEF SettingsUpTo, Settings
    <2>2. new # ""
        BY DEF Plain
    <2>3. HeadersUpTo(i) # {} /\ file[Greatest(HeadersUpTo(i))].name = new
        BY <2>1, <2>2 DEF SectionAt
    <2>4. Greatest(HeadersUpTo(i)) \in HeadersUpTo(i)
        BY <2>1, <2>3 DEF HasLastHeader
    <2>5. PICK j \in 1..i : file[j].kind = "header" /\ file[j].name = new
        BY <2>3, <2>4 DEF HeadersUpTo
    <2>6. j \in 1..Len(file) /\ j # n + 1
        BY <2>1
    <2> QED
        BY <2>5, <2>6 DEF Plain
<1> QED
    BY <1>1 DEF SaysUpTo

(* When all lines are read, what they say is what the file says.           *)
LEMMA SaysAll ==
    ASSUME NEW section, NEW key
    PROVE  SaysUpTo(Len(file), section, key) = Says(section, key)
<1>1. SettingsUpTo(Len(file), section, key) = Settings(section, key)
    BY DEF SettingsUpTo, Settings
<1> QED
    BY <1>1 DEF SaysUpTo, Says

(* The file stays the same.                                                *)
LEMMA SameFile ==
    ASSUME file' = file
    PROVE  /\ Plain' <=> Plain
           /\ \A i : HasLastHeader(i)' <=> HasLastHeader(i)
           /\ SectionAt(pos)' = SectionAt(pos')
           /\ \A section, key : /\ Says(section, key)' = Says(section, key)
                                /\ SaysUpTo(pos, section, key)' = SaysUpTo(pos', section, key)
<1>1. Plain' <=> Plain
    BY DEF Plain
<1>2. \A i : HeadersUpTo(i)' = HeadersUpTo(i)
    BY DEF HeadersUpTo
<1>3. \A i : HasLastHeader(i)' <=> HasLastHeader(i)
    BY <1>2 DEF HasLastHeader
<1>4. HeadersUpTo(pos)' = HeadersUpTo(pos')
    BY DEF HeadersUpTo
<1>5. \A i : SectionAt(i)' = SectionAt(i)
    BY <1>2 DEF SectionAt
<1>6. SectionAt(pos)' = SectionAt(pos')
    BY <1>4 DEF SectionAt
<1>7. \A section, key : Settings(section, key)' = Settings(section, key)
    BY <1>5 DEF Settings
<1>8. \A section, key : SettingsUpTo(pos, section, key)' = SettingsUpTo(pos', section, key)
    BY <1>7 DEF SettingsUpTo
<1>9. \A section, key : Says(section, key)' = Says(section, key)
    BY <1>7 DEF Says
<1>10. \A section, key : SaysUpTo(pos, section, key)' = SaysUpTo(pos', section, key)
    BY <1>8 DEF SaysUpTo
<1> QED
    BY <1>1, <1>3, <1>6, <1>9, <1>10
----------------------------------------------------------------------------
(* What GetStr finds after a section was stored.                           *)
LEMMA StoredSection ==
    ASSUME StoreSection
    PROVE  \A section, key :
               GetStr(section, key)' = IF section = szLastMainKey THEN Lookup(mLastMap, key)
                                       ELSE GetStr(section, key)
BY DEF StoreSection, Assign, GetStr, Lookup

(* The four kinds of a step of OpenFile, and GetKey.                       *)
LEMMA HeaderReads ==
    ASSUME IniInv, Plain, ReadHeader
    PROVE  Reading' /\ WasRead'
<1>1. /\ file' = file /\ pos' = pos + 1 /\ pos \in Nat /\ pos + 1 \in 1..Len(file)
      /\ ipc = "read" /\ ipc' = "read" /\ StoreSection /\ mLastMap' = EmptyMap
      /\ Len(file) \in Nat
    BY DEF IniInv, ReadHeader
<1>2. NextLine.kind = "header" /\ szLastMainKey' = NextLine.name
    BY <1>1 DEF ReadHeader, IsHeader, HeaderName, NextLine, Plain
<1>3. Reading
    BY DEF IniInv
<1>4. \A i \in 0..pos' : HasLastHeader(i)'
    <2>1. HasLastHeader(pos + 1)
        BY <1>1, <1>3, NextSection DEF Reading
    <2>2. \A i \in 0..pos' : i \in 0..pos \/ i = pos + 1
        BY <1>1
    <2> QED
        BY <1>1, <1>3, <2>1, <2>2, SameFile DEF Reading
<1>5. szLastMainKey' = SectionAt(pos)'
    BY <1>1, <1>2, NextSection, SameFile DEF NextLine
<1>6. \A section, key : SaysUpTo(pos, section, key)' = SaysUpTo(pos, section, key)
    BY <1>1, <1>2, NextSays, SameFile DEF NextLine
<1>7. \A key \in Keys : Lookup(mLastMap', key) = SaysUpTo(pos, szLastMainKey, key)'
    <2>1. \A key : Lookup(mLastMap', key) = ""
        BY <1>1 DEF Lookup, EmptyMap
    <2>2. \A key : SaysUpTo(pos, NextLine.name, key) = ""
        BY <1>1, <1>2, <1>3, NewSection DEF Reading, NextLine
    <2> QED
        BY <1>1, <1>2, <1>6, <2>1, <2>2 DEF SaysUpTo, SettingsUpTo
<1>8. \A section \in Sections, key \in Keys : GetStr(section, key)' = SaysUpTo(pos, section, key)
    BY <1>1, <1>3, StoredSection DEF Reading
<1>9. Reading'
    BY <1>4, <1>5, <1>6, <1>7, <1>8 DEF Reading
<1> QED
    BY <1>1, <1>9 DEF WasRead

LEMMA PairReads ==
    ASSUME IniInv, Plain, ReadPair
    PROVE  Reading' /\ WasRead'
<1>1. /\ file' = file /\ pos' = pos + 1 /\ pos \in Nat /\ pos + 1 \in 1..Len(file)
      /\ ipc = "read" /\ ipc' = "read" /\ szLastMainKey' = szLastMainKey /\ m_Map' = m_Map
      /\ NextLine.kind = "pair" /\ mLastMap' = Assign(mLastMap, NextLine.key, NextLine.value)
    BY DEF IniInv, ReadPair
<1>2. Reading
    BY DEF IniInv
<1>3. \A i \in 0..pos' : HasLastHeader(i)'
    <2>1. HasLastHeader(pos + 1)
        BY <1>1, <1>2, NextSection DEF Reading
    <2>2. \A i \in 0..pos' : i \in 0..pos \/ i = pos + 1
        BY <1>1
    <2> QED
        BY <1>1, <1>2, <2>1, <2>2, SameFile DEF Reading
<1>4. SectionAt(pos + 1) = szLastMainKey
    BY <1>1, <1>2, NextSection DEF NextLine, Reading
<1>5. szLastMainKey' = SectionAt(pos)'
    BY <1>1, <1>4, SameFile
<1>6. \A section, key :
        SaysUpTo(pos, section, key)' = IF key = NextLine.key /\ section = szLastMainKey
                                       THEN NextLine.value ELSE SaysUpTo(pos, section, key)
    BY <1>1, <1>4, NextSays, SameFile DEF NextLine
<1>7. \A key : Lookup(mLastMap', key) = IF key = NextLine.key THEN NextLine.value ELSE Lookup(mLastMap, key)
    BY <1>1 DEF Lookup, Assign
<1>8. \A key \in Keys : Lookup(mLastMap', key) = SaysUpTo(pos, szLastMainKey, key)'
    <2>1. \A key : SaysUpTo(pos, szLastMainKey, key)'
                     = IF key = NextLine.key THEN NextLine.value ELSE SaysUpTo(pos, szLastMainKey, key)
        BY <1>1, <1>6 DEF SaysUpTo, SettingsUpTo
    <2> QED
        BY <1>1, <1>2, <1>7, <2>1 DEF Reading
<1>9. \A section \in Sections \ {szLastMainKey}, key \in Keys :
        GetStr(section, key)' = SaysUpTo(pos, section, key)'
    <2>1. \A section, key : GetStr(section, key)' = GetStr(section, key)
        BY <1>1 DEF GetStr
    <2>2. ASSUME NEW section \in Sections \ {szLastMainKey}, NEW key \in Keys
          PROVE  SaysUpTo(pos, section, key)' = SaysUpTo(pos, section, key)
        BY <1>6
    <2> QED
        BY <1>1, <1>2, <2>1, <2>2 DEF Reading
<1>10. Reading'
    BY <1>1, <1>3, <1>5, <1>8, <1>9 DEF Reading
<1> QED
    BY <1>1, <1>10 DEF WasRead

LEMMA OtherReads ==
    ASSUME IniInv, Plain, ReadOther
    PROVE  Reading' /\ WasRead'
<1>1. /\ file' = file /\ pos' = pos + 1 /\ pos \in Nat /\ pos + 1 \in 1..Len(file)
      /\ ipc = "read" /\ ipc' = "read" /\ NextLine.kind = "other"
      /\ szLastMainKey' = szLastMainKey /\ m_Map' = m_Map /\ mLastMap' = mLastMap
    BY DEF IniInv, ReadOther
<1>2. Reading
    BY DEF IniInv
<1>3. \A i \in 0..pos' : HasLastHeader(i)'
    <2>1. HasLastHeader(pos + 1)
        BY <1>1, <1>2, NextSection DEF Reading
    <2>2. \A i \in 0..pos' : i \in 0..pos \/ i = pos + 1
        BY <1>1
    <2> QED
        BY <1>1, <1>2, <2>1, <2>2, SameFile DEF Reading
<1>4. szLastMainKey' = SectionAt(pos)'
    BY <1>1, <1>2, NextSection, SameFile DEF NextLine, Reading
<1>5. \A section, key : SaysUpTo(pos, section, key)' = SaysUpTo(pos, section, key)
    <2>1. file[pos + 1].kind # "pair"
        BY <1>1 DEF NextLine
    <2>2. \A section, key : SaysUpTo(pos + 1, section, key) = SaysUpTo(pos, section, key)
        BY <1>1, <2>1, NextSays
    <2> QED
        BY <1>1, <2>2, SameFile
<1>6. \A key : SaysUpTo(pos, szLastMainKey, key)' = SaysUpTo(pos, szLastMainKey, key)
    BY <1>1, <1>5 DEF SaysUpTo, SettingsUpTo
<1>7. Reading'
    <2>1. \A section, key : GetStr(section, key)' = GetStr(section, key)
        BY <1>1 DEF GetStr
    <2>2. \A key \in Keys : Lookup(mLastMap', key) = SaysUpTo(pos, szLastMainKey, key)'
        BY <1>1, <1>2, <1>6 DEF Reading
    <2>3. \A section \in Sections \ {szLastMainKey}, key \in Keys :
            GetStr(section, key)' = SaysUpTo(pos, section, key)'
        BY <1>1, <1>2, <1>5, <2>1 DEF Reading
    <2> QED
        BY <1>1, <1>3, <1>4, <2>2, <2>3 DEF Reading
<1> QED
    BY <1>1, <1>7 DEF WasRead

LEMMA EndReads ==
    ASSUME IniInv, Plain, EndOfFile
    PROVE  Reading' /\ WasRead'
<1>1. /\ file' = file /\ pos = Len(file) /\ ipc = "read" /\ ipc' = "done" /\ StoreSection
    BY DEF EndOfFile
<1>2. Reading
    BY DEF IniInv
<1>3. \A section \in Sections, key \in Keys : GetStr(section, key)' = Says(section, key)
    BY <1>1, <1>2, StoredSection, SaysAll DEF Reading
<1> QED
    BY <1>1, <1>3, SameFile DEF Reading, WasRead

LEMMA NothingReads ==
    ASSUME IniInv, Plain,
           \/ OpenFails \/ Throw \/ UNCHANGED iniVars
           \/ \E section \in Sections : GetKey(section)
    PROVE  Reading' /\ WasRead'
<1>1. CASE OpenFails \/ Throw
    BY <1>1 DEF OpenFails, Throw, Reading, WasRead
<1>2. CASE \E section \in Sections : GetKey(section)
    <2>1. /\ ipc # "read" /\ file' = file /\ ipc' = ipc
          /\ \A s, key : GetStr(s, key)' = GetStr(s, key)
        BY <1>2 DEF GetKey, GetStr, Assign, EmptyMap
    <2> QED
        BY <2>1, SameFile DEF IniInv, Reading, WasRead
<1>3. CASE UNCHANGED iniVars
    <2>1. UNCHANGED <<file, ipc, pos, szLastMainKey, mLastMap, m_Map>>
        BY <1>3 DEF iniVars
    <2>2. \A section, key : SaysUpTo(pos, section, key)' = SaysUpTo(pos, section, key)
        BY <2>1, SameFile
    <2>3. \A section, key : GetStr(section, key)' = GetStr(section, key)
        BY <2>1 DEF GetStr
    <2>4. \A key : SaysUpTo(pos, szLastMainKey, key)' = SaysUpTo(pos, szLastMainKey, key)
        BY <2>1, <2>2 DEF SaysUpTo, SettingsUpTo
    <2>5. SectionAt(pos)' = SectionAt(pos)
        BY <2>1, SameFile
    <2> QED
        BY <2>1, <2>2, <2>3, <2>4, <2>5, SameFile DEF IniInv, Reading, WasRead
<1> QED
    BY <1>1, <1>2, <1>3

LEMMA InitIni == Init => IniInv
<1> SUFFICES ASSUME Init PROVE IniInv
    OBVIOUS
<1>1. file \in Seq(Line) /\ pos = 0 /\ pos \in 0..Len(file)
    <2>1. file \in Seq(Line) /\ pos = 0
        BY FilesAssumption DEF Init
    <2>2. Len(file) \in Nat
        BY <2>1, LenProperties
    <2> QED
        BY <2>1, <2>2
<1>2. ipc = "read" /\ szLastMainKey = "" /\ mLastMap = EmptyMap /\ m_Map = EmptyMap
    BY DEF Init
<1>3. HeadersUpTo(0) = {} /\ SectionAt(0) = ""
    BY DEF HeadersUpTo, SectionAt
<1>4. \A section, key : SaysUpTo(0, section, key) = ""
    <2>1. \A section, key : SettingsUpTo(0, section, key) = {}
        BY DEF SettingsUpTo, Settings
    <2> QED
        BY <2>1 DEF SaysUpTo
<1>5. \A i \in 0..0 : HasLastHeader(i)
    <2>1. HasLastHeader(0)
        BY <1>3 DEF HasLastHeader
    <2> QED
        BY <2>1
<1>6. Reading
    BY <1>1, <1>2, <1>3, <1>4, <1>5 DEF Reading, Lookup, GetStr, EmptyMap
<1> QED
    BY <1>1, <1>2, <1>6 DEF IniInv, WasRead

LEMMA NextIni == IniInv /\ [Next]_iniVars => IniInv'
<1> SUFFICES ASSUME IniInv, [Next]_iniVars PROVE IniInv'
    OBVIOUS
<1>1. file' = file
    BY DEF Next, ReadHeader, ReadPair, ReadOther, Throw, EndOfFile, OpenFails, GetKey, iniVars
<1>2. file' \in Seq(Line) /\ pos' \in 0..Len(file')
    BY <1>1 DEF IniInv, Next, ReadHeader, ReadPair, ReadOther, Throw, EndOfFile, OpenFails, GetKey, iniVars
<1>3. ASSUME Plain' PROVE Reading' /\ WasRead'
    <2>1. Plain
        BY <1>1, <1>3, SameFile
    <2> QED
        BY <2>1, HeaderReads, PairReads, OtherReads, EndReads, NothingReads DEF Next
<1> QED
    BY <1>2, <1>3 DEF IniInv

LEMMA IniInvariant == Spec => []IniInv
BY InitIni, NextIni, PTL DEF Spec

(* What GetStr returns once OpenFile has returned is the last setting of   *)
(* the key in the section, for a plain file of any length (config.cpp, 131 *)
(* to 196, and 234 to 245).                                                *)
THEOREM ConfigurationRead == Spec => []ReadsWhatFileSays
<1>1. IniInv => ReadsWhatFileSays
    BY DEF IniInv, WasRead, ReadsWhatFileSays
<1> QED
    BY IniInvariant, <1>1, PTL
=============================================================================
