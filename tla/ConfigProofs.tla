---------------------------- MODULE ConfigProofs ----------------------------
(***************************************************************************)
(* Proofs about Config, for files of any length with any numbers: each     *)
(* variable gets the number of its own setting, wherever comments stand    *)
(* and wherever the file ends.  The program only counts the lines it has   *)
(* read; the inductive invariant is that what is behind it in the file are *)
(* the settings it has counted, and what is ahead are the others.          *)
(***************************************************************************)
EXTENDS Config, TLAPS

-----------------------------------------------------------------------------
(* The inductive invariant.                                                *)

Behind(r, k) == \A j \in 1 .. k - 1, q \in 1 .. 3 : file[j].key = Settings[q] => q < r
Ahead(r, k)  == \A j \in k .. Len(file), q \in 1 .. 3 : file[j].key = Settings[q] => r <= q

\* How far main has read; after the last setting it does not care what is ahead.
ReadSoFar ==
  /\ ~ inside
  /\ Behind(reading, next)
  /\ reading < 4 => Ahead(reading, next)
  /\ stage = IF reading > 1 THEN ValueOf("stage") ELSE Unset
  /\ noOfRouters = IF reading > 2 THEN ValueOf("num_routers") ELSE Unset
  /\ noOfHops = IF reading = 4 /\ stage > 4 THEN ValueOf("minitor_hops") ELSE Unset
  /\ reading = 3 => stage > 4

ConfigInv == TypeOK /\ (~ LongComment => ReadSoFar)

-----------------------------------------------------------------------------
(* Files.                                                                  *)

LEMMA SettingsAre ==
  /\ Settings[1] = "stage" /\ Settings[2] = "num_routers" /\ Settings[3] = "minitor_hops"
  /\ \A q \in 1 .. 3 : Settings[q] # "#"
  /\ \A q, r \in 1 .. 3 : Settings[q] = Settings[r] => q = r
<1>1. Settings[1] = "stage" /\ Settings[2] = "num_routers" /\ Settings[3] = "minitor_hops"
  BY DEF Settings
<1>2. \A q \in 1 .. 3 : q = 1 \/ q = 2 \/ q = 3
  OBVIOUS
<1>3. \A q \in 1 .. 3 : Settings[q] # "#"
  BY <1>1, <1>2
<1>4. \A q, r \in 1 .. 3 : Settings[q] = Settings[r] => q = r
  BY <1>1, <1>2
<1> QED
  BY <1>1, <1>3, <1>4

LEMMA LinesAre ==
  ASSUME NEW l \in Line
  PROVE  /\ l.number \in Numbers \cup {NoNumber} /\ l.long \in BOOLEAN
         /\ l.key # "#" => /\ \E q \in 1 .. 3 : l.key = Settings[q]
                           /\ l.number \in Numbers /\ l.number # NoNumber
<1>1. CASE \E long \in BOOLEAN : l = Comment(long)
  BY <1>1 DEF Comment
<1>2. CASE \E key \in Keys, n \in Numbers : l = Setting(key, n)
  <2>1. PICK key \in Keys, n \in Numbers : l = Setting(key, n)
    BY <1>2
  <2>2. l.key = key /\ l.number = n /\ l.long = FALSE
    BY <2>1 DEF Setting
  <2>3. n \in Nat /\ n # NoNumber
    BY ConfigAssumption DEF ConfigAssumption, NoNumber
  <2> QED
    BY <2>2, <2>3 DEF Keys
<1> QED
  BY <1>1, <1>2 DEF Line

LEMMA FileIs ==
  ASSUME file \in Files
  PROVE  /\ Len(file) \in Nat /\ DOMAIN file = 1 .. Len(file)
         /\ \A k \in 1 .. Len(file) : file[k] \in Line
         /\ InOrder(file)
<1>1. file \in Seq(Line) /\ InOrder(file)
  BY ConfigAssumption DEF ConfigAssumption
<1> QED
  BY <1>1

-----------------------------------------------------------------------------
(* Types.                                                                  *)

LEMMA AdvanceTypes ==
  ASSUME TypeOK, Advance
  PROVE  next' \in 1 .. Len(file) + 1 /\ inside' \in BOOLEAN
<1>1. Len(file) \in Nat /\ next \in Nat /\ next >= 1 /\ next <= Len(file) + 1
  BY FileIs DEF TypeOK
<1>2. inside' \in BOOLEAN
  BY DEF Advance, Cut
<1>3. AtEnd \/ next + 1 <= Len(file) + 1
  BY <1>1 DEF AtEnd
<1> QED
  BY <1>1, <1>2, <1>3 DEF Advance

LEMMA ScannedTypes ==
  ASSUME TypeOK, NEW old \in Numbers \cup {Unset}, NEW v \in Scanned(old)
  PROVE  v \in Numbers \cup {Unset}
<1>1. CASE AtEnd
  BY <1>1 DEF Scanned
<1>2. CASE ~ AtEnd
  <2>1. PICK t \in Texts : v = IF t.number = NoNumber THEN old ELSE t.number
    BY <1>2 DEF Scanned
  <2>2. t.number \in Numbers \cup {NoNumber}
    <3>1. CASE inside
      BY <1>2, <3>1 DEF Texts, Text
    <3>2. CASE ~ inside
      <4>1. next \in 1 .. Len(file)
        BY <1>2, FileIs DEF AtEnd, TypeOK
      <4>2. file[next].number \in Numbers \cup {NoNumber}
        BY <4>1, FileIs, LinesAre DEF TypeOK
      <4>3. t.number = file[next].number
        BY <1>2, <3>2 DEF Texts, Text
      <4> QED
        BY <4>2, <4>3
    <3> QED
      BY <3>1, <3>2
  <2> QED
    BY <2>1, <2>2
<1> QED
  BY <1>1, <1>2

LEMMA NextTypes ==
  ASSUME TypeOK, [Next]_vars
  PROVE  TypeOK'
<1>1. ASSUME Next
      PROVE  file' = file /\ next' \in 1 .. Len(file) + 1 /\ inside' \in BOOLEAN
  BY <1>1, AdvanceTypes DEF Next, SkipComment, ReadStage, ReadRouters, ReadHops
<1>2. CASE SkipComment
  BY <1>1, <1>2 DEF TypeOK, Next, SkipComment
<1>3. CASE ReadStage
  <2>1. stage' \in Numbers \cup {Unset}
    BY <1>3, ScannedTypes DEF ReadStage, TypeOK
  <2> QED
    BY <1>1, <1>3, <2>1 DEF TypeOK, Next, ReadStage
<1>4. CASE ReadRouters
  <2>1. noOfRouters' \in Numbers \cup {Unset}
    BY <1>4, ScannedTypes DEF ReadRouters, TypeOK
  <2> QED
    BY <1>1, <1>4, <2>1 DEF TypeOK, Next, ReadRouters
<1>5. CASE ReadHops
  <2>1. noOfHops' \in Numbers \cup {Unset}
    BY <1>5, ScannedTypes DEF ReadHops, TypeOK
  <2> QED
    BY <1>1, <1>5, <2>1 DEF TypeOK, Next, ReadHops
<1>6. CASE UNCHANGED vars
  BY <1>6 DEF vars, TypeOK
<1> QED
  BY <1>2, <1>3, <1>4, <1>5, <1>6 DEF Next

-----------------------------------------------------------------------------
(* Reading.                                                                *)

LEMMA TextIs ==
  ASSUME NEW hash \in BOOLEAN, NEW n
  PROVE  Text(hash, n).number = n /\ (IsComment(Text(hash, n)) <=> hash)
<1>1. Text(hash, n).number = n /\ Text(hash, n).hash = hash
  BY DEF Text
<1> QED
  BY <1>1 DEF IsComment

\* Without long comments fgets returns line by line.
LEMMA WholeLines ==
  ASSUME TypeOK, ~ LongComment, ~ inside, ~ AtEnd
  PROVE  /\ next \in 1 .. Len(file) /\ next \in Nat /\ file[next] \in Line
         /\ Texts = {Text(file[next].key = "#", file[next].number)}
         /\ Advance => next' = next + 1 /\ ~ inside'
<1>1. next \in 1 .. Len(file) /\ next \in Nat
  BY FileIs DEF TypeOK, AtEnd
<1>2. file[next] \in Line /\ ~ file[next].long
  BY <1>1, FileIs DEF TypeOK, LongComment
<1>3. Texts = {Text(file[next].key = "#", file[next].number)}
  BY DEF Texts
<1>4. Advance => next' = next + 1 /\ ~ inside'
  BY <1>2 DEF Advance, Cut
<1> QED
  BY <1>1, <1>2, <1>3, <1>4

\* The only line of a setting is where its value is.
LEMMA ValueIs ==
  ASSUME file \in Files, NEW key
  PROVE  /\ \A k \in 1 .. Len(file) :
              /\ file[k].key = key
              /\ \A j \in 1 .. Len(file) : file[j].key = key => j = k
              => ValueOf(key) = file[k].number
         /\ (\A j \in 1 .. Len(file) : file[j].key # key) => ValueOf(key) = Unset
<1> DEFINE at == {k \in DOMAIN file : file[k].key = key}
<1>1. ValueOf(key) = IF at = {} THEN Unset ELSE file[CHOOSE k \in at : TRUE].number
  BY DEF ValueOf
<1>2. DOMAIN file = 1 .. Len(file)
  BY FileIs
<1>3. ASSUME NEW k \in 1 .. Len(file), file[k].key = key,
             \A j \in 1 .. Len(file) : file[j].key = key => j = k
      PROVE  ValueOf(key) = file[k].number
  <2>1. at = {k}
    BY <1>2, <1>3
  <2>2. (CHOOSE j \in {k} : TRUE) = k
    OBVIOUS
  <2> HIDE DEF at
  <2> QED
    BY <1>1, <2>1, <2>2
<1>4. ASSUME \A j \in 1 .. Len(file) : file[j].key # key
      PROVE  ValueOf(key) = Unset
  <2>1. at = {}
    BY <1>2, <1>4
  <2> HIDE DEF at
  <2> QED
    BY <1>1, <2>1
<1> QED
  BY <1>3, <1>4

\* The next text that is no comment is the line of the setting that is due, or there
\* is none.
LEMMA SettingRead ==
  ASSUME TypeOK, ~ LongComment, ~ inside, NEW r \in 1 .. 3, Behind(r, next), Ahead(r, next),
         Advance, NEW v \in Scanned(Unset)
  PROVE  /\ v = ValueOf(Settings[r])
         /\ ~ inside' /\ Behind(r + 1, next') /\ Ahead(r + 1, next')
<1>1. /\ file \in Files /\ Len(file) \in Nat /\ next \in Nat /\ next >= 1
      /\ next <= Len(file) + 1
  BY FileIs DEF TypeOK
<1>2. CASE AtEnd
  <2>1. next = Len(file) + 1 /\ next' = next /\ ~ inside' /\ v = Unset
    <3>1. ~ (next <= Len(file)) /\ next = Len(file) + 1
      BY <1>1, <1>2 DEF AtEnd
    <3>2. next' = next /\ ~ inside'
      BY <1>2 DEF Advance, Cut
    <3>3. v = Unset
      BY <1>2 DEF Scanned
    <3> QED
      BY <3>1, <3>2, <3>3
  <2>2. \A j \in 1 .. Len(file) : j \in 1 .. next - 1
    BY <1>1, <2>1
  <2>3. \A j \in 1 .. Len(file) : file[j].key # Settings[r]
    BY <2>2 DEF Behind
  <2>4. Behind(r + 1, next')
    BY <2>1 DEF Behind
  <2>5. Ahead(r + 1, next')
    BY <1>1, <2>1 DEF Ahead
  <2> QED
    BY <1>1, <2>1, <2>3, <2>4, <2>5, ValueIs
<1>3. CASE ~ AtEnd
  <2>1. /\ next \in 1 .. Len(file) /\ file[next] \in Line
        /\ Texts = {Text(file[next].key = "#", file[next].number)}
        /\ next' = next + 1 /\ ~ inside'
    BY <1>3, WholeLines
  <2>2. PICK t \in Texts : ~ IsComment(t) /\ v = IF t.number = NoNumber THEN Unset ELSE t.number
    BY <1>3 DEF Scanned
  <2>3. file[next].key # "#" /\ t.number = file[next].number
    <3>1. t = Text(file[next].key = "#", file[next].number)
      BY <2>1, <2>2
    <3> QED
      BY <2>2, <3>1, TextIs
  <2>4. v = file[next].number
    BY <2>1, <2>2, <2>3, LinesAre
  <2>5. PICK q \in 1 .. 3 : file[next].key = Settings[q]
    BY <2>1, <2>3, LinesAre
  <2>6. \A j \in 1 .. next - 1 : file[j].key # Settings[r]
    BY DEF Behind
  <2>7. q = r
    <3>1. next \in next .. Len(file)
      BY <1>1, <2>1
    <3>2. r <= q
      BY <2>5, <3>1 DEF Ahead
    <3>3. ~ (r \in 1 .. q - 1)
      BY <1>1, <2>1, <2>5, <2>6, FileIs DEF InOrder
    <3> QED
      BY <3>2, <3>3
  <2>8. \A j \in next + 1 .. Len(file) : file[j].key # Settings[r]
    <3> SUFFICES ASSUME NEW j \in next + 1 .. Len(file), file[j].key = Settings[r]
                 PROVE  FALSE
      OBVIOUS
    <3>1. j \in DOMAIN file /\ next \in 1 .. j - 1 /\ r \in r .. 3
      BY <1>1, <2>1, FileIs
    <3> QED
      BY <1>1, <2>5, <2>7, <3>1, FileIs DEF InOrder
  <2>9. \A j \in 1 .. Len(file) : file[j].key = Settings[r] => j = next
    <3> SUFFICES ASSUME NEW j \in 1 .. Len(file), file[j].key = Settings[r], j # next
                 PROVE  FALSE
      OBVIOUS
    <3>1. j \in 1 .. next - 1 \/ j \in next + 1 .. Len(file)
      BY <1>1
    <3> QED
      BY <2>6, <2>8, <3>1
  <2>10. v = ValueOf(Settings[r])
    BY <1>1, <2>1, <2>4, <2>5, <2>7, <2>9, ValueIs
  <2>11. Behind(r + 1, next')
    <3> SUFFICES ASSUME NEW j \in 1 .. next' - 1, NEW n \in 1 .. 3, file[j].key = Settings[n]
                 PROVE  n < r + 1
      BY DEF Behind
    <3>1. CASE j = next
      BY <2>5, <2>7, <3>1, SettingsAre
    <3>2. CASE j # next
      <4>1. j \in 1 .. next - 1
        BY <1>1, <2>1, <3>2
      <4>2. n < r
        BY <4>1 DEF Behind
      <4> QED
        BY <4>2
    <3> QED
      BY <3>1, <3>2
  <2>12. Ahead(r + 1, next')
    <3> SUFFICES ASSUME NEW j \in next' .. Len(file), NEW n \in 1 .. 3, file[j].key = Settings[n]
                 PROVE  r + 1 <= n
      BY DEF Ahead
    <3>1. j \in next .. Len(file) /\ j \in next + 1 .. Len(file)
      BY <1>1, <2>1
    <3>2. r <= n
      BY <3>1 DEF Ahead
    <3>3. n # r
      BY <2>8, <3>1
    <3> QED
      BY <3>2, <3>3
  <2> QED
    BY <2>1, <2>10, <2>11, <2>12
<1> QED
  BY <1>2, <1>3

LEMMA SkipCommentStep ==
  ASSUME TypeOK, ~ LongComment, ReadSoFar, SkipComment
  PROVE  ReadSoFar'
<1>1. /\ ~ inside /\ ~ AtEnd /\ Advance /\ reading < 4
      /\ Behind(reading, next) /\ Ahead(reading, next)
      /\ UNCHANGED <<file, reading, stage, noOfRouters, noOfHops>>
  BY DEF SkipComment, ReadSoFar, Texts
<1>2. /\ next \in 1 .. Len(file) /\ next \in Nat /\ next' = next + 1 /\ ~ inside'
      /\ Texts = {Text(file[next].key = "#", file[next].number)}
  BY <1>1, WholeLines
<1>3. file[next].key = "#"
  <2>1. IsComment(Text(file[next].key = "#", file[next].number))
    BY <1>2 DEF SkipComment
  <2> QED
    BY <2>1, TextIs
<1>4. Behind(reading, next)'
  <2> SUFFICES ASSUME NEW j \in 1 .. next, NEW q \in 1 .. 3, file[j].key = Settings[q]
               PROVE  q < reading
    BY <1>1, <1>2 DEF Behind
  <2>1. j # next
    BY <1>3, SettingsAre
  <2>2. j \in 1 .. next - 1
    BY <1>2, <2>1
  <2> QED
    BY <1>1, <2>2 DEF Behind
<1>5. Ahead(reading, next)'
  <2>1. \A j \in next + 1 .. Len(file) : j \in next .. Len(file)
    BY <1>2
  <2> QED
    BY <1>1, <1>2, <2>1 DEF Ahead
<1>6. \A key : ValueOf(key)' = ValueOf(key)
  BY <1>1 DEF ValueOf
<1> QED
  BY <1>1, <1>2, <1>4, <1>5, <1>6 DEF ReadSoFar

LEMMA SettingStep ==
  ASSUME TypeOK, ~ LongComment, ReadSoFar, ReadStage \/ ReadRouters \/ ReadHops
  PROVE  ReadSoFar'
<1>1. /\ ~ inside /\ Advance /\ reading \in 1 .. 3 /\ file' = file
      /\ Behind(reading, next) /\ Ahead(reading, next)
  BY DEF ReadStage, ReadRouters, ReadHops, ReadSoFar
<1>2. PICK r \in 1 .. 3 : r = reading
  BY <1>1
<1>3. /\ ~ inside' /\ Behind(r + 1, next') /\ Ahead(r + 1, next')
      /\ \A v \in Scanned(Unset) : v = ValueOf(Settings[r])
  <2>1. \E v : v \in Scanned(Unset)
    BY <1>2 DEF ReadStage, ReadRouters, ReadHops, ReadSoFar
  <2> QED
    BY <1>1, <1>2, <2>1, SettingRead
<1>4. \A key : ValueOf(key)' = ValueOf(key)
  BY <1>1 DEF ValueOf
<1>5. \A n \in 1 .. 4 : n >= r + 1 => Behind(n, next')
  BY <1>3 DEF Behind
<1>6. \A n : (Behind(n, next') <=> Behind(n, next)') /\ (Ahead(n, next') <=> Ahead(n, next)')
  BY <1>1 DEF Behind, Ahead
<1>7. CASE ReadStage
  <2>1. /\ r = 1 /\ reading' = 2 /\ stage' = ValueOf("stage")
        /\ UNCHANGED <<noOfRouters, noOfHops>> /\ noOfRouters = Unset /\ noOfHops = Unset
    BY <1>2, <1>3, <1>7, SettingsAre DEF ReadStage, ReadSoFar
  <2> QED
    BY <1>3, <1>4, <1>5, <1>6, <2>1 DEF ReadSoFar
<1>8. CASE ReadRouters
  <2>1. /\ r = 2 /\ reading' = (IF stage > 4 THEN 3 ELSE 4) /\ noOfRouters' = ValueOf("num_routers")
        /\ UNCHANGED <<stage, noOfHops>> /\ stage = ValueOf("stage") /\ noOfHops = Unset
    BY <1>2, <1>3, <1>8, SettingsAre DEF ReadRouters, ReadSoFar
  <2>2. Behind(3, next)' /\ Behind(4, next)' /\ Ahead(3, next)'
    BY <1>3, <1>5, <1>6, <2>1
  <2>3. CASE stage > 4
    BY <1>3, <1>4, <2>1, <2>2, <2>3 DEF ReadSoFar
  <2>4. CASE ~ (stage > 4)
    BY <1>3, <1>4, <2>1, <2>2, <2>4 DEF ReadSoFar
  <2> QED
    BY <2>3, <2>4
<1>9. CASE ReadHops
  <2>1. /\ r = 3 /\ reading' = 4 /\ noOfHops' = ValueOf("minitor_hops")
        /\ UNCHANGED <<stage, noOfRouters>> /\ stage = ValueOf("stage") /\ stage > 4
        /\ noOfRouters = ValueOf("num_routers")
    BY <1>2, <1>3, <1>9, SettingsAre DEF ReadHops, ReadSoFar
  <2> QED
    BY <1>3, <1>4, <1>5, <1>6, <2>1 DEF ReadSoFar
<1> QED
  BY <1>7, <1>8, <1>9

-----------------------------------------------------------------------------
(* Theorems.                                                               *)

LEMMA InitInv == Init => ConfigInv
<1> SUFFICES ASSUME Init
             PROVE  ConfigInv
  OBVIOUS
<1>1. Len(file) \in Nat /\ next = 1 /\ reading = 1
  BY FileIs DEF Init
<1>2. TypeOK
  <2>1. next \in 1 .. Len(file) + 1 /\ reading \in 1 .. 4
    BY <1>1
  <2>2. {stage, noOfRouters, noOfHops} \subseteq Numbers \cup {Unset}
    BY DEF Init
  <2>3. inside \in BOOLEAN
    BY DEF Init
  <2> QED
    BY <2>1, <2>2, <2>3 DEF Init, TypeOK
<1>3. Behind(1, 1) /\ Ahead(1, 1)
  BY DEF Behind, Ahead
<1> QED
  BY <1>1, <1>2, <1>3 DEF Init, ConfigInv, ReadSoFar

LEMMA NextInv ==
  ASSUME ConfigInv, [Next]_vars
  PROVE  ConfigInv'
<1>1. TypeOK /\ TypeOK'
  BY NextTypes DEF ConfigInv
<1>2. file' = file
  BY DEF Next, SkipComment, ReadStage, ReadRouters, ReadHops, vars
<1>3. LongComment' <=> LongComment
  BY <1>2 DEF LongComment
<1>4. ASSUME ~ LongComment
      PROVE  ReadSoFar'
  <2>1. ReadSoFar
    BY <1>4 DEF ConfigInv
  <2>2. CASE UNCHANGED vars
    BY <2>1, <2>2 DEF vars, ReadSoFar, Behind, Ahead, ValueOf
  <2> QED
    BY <1>1, <1>4, <2>1, <2>2, SkipCommentStep, SettingStep DEF Next
<1> QED
  BY <1>1, <1>3, <1>4 DEF ConfigInv

\* What is behind the launcher in the file are the settings that it has counted, and
\* what is ahead are the others, as long as no comment is longer than what fgets takes.
THEOREM ConfigInvariant == Spec => []ConfigInv
<1> QED
  BY InitInv, NextInv, PTL DEF Spec

\* Type correctness: no variable is left with what sscanf found in a text without number.
THEOREM ConfigTypes == Spec => []TypeOK
<1>1. ConfigInv => TypeOK
  BY DEF ConfigInv
<1> QED
  BY <1>1, ConfigInvariant, PTL

\* The launcher gives each variable the number of its own setting, in a file of any
\* length, although it never looks at the key.
THEOREM SettingsAreRead == Spec => []ReadsTheSettings
<1>1. ConfigInv => ReadsTheSettings
  BY DEF ConfigInv, ReadSoFar, ReadsTheSettings, ReadAsWritten
<1> QED
  BY <1>1, ConfigInvariant, PTL
=============================================================================
