------------------------------- MODULE Config -------------------------------
(***************************************************************************)
(* How the launcher reads its configuration file (Stage1.cc, main;         *)
(* File.cc, readNextLine): line by line, by position, skipping comments.   *)
(* fgets returns at most 99 characters at a time, and sscanf stores a      *)
(* number only if the text has one.  A file is a sequence of lines as a    *)
(* user wrote them; what Startup starts from is the outcome.               *)
(*                                                                         *)
(* A definition X_suffix above a definition X is X with a fault put in, to *)
(* see that the properties below would notice it; no behaviour uses it.    *)
(***************************************************************************)
EXTENDS Integers, Sequences

CONSTANTS Files,      \* the configuration files to be read
          Numbers     \* the numbers that occur in them

\* What a variable of common.h holds before it is read, and a text without number.
Unset    == -1
NoNumber == -2

Settings == <<"stage", "num_routers", "minitor_hops">>
Keys     == {Settings[k] : k \in 1 .. 3}

\* A comment may be longer than 99 characters; a setting is not.
Comment(long) == [key |-> "#", long |-> long, number |-> NoNumber]
Setting(k, n) == [key |-> k, long |-> FALSE, number |-> n]
Line == {Comment(long) : long \in BOOLEAN} \cup {Setting(k, n) : k \in Keys, n \in Numbers}

\* The settings are in the order of the file that comes with the program (config:2-4),
\* possibly cut off: before a setting there is one line with each of those before it.
InOrder(f) ==
  \A k \in DOMAIN f, r \in 1 .. 3 : f[k].key = Settings[r] =>
    /\ \A q \in 1 .. r - 1 : \E j \in 1 .. k - 1 : f[j].key = Settings[q]
    /\ \A q \in r .. 3 : \A j \in 1 .. k - 1 : f[j].key # Settings[q]

ASSUME ConfigAssumption ==
  /\ Numbers \subseteq Nat
  /\ \A f \in Files : f \in Seq(Line) /\ InOrder(f)

VARIABLES file,
          next,     \* the line that fgets is at
          inside,   \* whether it has returned the beginning of that line
          reading,  \* the setting main reads next; 4 when it has read them all
          stage, noOfRouters, noOfHops

vars == <<file, next, inside, reading, stage, noOfRouters, noOfHops>>

TypeOK ==
  /\ file \in Files
  /\ next \in 1 .. Len(file) + 1
  /\ inside \in BOOLEAN
  /\ reading \in 1 .. 4
  /\ {stage, noOfRouters, noOfHops} \subseteq Numbers \cup {Unset}

Init ==
  /\ file \in Files
  /\ next = 1 /\ inside = FALSE
  /\ reading = 1
  /\ stage = Unset /\ noOfRouters = Unset /\ noOfHops = Unset

-----------------------------------------------------------------------------
(* File.cc: fgets and readNextLine.                                        *)

AtEnd == next > Len(file)

\* A text fgets returns: does it begin with '#', and which number would sscanf
\* find behind its first word.
Text(hash, n) == [hash |-> hash, number |-> n]

\* The rest of a long comment is a text of its own, whatever is in it.
Texts ==
  IF AtEnd THEN {}
  ELSE IF inside THEN {Text(hash, n) : hash \in BOOLEAN, n \in Numbers \cup {NoNumber}}
  ELSE {Text(file[next].key = "#", file[next].number)}

\* The file position after a text was read.
Cut == ~ AtEnd /\ ~ inside /\ file[next].long
Advance ==
  /\ inside' = Cut
  /\ next' = IF AtEnd \/ Cut THEN next ELSE next + 1

IsComment_never(t) == FALSE
IsComment(t) == t.hash

SkipComment ==
  /\ reading < 4 /\ \E t \in Texts : IsComment(t)
  /\ Advance
  /\ UNCHANGED <<file, reading, stage, noOfRouters, noOfHops>>

-----------------------------------------------------------------------------
(* Stage1.cc: the settings.                                                *)

\* What a variable may hold once sscanf has had the next text that is no comment, or
\* nothing at the end of the file.
Scanned_always(old) ==
  IF AtEnd THEN {old} ELSE {t.number : t \in {x \in Texts : ~ IsComment(x)}}
Scanned(old) ==
  IF AtEnd THEN {old}
  ELSE {IF t.number = NoNumber THEN old ELSE t.number : t \in {x \in Texts : ~ IsComment(x)}}

ReadStage ==
  /\ reading = 1 /\ stage' \in Scanned(stage)
  /\ Advance
  /\ reading' = 2
  /\ UNCHANGED <<file, noOfRouters, noOfHops>>

ReadRouters ==
  /\ reading = 2 /\ noOfRouters' \in Scanned(noOfRouters)
  /\ Advance
  /\ reading' = IF stage > 4 THEN 3 ELSE 4
  /\ UNCHANGED <<file, stage, noOfHops>>

ReadHops ==
  /\ reading = 3 /\ noOfHops' \in Scanned(noOfHops)
  /\ Advance
  /\ reading' = 4
  /\ UNCHANGED <<file, stage, noOfRouters>>

Next == SkipComment \/ ReadStage \/ ReadRouters \/ ReadHops

Spec == Init /\ [][Next]_vars

-----------------------------------------------------------------------------
(* Properties.                                                             *)

\* The number the file gives to a setting; Unset when it has no line for it.
ValueOf(key) ==
  LET at == {k \in DOMAIN file : file[k].key = key} IN
  IF at = {} THEN Unset ELSE file[CHOOSE k \in at : TRUE].number

ReadAsWritten ==
  /\ stage = ValueOf("stage")
  /\ noOfRouters = ValueOf("num_routers")
  /\ noOfHops = IF stage > 4 THEN ValueOf("minitor_hops") ELSE Unset

\* Wherever comments stand in the file, and wherever it ends, the launcher gives
\* each variable the number of its own setting (Stage1.cc:46-61 never looks at the
\* key), as long as no comment is longer than what fgets takes.
LongComment == \E k \in DOMAIN file : file[k].long
ReadsTheSettings == reading = 4 /\ ~ LongComment => ReadAsWritten
=============================================================================
