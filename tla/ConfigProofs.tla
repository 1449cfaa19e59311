---------------------------- MODULE ConfigProofs ----------------------------
(***************************************************************************)
(* Proofs about Config, for all files, all settings that are asked for and *)
(* every width of an int.                                                  *)
(*                                                                         *)
(* Strtol is a recursive function.  That it is defined everywhere, and a   *)
(* natural number, is proved by induction on sets of natural numbers       *)
(* (NatSets).                                                              *)
(***************************************************************************)
EXTENDS Config, NatSets, SequenceTheorems, TLAPS

(* A line is looked at only while a setting is being read. *)
Reading == /\ pc = "line" => q <= Len(Queries) /\ line_no >= 1
           /\ pc = "parse" => q = 1 /\ line_no = 0 /\ map = <<>> /\ ~found_section
           /\ q > Len(Queries) => line_no = 0

(* How many lines this call of config_get has dealt with. *)
Passed == IF pc = "line" THEN line_no - 1 ELSE line_no

IsHeaderOf(h, query) == h \in Headers /\ file[h].name = query.section

(* What found_section says of the first m lines: the last header among     *)
(* them is the only one with the right name, and the key is not behind it. *)
InSection(m, query, h) ==
    /\ h \in 1 .. m /\ IsHeaderOf(h, query)
    /\ \A g \in Headers : g <= m => g <= h /\ (file[g].name = query.section => g = h)
    /\ \A n \in h + 1 .. m : file[n].shape = "pair" => file[n].name # query.key

LookedAt(m, query, found) ==
    IF found THEN \E h \in 1 .. m : InSection(m, query, h)
             ELSE \A h \in 1 .. m : ~IsHeaderOf(h, query)

Looked == map # <<>> /\ Clear /\ q <= Len(Queries) =>
             LookedAt(Passed, Queries[q], found_section)

ConfigInv == TypeOK /\ SavesBalanced /\ Reading /\ Looked /\ ClearFileUnderstood

-----------------------------------------------------------------------------
(* strtol and its conversion to int.                                       *)

LEMMA NumberExists ==
  ASSUME NEW v \in Seq(Nat)
  PROVE  \E g : g = [n \in 0 .. Len(v) |-> IF n = 0 THEN 0 ELSE 10 * g[n-1] + v[n]]
<1> DEFINE Upto(k, g) == /\ g \in [0 .. k -> Nat]
                         /\ \A n \in 0 .. k : g[n] = IF n = 0 THEN 0 ELSE 10 * g[n-1] + v[n]
           Some(k) == \E g : Upto(k, g)
           S == {k \in Nat : k <= Len(v) => Some(k)}
<1>0. Len(v) \in Nat
  BY LenProperties
<1>1. 0 \in S
  <2>1. Upto(0, [n \in 0 .. 0 |-> 0])
    OBVIOUS
  <2> QED BY <2>1
<1>2. ASSUME NEW k \in Nat, k \in S PROVE k + 1 \in S
  <2> HIDE DEF Some
  <2> SUFFICES ASSUME k + 1 <= Len(v) PROVE Some(k + 1)
    OBVIOUS
  <2>0. Some(k)
    BY <1>0, <1>2
  <2>1. PICK g : Upto(k, g)
    BY <2>0 DEF Some
  <2>2. v[k + 1] \in Nat
    BY <1>0, ElementOfSeq
  <2> DEFINE h == [n \in 0 .. k + 1 |-> IF n = k + 1 THEN 10 * g[k] + v[k + 1] ELSE g[n]]
  <2>3. h \in [0 .. k + 1 -> Nat]
    BY <2>1, <2>2
  <2>4. \A n \in 0 .. k : h[n] = g[n]
    OBVIOUS
  <2>5. h[k + 1] = 10 * g[k] + v[k + 1]
    OBVIOUS
  <2> HIDE DEF h
  <2>6. ASSUME NEW n \in 0 .. k + 1
        PROVE  h[n] = IF n = 0 THEN 0 ELSE 10 * h[n-1] + v[n]
    <3>1. CASE n = k + 1
      <4>1. k \in 0 .. k /\ n - 1 = k /\ n # 0
        BY <3>1
      <4> QED BY <2>4, <2>5, <3>1, <4>1
    <3>2. CASE n = 0
      BY <2>1, <2>4, <3>2
    <3>3. CASE n \in 1 .. k
      <4>1. n \in 0 .. k /\ n - 1 \in 0 .. k /\ n # 0
        BY <3>3
      <4>2. g[n] = 10 * g[n-1] + v[n]
        BY <2>1, <4>1
      <4> QED BY <2>4, <4>1, <4>2
    <3> QED BY <3>1, <3>2, <3>3
  <2>7. Upto(k + 1, h)
    BY <2>3, <2>6
  <2> QED BY <2>7 DEF Some
<1> HIDE DEF S
<1>3. Len(v) \in S
  BY <1>0, <1>1, <1>2, NatSetInduction
<1>4. PICK g : Upto(Len(v), g)
  BY <1>0, <1>3 DEF S, Some
<1>5. g = [n \in 0 .. Len(v) |-> IF n = 0 THEN 0 ELSE 10 * g[n-1] + v[n]]
  BY <1>4
<1> QED BY <1>5

LEMMA NumberType ==
  ASSUME NEW v \in Seq(Nat), NEW g,
         g = [n \in 0 .. Len(v) |-> IF n = 0 THEN 0 ELSE 10 * g[n-1] + v[n]]
  PROVE  \A n \in 0 .. Len(v) : g[n] \in Nat
<1> DEFINE S == {k \in Nat : k <= Len(v) => g[k] \in Nat}
<1>0. Len(v) \in Nat
  BY LenProperties
<1>1. \A n \in 0 .. Len(v) : g[n] = IF n = 0 THEN 0 ELSE 10 * g[n-1] + v[n]
  OBVIOUS
<1>2. 0 \in S
  BY <1>0, <1>1
<1>3. ASSUME NEW k \in Nat, k \in S PROVE k + 1 \in S
  <2> SUFFICES ASSUME k + 1 <= Len(v) PROVE g[k + 1] \in Nat
    OBVIOUS
  <2>1. v[k + 1] \in Nat
    BY <1>0, ElementOfSeq
  <2>2. g[k] \in Nat
    BY <1>0, <1>3
  <2>3. k + 1 \in 0 .. Len(v) /\ k + 1 # 0 /\ (k + 1) - 1 = k
    BY <1>0
  <2>4. g[k + 1] = 10 * g[k] + v[k + 1]
    BY <1>1, <2>3
  <2> QED BY <2>1, <2>2, <2>4
<1> HIDE DEF S
<1>4. \A n \in Nat : n \in S
  BY <1>2, <1>3, NatSetInduction
<1> QED BY <1>0, <1>4 DEF S

LEMMA StrtolType ==
  ASSUME NEW value \in Seq(Nat)
  PROVE  Strtol(value) \in Nat
<1> DEFINE digits == {n \in 0 .. Len(value) : \A k \in 1 .. n : value[k] < 10}
           number == CHOOSE g : g = [n \in 0 .. Len(value) |->
                                       IF n = 0 THEN 0 ELSE 10 * g[n-1] + value[n]]
<1>0. Len(value) \in Nat
  BY LenProperties
<1>1. Strtol(value) = number[Max(digits)]
  BY DEF Strtol
<1>2. number = [n \in 0 .. Len(value) |-> IF n = 0 THEN 0 ELSE 10 * number[n-1] + value[n]]
  BY NumberExists
<1>3. 0 \in digits /\ digits \in SUBSET (0 .. Len(value))
  BY <1>0
<1> HIDE DEF digits, number
<1>4. Max(digits) \in 0 .. Len(value)
  BY <1>0, <1>3, GreatestElement
<1>5. number[Max(digits)] \in Nat
  BY <1>2, <1>4, NumberType
<1> QED BY <1>1, <1>5

LEMMA Remainder ==
  ASSUME NEW n \in Int, NEW k \in Nat \ {0}
  PROVE  /\ n % k \in 0 .. k - 1
         /\ n \in 0 .. k - 1 => n % k = n
  OBVIOUS

LEMMA AsIntType ==
  ASSUME NEW n \in Nat
  PROVE  /\ AsInt(n) \in Ints
         /\ n <= IntMax => AsInt(n) = n
<1> DEFINE k == 2 * (IntMax + 1)
           m == n + IntMax + 1
<1>1. k \in Nat \ {0} /\ m \in Int /\ IntMax \in Nat
  BY ConfigAssumption
<1>2. n <= IntMax => m \in 0 .. k - 1
  BY <1>1
<1>3. AsInt(n) = (m % k) - (IntMax + 1) /\ k = 2 * (IntMax + 1) /\ m = n + IntMax + 1
  BY DEF AsInt
<1> HIDE DEF k, m
<1>4. m % k \in 0 .. k - 1 /\ (n <= IntMax => m % k = m)
  BY <1>1, <1>2, Remainder
<1> QED BY <1>1, <1>3, <1>4 DEF Ints

-----------------------------------------------------------------------------
(* Types, and the balance of saves.                                        *)

LEMMA QueryTypes ==
  ASSUME NEW k \in 1 .. Len(Queries)
  PROVE  /\ Queries[k].section \in Seq(Nat) /\ Queries[k].key \in Seq(Nat)
         /\ Queries[k].default \in Ints
<1>1. Queries[k] \in [section : Seq(Nat), key : Seq(Nat), default : Ints]
  BY ConfigAssumption, ElementOfSeq
<1> QED BY <1>1

LEMMA Bounds == Len(Queries) \in Nat /\ DOMAIN Queries = 1 .. Len(Queries) /\ 0 \in Ints
  BY ConfigAssumption, LenProperties DEF Ints

LEMMA LineTypes ==
  ASSUME NEW l \in Lines
  PROVE  /\ l.shape \in Shapes /\ l.name \in Seq(Nat) /\ l.value \in Seq(Nat)
         /\ l.shape = "spaced" => l.value # <<>>
  BY ConfigAssumption

LEMMA ValuesType ==
  ASSUME NEW l \in Lines, NEW value \in Values(l)
  PROVE  value \in Seq(Nat)
<1>1. l.shape = "spaced" => Tail(l.value) \in Seq(Nat)
  BY LineTypes, HeadTailProperties
<1>2. <<>> \in Seq(Nat) /\ <<10>> \in Seq(Nat)
  OBVIOUS
<1>3. (IF l.shape = "spaced" THEN Tail(l.value) ELSE l.value) \in Seq(Nat)
  BY <1>1, LineTypes
<1> QED BY <1>2, <1>3 DEF Values, RestOfFile

(* The ways through a turn of the loop: the line is passed over and the    *)
(* loop goes on, or config_get returns.                                    *)
GoesOn == /\ pc = "line" /\ pc' = "scan" /\ depth > 0 /\ depth' = depth - 1
          /\ UNCHANGED <<config, q, line_no, settings>>

Returns(number) == /\ pc = "line" /\ depth > 0 /\ depth' = depth - 1
                   /\ UNCHANGED config
                   /\ Answer(number)

LEMMA TurnCases ==
  ASSUME TypeOK, Reading, Next
  PROVE  \/ Parse \/ ParseFails \/ SkipLine \/ CopyLine \/ EndOfFile \/ Delete \/ Deleted
         \/ GoesOn /\ found_section' \in BOOLEAN
         \/ \E number \in Ints : Returns(number)
<1>1. CASE IgnoreLine \/ OtherKey
  BY <1>1 DEF IgnoreLine, OtherKey, Turn, Restore, Continue, GoesOn, TypeOK
<1>2. CASE ReadSection
  <2>1. found_section' \in BOOLEAN
    BY <1>2 DEF ReadSection, NameMatches, IsPrefix
  <2> QED BY <1>2, <2>1 DEF ReadSection, Turn, Restore, Continue, GoesOn
<1>3. CASE UnclosedSection \/ SectionOver \/ BareLine
  <2>1. Returns(0)
    BY <1>3 DEF UnclosedSection, SectionOver, BareLine, Turn, Restore, Returns, Null
  <2> QED BY <2>1, Bounds
<1>4. CASE Found
  <2>1. PICK value \in Values(line) : Answer(AsInt(Strtol(value)))
    BY <1>4 DEF Found
  <2>2. pc = "line" /\ line \in Lines
    <3>1. pc = "line"
      BY <1>4 DEF Found, Turn
    <3>2. line_no \in 1 .. Len(map) /\ map \in Seq(Lines)
      BY <3>1, EmptySeq DEF TypeOK, Reading
    <3> QED BY <3>1, <3>2, ElementOfSeq DEF line
  <2>3. AsInt(Strtol(value)) \in Ints
    BY <2>2, ValuesType, StrtolType, AsIntType
  <2>4. Returns(AsInt(Strtol(value)))
    BY <1>4, <2>1 DEF Found, Turn, Restore, Returns
  <2> QED BY <2>3, <2>4
<1> QED BY <1>1, <1>2, <1>3, <1>4 DEF Next, Scan

LEMMA AnswerTyped ==
  ASSUME TypeOK, q <= Len(Queries), NEW number \in Ints, Answer(number)
  PROVE  /\ settings' \in Seq(Ints) /\ Len(settings') = q' - 1
         /\ q' \in 1 .. Len(Queries) + 1 /\ q' = q + 1
         /\ line_no' = 0 /\ found_section' = FALSE /\ pc' = "scan"
<1>1. q \in 1 .. Len(Queries) /\ Len(settings) = q - 1 /\ settings \in Seq(Ints)
  BY Bounds DEF TypeOK
<1>2. Setting(number) \in Ints
  BY <1>1, QueryTypes DEF Setting
<1>3. settings' = Append(settings, Setting(number)) /\ q' = q + 1
  BY DEF Answer
<1>4. settings' \in Seq(Ints) /\ Len(settings') = Len(settings) + 1
  BY <1>1, <1>2, <1>3, AppendProperties
<1> QED BY <1>1, <1>3, <1>4, Bounds DEF Answer

LEMMA TypeStep ==
  ASSUME TypeOK, Reading, [Next]_vars
  PROVE  TypeOK' /\ Reading'
<1>0. /\ Len(map) \in Nat /\ Len(file) \in Nat /\ line_no \in Nat /\ q \in Nat /\ depth \in Nat
      /\ Len(Queries) \in Nat /\ MaxDepth \in Nat
  BY LenProperties, EmptySeq, Bounds, ConfigAssumption DEF TypeOK
<1>1. CASE UNCHANGED vars \/ Deleted
  BY <1>1 DEF TypeOK, Reading, vars, Deleted
<1>2. CASE Parse
  <2>1. /\ map' = file /\ open' = TRUE /\ pc' = "scan"
        /\ UNCHANGED <<file, ended, q, line_no, found_section, depth, settings>>
        /\ pc = "parse"
    BY <1>2 DEF Parse
  <2>2. line_no' \in 0 .. Len(map') /\ line_no' = 0
    BY <1>0, <2>1 DEF Reading
  <2> QED BY <2>1, <2>2 DEF TypeOK, Reading
<1>3. CASE ParseFails
  BY <1>3 DEF TypeOK, Reading, ParseFails, config
<1>4. CASE SkipLine \/ CopyLine
  <2>1. /\ pc = "scan" /\ q <= Len(Queries) /\ LineThere /\ line_no' = line_no + 1
        /\ UNCHANGED <<file, ended, map, open, q, found_section, settings>>
        /\ pc' \in {"scan", "line"}
        /\ depth' \in 0 .. MaxDepth
    BY <1>4, <1>0 DEF SkipLine, CopyLine, PastLine, config, TypeOK
  <2>2. line_no' \in 1 .. Len(map')
    BY <1>0, <2>1 DEF LineThere
  <2>3. line_no' \in 0 .. Len(map') /\ line_no' >= 1
    BY <2>2
  <2> QED BY <1>0, <2>1, <2>3 DEF TypeOK, Reading
<1>5. CASE GoesOn /\ found_section' \in BOOLEAN
  <2>1. /\ UNCHANGED <<file, ended, map, open, q, line_no, settings>>
        /\ depth' \in 0 .. MaxDepth /\ pc = "line" /\ pc' = "scan" /\ found_section' \in BOOLEAN
    BY <1>5, <1>0 DEF GoesOn, config, TypeOK
  <2>2. TypeOK'
    BY <2>1 DEF TypeOK
  <2> QED BY <1>0, <2>1, <2>2 DEF Reading
<1>6. CASE \E number \in Ints : Returns(number)
  <2>1. PICK number \in Ints : Returns(number)
    BY <1>6
  <2>2. /\ UNCHANGED <<file, ended, map, open>> /\ pc = "line"
        /\ depth' \in 0 .. MaxDepth /\ Answer(number)
    BY <2>1, <1>0 DEF Returns, config, TypeOK
  <2>3. q <= Len(Queries)
    BY <2>2 DEF Reading
  <2>4. /\ settings' \in Seq(Ints) /\ Len(settings') = q' - 1 /\ q' \in 1 .. Len(Queries) + 1
        /\ line_no' = 0 /\ found_section' = FALSE /\ pc' = "scan"
    BY <2>2, <2>3, AnswerTyped
  <2>5. line_no' \in 0 .. Len(map')
    BY <1>0, <2>2, <2>4
  <2> QED BY <2>2, <2>4, <2>5 DEF TypeOK, Reading
<1>7. CASE EndOfFile
  <2>1. /\ UNCHANGED <<file, ended, map, open, depth>> /\ q <= Len(Queries) /\ Answer(0)
    BY <1>7 DEF EndOfFile, config, Null
  <2>2. /\ settings' \in Seq(Ints) /\ Len(settings') = q' - 1 /\ q' \in 1 .. Len(Queries) + 1
        /\ line_no' = 0 /\ found_section' = FALSE /\ pc' = "scan"
    BY <2>1, Bounds, AnswerTyped
  <2>3. line_no' \in 0 .. Len(map')
    BY <1>0, <2>1, <2>2
  <2> QED BY <2>1, <2>2, <2>3 DEF TypeOK, Reading
<1>8. CASE Delete
  <2>1. /\ open' = FALSE /\ map' = <<>> /\ pc' = "deleted"
        /\ UNCHANGED <<file, ended, q, line_no, found_section, depth, settings>>
        /\ line_no = 0
    BY <1>8 DEF Delete, Reading
  <2>2. line_no' \in 0 .. Len(map')
    BY <2>1, EmptySeq
  <2>3. TypeOK'
    BY <2>1, <2>2 DEF TypeOK
  <2> QED BY <2>1, <2>3 DEF Reading
<1> QED BY <1>1, <1>2, <1>3, <1>4, <1>5, <1>6, <1>7, <1>8, TurnCases

LEMMA InitTypes == Init => TypeOK /\ Reading /\ SavesBalanced
<1> SUFFICES ASSUME Init PROVE TypeOK /\ Reading /\ SavesBalanced
  OBVIOUS
<1>1. file \in Seq(Lines)
  BY ConfigAssumption, SeqDef DEF Init, BoundedSeq, SeqOf
<1>2. Len(Queries) \in Nat /\ MaxDepth \in Nat
  BY Bounds, ConfigAssumption
<1>3. settings \in Seq(Ints) /\ Len(settings) = q - 1 /\ line_no \in 0 .. Len(map)
  BY EmptySeq DEF Init
<1>4. /\ ended \in BOOLEAN /\ map = <<>> /\ open = FALSE /\ found_section = FALSE
      /\ q = 1 /\ depth = 0 /\ pc = "parse"
  BY DEF Init
<1>5. q \in 1 .. Len(Queries) + 1 /\ depth \in 0 .. MaxDepth
  BY <1>2, <1>4
<1>6. TypeOK
  BY <1>1, <1>3, <1>4, <1>5 DEF TypeOK
<1> QED BY <1>2, <1>6 DEF Init, Reading, SavesBalanced

(* The scan of config_get never leaves the file, whatever is in it, the    *)
(* saves never leave their array, and main's settings are ints.            *)
THEOREM ConfigTypes == Spec => []TypeOK
<1>1. Init => TypeOK /\ Reading
  BY InitTypes
<1>2. TypeOK /\ Reading /\ [Next]_vars => TypeOK' /\ Reading'
  BY TypeStep
<1> QED BY <1>1, <1>2, PTL DEF Spec

LEMMA BalanceStep ==
  ASSUME SavesBalanced, [Next]_vars
  PROVE  SavesBalanced'
<1>1. CASE Parse \/ ParseFails \/ SkipLine \/ Delete \/ Deleted \/ UNCHANGED vars
  BY <1>1 DEF SavesBalanced, Parse, ParseFails, SkipLine, Delete, Deleted, vars
<1>2. CASE CopyLine \/ EndOfFile
  BY <1>2 DEF SavesBalanced, CopyLine, EndOfFile, Answer
<1>3. CASE IgnoreLine \/ ReadSection \/ OtherKey
  BY <1>3 DEF SavesBalanced, IgnoreLine, ReadSection, OtherKey, Turn, Restore, Continue
<1>4. CASE UnclosedSection \/ SectionOver \/ BareLine \/ Found
  BY <1>4 DEF SavesBalanced, UnclosedSection, SectionOver, BareLine, Found, Turn, Restore, Answer
<1> QED BY <1>1, <1>2, <1>3, <1>4 DEF Next, Scan

(* All seven ways out of a turn of config_get's loop undo the save that    *)
(* the turn began with: any number of calls leaves the pool as it was.     *)
THEOREM SavesUndone == Spec => []SavesBalanced
<1>1. Init => SavesBalanced
  BY InitTypes
<1>2. SavesBalanced /\ [Next]_vars => SavesBalanced'
  BY BalanceStep
<1> QED BY <1>1, <1>2, PTL DEF Spec

-----------------------------------------------------------------------------
(* A clear file, line by line.                                             *)

LEMMA HeadersInFile ==
  ASSUME TypeOK
  PROVE  /\ Len(file) \in Nat /\ DOMAIN file = 1 .. Len(file)
         /\ \A h \in Headers : h \in 1 .. Len(file) /\ file[h].shape = "section"
  BY LenProperties DEF TypeOK, Headers

LEMMA NothingLooked ==
  ASSUME NEW query
  PROVE  LookedAt(0, query, FALSE)
  BY DEF LookedAt

(* A line that is no header, and no pair with the key behind the header. *)
LEMMA PassLine ==
  ASSUME TypeOK, NEW m \in Nat, NEW query, NEW found \in BOOLEAN, LookedAt(m, query, found),
         m + 1 \in 1 .. Len(file), file[m + 1].shape # "section",
         found => ~(file[m + 1].shape = "pair" /\ file[m + 1].name = query.key)
  PROVE  LookedAt(m + 1, query, found)
<1>1. m + 1 \notin Headers
  BY DEF Headers
<1>2. CASE found
  <2>1. PICK h \in 1 .. m : InSection(m, query, h)
    BY <1>2 DEF LookedAt
  <2>2. h \in 1 .. m + 1 /\ IsHeaderOf(h, query)
    BY <2>1 DEF InSection
  <2>3. \A g \in Headers : g <= m + 1 => g <= h /\ (file[g].name = query.section => g = h)
    BY <1>1, <2>1, HeadersInFile DEF InSection
  <2>4. \A n \in h + 1 .. m + 1 : file[n].shape = "pair" => file[n].name # query.key
    BY <1>2, <2>1 DEF InSection
  <2>5. InSection(m + 1, query, h)
    BY <2>2, <2>3, <2>4 DEF InSection
  <2> QED BY <1>2, <2>2, <2>5 DEF LookedAt
<1>3. CASE ~found
  BY <1>1, <1>3 DEF LookedAt, IsHeaderOf
<1> QED BY <1>2, <1>3

LEMMA PassHeader ==
  ASSUME TypeOK, NEW m \in Nat, NEW query, LookedAt(m, query, FALSE),
         m + 1 \in 1 .. Len(file), file[m + 1].shape = "section",
         NEW found \in BOOLEAN, found <=> file[m + 1].name = query.section
  PROVE  LookedAt(m + 1, query, found)
<1>1. m + 1 \in Headers
  BY HeadersInFile DEF Headers
<1>2. \A h \in 1 .. m : ~IsHeaderOf(h, query)
  BY DEF LookedAt
<1>3. CASE found
  <2>1. IsHeaderOf(m + 1, query)
    BY <1>1, <1>3 DEF IsHeaderOf
  <2>2. \A g \in Headers : g <= m + 1 => g <= m + 1 /\ (file[g].name = query.section => g = m + 1)
    BY <1>2, HeadersInFile DEF IsHeaderOf
  <2>3. InSection(m + 1, query, m + 1)
    BY <2>1, <2>2 DEF InSection
  <2> QED BY <1>3, <2>3 DEF LookedAt
<1>4. CASE ~found
  BY <1>2, <1>4 DEF LookedAt, IsHeaderOf
<1> QED BY <1>3, <1>4

LEMMA NoCandidateBehind ==
  ASSUME TypeOK, NEW m \in Nat, NEW query, NEW h \in 1 .. m, InSection(m, query, h),
         NEW c \in Candidates(query)
  PROVE  c > m /\ \A g \in Headers : g < c => g <= h
<1>1. c \in 1 .. Len(file) /\ file[c].shape = "pair" /\ file[c].name = query.key
  BY HeadersInFile DEF Candidates
<1>2. PICK d \in Headers : /\ d < c /\ file[d].name = query.section
                           /\ \A g \in Headers : g < c =>
                                 g <= d /\ (file[g].name = query.section => g = d)
  BY DEF Candidates
<1>3. h \in Headers /\ file[h].name = query.section
  BY DEF InSection, IsHeaderOf
<1>4. d \in Int /\ c \in Int /\ h \in Int
  BY <1>1, <1>2, HeadersInFile
<1>5. d = h
  <2>1. CASE d <= m
    BY <1>2, <2>1 DEF InSection
  <2>2. CASE d > m
    BY <1>2, <1>3, <1>4, <2>2
  <2> QED BY <1>4, <2>1, <2>2
<1>6. c > m
  <2>1. ~(c \in h + 1 .. m)
    BY <1>1 DEF InSection
  <2> QED BY <1>2, <1>4, <1>5, <2>1
<1> QED BY <1>2, <1>5, <1>6

(* The pair that config_get stops at is the first candidate, *)
LEMMA StopsAtPair ==
  ASSUME TypeOK, NEW m \in Nat, NEW query, LookedAt(m, query, TRUE),
         m + 1 \in 1 .. Len(file), file[m + 1].shape = "pair", file[m + 1].name = query.key
  PROVE  Candidates(query) # {} /\ Min(Candidates(query)) = m + 1
<1>1. PICK h \in 1 .. m : InSection(m, query, h)
  BY DEF LookedAt
<1>2. \A c \in Candidates(query) : c > m
  BY <1>1, NoCandidateBehind
<1>3. m + 1 \in Candidates(query)
  <2>1. h \in Headers /\ file[h].name = query.section /\ h < m + 1
    BY <1>1 DEF InSection, IsHeaderOf
  <2>2. \A g \in Headers : g < m + 1 => g <= h /\ (file[g].name = query.section => g = h)
    BY <1>1, HeadersInFile DEF InSection
  <2> QED BY <2>1, <2>2, HeadersInFile DEF Candidates
<1>4. Candidates(query) \in SUBSET Int
  BY HeadersInFile DEF Candidates
<1>5. \A c \in Candidates(query) : m + 1 <= c
  BY <1>2, <1>4
<1> QED BY <1>3, <1>4, <1>5, LeastIsMin

(* and there is none when it stops at a header or at the end of the file.  *)
LEMMA StopsInVain ==
  ASSUME TypeOK, NEW m \in Nat, NEW query, NEW found \in BOOLEAN, LookedAt(m, query, found),
         \/ m = Len(file)
         \/ found /\ m + 1 \in 1 .. Len(file) /\ file[m + 1].shape = "section"
  PROVE  Candidates(query) = {}
<1> SUFFICES ASSUME NEW c \in Candidates(query) PROVE FALSE
  OBVIOUS
<1>1. c \in 1 .. Len(file) /\ file[c].shape = "pair"
  BY HeadersInFile DEF Candidates
<1>2. CASE found
  <2>1. PICK h \in 1 .. m : InSection(m, query, h)
    BY <1>2 DEF LookedAt
  <2>2. c > m /\ \A g \in Headers : g < c => g <= h
    BY <2>1, NoCandidateBehind
  <2>3. CASE m = Len(file)
    BY <1>1, <2>2, <2>3
  <2>4. CASE m + 1 \in 1 .. Len(file) /\ file[m + 1].shape = "section"
    <3>1. m + 1 \in Headers /\ c # m + 1
      BY <1>1, <2>4, HeadersInFile DEF Headers
    <3>2. m + 1 < c
      BY <1>1, <2>2, <3>1
    <3> QED BY <2>2, <3>1, <3>2
  <2> QED BY <2>3, <2>4
<1>3. CASE ~found
  <2>1. m = Len(file) /\ \A h \in 1 .. m : ~IsHeaderOf(h, query)
    BY <1>3 DEF LookedAt
  <2>2. PICK d \in Headers : file[d].name = query.section
    BY DEF Candidates
  <2> QED BY <2>1, <2>2, HeadersInFile DEF IsHeaderOf
<1> QED BY <1>2, <1>3

-----------------------------------------------------------------------------
(* The steps of the scan.                                                  *)

LEMMA FileKept ==
  ASSUME [Next]_vars
  PROVE  UNCHANGED <<file, ended>>
  BY DEF Next, Scan, vars, config, Parse, ParseFails, SkipLine, CopyLine, IgnoreLine, ReadSection,
         UnclosedSection, SectionOver, BareLine, OtherKey, Found, EndOfFile, Delete, Deleted, Turn

LEMMA SameMeaning ==
  ASSUME UNCHANGED <<file, ended>>
  PROVE  /\ Clear' <=> Clear
         /\ \A k : Meant(Queries[k])' = Meant(Queries[k])
         /\ \A m, query, found : LookedAt(m, query, found)' <=> LookedAt(m, query, found)
<1>1. Clear' <=> Clear
  BY DEF Clear
<1>2. Headers' = Headers
  BY DEF Headers
<1>3. ASSUME NEW k PROVE Meant(Queries[k])' = Meant(Queries[k])
  <2>1. Candidates(Queries[k])' = Candidates(Queries[k])
    BY <1>2 DEF Candidates
  <2> QED BY <2>1 DEF Meant
<1>4. ASSUME NEW m, NEW query, NEW found
      PROVE  LookedAt(m, query, found)' <=> LookedAt(m, query, found)
  BY <1>2 DEF LookedAt, InSection, IsHeaderOf
<1> QED BY <1>1, <1>3, <1>4

LEMMA LookedNext ==
  ASSUME UNCHANGED <<file, ended>>, NEW m, NEW k, NEW found,
         Passed' = m, q' = k, found_section' = found, LookedAt(m, Queries[k], found)
  PROVE  Looked'
<1>1. Headers' = Headers
  BY DEF Headers
<1>2. LookedAt(Passed, Queries[q], found_section)'
  BY <1>1 DEF LookedAt, InSection, IsHeaderOf
<1> QED BY <1>2 DEF Looked

(* An answer that a clear file means is one more setting that it means. *)
LEMMA AnswerMeant ==
  ASSUME TypeOK, q <= Len(Queries), UNCHANGED <<file, ended, map>>, ClearFileUnderstood,
         map # <<>>, NEW number \in Ints, Answer(number),
         Setting(number) = Meant(Queries[q])
  PROVE  ClearFileUnderstood'
<1> SUFFICES ASSUME Clear' PROVE \A k \in DOMAIN settings' : settings'[k] = Meant(Queries[k])'
  BY DEF ClearFileUnderstood
<1>1. Clear /\ \A k : Meant(Queries[k])' = Meant(Queries[k])
  BY SameMeaning
<1>2. \A k \in DOMAIN settings : settings[k] = Meant(Queries[k])
  BY <1>1 DEF ClearFileUnderstood
<1>3. q \in 1 .. Len(Queries) /\ Len(settings) = q - 1 /\ settings \in Seq(Ints)
  BY Bounds DEF TypeOK
<1>4. Setting(number) \in Ints
  BY <1>3, QueryTypes DEF Setting
<1>5. settings' = Append(settings, Setting(number))
  BY DEF Answer
<1>6. /\ DOMAIN settings' = 1 .. q /\ DOMAIN settings = 1 .. q - 1
      /\ \A k \in 1 .. q - 1 : settings'[k] = settings[k]
      /\ settings'[q] = Setting(number)
  <2>1. settings' \in Seq(Ints) /\ Len(settings') = Len(settings) + 1
    BY <1>3, <1>4, <1>5, AppendProperties
  <2>2. Len(settings') = q
    BY <1>3, <2>1
  <2>3. DOMAIN settings' = 1 .. q /\ DOMAIN settings = 1 .. q - 1
    BY <1>3, <2>1, <2>2, LenProperties
  <2>4. /\ \A k \in 1 .. Len(settings) : settings'[k] = settings[k]
        /\ settings'[Len(settings) + 1] = Setting(number)
    BY <1>3, <1>4, <1>5, AppendProperties
  <2> QED BY <1>3, <2>3, <2>4
<1>7. ASSUME NEW k \in 1 .. q PROVE settings'[k] = Meant(Queries[k])
  BY <1>2, <1>3, <1>6
<1> QED BY <1>1, <1>6, <1>7

(* What is known of the line that is looked at in a clear file. *)
LEMMA ClearLine ==
  ASSUME TypeOK, Clear, NEW n \in 1 .. Len(file), NEW k \in 1 .. Len(Queries)
  PROVE  /\ file[n] \in Lines /\ file[n].name \in Seq(Nat) /\ file[n].value \in Seq(Nat)
         /\ file[n].shape \in {"blank", "comment", "section", "pair"}
         /\ file[n].shape = "pair" => file[n].value # <<>> /\ Strtol(file[n].value) <= IntMax
         /\ file[n].shape = "section" =>
               (NameMatches(file[n].name, Queries[k].section) <=> file[n].name = Queries[k].section)
         /\ file[n].shape = "pair" =>
               (NameMatches(file[n].name, Queries[k].key) <=> file[n].name = Queries[k].key)
<1>1. file[n] \in Lines /\ n \in DOMAIN file /\ k \in DOMAIN Queries
  BY ElementOfSeq, HeadersInFile, Bounds DEF TypeOK
<1>2. file[n].name \in Seq(Nat) /\ file[n].value \in Seq(Nat)
  BY <1>1, LineTypes
<1>3. \A s \in Seq(Nat) : IsPrefix(s, s)
  BY LenProperties DEF IsPrefix
<1>4. /\ file[n].shape \in {"blank", "comment", "section", "pair"}
      /\ file[n].shape = "pair" => file[n].value # <<>> /\ Strtol(file[n].value) <= IntMax
      /\ \A wanted \in {Queries[k].section, Queries[k].key} :
            IsPrefix(file[n].name, wanted) =>
               file[n].name = wanted \/ file[n].shape \in {"blank", "comment"}
  BY <1>1 DEF Clear
<1> QED BY <1>1, <1>2, <1>3, <1>4 DEF NameMatches

LEMMA LookedStep ==
  ASSUME TypeOK, Reading, Looked, ClearFileUnderstood, [Next]_vars
  PROVE  Looked' /\ ClearFileUnderstood'
<1>0. UNCHANGED <<file, ended>>
  BY FileKept
<1>1. SUFFICES ASSUME map' # <<>>, Clear PROVE Looked' /\ ClearFileUnderstood'
  <2>1. Clear' <=> Clear
    BY <1>0, SameMeaning
  <2> QED BY <2>1 DEF Looked, ClearFileUnderstood
<1>2. \A k : Meant(Queries[k])' = Meant(Queries[k])
  BY <1>0, SameMeaning
<1>3. /\ Len(file) \in Nat /\ Len(Queries) \in Nat /\ line_no \in Nat /\ q \in Nat /\ q >= 1
      /\ found_section \in BOOLEAN
  BY HeadersInFile, Bounds, LenProperties, EmptySeq DEF TypeOK
<1>4. CASE Parse
  <2>1. /\ Passed' = 0 /\ q' = 1 /\ found_section' = FALSE
        /\ DOMAIN settings' = {}
    <3>1. pc = "parse" /\ pc' = "scan" /\ UNCHANGED <<q, line_no, found_section, settings>>
      BY <1>4 DEF Parse
    <3>2. q = 1 /\ line_no = 0 /\ found_section = FALSE
      BY <1>3, <3>1 DEF Reading
    <3>3. settings \in Seq(Ints) /\ Len(settings) = 0
      BY <3>2 DEF TypeOK
    <3>4. DOMAIN settings = {}
      BY <3>3, LenProperties
    <3> QED BY <3>1, <3>2, <3>4 DEF Passed
  <2>2. Looked'
    BY <1>0, <2>1, NothingLooked, LookedNext
  <2> QED BY <2>1, <2>2 DEF ClearFileUnderstood
<1>5. CASE ParseFails \/ Delete
  <2>1. map' = <<>>
    BY <1>5 DEF ParseFails, Delete, Reading, config
  <2> QED BY <1>1, <2>1
<1>6. CASE UNCHANGED vars \/ Deleted
  <2>1. /\ UNCHANGED <<map, q, found_section, settings>> /\ Passed' = Passed
    BY <1>6 DEF vars, Deleted, Passed
  <2>2. ClearFileUnderstood'
    BY <1>1, <1>2, <2>1 DEF ClearFileUnderstood
  <2>3. CASE q <= Len(Queries)
    <3>1. LookedAt(Passed, Queries[q], found_section)
      BY <1>1, <2>1, <2>3 DEF Looked
    <3>2. Looked'
      BY <1>0, <2>1, <3>1, LookedNext
    <3> QED BY <2>2, <3>2
  <2>4. CASE ~(q <= Len(Queries))
    BY <2>1, <2>2, <2>4 DEF Looked
  <2> QED BY <2>3, <2>4
<1>7. CASE Scan
  <2>1. /\ UNCHANGED <<map, open>> /\ q <= Len(Queries)
        /\ pc \in {"scan", "line"}
        /\ pc = "line" => line_no \in 1 .. Len(file)
    <3>1. UNCHANGED <<map, open>> /\ pc \in {"scan", "line"} /\ (pc = "scan" => q <= Len(Queries))
      BY <1>7 DEF Scan, config, SkipLine, CopyLine, IgnoreLine, ReadSection,
         UnclosedSection, SectionOver, BareLine, OtherKey, Found, EndOfFile, Turn
    <3>2. map = file
      BY <1>1, <3>1 DEF TypeOK
    <3> QED BY <1>3, <3>1, <3>2 DEF Reading, TypeOK
  <2>2. map = file /\ map # <<>>
    BY <1>1, <2>1 DEF TypeOK
  <2>3. LookedAt(Passed, Queries[q], found_section)
    BY <1>1, <2>1, <2>2 DEF Looked
  <2>4. q \in 1 .. Len(Queries)
    BY <1>3, <2>1
  <2>5. UNCHANGED settings => ClearFileUnderstood'
    BY <1>1, <1>2, <2>2 DEF ClearFileUnderstood
  <2>6. CASE SkipLine
    <3>1. /\ pc = "scan" /\ line_no' = line_no + 1 /\ LineThere
          /\ file[line_no + 1].shape \in {"blank", "comment"}
          /\ UNCHANGED <<q, found_section, settings, pc>>
      BY <2>2, <2>6 DEF SkipLine, PastLine
    <3>2. line_no + 1 \in 1 .. Len(file) /\ Passed = line_no /\ Passed' = line_no + 1
      BY <1>3, <2>2, <3>1 DEF LineThere, Passed
    <3>3. LookedAt(line_no + 1, Queries[q], found_section)
      BY <1>3, <2>3, <3>1, <3>2, PassLine
    <3>4. Looked'
      BY <1>0, <3>1, <3>2, <3>3, LookedNext
    <3> QED BY <2>5, <3>1, <3>4
  <2>7. CASE CopyLine
    <3>1. /\ pc = "scan" /\ pc' = "line" /\ line_no' = line_no + 1
          /\ UNCHANGED <<q, found_section, settings>>
      BY <2>7 DEF CopyLine, PastLine
    <3>2. Passed' = Passed
      BY <1>3, <3>1 DEF Passed
    <3>3. Looked'
      BY <1>0, <2>3, <3>1, <3>2, LookedNext
    <3> QED BY <2>5, <3>1, <3>3
  <2>8. CASE EndOfFile
    <3>1. pc = "scan" /\ ~LineThere /\ Answer(0)
      BY <2>8 DEF EndOfFile, Null
    <3>2. Passed = Len(file)
      BY <1>1, <1>3, <2>2, <3>1 DEF LineThere, Passed, Clear, TypeOK
    <3>3. Candidates(Queries[q]) = {}
      BY <1>3, <2>3, <3>2, StopsInVain
    <3>4. Setting(0) = Meant(Queries[q])
      BY <3>3 DEF Setting, Meant
    <3>5. ClearFileUnderstood'
      BY <1>0, <2>1, <2>2, <3>1, <3>4, Bounds, AnswerMeant
    <3>6. Passed' = 0 /\ found_section' = FALSE
      BY <3>1 DEF Answer, Passed
    <3>7. Looked'
      BY <1>0, <3>6, NothingLooked, LookedNext
    <3> QED BY <3>5, <3>7
  <2>9. CASE pc = "line"
    <3>1. line = file[line_no] /\ line_no \in 1 .. Len(file) /\ Passed = line_no - 1
      BY <2>1, <2>2, <2>9 DEF line, Passed
    <3> DEFINE m == line_no - 1
    <3>2. m \in Nat /\ m + 1 = line_no /\ Passed = m
      BY <1>3, <3>1
    <3>3. /\ line \in Lines /\ line.name \in Seq(Nat) /\ line.value \in Seq(Nat)
          /\ line.shape \in {"blank", "comment", "section", "pair"}
          /\ line.shape = "pair" => line.value # <<>> /\ Strtol(line.value) <= IntMax
          /\ line.shape = "section" =>
                (NameMatches(line.name, Queries[q].section) <=> line.name = Queries[q].section)
          /\ line.shape = "pair" =>
                (NameMatches(line.name, Queries[q].key) <=> line.name = Queries[q].key)
      BY <1>1, <2>4, <3>1, ClearLine
    <3>4. LookedAt(m, Queries[q], found_section)
      BY <2>3, <3>2
    <3>5. m + 1 \in 1 .. Len(file) /\ file[m + 1] = line
      BY <3>1, <3>2
    <3>6. pc' = "scan" /\ line_no' = line_no => Passed' = m + 1
      BY <3>2 DEF Passed
    <3> HIDE DEF m
    <3>7. CASE IgnoreLine \/ OtherKey
      <4>1. /\ line.shape = "pair" /\ pc' = "scan"
            /\ UNCHANGED <<q, line_no, settings, found_section>>
            /\ found_section => line.name # Queries[q].key
        BY <3>3, <3>7 DEF IgnoreLine, OtherKey, Turn, Continue
      <4>2. LookedAt(m + 1, Queries[q], found_section)
        BY <1>3, <3>2, <3>4, <3>5, <4>1, PassLine
      <4>3. Looked'
        BY <1>0, <3>6, <4>1, <4>2, LookedNext
      <4> QED BY <2>5, <4>1, <4>3
    <3>8. CASE ReadSection
      <4>1. /\ line.shape = "section" /\ pc' = "scan" /\ ~found_section
            /\ UNCHANGED <<q, line_no, settings>>
            /\ found_section' = NameMatches(line.name, Queries[q].section)
        BY <3>8 DEF ReadSection, Turn, Continue
      <4>2. found_section' \in BOOLEAN /\ (found_section' <=> line.name = Queries[q].section)
        BY <3>3, <4>1 DEF NameMatches, IsPrefix
      <4>3. PICK found \in BOOLEAN : found_section' = found
        BY <4>2
      <4>4. LookedAt(m, Queries[q], FALSE)
        BY <1>3, <3>4, <4>1
      <4>5. LookedAt(m + 1, Queries[q], found)
        BY <3>2, <3>5, <4>1, <4>2, <4>3, <4>4, PassHeader
      <4>6. Looked'
        BY <1>0, <3>6, <4>1, <4>3, <4>5, LookedNext
      <4> QED BY <2>5, <4>1, <4>6
    <3>9. CASE UnclosedSection \/ BareLine
      BY <3>3, <3>9 DEF UnclosedSection, BareLine, Turn
    <3>10. CASE SectionOver \/ Found
      <4>1. PICK number \in Ints : Answer(number) /\ Setting(number) = Meant(Queries[q])
        <5>1. CASE SectionOver
          <6>1. line.shape = "section" /\ found_section /\ Answer(0)
            BY <3>3, <5>1 DEF SectionOver, Turn, Null
          <6>2. Candidates(Queries[q]) = {}
            BY <1>3, <3>2, <3>4, <3>5, <6>1, StopsInVain
          <6>3. Setting(0) = Meant(Queries[q])
            BY <6>2 DEF Setting, Meant
          <6> QED BY <6>1, <6>3, Bounds
        <5>2. CASE Found
          <6>1. /\ line.shape = "pair" /\ found_section
                /\ line.name = Queries[q].key
                /\ \E value \in Values(line) : Answer(AsInt(Strtol(value)))
            BY <3>3, <5>2 DEF Found, Turn
          <6>2. Values(line) = {line.value}
            BY <3>3, <6>1 DEF Values
          <6>3. Strtol(line.value) \in Nat /\ Strtol(line.value) <= IntMax
            BY <3>3, <6>1, StrtolType
          <6>4. Answer(Strtol(line.value)) /\ Strtol(line.value) \in Ints
            BY <6>1, <6>2, <6>3, AsIntType
          <6>5. LookedAt(m, Queries[q], TRUE)
            BY <1>3, <3>4, <6>1
          <6>6. Candidates(Queries[q]) # {} /\ Min(Candidates(Queries[q])) = m + 1
            BY <3>2, <3>5, <6>1, <6>5, StopsAtPair
          <6>7. Setting(Strtol(line.value)) = Meant(Queries[q])
            BY <3>5, <6>6 DEF Setting, Meant
          <6> QED BY <6>4, <6>7
        <5> QED BY <3>10, <5>1, <5>2
      <4>2. ClearFileUnderstood'
        BY <1>0, <2>1, <2>2, <4>1, AnswerMeant
      <4>3. Passed' = 0 /\ found_section' = FALSE
        BY <4>1 DEF Answer, Passed
      <4>4. Looked'
        BY <1>0, <4>3, NothingLooked, LookedNext
      <4> QED BY <4>2, <4>4
    <3> QED BY <1>7, <2>6, <2>7, <2>8, <3>7, <3>8, <3>9, <3>10 DEF Scan
  <2>10. pc = "line" \/ SkipLine \/ CopyLine \/ EndOfFile
    BY <1>7 DEF Scan, IgnoreLine, ReadSection, UnclosedSection, SectionOver, BareLine, OtherKey,
                Found, Turn
  <2> QED BY <2>6, <2>7, <2>8, <2>9, <2>10
<1> QED BY <1>4, <1>5, <1>6, <1>7 DEF Next

LEMMA InitLooked == Init => Looked /\ ClearFileUnderstood
  BY DEF Init, Looked, ClearFileUnderstood

(* The inductive invariant of the whole module. *)
THEOREM ConfigInvariant == Spec => []ConfigInv
<1>1. Init => ConfigInv
  BY InitTypes, InitLooked DEF ConfigInv
<1>2. ConfigInv /\ [Next]_vars => ConfigInv'
  BY TypeStep, BalanceStep, LookedStep DEF ConfigInv
<1> QED BY <1>1, <1>2, PTL DEF Spec

(* Of every file that says what it means, of any length, main gets what    *)
(* the file says: the first pair with the key in the first section of the  *)
(* name, or the default.                                                   *)
THEOREM ClearFilesUnderstood == Spec => []ClearFileUnderstood
<1>1. ConfigInv => ClearFileUnderstood
  BY DEF ConfigInv
<1> QED BY <1>1, ConfigInvariant, PTL
=============================================================================
