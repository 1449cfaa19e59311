------------------------------- MODULE Config -------------------------------
(***************************************************************************)
(* foxtails.conf: config_parse maps the file, config_get of utils/config.c *)
(* scans it from its beginning for each setting that main asks for, and    *)
(* config_get_int makes a number of what it finds.  routes_parse and       *)
(* get_path use the same scanner and the same memory pool.                 *)
(*                                                                         *)
(* Names and values are sequences of characters, because they are compared *)
(* by prefix and cut; a character below ten is a digit.  A line is known   *)
(* by its shape:                                                           *)
(*   blank, comment         an empty line, or one that begins with '#'     *)
(*   section, unclosed      [name], and [name without the bracket          *)
(*   pair                   name=value, with or without spaces             *)
(*   spaced                 name value, without '='; an indented line has  *)
(*                          an empty name                                  *)
(*   bare                   a name without space or '='                    *)
(*   dangling               a name and spaces                              *)
(***************************************************************************)
EXTENDS Integers, SequencesExt

CONSTANTS Lines,    \* the lines that files are made of
          MaxLines, \* the length of a file
          Queries,  \* main's settings, in order: section, key and default
          MaxDepth, \* CPOOL_MAX_SAVE_DEPTH: 8
          IntMax    \* INT_MAX: 2^31 - 1

Shapes == {"blank", "comment", "section", "unclosed",
           "pair", "spaced", "bare", "dangling"}

(* The values of an int. *)
Ints == -(IntMax + 1) .. IntMax

ASSUME ConfigAssumption ==
    /\ \A l \in Lines : /\ l.shape \in Shapes
                        /\ {l.name, l.value} \subseteq Seq(Nat)
                        /\ l.shape = "spaced" => l.value # <<>>
    /\ MaxLines \in Nat /\ MaxDepth \in Nat \ {0} /\ IntMax \in Nat
    /\ Queries \in Seq([section : Seq(Nat), key : Seq(Nat), default : Ints])

VARIABLES file,          \* the lines of foxtails.conf
          ended,         \* the last of them ends with a newline
          map,           \* what config_parse has mapped: a sequence of lines
          open,          \* config_parse's descriptor is open
          q,             \* the setting that is being read
          line_no,       \* lines read by this call of config_get
          found_section, \* found_section
          depth,         \* snapshot_end of the memory pool
          settings,      \* the values that main has so far
          pc             \* where main is

vars == <<file, ended, map, open, q, line_no, found_section, depth, settings, pc>>
config == <<file, ended, map, open>>

Init == /\ file \in BoundedSeq(Lines, MaxLines)
        /\ ended \in BOOLEAN
        /\ map = <<>> /\ open = FALSE
        /\ q = 1
        /\ line_no = 0 /\ found_section = FALSE
        /\ depth = 0
        /\ settings = <<>>
        /\ pc = "parse"

-----------------------------------------------------------------------------
(* Mutated forms: each is an operation below with one mistake in it, kept  *)
(* to show that the properties can tell the difference.  No specification  *)
(* uses them.                                                              *)

(* strncmp with the length of the wanted name. *)
NameMatchesLonger(name, wanted) == IsPrefix(wanted, name)

(* line_start is moved once more at the end of the turn. *)
PastLineTwice == line_no + 2

-----------------------------------------------------------------------------
(* config_parse.                                                           *)

Parse == /\ pc = "parse"
         /\ file # <<>>
         /\ map' = file
         /\ open' = TRUE
         /\ pc' = "scan"
         /\ UNCHANGED <<file, ended, q, line_no, found_section, depth, settings>>

(* The file is missing or empty, fstat or mmap fails: the descriptor is    *)
(* closed again and the configuration is that of an empty file.            *)
ParseFails == /\ pc = "parse"
              /\ pc' = "scan"
              /\ UNCHANGED <<config, q, line_no, found_section, depth, settings>>

-----------------------------------------------------------------------------
(* config_get_int, and its caller's default for zero.                      *)

(* strtol reads the digits in front; the result is cut to an int. *)
Strtol(value) ==
    LET digits == {n \in 0 .. Len(value) : \A k \in 1 .. n : value[k] < 10}
        number[n \in 0 .. Len(value)] ==
            IF n = 0 THEN 0 ELSE 10 * number[n-1] + value[n]
    IN  number[Max(digits)]

AsInt(n) == ((n + IntMax + 1) % (2 * (IntMax + 1))) - (IntMax + 1)

Setting(number) == IF number = 0 THEN Queries[q].default ELSE number

-----------------------------------------------------------------------------
(* config_get: one turn of the loop, or the end of it.                     *)

(* memchr finds no newline behind the last line: it is not read. *)
LineThere == line_no + 1 <= Len(map) - (IF ended THEN 0 ELSE 1)

PastLine == line_no + 1

(* strncmp with the length of the name in the file. *)
NameMatches(name, wanted) == IsPrefix(name, wanted)

(* Mutated: continue without line_start = line_end + 1. *)
SkipLineStuck == /\ pc = "scan" /\ q <= Len(Queries) /\ LineThere
                 /\ map[line_no + 1].shape \in {"blank", "comment"}
                 /\ UNCHANGED vars

SkipLine == /\ pc = "scan" /\ q <= Len(Queries) /\ LineThere
            /\ map[line_no + 1].shape \in {"blank", "comment"}
            /\ line_no' = PastLine
            /\ UNCHANGED <<config, q, found_section, depth, settings, pc>>

(* Any other line is copied into the pool, behind a snapshot ... *)
CopyLine == /\ pc = "scan" /\ q <= Len(Queries) /\ LineThere
            /\ map[line_no + 1].shape \notin {"blank", "comment"}
            /\ depth < MaxDepth
            /\ depth' = depth + 1
            /\ line_no' = PastLine
            /\ pc' = "line"
            /\ UNCHANGED <<config, q, found_section, settings>>

(* ... and looked at. *)
line == map[line_no]

Turn(shapes) == pc = "line" /\ line.shape \in shapes /\ UNCHANGED config

(* cpool_restore *)
Restore == depth > 0 /\ depth' = depth - 1

Continue == pc' = "scan" /\ UNCHANGED <<q, line_no, settings>>

(* The call is over, and main goes on to its next setting. *)
Answer(number) == /\ settings' = Append(settings, Setting(number))
                  /\ q' = q + 1
                  /\ line_no' = 0
                  /\ found_section' = FALSE
                  /\ pc' = "scan"

Null == 0

(* Outside of the section. *)
IgnoreLine == /\ Turn({"pair", "spaced", "bare", "dangling"})
              /\ ~found_section
              /\ Restore
              /\ Continue
              /\ UNCHANGED found_section

ReadSection == /\ Turn({"section"})
               /\ ~found_section
               /\ found_section' = NameMatches(line.name, Queries[q].section)
               /\ Restore
               /\ Continue

(* Mutated: the return without cpool_restore. *)
UnclosedSectionLeaking ==
    Turn({"unclosed"}) /\ ~found_section /\ Answer(Null) /\ UNCHANGED depth

UnclosedSection == Turn({"unclosed"}) /\ ~found_section /\ Restore /\ Answer(Null)

(* Inside of it. *)
SectionOver == Turn({"section", "unclosed"}) /\ found_section /\ Restore /\ Answer(Null)

BareLine == Turn({"bare"}) /\ found_section /\ Restore /\ Answer(Null)

OtherKey == /\ Turn({"pair", "spaced", "dangling"})
            /\ found_section
            /\ ~NameMatches(line.name, Queries[q].key)
            /\ Restore
            /\ Continue
            /\ UNCHANGED found_section

(* What is taken for the value.  Without '=' its first character is passed *)
(* over instead.  When nothing is left on the line, the search for its     *)
(* first character goes on through the following lines and the length      *)
(* wraps: the value is the rest of the file, which begins with a name, a   *)
(* bracket or '#', no digit.  After a dangling name the terminator of the  *)
(* copy is passed over, and the value is as much of the next line as the   *)
(* memory behind the copy says.                                            *)
RestOfFile == <<10>>

Values(l) ==
    LET rest == IF l.shape = "spaced" THEN Tail(l.value) ELSE l.value
    IN  CASE l.shape = "dangling" -> {<<>>, RestOfFile}
          [] l.shape # "dangling" /\ rest = <<>> -> {RestOfFile}
          [] OTHER -> {rest}

Found == /\ Turn({"pair", "spaced", "dangling"})
         /\ found_section
         /\ NameMatches(line.name, Queries[q].key)
         /\ Restore
         /\ \E value \in Values(line) : Answer(AsInt(Strtol(value)))

EndOfFile == /\ pc = "scan"
             /\ q <= Len(Queries)
             /\ ~LineThere
             /\ Answer(Null)
             /\ UNCHANGED <<config, depth>>

-----------------------------------------------------------------------------
(* main: the server runs with its settings, and ends with config_delete.   *)
Delete == /\ pc = "scan"
          /\ q > Len(Queries)
          /\ open' = FALSE
          /\ map' = <<>>
          /\ pc' = "deleted"
          /\ UNCHANGED <<file, ended, q, line_no, found_section, depth, settings>>

Deleted == pc = "deleted" /\ UNCHANGED vars

Scan == \/ SkipLine \/ CopyLine \/ IgnoreLine \/ ReadSection \/ UnclosedSection
        \/ SectionOver \/ BareLine \/ OtherKey \/ Found \/ EndOfFile

Next == Parse \/ ParseFails \/ Scan \/ Delete \/ Deleted

Spec == Init /\ [][Next]_vars /\ WF_vars(Next)

-----------------------------------------------------------------------------
(* Properties.                                                             *)

(* The scan stays inside of the file, and the pool's stack of snapshots    *)
(* inside of its array.                                                    *)
TypeOK == /\ file \in Seq(Lines) /\ map \in {<<>>, file}
          /\ {ended, open, found_section} \subseteq BOOLEAN
          /\ q \in 1 .. Len(Queries) + 1
          /\ line_no \in 0 .. Len(map)
          /\ depth \in 0 .. MaxDepth
          /\ settings \in Seq(Ints)
          /\ Len(settings) = q - 1
          /\ pc \in {"parse", "scan", "line", "deleted"}

(* No turn of a scan leaves a snapshot behind, on any of its seven ways    *)
(* out: the pool asserts that there are at most eight, and main's and a    *)
(* worker's pool serve any number of calls (config.c:81, cpool.h:244).     *)
SavesBalanced == depth = IF pc = "line" THEN 1 ELSE 0

(* Main gets all of its settings, whatever is in the file (config.c:69).   *)
StartsUp == <>(q = Len(Queries) + 1)

(* A file that says what it means: pairs with values that fit, and no name *)
(* that is the beginning of another one that is asked for.                 *)
Clear ==
    /\ ended
    /\ \A n \in DOMAIN file :
         LET l == file[n]
         IN  /\ l.shape \in {"blank", "comment", "section", "pair"}
             /\ l.shape = "pair" => l.value # <<>> /\ Strtol(l.value) <= IntMax
             /\ \A k \in DOMAIN Queries :
                  \A wanted \in {Queries[k].section, Queries[k].key} :
                      IsPrefix(l.name, wanted) => l.name = wanted \/ l.shape \in {"blank", "comment"}

(* The reference: the first pair with the key between the first header of  *)
(* the section and the next header.                                        *)
Headers == {n \in DOMAIN file : file[n].shape = "section"}

Candidates(query) ==
    {n \in DOMAIN file :
       /\ file[n].shape = "pair" /\ file[n].name = query.key
       /\ \E h \in Headers :
            /\ h < n /\ file[h].name = query.section
            /\ \A g \in Headers : g < n => g <= h /\ (file[g].name = query.section => g = h)}

Meant(query) ==
    LET number == IF Candidates(query) = {} THEN 0
                  ELSE Strtol(file[Min(Candidates(query))].value)
    IN  IF number = 0 THEN query.default ELSE number

(* Main's settings are the ones that a clear file gives them: an earlier   *)
(* section, a comment, a later section with the same name or a longer key  *)
(* is not mistaken for what was asked for.                                 *)
ClearFileUnderstood ==
    map # <<>> /\ Clear => \A k \in DOMAIN settings : settings[k] = Meant(Queries[k])
=============================================================================
