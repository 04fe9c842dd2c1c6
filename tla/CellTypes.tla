----------------------------- MODULE CellTypes ------------------------------
(***************************************************************************)
(* The INI file of an item type and what becomes of the cells of one row:  *)
(* inifile_load(), the part of template_assign() that reads the columns,   *)
(* and the readers tmpl_*_get(), one for each type of a column.  From the  *)
(* bindings made here on, RowText takes over.                              *)
(*                                                                         *)
(* A text is a sequence of tokens of one shape [kind, text, parts], as far *)
(* as a reader tells texts apart: numbers, words, signs, blanks, newlines  *)
(* and the characters XML reserves.  A name is a sequence of its parts     *)
(* and, in a dataset, the number of its element; no field has a # in it.   *)
(***************************************************************************)
EXTENDS Integers, Sequences, SequencesExt, TLC

CONSTANTS
  Inputs,  \* what is converted: [compat, lines, cells]
  Fills    \* what automatic variables hold: [number, buf]

(* What is read is made of lines, cells and texts.                         *)
ASSUME InputsAssumption ==
  \A i \in Inputs :
    /\ i.lines \in Seq(Range(i.lines)) /\ i.cells \in Seq(Range(i.cells))
    /\ \A l \in Range(i.lines) :
         l.kind = "column" =>
           /\ l.fields \in Seq(Seq(STRING)) /\ l.type.tag \in Seq(STRING)
           /\ l.type.sep \in Seq(Range(l.type.sep))
    /\ \A text \in Range(i.cells) : text \in Seq(Range(text))

VARIABLES
  input,
  fill,      \* what strtotime() finds in its uninitialised variables
  time,      \* the format it tries and its variables
  phase,     \* "load", "row", "done"
  line,      \* the line of the INI file read next
  cols,      \* ini->col
  col,       \* the column of the row read next
  rep_hash,  \* field name -> text
  sizes,     \* dataset_hash: dataset name -> number of elements
  verdict    \* "none", "accepted", "rejected", or "unloadable"

rowVars == <<input, fill, time, phase, line, cols, col, rep_hash, sizes, verdict>>

Token(kind, text, parts) == [kind |-> kind, text |-> text, parts |-> parts]
Num(n)    == Token("num", "", <<n>>)
Word(w)   == Token("word", w, <<>>)
Sign(c)   == Token("sign", c, <<>>)    \* - / : and the like
Mark(c)   == Token("mark", c, <<>>)    \* & < > " '
Entity(c) == Token("entity", c, <<>>)  \* amp; lt; gt; quot; #039;
Tag(x)    == Token("tag", x, <<>>)     \* mark-up the program writes
Time(tm)  == Token("time", "", tm)     \* what mktime() makes of tm
Tab       == Sign("tab")
Comma     == Sign(",")
Percent   == Sign("%")
Blank     == Token("blank", "", <<>>)
Newline   == Token("newline", "", <<>>)

Nothing   == [x \in {} |-> <<>>]
NotTrying == [format |-> 0, tm |-> Nothing]

RowInit ==
  /\ input \in Inputs /\ fill \in Fills /\ time = NotTrying
  /\ phase = "load" /\ line = 1 /\ cols = <<>>
  /\ col = 1 /\ rep_hash = Nothing /\ sizes = Nothing
  /\ verdict = "none"

-----------------------------------------------------------------------------
(* inifile_load().  A line is a comment, a column                          *)
(* fields=type:requirement, or neither of them: a blank line, too.         *)
AtLine == phase = "load" /\ line <= Len(input.lines)
Line   == input.lines[line]

\* Mutant: the line after a comment is lost.
SkipCommentAndNext ==
  /\ AtLine /\ Line.kind = "comment"
  /\ line' = line + 2
  /\ UNCHANGED <<input, fill, time, phase, cols, col, rep_hash, sizes, verdict>>

SkipComment ==
  /\ AtLine /\ Line.kind = "comment"
  /\ line' = line + 1
  /\ UNCHANGED <<input, fill, time, phase, cols, col, rep_hash, sizes, verdict>>

Languages == {"eng", "jpn", "fra", "deu", "esl", "ita", "dut", "sve", "nor",
              "dan", "fin", "por", "chi", "kor"}

(* A column of type "int" is one of strings: tmpl_integer_get() is never   *)
(* called.                                                                 *)
TypeNames ==
  [string |-> "STRING", int |-> "STRING", datetime |-> "DATETIME",
   indexes |-> "INDEXES", lang |-> "SELECT", bool |-> "BOOL",
   rights |-> "RIGHTS", select |-> "SELECT", array |-> "ARRAY",
   dataset |-> "DATASET", file |-> "FILE"]

(* sl4_string_convert_format() replaces its escape sequences in turn, each *)
(* from the left.  The search goes on where the sequence ended before it   *)
(* was replaced, which is one character too far: one that follows another  *)
(* of its kind at once is passed over.                                     *)
Backslash == Sign("\\")
Taken(text, c) ==
  LET taken[i \in 0 .. Len(text)] ==
        /\ i > 0 /\ i < Len(text) /\ text[i] = Backslash /\ text[i + 1] = c
        /\ \A j \in {i - 1, i - 2} : j > 0 => ~taken[j]
  IN  taken

Replaced(text, c, char) ==
  LET taken == Taken(text, c)
  IN  FlattenSeq([i \in DOMAIN text |->
        IF taken[i] THEN <<char>> ELSE IF i > 1 /\ taken[i - 1] THEN <<>> ELSE <<text[i]>>])

ConvertFormat(text) ==
  LET lines   == Replaced(text, Word("n"), Newline)
      tabs    == Replaced(lines, Word("t"), Tab)
      slashes == Replaced(tabs, Backslash, Backslash)
      commas  == Replaced(slashes, Mark("'"), Comma)
      quotes  == Replaced(commas, Mark("\""), Mark("\""))
  IN  Replaced(quotes, Num(0), Blank)

ColumnNew(l) ==
  [fields   |-> l.fields,
   type     |-> TypeNames[l.type.name],
   options  |-> IF l.type.name = "lang" THEN {<<Word(x)>> : x \in Languages}
                                        ELSE l.type.options,
   tag      |-> l.type.tag,
   sep      |-> ConvertFormat(IF l.type.sep = <<>> THEN <<Backslash, Word("n")>>
                              ELSE l.type.sep),
   required |-> l.need = "required"]

HasType(l) ==
  /\ l.kind = "column"
  /\ \A q \in DOMAIN l.fields : l.fields[q] # <<>>
  /\ l.type.name \in DOMAIN TypeNames
Loadable(l) == HasType(l) /\ l.need \in {"required", "optional"}

(* A per cent sign is doubled for sprintf(), and the sign that was put in  *)
(* is the next one found: until memory is used up, the separator grows.    *)
GrowsForEver(l) == HasType(l) /\ Percent \in Range(l.type.sep)

ConvertsForEver ==
  /\ AtLine /\ Line.kind # "comment" /\ GrowsForEver(Line)
  /\ UNCHANGED rowVars

LoadColumn ==
  /\ AtLine /\ Line.kind # "comment" /\ Loadable(Line) /\ ~GrowsForEver(Line)
  /\ cols' = Append(cols, ColumnNew(Line)) /\ line' = line + 1
  /\ UNCHANGED <<input, fill, time, phase, col, rep_hash, sizes, verdict>>

LoadFails ==
  /\ AtLine /\ Line.kind # "comment" /\ ~Loadable(Line) /\ ~GrowsForEver(Line)
  /\ phase' = "done" /\ verdict' = "unloadable"
  /\ UNCHANGED <<input, fill, time, line, cols, col, rep_hash, sizes>>

Loaded ==
  /\ phase = "load" /\ line > Len(input.lines)
  /\ phase' = "row"
  /\ UNCHANGED <<input, fill, time, line, cols, col, rep_hash, sizes, verdict>>

-----------------------------------------------------------------------------
(* sl4_string_htmlspecialchars() and _template_assign_fields().            *)
Escaped(text) ==
  FlattenSeq([i \in DOMAIN text |->
    IF text[i].kind = "mark" THEN <<Mark("&"), Entity(text[i].text)>> ELSE <<text[i]>>])

Name(parts) == [parts |-> parts, element |-> -1]

Binds(fields, text, do_escape, postfix) ==
  [q \in DOMAIN fields |->
     [name |-> Name(fields[q] \o postfix),
      text |-> IF do_escape THEN Escaped(text) ELSE text]]

(* sl4_hash_table_insert() refuses a name it has.                          *)
InsertAll(hash, binds) ==
  LET at(name) == {k \in DOMAIN binds : binds[k].name = name}
  IN  [name \in DOMAIN hash \cup {binds[k].name : k \in DOMAIN binds} |->
         IF name \in DOMAIN hash THEN hash[name] ELSE binds[Min(at(name))].text]

Compat == input.compat
IniCol == cols[col]
Text   == input.cells[col]
AtCell == phase = "row" /\ col <= Len(cols) /\ col <= Len(input.cells)

\* An empty cell of a required column is refused before its type is looked at.
AtType(type) ==
  AtCell /\ IniCol.type = type /\ ~(IniCol.required /\ Text = <<>>)

(* Without -c the name of the XML element is what follows the first dot in *)
(* the first field.                                                        *)
ItemXml == LET f == IniCol.fields[1] IN IF Len(f) > 1 THEN Tail(f) ELSE f

Element(x, text) == <<Tag(x)>> \o text \o <<Tag("/" \o x)>>

(* The value as it is in 3.4, in an element of its own in 4.0.             *)
Extend(text) ==
  IF Compat \/ Text = <<>> THEN text ELSE Element("extend", text)

Give(binds) ==
  /\ \E given \in {binds} : rep_hash' = InsertAll(rep_hash, given)
  /\ col' = col + 1 /\ time' = NotTrying
  /\ UNCHANGED <<input, fill, phase, line, cols, verdict>>
GiveText(text, do_escape) ==
  Give(Binds(IniCol.fields, text, do_escape, <<>>)) /\ UNCHANGED sizes

Reject ==
  /\ phase' = "done" /\ verdict' = "rejected" /\ time' = NotTrying
  /\ UNCHANGED <<input, fill, line, cols, col, rep_hash, sizes>>

CellMissing ==
  /\ phase = "row" /\ col <= Len(cols) /\ col > Len(input.cells)
  /\ Reject

CellEmpty ==
  /\ AtCell /\ IniCol.required /\ Text = <<>>
  /\ Reject

-----------------------------------------------------------------------------
(* tmpl_bool_get().                                                        *)
BoolValue == [TRUE |-> <<Num(1)>>, FALSE |-> <<Num(0)>>]
IsBool(text) ==
  \/ text = <<>>
  \/ Len(text) = 1 /\ text[1].kind = "word" /\ text[1].text \in DOMAIN BoolValue

ReadBool ==
  /\ AtType("BOOL")
  /\ IF IsBool(Text)
       THEN GiveText(Extend(IF Text = <<>> THEN <<>> ELSE BoolValue[Text[1].text]), FALSE)
       ELSE Reject

(* sscanf(): what is assigned until the text or the format ends or they    *)
(* disagree.  A number may follow blanks, a blank of the format stands for *)
(* any number of them, and what follows the format is not looked at.       *)
AfterBlanks(text, at) ==
  CHOOSE n \in at .. Len(text) + 1 :
    /\ n > Len(text) \/ text[n] # Blank
    /\ \A k \in at .. n - 1 : text[k] = Blank

Consumed(text, at, d) ==
  LET next == IF d \in {"number", "blank"} THEN AfterBlanks(text, at) ELSE at
      is(kind) == next <= Len(text) /\ text[next].kind = kind
  IN  CASE d = "blank"   -> {next}
        [] d = "number"  -> IF is("num") THEN {next + 1} ELSE {}
        [] d = "letters" -> IF is("word") THEN {next + 1} ELSE {}
        [] OTHER         -> IF is("sign") /\ text[next].text = d THEN {next + 1} ELSE {}

Scan(text, format) ==
  LET reached[n \in 0 .. Len(format)] ==
        IF n = 0 THEN {1} ELSE UNION {Consumed(text, at, format[n]) : at \in reached[n - 1]}
      assigned == SelectSeq([n \in DOMAIN format |-> n],
                    LAMBDA n : format[n] \in {"number", "letters"} /\ reached[n] # {})
  IN  [k \in DOMAIN assigned |-> text[Max(reached[assigned[k]]) - 1]]

Date(sep, month) == <<"number", sep, month, sep, "number">>
Clock            == <<"blank", "number", ":", "number", ":", "number">>

(* tmpl_string_get().  In 4.0 two fields are dates, whatever the INI file  *)
(* says.                                                                   *)
IsDateField == ~Compat /\ Text # <<>> /\ ItemXml \in {<<"essential_date">>, <<"date">>}

DayInRange(ymd) ==
  /\ Len(ymd) = 3
  /\ ymd[1].parts[1] \in 1970 .. 2037
  /\ ymd[2].parts[1] \in 1 .. 12
  /\ ymd[3].parts[1] \in 1 .. 31

Midnight(ymd) == <<Time(<<ymd[1].parts[1], ymd[2].parts[1], ymd[3].parts[1], 0, 0, 0>>)>>

ReadString ==
  /\ AtType("STRING")
  /\ LET ymd == Scan(Text, Date("/", "number"))
     IN  IF IsDateField
           THEN IF DayInRange(ymd) THEN GiveText(Extend(Midnight(ymd)), FALSE) ELSE Reject
           ELSE GiveText(Extend(IF Compat THEN Text ELSE Escaped(Text)), Compat)

-----------------------------------------------------------------------------
(* tmpl_datetime_get(): strtotime() tries six formats, each scan leaving   *)
(* in the variables what it had read before it failed.                     *)
Months == <<"jan", "feb", "mar", "apr", "may", "jun",
            "jul", "aug", "sep", "oct", "nov", "dec">>
IsMonth(buf) == buf \in Range(Months)
MonthOf(buf) == SelectInSeq(Months, LAMBDA m : m = buf)

Numbers == <<"yy", "mm", "dd", "hrs", "min", "sec">>
Named   == <<"yy", "buf", "dd", "hrs", "min", "sec">>

Formats ==
  <<[format |-> Date("-", "number") \o Clock,  into |-> Numbers, values |-> 6],
    [format |-> Date("/", "number") \o Clock,  into |-> Numbers, values |-> 6],
    [format |-> Date("-", "letters") \o Clock, into |-> Named,   values |-> 6],
    [format |-> Date("-", "number"),           into |-> Numbers, values |-> 3],
    [format |-> Date("/", "number"),           into |-> Numbers, values |-> 3],
    [format |-> Date("-", "letters"),          into |-> Named,   values |-> 3]>>

Unread == [x \in Range(Numbers) \cup {"buf"} |-> IF x = "buf" THEN fill.buf ELSE fill.number]

ReadEmptyDatetime ==
  /\ AtType("DATETIME") /\ Text = <<>>
  /\ GiveText(<<>>, FALSE)

BeginDatetime ==
  /\ AtType("DATETIME") /\ Text # <<>> /\ time = NotTrying
  /\ time' = [format |-> 1, tm |-> Unread]
  /\ UNCHANGED <<input, fill, phase, line, cols, col, rep_hash, sizes, verdict>>

Trying == time # NotTrying
F      == Formats[time.format]
Got    == Scan(Text, F.format)
Fits   == Len(Got) = F.values

(* The variables after the scan.                                           *)
Assigned ==
  [x \in DOMAIN time.tm |->
     LET read == {k \in DOMAIN Got : F.into[k] = x}
     IN  IF read = {} THEN time.tm[x]
         ELSE IF x = "buf" THEN Got[Min(read)].text ELSE Got[Min(read)].parts[1]]

\* The name of a month is turned into its number only if the scan failed.
ByName == F.into = Named /\ ~Fits /\ IsMonth(Assigned.buf)

GiveTime(month) ==
  GiveText(Extend(<<Time([k \in 1 .. 6 |->
    IF k = 2 THEN month ELSE Assigned[Numbers[k]]])>>), FALSE)

FormatFits     == Trying /\ Fits   /\ GiveTime(Assigned.mm)
FormatNamesIt  == Trying /\ ByName /\ GiveTime(MonthOf(Assigned.buf))

\* Mutant: a date without a time keeps what was in the variables.
ClockUnset == [x \in {} |-> 0]
AtMidnight == [x \in {"hrs", "min", "sec"} |-> 0]

NextFormat ==
  /\ Trying /\ ~Fits /\ ~ByName /\ time.format < Len(Formats)
  /\ time' = [format |-> time.format + 1,
              tm |-> IF time.format = 3 THEN AtMidnight @@ Assigned ELSE Assigned]
  /\ UNCHANGED <<input, fill, phase, line, cols, col, rep_hash, sizes, verdict>>

NoFormatFits ==
  /\ Trying /\ ~Fits /\ ~ByName /\ time.format = Len(Formats)
  /\ Reject

-----------------------------------------------------------------------------
(* tmpl_select_get(), the options of "lang" included.                      *)
Selectable == Text = <<>> \/ Text \in IniCol.options

\* Mutant: the value is escaped on assignment in both modes.
ReadSelectTwice ==
  /\ AtType("SELECT")
  /\ IF Selectable THEN GiveText(Extend(IF Compat THEN Text ELSE Escaped(Text)), TRUE)
                   ELSE Reject

ReadSelect ==
  /\ AtType("SELECT")
  /\ IF Selectable THEN GiveText(Extend(IF Compat THEN Text ELSE Escaped(Text)), Compat)
                   ELSE Reject

(* tmpl_file_get(): which paths are accepted and how the files are copied  *)
(* is Conversion's matter.  Four more names describe the file.             *)
FileNames == <<"", "original_file_name", "mime_type", "file_size", "suffix">>

FileBinds(text) ==
  FlattenSeq([k \in DOMAIN FileNames |->
    Binds(IniCol.fields, text, FALSE, IF k = 1 THEN <<>> ELSE <<FileNames[k]>>)])

ReadFile ==
  /\ AtType("FILE")
  /\ Give(FileBinds(IF Text = <<>> THEN <<>> ELSE <<Tag("file")>>))
  /\ UNCHANGED sizes

RejectFile ==
  /\ AtType("FILE") /\ Text # <<>>
  /\ Reject

-----------------------------------------------------------------------------
(* strarray_explode(): one element more than there are separators, so that *)
(* an empty text has one, too.                                             *)
Occurrences(sep, text) ==
  {i \in DOMAIN text : SubSeq(text, i, Min({Len(text), i + Len(sep) - 1})) = sep}

Explode(sep, text) ==
  LET from[at \in 1 .. Len(text) + 1] ==
        LET next == {i \in Occurrences(sep, text) : i >= at}
        IN  IF next = {} THEN <<SubSeq(text, at, Len(text))>>
            ELSE <<SubSeq(text, at, Min(next) - 1)>> \o from[Min(next) + Len(sep)]
  IN  from[1]

Elements    == Explode(IniCol.sep, Text)
NoneMissing == IniCol.required => <<>> \notin Range(Elements)

(* tmpl_array_get() escapes the elements itself.  In 4.0 an empty cell is  *)
(* an empty value, in 3.4 an array of one empty element.                   *)
Join(texts) ==
  FlattenSeq([k \in DOMAIN texts |->
    IF Compat \/ k = 1 THEN texts[k] ELSE <<Newline>> \o texts[k]])

ArrayValue ==
  IF ~Compat /\ Text = <<>> THEN <<>>
  ELSE Join([k \in DOMAIN Elements |-> Element("element", Escaped(Elements[k]))])

ReadArray ==
  /\ AtType("ARRAY")
  /\ IF NoneMissing THEN GiveText(ArrayValue, FALSE) ELSE Reject

(* tmpl_dataset_get(): element i of field f is bound to group.f#i, in all  *)
(* columns of a group for the same i.                                      *)
\* Mutant: the columns of a group are not compared.
AnySize(n) == TRUE
Agrees(n) ==
  IniCol.tag \in DOMAIN sizes => sizes[IniCol.tag] = n

ElementName(c, field, k) == [parts |-> c.tag \o field, element |-> k - 1]

DatasetBinds ==
  FlattenSeq([k \in DOMAIN Elements |->
    [q \in DOMAIN IniCol.fields |->
       [name |-> ElementName(IniCol, IniCol.fields[q], k), text |-> Escaped(Elements[k])]]])

ReadDataset ==
  /\ AtType("DATASET")
  /\ IF NoneMissing /\ Agrees(Len(Elements))
       THEN /\ Give(DatasetBinds)
            /\ sizes' = [tag \in DOMAIN sizes \cup {IniCol.tag} |->
                           IF tag = IniCol.tag THEN Len(Elements) ELSE sizes[tag]]
       ELSE Reject

-----------------------------------------------------------------------------
(* tmpl_rights_get(): six names stand for a Creative Commons licence and   *)
(* its mark-up, any other text for itself.                                 *)
License(parts) ==
  <<Word("CC"), Sign("-"), Word("BY")>>
    \o FlattenSeq([k \in DOMAIN parts |-> <<Sign("-"), Word(parts[k])>>])

Licenses     == <<License(<<>>), License(<<"SA">>), License(<<"ND">>),
                  License(<<"NC">>), License(<<"NC", "SA">>), License(<<"NC", "ND">>)>>
Commercial   == <<1, 1, 1, 0, 0, 0>>

Modification == <<2, 1, 0, 2, 1, 0>>

LicenseText(k) == <<Mark("<"), Word("license")>> \o Licenses[k] \o <<Mark(">")>>

Terms ==
  IF Text \in Range(Licenses)
    THEN LET k == SelectInSeq(Licenses, LAMBDA name : name = Text)
         IN  [use_cc |-> 1, commercial |-> Commercial[k], modification |-> Modification[k],
              text |-> IF Compat THEN LicenseText(k) ELSE <<>>]
    ELSE [use_cc |-> 0, commercial |-> 1, modification |-> 2,
          text |-> IF Compat THEN Text ELSE Escaped(Text)]

ReadRights ==
  /\ AtType("RIGHTS")
  /\ LET t == Terms
         flags == <<Num(t.use_cc), Num(t.commercial), Num(t.modification)>>
         value == IF Compat \/ Text = <<>> THEN t.text
                  ELSE Extend(flags \o <<Tag("Unported,")>> \o t.text)
         Flag(name, k) == Binds(IniCol.fields, <<flags[k]>>, FALSE, <<name>>)
     IN  Give(Binds(IniCol.fields, value, Compat, <<>>) \o Flag("use_cc", 1)
              \o Flag("cc_commercial_use", 2) \o Flag("cc_modification", 3))
         /\ UNCHANGED sizes

-----------------------------------------------------------------------------
(* tmpl_indexes_get(): the lines of the cell, trimmed, each a path below   *)
(* /Public or /Private.  The paths are not escaped, here or later.         *)
Stripped(text) ==
  LET inked == {k \in DOMAIN text : text[k].kind \notin {"blank", "newline"}}
  IN  IF inked = {} THEN <<>> ELSE SubSeq(text, Min(inked), Max(inked))

Lines ==
  LET lines == SelectSeq(Explode(<<Newline>>, Text), LAMBDA l : l # <<>>)
  IN  IF lines = <<>> /\ Text # <<>> THEN <<<<>>>>
      ELSE [k \in DOMAIN lines |-> Stripped(lines[k])]

Below(root, path) == path # <<>> /\ path[1] = Word(root)
Paths(root) == {k \in DOMAIN Lines : Below(root, Lines[k])}

\* Mutant: public indexes do without a private one.
IndexableAlone ==
  \A k \in DOMAIN Lines : Below("/Public", Lines[k]) \/ Below("/Private", Lines[k])

Indexable ==
  /\ \A k \in DOMAIN Lines : Below("/Public", Lines[k]) \/ Below("/Private", Lines[k])
  /\ Paths("/Public") # {} => Paths("/Private") # {}

IndexesValue ==
  IF Lines = <<>> THEN IF Compat THEN Element("index", <<>>) ELSE <<>>
  ELSE FlattenSeq([k \in DOMAIN Lines |->
         Element(IF ~Compat THEN "index_title"
                 ELSE IF Below("/Public", Lines[k]) THEN "public" ELSE "private", Lines[k])])

ReadIndexes ==
  /\ AtType("INDEXES")
  /\ IF Indexable THEN GiveText(IndexesValue, FALSE) ELSE Reject

-----------------------------------------------------------------------------
RowRead ==
  /\ phase = "row" /\ col > Len(cols)
  /\ phase' = "done" /\ verdict' = "accepted"
  /\ UNCHANGED <<input, fill, time, line, cols, col, rep_hash, sizes>>

Terminated == phase = "done" /\ UNCHANGED rowVars

RowNext ==
  \/ SkipComment \/ LoadColumn \/ ConvertsForEver \/ LoadFails \/ Loaded
  \/ CellMissing \/ CellEmpty
  \/ ReadBool \/ ReadString \/ ReadEmptyDatetime \/ BeginDatetime \/ FormatFits \/ FormatNamesIt
  \/ NextFormat \/ NoFormatFits \/ ReadSelect
  \/ ReadFile \/ RejectFile \/ ReadArray \/ ReadDataset
  \/ ReadRights \/ ReadIndexes
  \/ RowRead \/ Terminated

RowSpec == RowInit /\ [][RowNext]_rowVars

-----------------------------------------------------------------------------

ColumnsBefore(k) ==
  Cardinality({n \in DOMAIN input.lines : n < k /\ input.lines[n].kind = "column"})

(* INIFILE_ja.txt: the lines of the file are the columns of the sheet from *)
(* the left, comment lines are skipped.  No line is lost, and a file with  *)
(* a line that is neither is not used at all.                              *)
ColumnsAsWritten ==
  /\ Len(cols) = ColumnsBefore(line)
  /\ \A k \in DOMAIN input.lines :
       k < line /\ input.lines[k].kind = "column" =>
         cols[ColumnsBefore(k) + 1].fields = input.lines[k].fields
  /\ phase = "row" =>
       /\ line > Len(input.lines)
       /\ \A k \in DOMAIN input.lines : input.lines[k].kind # "other"

-----------------------------------------------------------------------------
(* What INIFILE_ja.txt says of each type, independent of how it is read;   *)
(* cols[k] is made from the k-th line that is a column.                    *)
ColumnLine(k) ==
  CHOOSE l \in Range(input.lines) :
    \E n \in DOMAIN input.lines :
      l = input.lines[n] /\ l.kind = "column" /\ ColumnsBefore(n) = k - 1
DeclaredInt(k) == ColumnLine(k).type.name = "int"

EmptyElement(sep, text) ==
  \/ text = <<>>
  \/ \E i \in Occurrences(sep, text) :
       \/ i = 1 \/ i + Len(sep) = Len(text) + 1
       \/ i + Len(sep) \in Occurrences(sep, text)

Count(c, text) == Cardinality(Occurrences(c.sep, text)) + 1

PathLines(text) ==
  {i \in DOMAIN text : text[i] # Newline /\ (i = 1 \/ text[i - 1] = Newline)}
StartsWith(text, i, roots) ==
  \E j \in i .. Len(text) :
    text[j] \in roots /\ \A k \in i .. j - 1 : text[k] = Blank

IndexList(text) ==
  /\ \A i \in PathLines(text) : StartsWith(text, i, {Word("/Public"), Word("/Private")})
  /\ \E i \in PathLines(text) : StartsWith(text, i, {Word("/Private")})

HasForm(text, form) ==
  /\ Len(text) = Len(form)
  /\ \A i \in DOMAIN form :
       CASE form[i] = "number"  -> text[i].kind = "num"
         [] form[i] = "letters" -> text[i].kind = "word" /\ text[i].text \in Range(Months)
         [] form[i] = "blank"   -> text[i] = Blank
         [] OTHER               -> text[i] = Sign(form[i])

NumericDate(text) ==
  \E sep \in {"-", "/"} : \/ HasForm(text, Date(sep, "number"))
                          \/ HasForm(text, Date(sep, "number") \o Clock)
NamedDate(text) ==
  HasForm(text, Date("-", "letters")) \/ HasForm(text, Date("-", "letters") \o Clock)

IsDay(text) ==
  /\ HasForm(text, Date("/", "number"))
  /\ text[1].parts[1] \in 1970 .. 2037 /\ text[3].parts[1] \in 1 .. 12
  /\ text[5].parts[1] \in 1 .. 31

DayField(c) ==
  ~Compat /\ c.type = "STRING" /\ Last(c.fields[1]) \in {"date", "essential_date"}

Conforms(k) ==
  LET c == cols[k]
      t == input.cells[k]
  IN  /\ c.required => t # <<>>
      /\ c.type \in {"ARRAY", "DATASET"} => (c.required => ~EmptyElement(c.sep, t))
      /\ c.type = "DATASET" =>
           \A j \in 1 .. k - 1 : cols[j].type = "DATASET" /\ cols[j].tag = c.tag =>
             Count(cols[j], input.cells[j]) = Count(c, t)
      /\ t # <<>> =>
           CASE DeclaredInt(k)      -> Len(t) = 1 /\ t[1].kind = "num"
             [] c.type = "BOOL"     -> t \in {<<Word("TRUE")>>, <<Word("FALSE")>>}
             [] c.type = "SELECT"   -> t \in c.options
             [] c.type = "INDEXES"  -> IndexList(t)
             [] c.type = "DATETIME" -> NumericDate(t) \/ NamedDate(t)
             [] DayField(c)         -> IsDay(t)
             [] OTHER               -> TRUE

(* A row is accepted only if every cell is there and is what its column    *)
(* says, and rejected only for a cell that is not.  Exempt from the first  *)
(* are integers, which are not looked at at all (IntegersChecked, below),  *)
(* and dates, which are not looked at to their end; whether a file is      *)
(* there is not known here.                                                *)
VerdictRight ==
  /\ verdict = "accepted" =>
       \A k \in DOMAIN cols :
         /\ k <= Len(input.cells)
         /\ Conforms(k) \/ DeclaredInt(k) \/ cols[k].type = "DATETIME" \/ DayField(cols[k])
  /\ verdict = "rejected" =>
       col > Len(input.cells) \/ cols[col].type = "FILE" \/ ~Conforms(col)

-----------------------------------------------------------------------------
(* A value with its mark-up taken off and its characters taken out of      *)
(* their entities, the elements of an array joined again.                  *)
Plain(value, sep) ==
  FlattenSeq([i \in DOMAIN value |->
    CASE value[i].kind = "tag" ->
           IF value[i] = Tag("/element") /\ i < Len(value) THEN sep ELSE <<>>
      [] value[i] = Mark("&")     -> <<>>
      [] value[i].kind = "entity" -> <<Mark(value[i].text)>>
      [] value[i] = Newline /\ i > 1 /\ value[i - 1] = Tag("/element") -> <<>>
      [] OTHER                    -> <<value[i]>>])

EscapedText(value) ==
  \A i \in DOMAIN value :
    /\ value[i].kind = "mark" =>
         value[i] = Mark("&") /\ i < Len(value) /\ value[i + 1].kind = "entity"
    /\ value[i].kind = "entity" => i > 1 /\ value[i - 1] = Mark("&")

(* The name is bound by column k and by no column before it.               *)
OwnFields(k) ==
  {f \in Range(cols[k].fields) :
     \A j \in 1 .. k - 1 : f \notin Range(cols[j].fields)}

(* In an accepted row the text of a cell arrives under the names of its    *)
(* column whole and in order, and escaped for XML exactly once, whichever  *)
(* of the two modes, of the readers and of the two places of escaping it   *)
(* went through.  Paths of indexes are not escaped at all.                 *)
TextsArrive ==
  verdict = "accepted" =>
    \A k \in DOMAIN cols : \A f \in OwnFields(k) :
      LET c == cols[k]
          t == input.cells[k]
          elements == [n \in 1 .. sizes[c.tag] |->
                         Element("element", rep_hash[ElementName(c, f, n)])]
          value == IF c.type = "DATASET" THEN FlattenSeq(elements) ELSE rep_hash[Name(f)]
      IN  CASE \/ c.type \in {"SELECT", "ARRAY", "DATASET"}
               \/ c.type = "STRING" /\ ~DayField(c) ->
                 EscapedText(value) /\ Plain(value, c.sep) = t
            [] c.type = "RIGHTS" /\ t \notin Range(Licenses) ->
                 EscapedText(value) /\ IsSuffix(t, Plain(value, <<>>))
            [] OTHER -> TRUE

(* The date and the time of day a cell names, midnight by default.          *)
TimeOf(text) ==
  [n \in 1 .. 6 |-> IF 2 * n - 1 > Len(text) THEN 0
                    ELSE IF text[2 * n - 1].kind = "word"
                      THEN MonthOf(text[2 * n - 1].text)
                    ELSE text[2 * n - 1].parts[1]]

(* Cells of that form have become their time stamps.                        *)
Converted(IsDate(_)) ==
  verdict = "accepted" =>
    \A k \in DOMAIN cols : \A f \in OwnFields(k) :
      (cols[k].type = "DATETIME" \/ DayField(cols[k])) /\ IsDate(input.cells[k]) =>
           Plain(rep_hash[Name(f)], <<>>) = <<Time(TimeOf(input.cells[k]))>>

(* A date in one of the documented numeric formats becomes the time stamp  *)
(* of that day and hour, midnight where it names none.  A date without a   *)
(* time of day comes behind the scan for the name of a month: should the   *)
(* memory of buf still hold one, it is taken for that of the cell.         *)
DatesConverted ==
  Converted(LAMBDA text : NumericDate(text) /\ (Len(text) = 5 => ~IsMonth(fill.buf)))

(* The numbers of the elements bound for field f.                           *)
Bound(c, f) ==
  {x.element : x \in {y \in DOMAIN rep_hash : y.parts = c.tag \o f /\ y.element # -1}}

(* A tag with a dot and a field may make the name of another tag and field. *)
TagsPlain == \A k \in DOMAIN cols : cols[k].type = "DATASET" => Len(cols[k].tag) = 1

(* All columns of a dataset have bound the same elements, so that every    *)
(* repetition of its region in the template finds all its values.          *)
DatasetsAligned ==
  verdict = "accepted" /\ TagsPlain =>
    \A i, j \in DOMAIN cols :
      cols[i].type = "DATASET" /\ cols[j].type = "DATASET" /\ cols[i].tag = cols[j].tag =>
        \A f \in Range(cols[i].fields), g \in Range(cols[j].fields) :
          Bound(cols[i], f) = Bound(cols[j], g)

-----------------------------------------------------------------------------
(* What INIFILE_ja.txt says and the code does not keep.                    *)

(* INIFILE_ja.txt: "yyyy-(jan,feb,...,dec)-dd hh:nn:ss" and the same       *)
(* without a time are replaced by a time stamp, too.                       *)
NamedMonthsConverted == Converted(NamedDate)

(* INIFILE_ja.txt: a column of type int takes integers.                    *)
IntegersChecked ==
  verdict = "accepted" => \A k \in DOMAIN cols : DeclaredInt(k) => Conforms(k)

(* INIFILE_ja.txt: separators are written with the escapes of C.           *)
InC(text) ==
  LET escaped(i) == i < Len(text) /\ text[i] = Backslash
      begins[i \in 1 .. Len(text) + 1] ==
        i = 1 \/ (i > 2 /\ begins[i - 2] /\ escaped(i - 2)) \/ (begins[i - 1] /\ ~escaped(i - 1))
      stands(c) == CASE c = Word("n") -> Newline [] c = Word("t") -> Tab
                     [] c = Num(0)    -> Sign("null")
                     [] OTHER         -> c
  IN  FlattenSeq([i \in DOMAIN text |->
        IF ~begins[i] THEN <<>> ELSE IF escaped(i) THEN <<stands(text[i + 1])>> ELSE <<text[i]>>])
SeparatorsAsInC ==
  \A k \in DOMAIN cols : ColumnLine(k).type.sep # <<>> => cols[k].sep = InC(ColumnLine(k).type.sep)
=============================================================================
