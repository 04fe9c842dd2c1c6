---------------------------- MODULE MCCellTypes -----------------------------
(***************************************************************************)
(* Small INI files and rows for CellTypes: every type with texts it takes, *)
(* texts it refuses and texts it is not asked about, in both modes, one    *)
(* column at a time, and datasets of two columns.                          *)
(***************************************************************************)
EXTENDS CellTypes

Type(name)       == [name |-> name, options |-> {}, tag |-> <<>>, sep |-> <<>>]
Select(options)  == [Type("select") EXCEPT !.options = options]
List(name, sep)  == [Type(name) EXCEPT !.tag = <<"t">>, !.sep = sep]

Line0        == [kind |-> "column", fields |-> <<<<"a", "x">>>>, type |-> Type("string"),
                 need |-> "optional"]
Comment      == [Line0 EXCEPT !.kind = "comment"]
BlankLine    == [Line0 EXCEPT !.kind = "other"]
Col(f, type, need) == [Line0 EXCEPT !.fields = f, !.type = type, !.need = need]
One(x)       == <<<<"a", x>>>>
Needs        == {"required", "optional"}

Dash == Sign("-")
A    == Word("a")
B    == Word("b")
Markup  == <<A, Mark("<"), Mark("&"), B>>
Numeric(sep) == <<Num(2015), Sign(sep), Num(2), Sign(sep), Num(3)>>
NamedDay == <<Num(2015), Dash, Word("feb"), Dash, Num(3)>>
AtTen    == <<Blank, Num(10), Sign(":"), Num(20), Sign(":"), Num(30)>>
Hash     == Sign("#")
Public(x)  == <<Word("/Public"), x>>
Private(x) == <<Word("/Private"), x>>

Words  == {<<>>, <<A>>, Markup}
Dates  == {Numeric("-"), Numeric("/"), Numeric("-") \o AtTen, Numeric("/") \o AtTen,
           Numeric("-") \o SubSeq(AtTen, 1, 4), Numeric("/") \o <<A>>,
           <<Blank>> \o Numeric("-"), <<Num(2015), Dash, Num(2), Sign("/"), Num(3)>>}
NamedDates == {NamedDay, NamedDay \o AtTen,
               <<Num(2015), Dash, Word("foo"), Dash, Num(3)>>}
Days   == {<<Num(y), Sign("/"), Num(m), Sign("/"), Num(d)>> :
             y \in {1969, 1970, 2037, 2038}, m \in {0, 1, 12, 13}, d \in {0, 1, 31, 32}}
Lists(sep) == {<<>>, sep, <<A>>, Markup \o sep \o <<B>>, <<A>> \o sep \o sep \o <<B>>,
               sep \o <<A>>, <<A>> \o sep}
Rights == Range(Licenses) \cup {License(<<"ND", "SA">>)} \cup Words
PathLists == {<<>>, <<Newline>>, Public(A), Private(A), <<A>>,
              Public(A) \o <<Newline>> \o Private(B),
              Private(A) \o <<Newline, Newline, Blank>> \o Public(Mark("&")) \o <<Newline>>,
              Private(A) \o <<Newline, Blank, Newline>> \o Private(B),
              <<Newline, Blank>> \o Private(A) \o <<Blank, Newline>> \o <<A>>}

(* A type, the last part of its field's name, and the texts to be read.    *)
Cases ==
  {<<Type("string"), "x", Words>>, <<Type("int"), "x", {<<>>, <<Num(5)>>, <<A>>}>>,
   <<Type("string"), "date", Days \cup {<<>>, <<A>>, Numeric("-"), Numeric("/") \o <<A>>}>>,
   <<Type("bool"), "x", {<<>>, <<Word("TRUE")>>, <<Word("FALSE")>>, <<A>>, <<Num(1)>>}>>,
   <<Type("datetime"), "x", Dates \cup NamedDates \cup Words>>,
   <<Select({<<A>>, Markup}), "x", Words \cup {<<B>>}>>,
   <<Type("lang"), "x", {<<>>, <<Word("jpn")>>, <<A>>}>>,
   <<Type("file"), "x", {<<>>, <<A>>}>>,
   <<Type("rights"), "x", Rights>>, <<Type("indexes"), "x", PathLists>>}
  \cup {<<List(name, <<>>), "x", Lists(<<Newline>>)>> : name \in {"array", "dataset"}}
  \cup {<<List("array", <<Hash, Dash>>), "x", Lists(<<Hash, Dash>>)>>}

Input(compat, lines, cells) == [compat |-> compat, lines |-> lines, cells |-> cells]

Single ==
  UNION {{Input(compat, <<Comment, Col(One(c[2]), c[1], need)>>, <<t>>) :
            compat \in BOOLEAN, need \in Needs, t \in c[3]} : c \in Cases}

(* Two columns of one dataset or of two, two names in the first.           *)
DatasetPairs ==
  UNION {{Input(compat, <<Col(<<<<"f">>, <<"g">>>>, List("dataset", <<Hash>>), "optional"),
                          Comment,
                          Col(<<<<"h">>>>, [List("dataset", <<Newline>>) EXCEPT !.tag = <<tag>>],
                              "optional")>>,
                  <<t, u>>) : compat \in BOOLEAN, tag \in {"t", "u"}, u \in Lists(<<Newline>>)} :
          t \in Lists(<<Hash>>)}

(* Separators with escapes: how they arrive shows in the elements.         *)
Seps == {<<Backslash, Word("n")>>, <<Backslash, Word("t"), Hash>>,
         <<Backslash, Backslash>>, <<Backslash, Mark("\"")>>, <<Backslash, Mark("'")>>,
         <<Backslash, Num(0)>>, <<Backslash, Backslash, Word("n")>>,
         <<Backslash, Word("n"), Backslash, Word("n")>>, <<Percent>>}
Separators ==
  UNION {{Input(compat, <<Col(One("x"), List(name, sep), "required")>>, <<t>>) :
            compat \in BOOLEAN, name \in {"array", "dataset"}, t \in Lists(ConvertFormat(sep))} :
          sep \in Seps}

(* The second column claims the name of the first; cells are missing; a    *)
(* line that is no column, or a column that is none.                       *)
Others ==
  {Input(compat, <<Col(One("x"), Type("string"), "required"),
                   Col(One("x"), Type("bool"), "optional")>>, cells) :
     compat \in BOOLEAN, cells \in {<<>>, <<<<A>>>>, <<<<A>>, <<Word("TRUE")>>>>}}
  \cup {Input(TRUE, <<Comment, l, Line0>>, <<<<A>>, <<A>>>>) :
          l \in {BlankLine, Comment, Col(<<<<"f">>, <<>>>>, Type("string"), "optional"),
                 Col(One("x"), Type("text"), "optional"),
                 Col(One("x"), Type("string"), "maybe")}}
  \cup {Input(TRUE, <<Line0, Comment>>, <<<<A>>>>), Input(FALSE, <<>>, <<>>)}

MCInputs == Single \cup DatasetPairs \cup Separators \cup Others
MCFills  == [number : {0, 7}, buf : {"", "jan"}]
=============================================================================
