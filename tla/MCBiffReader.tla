---------------------------- MODULE MCBiffReader ----------------------------
(***************************************************************************)
(* Streams for BiffReader: workbooks of two substreams laid out the way    *)
(* Excel writes them, files of the old formats, and everything that is     *)
(* left of one of these when it is cut off.                                *)
(***************************************************************************)
EXTENDS BiffReader, TLC

Bof(b, s)        == [id |-> "BOF", btype |-> b, stream |-> s]
EofRec           == [id |-> "EOF"]
Other            == [id |-> "OTHER"]
Listed(n, o)     == [id |-> "BOUNDSHEET", name |-> n, offset |-> o, listed |-> TRUE]
Hidden(n, o)     == [id |-> "BOUNDSHEET", name |-> n, offset |-> o, listed |-> FALSE]
SstRec(texts)    == [id |-> "SST", texts |-> texts]
Cell(id, pos, t) == [id |-> id, pos |-> pos, text |-> t, ixfe |-> FALSE]
Ixfe(pos, t)     == [id |-> "NUMBER", pos |-> pos, text |-> t, ixfe |-> TRUE]
FormatRec(t)     == [id |-> "FORMAT", text |-> t]
BySst(pos, n)    == [id |-> "LABELSST", pos |-> pos, idx |-> n]
Several(id, pos, texts) == [id |-> id, pos |-> pos, texts |-> texts]

(* The contents of a worksheet substream.                                  *)
Bodies ==
  { <<BySst(<<0, 0>>, 1), Cell("LABEL", <<0, 1>>, "a")>>,
    <<Several("MULRK", <<0, 0>>, <<"a", "b">>), Cell("RSTRING", <<0, 1>>, "c")>>,
    <<Several("MULRK", <<0, 1>>, <<"a", "b">>), Several("MULRK", <<1, 2>>, <<"a", "b">>)>>,
    <<Cell("NUMBER", <<0, 0>>, "b"), Several("MULBLANK", <<0, 0>>, <<"x", "y">>)>>,
    <<Cell("RK", <<1, 0>>, "b"), Cell("BLANK", <<0, 0>>, "")>>,
    <<Cell("BOOLERR", <<1, 1>>, "c"), Cell("INTEGER", <<0, 0>>, "a")>> }

(* Globals, then two substreams; a sheet may be hidden or be a chart.      *)
Kinds == {"sheet", "hidden", "chart"}
Bound(kind, n, o) == IF kind = "sheet" THEN Listed(n, o) ELSE Hidden(n, o)
Sub(b, kind, body) ==
  <<Bof(b, IF kind = "chart" THEN "other" ELSE "sheet")>> \o body \o <<EofRec>>

Book(b, k1, b1, k2, b2) ==
  <<Bof(b, "global"), Other, Bound(k1, "s1", 7), Bound(k2, "s2", 9 + Len(b1)),
    SstRec(<<"p", "q">>), EofRec>> \o Sub(b, k1, b1) \o Sub(b, k2, b2)

Books(b, kinds) ==
  {Book(b, k1, b1, k2, b2) : k1, k2 \in kinds, b1, b2 \in Bodies}

OldFiles ==
  { <<Bof("BIFF2", "sheet"), Cell("INTEGER", <<0, 0>>, "a"), Ixfe(<<0, 1>>, "b"), EofRec>>,
    <<Bof("BIFF2", "sheet"), Cell("NUMBER", <<0, 0>>, "a"), Cell("RK", <<0, 1>>, "b"), EofRec>>,
    <<Bof("BIFF4", "sheet"), Cell("LABEL", <<0, 0>>, "a"), Cell("RSTRING", <<0, 1>>, "b"), EofRec>>,
    <<Bof("BIFF3", "sheet"), Cell("LABEL", <<0, 0>>, "a"), EofRec,
      Bof("BIFF3", "sheet"), Cell("LABEL", <<0, 0>>, "b"), EofRec>> }

OddFiles ==
  { <<Bof("BIFF8", "global"), [id |-> "FILEPASS"], EofRec>>,
    <<Bof("BIFF8", "global"), FormatRec("?"), EofRec>>,
    <<Bof("BIFF8", "global"), FormatRec("a"), Hidden("?", 4), EofRec>>,
    <<Bof("BIFF8", "global"), SstRec(<<"p", "?", "q">>), EofRec>>,
    <<Bof("BIFF5", "global"), Listed("s1", 4), EofRec, Bof("BIFF5", "sheet"),
      Cell("LABEL", <<0, 0>>, "?"), EofRec>>,
    <<Bof("BIFF5", "global"), Listed("s1", 4), EofRec, Bof("BIFF5", "sheet"),
      Cell("RSTRING", <<0, 0>>, "?"), EofRec>>,
    <<Bof("BIFF5", "global"), Listed("s1", 4), EofRec, Bof("BIFF5", "sheet"),
      Several("MULBLANK", <<0, 2>>, <<"x", "y">>), EofRec>>,
    <<Bof("BIFF8", "global"), Listed("s1", 5), Listed("s2", 5), EofRec>>,
    <<Bof("BIFF4", "workspace"), Listed("s1", 3), EofRec>>,
    <<Bof("BIFF7", "global"), EofRec>>, <<EofRec>>,
    <<Bof("BIFF8", "global"), Cell("RSTRING", <<0, 0>>, "a"), BySst(<<0, 0>>, 0), EofRec>>,
    <<Bof("BIFF5", "sheet"), EofRec, Listed("s1", 4), Bof("BIFF5", "sheet"),
      Cell("LABEL", <<0, 0>>, "a"), EofRec>>,
    <<Bof("BIFF8", "global"), Listed("s1", 4), EofRec, Bof("BIFF8", "sheet"),
      BySst(<<0, 0>>, 0), SstRec(<<"p">>), EofRec>>,
    <<Bof("BIFF8", "global"), Listed("s1", 4), EofRec, Bof("BIFF8", "sheet"),
      Cell("LABEL", <<0, 0>>, "a"), Bof("BIFF8", "other"), EofRec, EofRec>> }

CutOff(set) == UNION {{SubSeq(x, 1, n) : n \in 0 .. Len(x)} : x \in set}

MCStreams ==
  Books("BIFF8", Kinds) \cup Books("BIFF5", {"sheet"})
  \cup CutOff({Book("BIFF8", "sheet", x, "sheet", y) : x, y \in Bodies})
  \cup CutOff(OldFiles \cup OddFiles)

MCTexts == {"", "?", "file", "s1", "s2", "a", "b", "c", "p", "q", "x", "y"}

MCWholeBooks == Books("BIFF8", {"sheet", "chart"})
=============================================================================
