------------------------------ MODULE Outlines ------------------------------
(***************************************************************************)
(* Marching squares over a grid of samples, with the contour gathered into *)
(* a set of polylines: cpMarchSoft() or cpMarchHard() with                 *)
(* cpPolylineSetCollectSegment() as its callback, in C and in Zig.  The    *)
(* samples are inputs.  Samples are two apart; the threshold is the level  *)
(* in the middle of three, so a contour crosses in the middle of an edge   *)
(* or, where a sample is at the threshold, in that corner.                 *)
(***************************************************************************)
EXTENDS Integers, SequencesExt, Bags

CONSTANTS
  XSamples, YSamples,     \* bound: the size of the grid
  Level                   \* the samples: 0, 2 and perhaps 1, the threshold

ASSUME OutlineAssumption ==
  /\ XSamples \in Nat \ {0, 1} /\ YSamples \in Nat \ {0, 1} /\ Level \subseteq 0 .. 2

\* Of the march: buffer: the samples of the row before; i, j: the cell that is next;
\* b, d: the samples at its left edge.  lines: the polylines, sequences of points;
\* made: history, the bag of segments that were found.
VARIABLE march

Threshold == 1

-----------------------------------------------------------------------------
(* Polyline sets *)

PolylineIsClosed(line) == Len(line) > 1 /\ line[1] = Last(line)

\* the first line that ends, or starts, with v; 0 if none does
FindFirst(Found(_), lines) ==
  LET S == {i \in DOMAIN lines : Found(lines[i])}
  IN  IF S = {} THEN 0 ELSE CHOOSE i \in S : \A k \in S : i <= k
FindEnds(lines, v) == FindFirst(LAMBDA line : Last(line) = v, lines)
FindStarts(lines, v) == FindFirst(LAMBDA line : line[1] = v, lines)

\* The last line takes the place of the one that was appended to another.
\* (faulty: the last line is dropped)
JoinUnmoved(lines, before, after) ==
  Front([lines EXCEPT ![before] = @ \o lines[after]])
SetJoin(lines, before, after) ==
  LET joined == [lines EXCEPT ![before] = @ \o lines[after]]
  IN  Front([joined EXCEPT ![after] = Last(joined)])
\* The port keeps the order of the others.
ZigJoin(lines, before, after) ==
  RemoveAt([lines EXCEPT ![before] = @ \o lines[after]], after)

CollectSegment(lines, seg, port) ==
  LET v0 == seg[1]
      v1 == seg[2]
      before == FindEnds(lines, v0)
      after == FindStarts(lines, v1)
  IN  IF before > 0 /\ after > 0 /\ before # after
      THEN IF port = "c" THEN SetJoin(lines, before, after) ELSE ZigJoin(lines, before, after)
      ELSE IF before > 0 THEN [lines EXCEPT ![before] = Append(@, v1)]    \* perhaps a loop
      ELSE IF after > 0 THEN [lines EXCEPT ![after] = <<v0>> \o @]
      ELSE Append(lines, <<v0, v1>>)

-----------------------------------------------------------------------------
(* One cell.  Its corners a, b are at the bottom, c, d at the top; its sides  *)
(* are W, E, S and N.                                                        *)

Midlerp(x0, x1, s0, s1) ==
  IF s0 = Threshold THEN x0 ELSE IF s1 = Threshold THEN x1 ELSE (x0 + x1) \div 2

\* The ways through a cell whose corners in the set high are above the threshold.
\* Where two opposite corners are, the soft march parts them, the hard one joins them.
Ways(high, hard) ==
  CASE high = {"a"} -> <<"WS">>           [] high = {"b", "c", "d"} -> <<"SW">>
    [] high = {"b"} -> <<"SE">>           [] high = {"a", "c", "d"} -> <<"ES">>
    [] high = {"c"} -> <<"NW">>           [] high = {"a", "b", "d"} -> <<"WN">>
    [] high = {"d"} -> <<"EN">>           [] high = {"a", "b", "c"} -> <<"NE">>
    [] high = {"a", "b"} -> <<"WE">>      [] high = {"c", "d"} -> <<"EW">>
    [] high = {"a", "c"} -> <<"NS">>      [] high = {"b", "d"} -> <<"SN">>
    [] high = {"b", "c"} -> IF hard THEN <<"SW", "NE">> ELSE <<"SE", "NW">>
    [] high = {"a", "d"} -> IF hard THEN <<"ES", "WN">> ELSE <<"WS", "EN">>
    [] OTHER -> <<>>

Ends == [WS |-> <<"W", "S">>, SW |-> <<"S", "W">>, SE |-> <<"S", "E">>, ES |-> <<"E", "S">>,
         NW |-> <<"N", "W">>, WN |-> <<"W", "N">>, EN |-> <<"E", "N">>, NE |-> <<"N", "E">>,
         WE |-> <<"W", "E">>, EW |-> <<"E", "W">>, NS |-> <<"N", "S">>, SN |-> <<"S", "N">>]
Straight == {"WE", "EW", "NS", "SN"}

Crossing(s, x0, y0) ==
  [W |-> <<x0, Midlerp(y0, y0 + 2, s.a, s.c)>>, E |-> <<x0 + 2, Midlerp(y0, y0 + 2, s.b, s.d)>>,
   S |-> <<Midlerp(x0, x0 + 2, s.a, s.b), y0>>, N |-> <<Midlerp(x0, x0 + 2, s.c, s.d), y0 + 2>>]
Middle(x0, y0) == [W |-> <<x0, y0 + 1>>, E |-> <<x0 + 2, y0 + 1>>, S |-> <<x0 + 1, y0>>, N |-> <<x0 + 1, y0 + 2>>]

\* seg() turns a segment around, and leaves out one without length.
Seg(v0, v1) == IF v0 = v1 THEN <<>> ELSE <<<<v1, v0>>>>
Segs(u, v, w) == Seg(v, w) \o Seg(u, v)

High(s) == {k \in {"a", "b", "c", "d"} : s[k] > Threshold}
MarchCellSoft(s, x0, y0) ==
  LET at == Crossing(s, x0, y0)
      Way(w) == Seg(at[Ends[w][1]], at[Ends[w][2]])
  IN  FlattenSeq([k \in DOMAIN Ways(High(s), FALSE) |-> Way(Ways(High(s), FALSE)[k])])
MarchCellHard(s, x0, y0) ==
  LET at == Middle(x0, y0)
      Way(w) == IF w \in Straight THEN Seg(at[Ends[w][1]], at[Ends[w][2]])
                ELSE Segs(at[Ends[w][1]], <<x0 + 1, y0 + 1>>, at[Ends[w][2]])
  IN  FlattenSeq([k \in DOMAIN Ways(High(s), TRUE) |-> Way(Ways(High(s), TRUE)[k])])

-----------------------------------------------------------------------------
(* cpMarchCells() *)

MarchInit ==
  \E buffer \in [0 .. XSamples - 1 -> Level], hard \in BOOLEAN, port \in {"c", "zig"} :
    march = [hard |-> hard, port |-> port, buffer |-> buffer, i |-> XSamples - 1, j |-> -1,
             b |-> 0, d |-> 0, lines |-> <<>>, made |-> EmptyBag]

\* The next row begins with the samples at its left end.
MarchRow(sample) ==
  /\ march.i = XSamples - 1 /\ march.j < YSamples - 2
  /\ march' = [march EXCEPT !.i = 0, !.j = @ + 1, !.b = march.buffer[0], !.d = sample,
                            !.buffer[0] = sample]

MarchCell(sample) ==
  LET s == [a |-> march.b, b |-> march.buffer[march.i + 1], c |-> march.d, d |-> sample]
      found == IF march.hard THEN MarchCellHard(s, 2 * march.i, 2 * march.j)
               ELSE MarchCellSoft(s, 2 * march.i, 2 * march.j)
  IN  /\ march.i < XSamples - 1
      /\ march' = [march EXCEPT !.i = @ + 1, !.b = s.b, !.d = sample, !.buffer[march.i + 1] = sample,
                     !.lines = FoldLeft(LAMBDA lines, seg : CollectSegment(lines, seg, march.port), @, found),
                     !.made = @ (+) SetToBag(ToSet(found))]

MarchNext == \E sample \in Level : MarchRow(sample) \/ MarchCell(sample)

-----------------------------------------------------------------------------
(* Properties *)

OnBorder(v) == v[1] \in {0, 2 * (XSamples - 1)} \/ v[2] \in {0, 2 * (YSamples - 1)}
EdgesOf(line) == [k \in 1 .. Len(line) - 1 |-> <<line[k], line[k + 1]>>]

\* In whatever order the cells give their segments, each of them is an edge of just
\* one polyline, and these are not cut short: when the march is over every polyline is
\* closed or both its ends are on the border of the image.
OutlinesWhole ==
  LET edges == FlattenSeq([k \in DOMAIN march.lines |-> EdgesOf(march.lines[k])])
      done == march.i = XSamples - 1 /\ march.j = YSamples - 2
  IN  /\ \A e \in ToSet(edges) \cup BagToSet(march.made) :
           CopiesIn(e, march.made) = Cardinality({k \in DOMAIN edges : edges[k] = e})
      /\ done => \A line \in ToSet(march.lines) :
                   PolylineIsClosed(line) \/ (OnBorder(line[1]) /\ OnBorder(Last(line)))
=============================================================================
