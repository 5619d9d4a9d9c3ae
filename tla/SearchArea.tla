------------------------------ MODULE SearchArea ------------------------------
(***************************************************************************)
(* The areas that are searched for a house (tools/commute): the cells of a *)
(* grid that can be reached, drawn as polygons and rectangles.  tile.py    *)
(* keeps the cells near a station and merges them into rectangles, union.py*)
(* traces outlines, drive_isochrone.py asks for the driving times, keeps   *)
(* what is near enough and validates what it draws, intersection.py joins  *)
(* the areas on a grid of its own.                                         *)
(*                                                                         *)
(* Lengths are whole: a cell is four long and a grid an even number, so    *)
(* that the centre of a cell is a point even where the border cuts it.     *)
(* A point is <<lat, lon>>, a cell <<row, col>>.                           *)
(***************************************************************************)
EXTENDS Integers, Sequences, FiniteSets, FiniteSetsExt
LOCAL INSTANCE SequencesExt

CONSTANTS
    Areas,             \* the cells, stations and driving times to be tried
    NoArea,
    MaxLocations,      \* locations in one request for driving times, the destination among them
    MinIslandCells,    \* a smaller satellite of an area is not drawn
    NoRoad             \* the driving time from a cell that no road leads to

ASSUME SearchAreaAssumption == MaxLocations \in Nat \ {0, 1} /\ MinIslandCells \in Nat

VARIABLE area

Step == 4
\* A grid starts at a point and covers a height and a width, the last row and column in part.
Grid(lat, lon, height, width) == [lat |-> lat, lon |-> lon, height |-> height, width |-> width]
RowsOf(g) == (g.height + Step - 1) \div Step
ColsOf(g) == (g.width + Step - 1) \div Step
CellsOf(g) == (0..RowsOf(g) - 1) \X (0..ColsOf(g) - 1)
\* grid_cell_centers lists them by rows.
CellList(g) == [k \in 1..RowsOf(g) * ColsOf(g) |-> <<(k - 1) \div ColsOf(g), (k - 1) % ColsOf(g)>>]

Corner(g, row, col) == <<g.lat + row * Step, g.lon + col * Step>>
\* The rectangle of some columns of a row, clamped to the grid.
Span(g, row, from, to) ==
    [south |-> g.lat + row * Step, north |-> Min({g.lat + (row + 1) * Step, g.lat + g.height}),
     west |-> g.lon + from * Step, east |-> Min({g.lon + (to + 1) * Step, g.lon + g.width})]
Whole(g) == [south |-> g.lat, north |-> g.lat + g.height, west |-> g.lon, east |-> g.lon + g.width]
CellRect(g, cell) == Span(g, cell[1], cell[2], cell[2])
Centre(g, cell) == LET r == CellRect(g, cell) IN <<(r.south + r.north) \div 2, (r.west + r.east) \div 2>>

Square(x) == x * x
Clamp(x, low, high) == Min({Max({x, low}), high})
\* point_to_rect_distance_km, squared
Distance2(p, r) == Square(p[1] - Clamp(p[1], r.south, r.north)) + Square(p[2] - Clamp(p[2], r.west, r.east))

-----------------------------------------------------------------------------
(***************************************************************************)
(* Stations: rasterize, merge_rows, merge_rectangles                       *)
(***************************************************************************)
\* The window of cells that is looked at round a station, clamped to the grid.
Window(g, p, buffer) ==
    (Max({0, (p[1] - buffer - g.lat) \div Step})..Min({RowsOf(g) - 1, (p[1] + buffer - g.lat) \div Step}))
      \X (Max({0, (p[2] - buffer - g.lon) \div Step})..Min({ColsOf(g) - 1, (p[2] + buffer - g.lon) \div Step}))
Rasterize(g, stations, buffer) ==
    {cell \in CellsOf(g) : \E p \in stations :
        cell \in Window(g, p, buffer) /\ Distance2(p, CellRect(g, cell)) <= Square(buffer)}

\* Each row's runs of consecutive cells, by rows and then by columns.
MergeRows(g, cells) ==
    LET starts == SelectSeq(CellList(g), LAMBDA c : c \in cells /\ <<c[1], c[2] - 1>> \notin cells)
        End(c) == Min({to \in c[2]..ColsOf(g) : <<c[1], to + 1>> \notin cells})
    IN  [k \in DOMAIN starts |-> Span(g, starts[k][1], starts[k][2], End(starts[k]))]

\* A rectangle grows by the next one when that is adjacent and has the same span.
Grow(rects, r) ==
    LET below == {k \in DOMAIN rects : rects[k].west = r.west /\ rects[k].east = r.east /\ rects[k].north = r.south}
    IN  IF below = {} THEN Append(rects, r) ELSE [rects EXCEPT ![Max(below)].north = r.north]
MergeRectangles(rects) == FoldLeft(Grow, << >>, rects)
\* shed_to_searches: the searches of a list of kept stations.
ShedToSearches(g, stations, buffer) == MergeRectangles(MergeRows(g, Rasterize(g, stations, buffer)))

\* validate: what can be wrong with the searches of some stations.
InRect(p, r) == r.south <= p[1] /\ p[1] <= r.north /\ r.west <= p[2] /\ p[2] <= r.east
RectsOverlap(a, b) == a.north > b.south /\ b.north > a.south /\ a.east > b.west /\ b.east > a.west
UncoveredCells(g, rects, stations, buffer) ==
    {c \in Rasterize(g, stations, buffer) : ~\E i \in DOMAIN rects : InRect(Centre(g, c), rects[i])}
CoverageIssues(rects, stations, buffer) ==
    {p \in stations : ~\E i \in DOMAIN rects : Distance2(p, rects[i]) <= Square(buffer)}
ShedIssues(g, rects, stations, buffer) ==
    {<<"outside", i>> : i \in {i \in DOMAIN rects : ~InRect(<<rects[i].south, rects[i].west>>, Whole(g))
                                                      \/ ~InRect(<<rects[i].north, rects[i].east>>, Whole(g))}}
      \cup {<<"overlap", i>> : i \in {i \in DOMAIN rects : \E k \in DOMAIN rects : k > i /\ RectsOverlap(rects[i], rects[k])}}
      \cup {<<"station", p>> : p \in CoverageIssues(rects, stations, buffer)}
      \cup {<<"cell", c>> : c \in UncoveredCells(g, rects, stations, buffer)}

-----------------------------------------------------------------------------
(***************************************************************************)
(* Outlines: union_outline.  The boundary is a sequence of segments; which *)
(* comes first depends on the order in which the cells are listed.         *)
(***************************************************************************)
Sides(g, cells, c) ==
    LET r == c[1]
        k == c[2]
        side == << [to |-> <<r - 1, k>>, seg |-> <<Corner(g, r, k), Corner(g, r, k + 1)>>],
                   [to |-> <<r + 1, k>>, seg |-> <<Corner(g, r + 1, k), Corner(g, r + 1, k + 1)>>],
                   [to |-> <<r, k - 1>>, seg |-> <<Corner(g, r, k), Corner(g, r + 1, k)>>],
                   [to |-> <<r, k + 1>>, seg |-> <<Corner(g, r, k + 1), Corner(g, r + 1, k + 1)>>] >>
        open == SelectSeq(side, LAMBDA s : s.to \notin cells)
    IN  [i \in DOMAIN open |-> open[i].seg]
BoundarySegments(g, cells, listing) ==
    FoldLeft(LAMBDA segs, c : IF c \in cells THEN segs \o Sides(g, cells, c) ELSE segs, << >>, listing)

\* The segments are followed from either end.
OtherEnd(seg, p) == IF seg[1] = p THEN seg[2] ELSE seg[1]
SegmentsAt(segs, p) == {i \in DOMAIN segs : p \in {segs[i][1], segs[i][2]}}

Sign(x) == IF x > 0 THEN 1 ELSE IF x < 0 THEN -1 ELSE 0
Direction(a, b) == <<Sign(b[1] - a[1]), Sign(b[2] - a[2])>>
LeftOf(d) == <<d[2], -d[1]>>
\* How soon a turn is taken: left, straight on, back, right.
Preference(incoming, d) ==
    CASE d = LeftOf(incoming) -> 1 [] d = incoming -> 2
      [] d = LeftOf(LeftOf(incoming)) -> 3 [] OTHER -> 4

\* _pick_next: the segment to go on with, 0 when none is left.
PickNext(segs, used, p, incoming) ==
    LET free == SegmentsAt(segs, p) \ used
        Turn(i) == Preference(incoming, Direction(p, OtherEnd(segs[i], p)))
    IN  IF free = {} THEN 0 ELSE CHOOSE i \in free : \A k \in free : Turn(i) <= Turn(k)

\* One step of a walk along the boundary: it ends where it began or where nothing is left.
Onward(segs, w, next) ==
    IF next = 0 THEN [w EXCEPT !.done = TRUE]
    ELSE IF OtherEnd(segs[next], w.at) = w.loop[1] THEN [w EXCEPT !.done = TRUE, !.used = @ \cup {next}]
    ELSE [w EXCEPT !.used = @ \cup {next}, !.incoming = Direction(w.at, OtherEnd(segs[next], w.at)),
                   !.loop = Append(@, OtherEnd(segs[next], w.at)), !.at = OtherEnd(segs[next], w.at)]
Walk(segs, w) ==
    FoldLeft(LAMBDA v, n : IF v.done THEN v ELSE Onward(segs, v, PickNext(segs, v.used, v.at, v.incoming)),
             w, segs)

\* _trace_loop, from a vertex and the first segment that is left there
TraceLoop(segs, used, start, first) ==
    Walk(segs, [loop |-> <<start, OtherEnd(segs[first], start)>>, at |-> OtherEnd(segs[first], start),
                incoming |-> Direction(start, OtherEnd(segs[first], start)),
                used |-> used \cup {first}, done |-> FALSE])
Traced(t, w) == [used |-> w.used, loops |-> IF Len(w.loop) > 2 THEN Append(t.loops, w.loop) ELSE t.loops]
FromVertex(segs, t, p) ==
    IF SegmentsAt(segs, p) \subseteq t.used THEN t
    ELSE Traced(t, TraceLoop(segs, t.used, p, Min(SegmentsAt(segs, p) \ t.used)))
\* trace_all: the vertices in the order in which the segments name them.
TraceAll(segs) ==
    FoldLeft(LAMBDA t, s : FromVertex(segs, FromVertex(segs, t, s[1]), s[2]),
             [used |-> {}, loops |-> << >>], segs).loops

\* _remove_collinear
Around(loop, i) == loop[((i - 1) % Len(loop)) + 1]
Turns(loop, i) ==
    \A k \in {1, 2} : ~(Around(loop, i + Len(loop) - 1)[k] = loop[i][k] /\ Around(loop, i + 1)[k] = loop[i][k])
RemoveCollinear(loop) ==
    FoldLeft(LAMBDA kept, i : IF Turns(loop, i) THEN Append(kept, loop[i]) ELSE kept, << >>, [i \in DOMAIN loop |-> i])
UnionOutline(g, cells, listing) ==
    LET loops == TraceAll(BoundarySegments(g, cells, listing))
    IN  SelectSeq([i \in DOMAIN loops |-> RemoveCollinear(loops[i])], LAMBDA l : l # << >>)

\* Twice the area, by the shoelace formula.
Area2(poly) ==
    FoldLeft(LAMBDA sum, i : sum + poly[i][1] * Around(poly, i + 1)[2] - Around(poly, i + 1)[1] * poly[i][2],
             0, [i \in DOMAIN poly |-> i])
LoopSize(poly) == Max({Area2(poly), -Area2(poly)})
\* outer_loop: the first of the largest; holes are absorbed.
LargestOf(loops) == loops[Min({i \in DOMAIN loops : \A k \in DOMAIN loops : LoopSize(loops[k]) <= LoopSize(loops[i])})]
\* Mutant: the first outline is taken for the outer one.
FirstLoop(g, cells, listing) == UnionOutline(g, cells, listing)[1]
OuterLoop(g, cells, listing) == LargestOf(UnionOutline(g, cells, listing))

-----------------------------------------------------------------------------
(***************************************************************************)
(* Components                                                              *)
(***************************************************************************)
Beside(c) == {<<c[1] - 1, c[2]>>, <<c[1] + 1, c[2]>>, <<c[1], c[2] - 1>>, <<c[1], c[2] + 1>>}
\* What is reached from c without leaving the cells.
ComponentOf(cells, c) ==
    FoldSet(LAMBDA n, comp : UNION {{d \in cells : d \in near \/ Beside(d) \cap near # {}} : near \in {comp}},
            {c}, 1..Cardinality(cells))
Components(cells) == {ComponentOf(cells, c) : c \in cells}
\* The largest first, then the southernmost and the westernmost.
Before(a, b) ==
    LET South(comp) == Min({c[1] : c \in comp})
        West(comp) == Min({c[2] : c \in comp})
    IN  \/ Cardinality(a) > Cardinality(b)
        \/ Cardinality(a) = Cardinality(b) /\ South(a) < South(b)
        \/ Cardinality(a) = Cardinality(b) /\ South(a) = South(b) /\ West(a) < West(b)
Foremost(comp, comps) == \A other \in comps \ {comp} : ~Before(other, comp)
RetainedComponents(cells) ==
    {comp \in Components(cells) : Foremost(comp, Components(cells)) \/ Cardinality(comp) >= MinIslandCells}
OutlinesOf(g, cells, listing) == {OuterLoop(g, comp, listing) : comp \in RetainedComponents(cells)}

-----------------------------------------------------------------------------
(***************************************************************************)
(* Driving times                                                           *)
(***************************************************************************)
\* build_matrix_requests: the cells of each request, so many at a time
Chunks(cells, size) ==
    [k \in 1..(Len(cells) + size - 1) \div size |-> SubSeq(cells, (k - 1) * size + 1, Min({k * size, Len(cells)}))]
Requests(cells) == Chunks(cells, MaxLocations - 1)
\* The matrix service answers a request that is not too long, in its order; build_raw puts
\* the answers one after the other and the cells beside them.
Answered(request, time) ==
    [i \in 1..Min({Len(request), MaxLocations - 1}) |-> time[request[i]]]
Durations(cells, time) ==
    FoldLeft(LAMBDA got, request : got \o Answered(request, time), << >>, Requests(cells))
KeptCells(cells, durations, threshold) ==
    {cells[i] : i \in {k \in DOMAIN cells \cap DOMAIN durations : durations[k] # NoRoad /\ durations[k] <= threshold}}

\* raw_to_searches, for one destination
DriveSearches(g, time, threshold, listing) ==
    UNION {OutlinesOf(g, kept, listing) : kept \in {KeptCells(CellList(g), Durations(CellList(g), time), threshold)}}

\* point_in_polygon: the border counts as inside.
OnSegment(p, a, b) ==
    /\ (b[1] - a[1]) * (p[2] - a[2]) = (b[2] - a[2]) * (p[1] - a[1])
    /\ \A k \in {1, 2} : Min({a[k], b[k]}) <= p[k] /\ p[k] <= Max({a[k], b[k]})
\* A segment that a ray from the point towards greater longitudes crosses.
Crosses(p, a, b) ==
    /\ (a[1] > p[1]) # (b[1] > p[1])
    /\ LET d == b[1] - a[1] IN (p[2] - a[2]) * d * d < (p[1] - a[1]) * (b[2] - a[2]) * d
PointInPolygon(p, poly) ==
    \/ \E i \in DOMAIN poly : OnSegment(p, poly[i], Around(poly, i + 1))
    \/ Cardinality({i \in DOMAIN poly : Crosses(p, poly[i], Around(poly, i + 1))}) % 2 = 1
\* validate_payload, of what can be wrong with a drawn area: no search at all, an outline
\* that is no polygon, or a destination outside all of its outlines.
DriveIssues(outlines, destination) ==
    {"none" : o \in {x \in {outlines} : x = {}}} \cup {"vertices" : o \in {o \in outlines : Len(o) < 4}}
      \cup (IF \E o \in outlines : PointInPolygon(destination, o) THEN {} ELSE {"outside"})

-----------------------------------------------------------------------------
(***************************************************************************)
(* All commutes                                                            *)
(***************************************************************************)
InArea(g, c, outlines) == \E o \in outlines : PointInPolygon(Centre(g, c), o)
DriveCells(g, outlines) == {c \in CellsOf(g) : InArea(g, c, outlines)}
\* common_grid: what all regions cover; without that nothing is built.
CommonGrid(regions) ==
    LET south == Max({r.lat : r \in regions})
        west == Max({r.lon : r \in regions})
    IN  Grid(south, west, Min({r.lat + r.height : r \in regions}) - south, Min({r.lon + r.width : r \in regions}) - west)
Overlap(regions) == CommonGrid(regions).height > 0 /\ CommonGrid(regions).width > 0

\* Mutant: a destination without an area is passed over.
KeptForSome(g, stations, buffer, areas) ==
    {c \in Rasterize(g, stations, buffer) : \A outlines \in areas \ {{}} : InArea(g, c, outlines)}
\* The intersection is empty when some destination has no area.
KeptForAll(g, stations, buffer, areas) ==
    IF {} \in areas THEN {}
    ELSE {c \in Rasterize(g, stations, buffer) : \A outlines \in areas : InArea(g, c, outlines)}

-----------------------------------------------------------------------------
(***************************************************************************)
(* Properties                                                              *)
(***************************************************************************)
\* The merged rectangles cover the kept cells, each once, and no others; a cell is kept when
\* a station is strictly within reach, and only when one is within reach; the validation of
\* what was generated has nothing to say.
RectanglesCover ==
    area # NoArea /\ area.is = "stations" =>
        \A cells \in {Rasterize(area.grid, area.stations, area.buffer)} :
        \A rects \in {ShedToSearches(area.grid, area.stations, area.buffer)} :
        /\ ShedIssues(area.grid, rects, area.stations, area.buffer) = {}
        /\ \A c \in CellsOf(area.grid) :
            LET distances == {Distance2(p, CellRect(area.grid, c)) : p \in area.stations}
            IN  /\ (\E d \in distances : d < Square(area.buffer)) => c \in cells
                /\ c \in cells => \E d \in distances : d <= Square(area.buffer)
                /\ Cardinality({i \in DOMAIN rects : InRect(Centre(area.grid, c), rects[i])})
                     = (IF c \in cells THEN 1 ELSE 0)

\* The outlines of a union bound exactly its cells, in whatever order the cells are listed.
OutlinesBound ==
    area # NoArea /\ area.is = "cells" =>
        \A loops \in {UnionOutline(area.grid, area.cells, area.listing)} :
        \A c \in CellsOf(area.grid) :
            (c \in area.cells) <=> Cardinality({i \in DOMAIN loops : PointInPolygon(Centre(area.grid, c), loops[i])}) % 2 = 1

\* The cells from which the outside is reached without crossing the component.
Outside(g, comp) ==
    ComponentOf(((-1..RowsOf(g)) \X (-1..ColsOf(g))) \ comp, <<-1, -1>>)
OuterCovers ==
    area # NoArea /\ area.is = "cells" =>
        \A comp \in Components(area.cells) :
        \A loop \in {OuterLoop(area.grid, comp, area.listing)} : \A c \in CellsOf(area.grid) :
            /\ c \in comp => PointInPolygon(Centre(area.grid, c), loop)
            /\ PointInPolygon(Centre(area.grid, c), loop) => c \notin Outside(area.grid, comp)

\* A destination is in the middle of its region.
Destination(g) == <<g.lat + g.height \div 2, g.lon + g.width \div 2>>
NearCells(d) == ToSet(SelectSeq(CellList(d.grid), LAMBDA c : d.time[c] # NoRoad /\ d.time[c] <= d.threshold))
Touches(g, p, cells) == \E c \in cells : InRect(p, CellRect(g, c))
\* Cells that are neither in the set nor enclosed by it.
Beyond(g, cells) == CellsOf(g) \cap Outside(g, cells)
DrawnFor(d) == DriveSearches(d.grid, d.time, d.threshold, d.listing)

\* However many requests the driving times take, a destination's searches hold every cell
\* within its threshold but those of small satellites, and nothing that is neither within
\* the threshold nor enclosed; a destination that touches the main part passes validation.
DriveAreaHolds(d) ==
    \A outlines \in {DrawnFor(d)} : \A near \in {NearCells(d)} : \A parts \in {Components(near)} :
    \A drawn \in {DriveCells(d.grid, outlines)} : \A issues \in {DriveIssues(outlines, Destination(d.grid))} :
        /\ \A comp \in parts :
              \/ comp \subseteq drawn
              \/ Cardinality(comp) < MinIslandCells /\ \E other \in parts : Before(other, comp)
        /\ drawn \cap Beyond(d.grid, near) = {}
        /\ near = {} <=> "none" \in issues
        /\ \A comp \in parts :
              Touches(d.grid, Destination(d.grid), comp) /\ Cardinality(comp) >= MinIslandCells => issues = {}
DriveAreas == area # NoArea /\ area.is = "drive" => DriveAreaHolds(area)

\* Each kept cell is near a station and can be reached from every destination, up to what
\* the areas enclose; where nobody can live for a destination nothing is kept; what is within
\* everybody's area is; and what is drawn is kept or enclosed by what is.
CommutesHold(g, kept, near, reached) ==
    /\ \A c \in kept : near[c] <= Square(area.buffer) /\ \A r \in reached : Touches(r.grid, Centre(g, c), r.cells)
    /\ \A c \in CellsOf(g) \ kept : near[c] < Square(area.buffer) => \E r \in reached : ~InArea(g, c, r.drawn)
    /\ (\E r \in reached : r.cells = {}) => kept = {}
    /\ \A drawn \in {DriveCells(g, OutlinesOf(g, kept, CellList(g)))} : drawn \cap Beyond(g, kept) = {}
\* How far the next station is from each cell (squared), and where a destination is reached from.
Nearest(g, stations) ==
    [c \in CellsOf(g) |-> Min({Distance2(p, CellRect(g, c)) : p \in stations} \cup {Square(area.buffer) + 1})]
Reached(d) == [grid |-> d.grid, drawn |-> DrawnFor(d), cells |-> CellsOf(d.grid) \ Beyond(d.grid, NearCells(d))]
AllCommutes ==
    area # NoArea /\ area.is = "all" =>
        \A reached \in {{Reached(d) : d \in area.drives}} :
            Overlap({r.grid : r \in reached}) =>
                \A g \in {CommonGrid({r.grid : r \in reached})} :
                \A kept \in {KeptForAll(g, area.stations, area.buffer, {r.drawn : r \in reached})} :
                \A near \in {Nearest(g, area.stations)} : CommutesHold(g, kept, near, reached)

\* The areas of a search are the ones that its stations and driving times say.
AreasAreDrawn == RectanglesCover /\ OutlinesBound /\ OuterCovers /\ DriveAreas /\ AllCommutes
=============================================================================
