-------------------------- MODULE ConsoleViews_proofs --------------------------
(***************************************************************************)
(* For any fleets, reports, searches and number of changes: no robot of    *)
(* the fleet is lost between the pages, the map is true to scale, and the  *)
(* frame of a site only widens while the map is open.                      *)
(***************************************************************************)
EXTENDS ConsoleViews, FoldTheorems
-----------------------------------------------------------------------------
(* Rounding.                                                               *)

(* A product is no larger than the product of its factors' bounds. *)
LEMMA ProductWithin ==
    ASSUME NEW a \in Int, NEW b \in Nat, NEW c \in Int, NEW d \in Nat,
           -b <= a, a <= b, -d <= c, c <= d
    PROVE  -(b * d) <= a * c /\ a * c <= b * d
<1>1. CASE a >= 0
  <2>1. a * c <= a * d /\ a * (-d) <= a * c
    BY <1>1, ProductGrows
  <2>2. d * a <= d * b
    BY ProductGrows
  <2>3. a * (-d) = -(d * a) /\ a * d = d * a /\ d * b = b * d
    OBVIOUS
  <2>4. a * c \in Int /\ d * a \in Int /\ b * d \in Int
    OBVIOUS
  <2> QED BY <2>1, <2>2, <2>3, <2>4
<1>2. CASE a <= 0
  <2>1. (-a) * c <= (-a) * d /\ (-a) * (-d) <= (-a) * c
    BY <1>2, ProductGrows
  <2>2. d * (-a) <= d * b
    BY ProductGrows
  <2>3. /\ (-a) * c = -(a * c) /\ (-a) * d = d * (-a)
        /\ (-a) * (-d) = -(d * (-a)) /\ d * b = b * d
    OBVIOUS
  <2>4. a * c \in Int /\ d * (-a) \in Int /\ b * d \in Int
    OBVIOUS
  <2> QED BY <2>1, <2>2, <2>3, <2>4
<1> QED BY <1>1, <1>2

(* Rounding is off by half the divisor at most, and stays in bounds. *)
LEMMA RoundedNear ==
    ASSUME NEW n \in Int, NEW d \in Nat, d > 0
    PROVE  /\ Rounded(n, d) \in Int
           /\ 2 * (d * Rounded(n, d)) <= 2 * n + d
           /\ 2 * n - d < 2 * (d * Rounded(n, d))
<1>1. 2 * n + d \in Int /\ 2 * d \in Nat /\ 2 * d > 0
  OBVIOUS
<1> DEFINE q == (2 * n + d) \div (2 * d)
<1>2. /\ q \in Int
      /\ (2 * d) * q <= 2 * n + d
      /\ 2 * n + d < (2 * d) * q + 2 * d
  BY <1>1, Quotient
<1> HIDE DEF q
<1>3. (2 * d) * q = 2 * (d * q) /\ d * q \in Int
  BY <1>2
<1>4. q = Rounded(n, d)
  BY DEF q, Rounded
<1> QED BY <1>2, <1>3, <1>4

LEMMA RoundedBetween ==
    ASSUME NEW n \in Nat, NEW d \in Nat, d > 0, NEW k \in Nat, n <= d * k
    PROVE  Rounded(n, d) \in 0..k
<1> DEFINE q == Rounded(n, d)
<1>1. /\ q \in Int
      /\ 2 * (d * q) <= 2 * n + d
      /\ 2 * n - d < 2 * (d * q)
  BY RoundedNear
<1> HIDE DEF q
<1>2. d * q \in Int /\ d * k \in Int
  BY <1>1
<1>3. CASE q < 0
  <2>1. d * q <= d * (-1)
    BY <1>1, <1>3, ProductGrows
  <2> QED BY <2>1, <1>1, <1>2
<1>4. CASE q > k
  <2>1. d * (k + 1) <= d * q
    BY <1>1, <1>4, ProductGrows
  <2>2. d * (k + 1) = d * k + d
    OBVIOUS
  <2> QED BY <2>1, <2>2, <1>1, <1>2
<1>5. CASE 0 <= q /\ q <= k
  BY <1>1, <1>5 DEF q
<1> QED BY <1>1, <1>3, <1>4, <1>5
-----------------------------------------------------------------------------
(* Frames. *)
Inside(n, axis) == axis.min <= n /\ n <= axis.max

InBox(p, box) == Inside(p.x, box.x) /\ Inside(p.y, box.y)

WideAxis == {a \in Axis : MinExtentSpan <= a.max - a.min}

Box == [x : WideAxis, y : WideAxis]

Kept == UNION {[known -> Box] : known \in SUBSET SiteId}

Widens(before, after) ==
    \A s \in DOMAIN before :
        /\ s \in DOMAIN after
        /\ Covers(after[s].x, before[s].x)
        /\ Covers(after[s].y, before[s].y)

InFrame(data, site, kept) ==
    \A r \in Plottable(data, site) :
        site \in DOMAIN kept /\ InBox(Robots(data)[r].position, kept[site])

LEMMA BoxIsNotNull == \A box \in Box : box # Null
BY ViewsAssumption DEF Box, WideAxis, Extents

LEMMA WideEnough ==
    ASSUME NEW low \in Int, NEW high \in Int, 100 <= high - low
    PROVE  [min |-> low, max |-> high] \in WideAxis
BY DEF WideAxis, Axis, MinExtentSpan

LEMMA PadAxisContains ==
    ASSUME NEW low \in Int, NEW high \in Int, low <= high
    PROVE  /\ PadAxis(low, high) \in WideAxis
           /\ \A n \in Int : low <= n /\ n <= high => Inside(n, PadAxis(low, high))
<1> DEFINE pad == (high - low) \div 10
           centre == (low + high) \div 2
<1>1. pad \in Int /\ 0 <= pad
  OBVIOUS
<1>2. centre \in Int /\ 2 * centre <= low + high /\ low + high <= 2 * centre + 1
  OBVIOUS
<1>3. PadAxis(low, high) =
        IF high - low + 2 * pad < 100
        THEN [min |-> centre - 50, max |-> centre + 50]
        ELSE [min |-> low - pad, max |-> high + pad]
  <2>1. 100 \div 2 = 50
    OBVIOUS
  <2> QED BY <2>1 DEF PadAxis, PadRatio, MinExtentSpan
<1> HIDE DEF pad, centre
<1>4. PICK least \in Int, most \in Int :
        /\ PadAxis(low, high) = [min |-> least, max |-> most]
        /\ least <= low /\ high <= most /\ 100 <= most - least
  <2>1. CASE high - low + 2 * pad < 100
    <3>1. /\ centre - 50 \in Int /\ centre + 50 \in Int
          /\ centre - 50 <= low /\ high <= centre + 50
          /\ 100 <= (centre + 50) - (centre - 50)
      BY <1>1, <1>2, <2>1
    <3>2. PadAxis(low, high) = [min |-> centre - 50, max |-> centre + 50]
      BY <1>3, <2>1
    <3> QED BY <3>1, <3>2
  <2>2. CASE ~(high - low + 2 * pad < 100)
    <3>1. /\ low - pad \in Int /\ high + pad \in Int
          /\ low - pad <= low /\ high <= high + pad
          /\ 100 <= (high + pad) - (low - pad)
      BY <1>1, <2>2
    <3>2. PadAxis(low, high) = [min |-> low - pad, max |-> high + pad]
      BY <1>3, <2>2
    <3> QED BY <3>1, <3>2
  <2> QED BY <2>1, <2>2
<1>5. PadAxis(low, high) \in WideAxis
  BY <1>4, WideEnough
<1> QED BY <1>4, <1>5 DEF Inside

LEMMA UnionCovers ==
    ASSUME NEW a \in WideAxis, NEW b \in WideAxis
    PROVE  /\ Union(a, b) \in WideAxis
           /\ Covers(Union(a, b), a) /\ Covers(Union(a, b), b)
<1>1. /\ a.min \in Int /\ a.max \in Int /\ b.min \in Int /\ b.max \in Int
      /\ 100 <= a.max - a.min /\ 100 <= b.max - b.min
  BY DEF WideAxis, Axis, MinExtentSpan
<1>2. PICK low : low = Min({a.min, b.min})
  OBVIOUS
<1>3. PICK high : high = Max({a.max, b.max})
  OBVIOUS
<1>4. low \in Int /\ low <= a.min /\ low <= b.min
  BY <1>1, <1>2, OfTwo
<1>5. high \in Int /\ a.max <= high /\ b.max <= high
  BY <1>1, <1>3, OfTwo
<1>6. 100 <= high - low
  BY <1>1, <1>4, <1>5
<1>7. Union(a, b) = [min |-> low, max |-> high]
  BY <1>2, <1>3 DEF Union
<1> QED BY <1>1, <1>4, <1>5, <1>6, <1>7 DEF WideAxis, Axis, MinExtentSpan, Covers

(* The padded box of some positions contains them all. *)
LEMMA ExtentsContain ==
    ASSUME NEW positions \in SUBSET Position, IsFiniteSet(positions),
           positions # {}
    PROVE  /\ ComputeSiteExtents(positions) \in Box
           /\ \A p \in positions : InBox(p, ComputeSiteExtents(positions))
<1> DEFINE xs == {p.x : p \in positions}
           ys == {p.y : p \in positions}
<1>1. IsFiniteSet(xs) /\ IsFiniteSet(ys)
  <2> DEFINE east == [p \in positions |-> p.x]
             north == [p \in positions |-> p.y]
  <2>1. xs = {east[p] : p \in positions} /\ ys = {north[p] : p \in positions}
    OBVIOUS
  <2> HIDE DEF xs, ys, east, north
  <2> QED BY <2>1, ImageIsFinite
<1>2. xs \in SUBSET Int /\ ys \in SUBSET Int /\ xs # {} /\ ys # {}
  BY DEF Position
<1>3. \A p \in positions : p.x \in xs /\ p.y \in ys
  OBVIOUS
<1>4. ComputeSiteExtents(positions) =
        [x |-> PadAxis(Min(xs), Max(xs)), y |-> PadAxis(Min(ys), Max(ys))]
  BY DEF ComputeSiteExtents
<1> HIDE DEF xs, ys
<1>5. /\ Min(xs) \in xs /\ Max(xs) \in xs
      /\ \A n \in xs : Min(xs) <= n /\ n <= Max(xs)
  BY <1>1, <1>2, FiniteIsBounded, MinAndMax
<1>6. /\ Min(ys) \in ys /\ Max(ys) \in ys
      /\ \A n \in ys : Min(ys) <= n /\ n <= Max(ys)
  BY <1>1, <1>2, FiniteIsBounded, MinAndMax
<1>7. /\ PadAxis(Min(xs), Max(xs)) \in WideAxis
      /\ \A n \in xs : Inside(n, PadAxis(Min(xs), Max(xs)))
  <2>1. Min(xs) \in Int /\ Max(xs) \in Int /\ Min(xs) <= Max(xs)
    BY <1>2, <1>5
  <2> QED BY <2>1, <1>2, <1>5, PadAxisContains
<1>8. /\ PadAxis(Min(ys), Max(ys)) \in WideAxis
      /\ \A n \in ys : Inside(n, PadAxis(Min(ys), Max(ys)))
  <2>1. Min(ys) \in Int /\ Max(ys) \in Int /\ Min(ys) <= Max(ys)
    BY <1>2, <1>6
  <2> QED BY <2>1, <1>2, <1>6, PadAxisContains
<1> QED BY <1>3, <1>4, <1>7, <1>8 DEF Box, InBox

(* What was kept and what is computed anew are both in what is kept next.  *)
LEMMA MergeCovers ==
    ASSUME NEW previous \in Box \cup {Null}, NEW next \in Box \cup {Null}
    PROVE  /\ MergeExtents(previous, next) \in Box \cup {Null}
           /\ \A box \in {previous, next} \ {Null} :
                 /\ MergeExtents(previous, next) \in Box
                 /\ Covers(MergeExtents(previous, next).x, box.x)
                 /\ Covers(MergeExtents(previous, next).y, box.y)
<1>1. \A box \in Box : Covers(box.x, box.x) /\ Covers(box.y, box.y)
  BY DEF Box, WideAxis, Axis, Covers
<1>2. CASE previous = Null
  BY <1>1, <1>2 DEF MergeExtents
<1>3. CASE previous # Null /\ next = Null
  BY <1>1, <1>3 DEF MergeExtents
<1>4. CASE previous # Null /\ next # Null
  <2>1. MergeExtents(previous, next) =
          [x |-> Union(previous.x, next.x), y |-> Union(previous.y, next.y)]
    BY <1>4 DEF MergeExtents
  <2>2. /\ previous.x \in WideAxis /\ previous.y \in WideAxis
        /\ next.x \in WideAxis /\ next.y \in WideAxis
    BY <1>4 DEF Box
  <2>3. MergeExtents(previous, next) \in Box
    BY <2>1, <2>2, UnionCovers DEF Box
  <2> QED BY <2>1, <2>2, <2>3, UnionCovers
<1> QED BY <1>2, <1>3, <1>4
-----------------------------------------------------------------------------
(* Fleets and stores. *)
Fleet == {f \in UNION {FleetOf(known) : known \in SUBSET Robot} : Placed(f)}

(* What is held is rendered: no phase is waiting for it, and readiness     *)
(* needs it.                                                               *)
HeldIsShown(st) ==
    /\ st.held => st.rows \in Fleet /\ st.phase # "loading"
    /\ st.phase = "ready" => st.held

Stores ==
    {st \in [phase : ResourcePhase, held : BOOLEAN, rows : Fleet \cup {Null}] :
        HeldIsShown(st)}

LEMMA FleetFacts ==
    ASSUME NEW f \in Fleet
    PROVE  /\ f # Null
           /\ f = [robots |-> f.robots, sites |-> f.sites]
           /\ DOMAIN f.robots \in SUBSET Robot
           /\ f.robots \in [DOMAIN f.robots -> Row]
           /\ f.sites \in Seq(SiteId)
           /\ Placed(f)
<1>1. PICK known \in SUBSET Robot : f \in FleetOf(known)
  BY DEF Fleet
<1>2. f \in [robots : [known -> Row], sites : Seq(SiteId)]
  BY <1>1 DEF FleetOf
<1>3. DOMAIN f.robots = known
  BY <1>2
<1>4. f # Null
  BY <1>1, ViewsAssumption
<1>5. Placed(f)
  BY DEF Fleet
<1> QED BY <1>2, <1>3, <1>4, <1>5

LEMMA BroughtFleets == Fleets \subseteq Fleet
<1> SUFFICES ASSUME NEW f \in Fleets PROVE f \in Fleet
  OBVIOUS
<1>1. IsFleet(f)
  BY ViewsAssumption
<1> QED BY <1>1 DEF IsFleet, Fleet

LEMMA DataType ==
    ASSUME NEW st \in Stores
    PROVE  /\ Data(st) \in Fleet \cup {Null}
           /\ st.held => Data(st) = st.rows /\ st.rows \in Fleet
BY DEF Stores, HeldIsShown, Data

(* A site that is shown is one of the directory, if that names any. *)
LEMMA SiteShownType ==
    ASSUME NEW data \in Fleet \cup {Null}, NEW chosen
    PROVE  /\ SiteShown(data, chosen) \in SiteId \cup {Null}
           /\ Sites(data) # << >> => SiteShown(data, chosen) \in Range(Sites(data))
<1>1. Sites(data) \in Seq(SiteId)
  BY FleetFacts DEF Sites
<1>2. Range(Sites(data)) \subseteq SiteId
  BY <1>1 DEF Range
<1>3. Sites(data) # << >> => Sites(data)[1] \in Range(Sites(data))
  BY <1>1 DEF Range
<1> QED BY <1>2, <1>3 DEF SiteShown

(* What a robot of the fleet is. *)
LEMMA RobotFacts ==
    ASSUME NEW data \in Fleet \cup {Null}, NEW r \in DOMAIN Robots(data)
    PROVE  /\ data \in Fleet /\ r \in Robot
           /\ Robots(data) = data.robots /\ Sites(data) = data.sites
           /\ Robots(data)[r] \in Row
           /\ Robots(data)[r].site \in Range(Sites(data))
           /\ Robots(data)[r].site # Null
<1>1. data # Null
  BY DEF Robots
<1>2. data \in Fleet /\ Robots(data) = data.robots /\ Sites(data) = data.sites
  BY <1>1 DEF Robots, Sites
<1>3. Robots(data)[r] \in Row /\ r \in Robot
  BY <1>2, FleetFacts
<1>4. Robots(data)[r].site \in Range(Sites(data))
  BY <1>2, FleetFacts DEF Placed
<1>5. Robots(data)[r].site # Null
  BY <1>3, ViewsAssumption DEF Row
<1> QED BY <1>2, <1>3, <1>4, <1>5

LEMMA PlottableFacts ==
    ASSUME NEW data \in Fleet \cup {Null}, NEW site, NEW r \in Plottable(data, site)
    PROVE  /\ r \in Robot /\ site # Null
           /\ Robots(data)[r].position \in Position
<1>1. r \in DOMAIN Robots(data) /\ Robots(data)[r].site = site
  BY DEF Plottable, SiteRobots
<1>2. Robots(data)[r].position # Null
  BY DEF Plottable
<1> QED BY <1>1, <1>2, RobotFacts DEF Row

(* A render of the map keeps a frame around every robot of the site, and   *)
(* every frame kept before is at most wider.                               *)
LEMMA PersistedCovers ==
    ASSUME NEW data \in Fleet \cup {Null}, NEW site \in SiteId \cup {Null},
           NEW kept \in Kept
    PROVE  /\ Persisted(data, site, kept) \in Kept
           /\ Widens(kept, Persisted(data, site, kept))
           /\ InFrame(data, site, Persisted(data, site, kept))
<1> DEFINE positions == {Robots(data)[r].position : r \in Plottable(data, site)}
           previous == IF site \in DOMAIN kept THEN kept[site] ELSE Null
           next == ComputeSiteExtents(positions)
           merged == MergeExtents(previous, next)
           after == [s \in DOMAIN kept \cup {site} |-> IF s = site THEN merged ELSE kept[s]]
<1>1. \A r \in Plottable(data, site) :
          r \in Robot /\ site # Null /\ Robots(data)[r].position \in Position
  BY PlottableFacts
<1>2. positions \in SUBSET Position
  BY <1>1
<1>3. IsFiniteSet(positions)
  <2> DEFINE place == [r \in Plottable(data, site) |-> Robots(data)[r].position]
  <2>1. Plottable(data, site) \in SUBSET Robot
    BY <1>1
  <2>2. IsFiniteSet(Robot)
    BY ViewsAssumption
  <2>3. IsFiniteSet(Plottable(data, site))
    BY <2>1, <2>2, FS_Subset
  <2>4. positions = {place[r] : r \in Plottable(data, site)}
    OBVIOUS
  <2> HIDE DEF positions, place
  <2> QED BY <2>3, <2>4, ImageIsFinite
<1>4. PICK known \in SUBSET SiteId : kept \in [known -> Box]
  BY DEF Kept
<1>5. previous \in Box \cup {Null}
  BY <1>4
<1>6. /\ next \in Box \cup {Null}
      /\ next = Null => positions = {}
      /\ \A p \in positions : next \in Box /\ InBox(p, next)
  <2>1. CASE positions = {}
    BY <2>1 DEF ComputeSiteExtents
  <2>2. CASE positions # {}
    <3> HIDE DEF positions
    <3>1. next \in Box /\ \A p \in positions : InBox(p, next)
      BY <1>2, <1>3, <2>2, ExtentsContain
    <3> QED BY <3>1, BoxIsNotNull
  <2> QED BY <2>1, <2>2
<1>7. /\ merged \in Box \cup {Null}
      /\ \A box \in {previous, next} \ {Null} :
            /\ merged \in Box
            /\ Covers(merged.x, box.x) /\ Covers(merged.y, box.y)
  <2> HIDE DEF previous, next
  <2> QED BY <1>5, <1>6, MergeCovers
<1>8. \A box \in Box : Covers(box.x, box.x) /\ Covers(box.y, box.y)
  BY DEF Box, WideAxis, Axis, Covers
<1>9. Persisted(data, site, kept) = IF site = Null \/ merged = Null THEN kept ELSE after
  BY DEF Persisted
<1>10. CASE site = Null \/ merged = Null
  <2>1. Plottable(data, site) = {}
    <3>1. SUFFICES ASSUME NEW r \in Plottable(data, site) PROVE FALSE
      OBVIOUS
    <3>2. Robots(data)[r].position \in positions /\ site # Null
      BY <1>1
    <3>3. next \in Box /\ next # Null
      BY <3>2, <1>6, BoxIsNotNull
    <3>4. merged \in Box
      <4> HIDE DEF next, merged, previous
      <4> QED BY <3>3, <1>7
    <3> QED BY <3>2, <3>4, <1>10, BoxIsNotNull
  <2>2. Persisted(data, site, kept) = kept
    BY <1>9, <1>10
  <2>3. Widens(kept, kept)
    BY <1>4, <1>8 DEF Widens
  <2> HIDE DEF positions, previous, next, merged, after
  <2> QED BY <2>1, <2>2, <2>3 DEF InFrame
<1>11. CASE site # Null /\ merged # Null
  <2>1. Persisted(data, site, kept) = after /\ merged \in Box /\ site \in SiteId
    BY <1>7, <1>9, <1>11
  <2>2. after \in [known \cup {site} -> Box] /\ known \cup {site} \in SUBSET SiteId
    <3> HIDE DEF merged
    <3> QED BY <2>1, <1>4
  <2>3. after \in Kept
    BY <2>2 DEF Kept
  <2>4. ASSUME NEW s \in DOMAIN kept
        PROVE  /\ s \in DOMAIN after
               /\ Covers(after[s].x, kept[s].x) /\ Covers(after[s].y, kept[s].y)
    <3>1. s \in DOMAIN after /\ kept[s] \in Box
      BY <1>4
    <3>2. CASE s = site
      <4>1. previous = kept[s] /\ previous # Null
        BY <3>1, <3>2, BoxIsNotNull
      <4>2. after[s] = merged
        BY <3>1, <3>2
      <4> HIDE DEF previous, next, merged, after
      <4> QED BY <3>1, <4>1, <4>2, <1>7
    <3>3. CASE s # site
      <4>1. after[s] = kept[s]
        BY <3>1, <3>3
      <4> HIDE DEF previous, next, merged, after
      <4> QED BY <3>1, <4>1, <1>8
    <3> QED BY <3>2, <3>3
  <2>5. ASSUME NEW r \in Plottable(data, site)
        PROVE  site \in DOMAIN after /\ InBox(Robots(data)[r].position, after[site])
    <3>1. PICK p \in positions : p = Robots(data)[r].position
      OBVIOUS
    <3>2. site \in DOMAIN after /\ after[site] = merged
      OBVIOUS
    <3>3. next \in Box /\ next # Null /\ InBox(p, next)
      <4> HIDE DEF positions, next
      <4> QED BY <3>1, <1>6, BoxIsNotNull
    <3>4. Covers(merged.x, next.x) /\ Covers(merged.y, next.y) /\ merged \in Box
      BY <3>3, <1>7
    <3>5. p \in Position
      BY <1>2
    <3>6. InBox(p, merged)
      <4> HIDE DEF next, merged, positions
      <4> QED BY <3>3, <3>4, <3>5 DEF InBox, Inside, Covers, Box, WideAxis, Axis, Position
    <3> HIDE DEF next, merged, positions, after
    <3> QED BY <3>1, <3>2, <3>6
  <2> HIDE DEF positions, previous, next, merged, after
  <2> QED BY <2>1, <2>3, <2>4, <2>5 DEF Widens, InFrame
<1> QED BY <1>10, <1>11
-----------------------------------------------------------------------------
(* The inductive invariant.  FrameOnlyWidens and MapIsToScale both rest on *)
(* the frames kept being real ones, and the latter on the frame shown      *)
(* being around the robots shown.                                          *)
ViewsTypeOK ==
    /\ store \in Stores
    /\ connected \in BOOLEAN
    /\ shown \in [store : Stores, connected : BOOLEAN]
    /\ page \in Page
    /\ extents \in Kept

RobotsInFrame ==
    page = "map" => InFrame(Seen, SiteShown(Seen, selected), extents)

ViewsInv == ViewsTypeOK /\ RobotsInFrame

(* Whatever the transport reports leaves the store a store. *)
LEMMA StoreTransitions ==
    ASSUME NEW st \in Stores
    PROVE  /\ SnapshotStart(st) \in Stores
           /\ RecoverableFailure(st) \in Stores
           /\ TerminalFailure(st) \in Stores
           /\ \A fleet \in Fleets : ApplySnapshot(st, fleet) \in Stores
<1>1. /\ st \in [phase : ResourcePhase, held : BOOLEAN, rows : Fleet \cup {Null}]
      /\ HeldIsShown(st)
  BY DEF Stores
<1>2. SnapshotStart(st) \in Stores
  BY <1>1 DEF SnapshotStart, Stores, HeldIsShown, ResourcePhase
<1>3. RecoverableFailure(st) \in Stores /\ TerminalFailure(st) \in Stores
  BY <1>1 DEF RecoverableFailure, TerminalFailure, Stores, HeldIsShown, ResourcePhase
<1>4. \A fleet \in Fleets : ApplySnapshot(st, fleet) \in Stores
  BY BroughtFleets DEF ApplySnapshot, Stores, HeldIsShown, ResourcePhase
<1> QED BY <1>2, <1>3, <1>4

(* A frame moves a robot or changes its freshness, never where it belongs. *)
LEMMA FrameKeepsFleet ==
    ASSUME NEW f \in Fleet, NEW r \in DOMAIN f.robots, NEW report \in Report
    PROVE  [f EXCEPT !.robots[r].freshness = report.freshness,
                     !.robots[r].position = report.position] \in Fleet
<1> DEFINE row == [f.robots[r] EXCEPT !.freshness = report.freshness,
                                      !.position = report.position]
           robots == [f.robots EXCEPT ![r] = row]
           g == [robots |-> robots, sites |-> f.sites]
<1>1. /\ f = [robots |-> f.robots, sites |-> f.sites]
      /\ DOMAIN f.robots \in SUBSET Robot
      /\ f.robots \in [DOMAIN f.robots -> Row]
      /\ f.sites \in Seq(SiteId)
      /\ Placed(f)
  BY FleetFacts
<1>2. row \in Row /\ row.site = f.robots[r].site
  BY <1>1 DEF Row, Report
<1> HIDE DEF row
<1>3. robots \in [DOMAIN f.robots -> Row]
  BY <1>1, <1>2
<1>4. \A q \in DOMAIN robots : robots[q].site = f.robots[q].site
  BY <1>1, <1>2
<1>5. Placed(g)
  BY <1>1, <1>3, <1>4 DEF Placed
<1>6. g \in FleetOf(DOMAIN f.robots)
  BY <1>1, <1>3 DEF FleetOf
<1>7. [f EXCEPT !.robots[r].freshness = report.freshness,
                !.robots[r].position = report.position] = g
  <2> DEFINE told == [robots |-> [f.robots EXCEPT ![r].freshness = report.freshness],
                      sites  |-> f.sites]
  <2>1. [f EXCEPT !.robots[r].freshness = report.freshness] = told
    BY <1>1
  <2>2. [told EXCEPT !.robots[r].position = report.position] =
          [robots |-> [told.robots EXCEPT ![r].position = report.position],
           sites  |-> f.sites]
    OBVIOUS
  <2>3. [told.robots EXCEPT ![r].position = report.position] = robots
    BY <1>1 DEF row
  <2>4. [f EXCEPT !.robots[r].freshness = report.freshness,
                  !.robots[r].position = report.position]
          = [[f EXCEPT !.robots[r].freshness = report.freshness]
                EXCEPT !.robots[r].position = report.position]
    OBVIOUS
  <2> HIDE DEF told, robots
  <2> QED BY <2>1, <2>2, <2>3, <2>4
<1> QED BY <1>1, <1>5, <1>6, <1>7 DEF Fleet

(* A render leaves the pages with what they show in frame, and frames no   *)
(* narrower.                                                               *)
LEMMA RendersKeep ==
    ASSUME ViewsInv, store' \in Stores, page' \in Page, connected' \in BOOLEAN,
           NEW c \in BOOLEAN, Renders(c)
    PROVE  /\ ViewsInv'
           /\ page' = "map" => Widens(extents, extents')
<1> DEFINE site == SiteShown(Data(store'), selected')
<1>1. PICK data : data = Data(store')
  OBVIOUS
<1>2. data \in Fleet \cup {Null}
  BY <1>1, DataType
<1>3. shown' = [store |-> store', connected |-> c] /\ Seen' = data
  BY <1>1 DEF Renders, Seen
<1>4. PICK s : s = SiteShown(data, selected')
  OBVIOUS
<1>5. s \in SiteId \cup {Null}
  BY <1>2, <1>4, SiteShownType
<1>6. extents \in Kept
  BY DEF ViewsInv, ViewsTypeOK
<1>7. /\ Persisted(data, s, extents) \in Kept
      /\ Widens(extents, Persisted(data, s, extents))
      /\ InFrame(data, s, Persisted(data, s, extents))
  BY <1>2, <1>5, <1>6, PersistedCovers
<1>8. extents' = IF page' # "map" THEN NoExtents ELSE Persisted(data, s, extents)
  BY <1>1, <1>4 DEF Renders
<1>9. NoExtents \in Kept
  <2>1. NoExtents \in [{} -> Box]
    BY DEF NoExtents
  <2>2. {} \in SUBSET SiteId
    OBVIOUS
  <2> QED BY <2>1, <2>2 DEF Kept
<1>10. ViewsTypeOK'
  BY <1>3, <1>7, <1>8, <1>9 DEF ViewsTypeOK
<1>11. RobotsInFrame'
  BY <1>3, <1>4, <1>7, <1>8 DEF RobotsInFrame
<1> QED BY <1>7, <1>8, <1>10, <1>11 DEF ViewsInv

LEMMA RerendersKeep ==
    ASSUME ViewsInv, store' \in Stores, page' \in Page, connected' \in BOOLEAN,
           Rerenders
    PROVE  /\ ViewsInv'
           /\ page' = "map" => Widens(extents, extents')
<1>1. PICK c \in {connected, shown.connected} : Renders(c)
  BY DEF Rerenders
<1>2. c \in BOOLEAN
  BY DEF ViewsInv, ViewsTypeOK
<1> QED BY <1>1, <1>2, RendersKeep

(* Whatever changes nothing of the pages keeps them as they are. *)
LEMMA PagesStay ==
    ASSUME ViewsInv, store' \in Stores, connected' \in BOOLEAN,
           UNCHANGED <<shown, page, selected, extents>>
    PROVE  /\ ViewsInv'
           /\ page' = "map" => Widens(extents, extents')
<1>1. ViewsTypeOK'
  BY DEF ViewsInv, ViewsTypeOK
<1>2. RobotsInFrame'
  BY DEF ViewsInv, RobotsInFrame, Seen
<1>3. Widens(extents, extents)
  BY DEF ViewsInv, ViewsTypeOK, Kept, Box, WideAxis, Axis, Widens, Covers
<1> QED BY <1>1, <1>2, <1>3 DEF ViewsInv

(* The invariant is inductive, and a step on the map only widens frames. *)
LEMMA ViewsStep ==
    ASSUME ViewsInv, [Next]_vars
    PROVE  /\ ViewsInv'
           /\ page' = "map" => Widens(extents, extents')
<1>1. /\ store \in Stores /\ connected \in BOOLEAN /\ page \in Page
      /\ shown.connected \in BOOLEAN
  BY DEF ViewsInv, ViewsTypeOK
<1>2. CASE Transport
  <2>1. UNCHANGED <<shown, page, selected, extents>>
    BY <1>2 DEF Transport, Attempts, Opens, GivesUp, Snapshot, Frame, Changed
  <2>2. connected' \in BOOLEAN
    BY <1>1, <1>2 DEF Transport, Attempts, Opens, GivesUp, Snapshot, Frame
  <2>3. store' \in Stores
    <3>1. CASE Attempts
      BY <1>1, <3>1, StoreTransitions DEF Attempts
    <3>2. CASE Opens
      BY <1>1, <3>2 DEF Opens
    <3>3. CASE GivesUp
      BY <1>1, <3>3, StoreTransitions DEF GivesUp
    <3>4. ASSUME NEW fleet \in Fleets, Snapshot(fleet)
          PROVE  store' \in Stores
      BY <1>1, <3>4, StoreTransitions DEF Snapshot
    <3>5. ASSUME NEW r \in Robot, NEW report \in Reports, Frame(r, report)
          PROVE  store' \in Stores
      <4>1. report \in Report
        BY ViewsAssumption
      <4>2. store.phase = "ready" /\ r \in DOMAIN store.rows.robots
        BY <3>5 DEF Frame
      <4>3. /\ store \in [phase : ResourcePhase, held : BOOLEAN, rows : Fleet \cup {Null}]
            /\ HeldIsShown(store)
        BY <1>1 DEF Stores
      <4>4. store.rows \in Fleet
        BY <4>2, <4>3 DEF HeldIsShown
      <4>5. PICK f \in Fleet :
              f = [store.rows EXCEPT !.robots[r].freshness = report.freshness,
                                     !.robots[r].position = report.position]
        BY <4>1, <4>2, <4>4, FrameKeepsFleet
      <4>6. store' = [store EXCEPT !.rows = f]
        BY <3>5, <4>3, <4>5 DEF Frame
      <4> QED BY <4>3, <4>5, <4>6 DEF Stores, HeldIsShown
    <3> QED BY <1>2, <3>1, <3>2, <3>3, <3>4, <3>5 DEF Transport
  <2> QED BY <2>1, <2>2, <2>3, PagesStay
<1>3. CASE Operator
  <2>1. ASSUME NEW p \in Page, Open(p)
        PROVE  store' = store /\ connected' = connected /\ page' \in Page /\ Rerenders
    BY <2>1 DEF Open
  <2>2. ASSUME SetFilter \/ ClearFilters
        PROVE  store' = store /\ connected' = connected /\ page' = page /\ Rerenders
    BY <2>2 DEF SetFilter, ClearFilters, Filters
  <2>3. ASSUME NEW s, ChooseSite(s)
        PROVE  store' = store /\ connected' = connected /\ page' = page /\ Rerenders
    BY <2>3 DEF ChooseSite
  <2>4. store' = store /\ connected' = connected /\ page' \in Page /\ Rerenders
    BY <1>1, <1>3, <2>1, <2>2, <2>3 DEF Operator
  <2> QED BY <1>1, <2>4, RerendersKeep
<1>4. CASE Notify
  <2>1. store' = store /\ connected' = connected /\ page' = page /\ Rerenders
    BY <1>4 DEF Notify
  <2> QED BY <1>1, <2>1, RerendersKeep
<1>5. CASE ConnectionRenders
  <2>1. store' = store /\ connected' = connected /\ page' = page /\ Renders(connected)
    BY <1>5 DEF ConnectionRenders
  <2> QED BY <1>1, <2>1, RendersKeep
<1>6. CASE UNCHANGED vars
  BY <1>1, <1>6, PagesStay DEF vars
<1> QED BY <1>2, <1>3, <1>4, <1>5, <1>6 DEF Next

LEMMA ViewsInit == Init => ViewsInv
<1> SUFFICES ASSUME Init PROVE ViewsInv
  OBVIOUS
<1>1. store = [phase |-> "loading", held |-> FALSE, rows |-> Null]
  BY DEF Init, InitialStore
<1>2. store \in Stores
  BY <1>1 DEF Stores, HeldIsShown, ResourcePhase
<1>3. extents \in Kept
  BY DEF Init, NoExtents, Kept
<1> QED BY <1>2, <1>3 DEF Init, ViewsInv, ViewsTypeOK, RobotsInFrame, Page

LEMMA ViewsAlways == Spec => []ViewsInv
BY ViewsInit, ViewsStep, PTL DEF Spec

(* Types and frames: the store holds whole fleets, what it holds is never  *)
(* behind a loading phase, and the frames kept are real ones around what   *)
(* the map shows (fleetStore, mapPage's extentsBySite).                    *)
THEOREM ViewsTypes == Spec => []ViewsTypeOK
BY ViewsAlways, PTL DEF ViewsInv

(* While the map is open the frame of a site only widens, however robots   *)
(* move, and also while another site is shown (mapPage, ADR 35).           *)
THEOREM ViewsWiden == Spec => FrameOnlyWidens
<1>1. ASSUME ViewsInv, [Next]_vars
      PROVE  [page = "map" /\ page' = "map" =>
                \A s \in DOMAIN extents :
                   /\ s \in DOMAIN extents'
                   /\ Covers(extents'[s].x, extents[s].x)
                   /\ Covers(extents'[s].y, extents[s].y)]_vars
  BY <1>1, ViewsStep DEF Widens
<1> QED BY <1>1, ViewsAlways, PTL DEF Spec, FrameOnlyWidens
-----------------------------------------------------------------------------
(* The scale of the map. *)
LEMMA SpanIsWide ==
    ASSUME NEW box \in Box
    PROVE  /\ box.x.min \in Int /\ box.x.max \in Int
           /\ box.y.min \in Int /\ box.y.max \in Int
           /\ Span(box.x) = box.x.max - box.x.min
           /\ Span(box.y) = box.y.max - box.y.min
           /\ Span(box.x) \in Nat /\ Span(box.x) > 0
           /\ Span(box.y) \in Nat /\ Span(box.y) > 0
BY DEF Box, WideAxis, Axis, Span, MinExtentSpan

(* What a point in the box is to the view: how far it is from the corner,  *)
(* in both axes, and where that is rounded to.                             *)
LEMMA PointInView ==
    ASSUME NEW p \in Position, NEW box \in Box, InBox(p, box)
    PROVE  /\ p.x - box.x.min \in 0..Span(box.x)
           /\ box.y.max - p.y \in 0..Span(box.y)
           /\ ProjectToViewBox(p, box).x
                = Rounded((p.x - box.x.min) * ViewBoxWidth, Span(box.x))
           /\ ProjectToViewBox(p, box).y
                = Rounded((box.y.max - p.y) * ViewBoxHeight(box), Span(box.y))
<1>1. p.x \in Int /\ p.y \in Int
  BY DEF Position
<1>2. /\ box.x.min <= p.x /\ p.x <= box.x.max
      /\ box.y.min <= p.y /\ p.y <= box.y.max
  BY DEF InBox, Inside
<1>3. /\ p.x - box.x.min \in 0..Span(box.x)
      /\ box.y.max - p.y \in 0..Span(box.y)
  BY <1>1, <1>2, SpanIsWide
<1> QED BY <1>3 DEF ProjectToViewBox

(* The height of the view box is the width scaled as the box is. *)
LEMMA HeightIsToScale ==
    ASSUME NEW box \in Box
    PROVE  /\ ViewBoxHeight(box) \in Nat
           /\ 2 * (Span(box.x) * ViewBoxHeight(box))
                <= 2 * (ViewBoxWidth * Span(box.y)) + Span(box.x)
           /\ 2 * (ViewBoxWidth * Span(box.y)) - Span(box.x)
                < 2 * (Span(box.x) * ViewBoxHeight(box))
<1>1. PICK d \in Nat : d = Span(box.x)
  BY SpanIsWide
<1>2. PICK n \in Nat : n = ViewBoxWidth * Span(box.y)
  BY SpanIsWide DEF ViewBoxWidth
<1>3. d > 0
  BY <1>1, SpanIsWide
<1>4. ViewBoxHeight(box) = Rounded(n, d)
  BY <1>1, <1>2 DEF ViewBoxHeight
<1>5. /\ Rounded(n, d) \in Int
      /\ 2 * (d * Rounded(n, d)) <= 2 * n + d
      /\ 2 * n - d < 2 * (d * Rounded(n, d))
  BY <1>3, RoundedNear
<1>6. Rounded(n, d) \in 0..n
  <2>1. 1 * n <= d * n
    <3>1. n * 1 <= n * d
      BY <1>3, ProductGrows
    <3> QED BY <3>1
  <2> QED BY <2>1, <1>3, RoundedBetween
<1>7. ViewBoxHeight(box) \in Nat
  BY <1>4, <1>6
<1> QED BY <1>1, <1>2, <1>4, <1>5, <1>7

(* A robot in the box is drawn in the view. *)
LEMMA DrawnInView ==
    ASSUME NEW p \in Position, NEW box \in Box, InBox(p, box)
    PROVE  /\ ProjectToViewBox(p, box).x \in 0..ViewBoxWidth
           /\ ProjectToViewBox(p, box).y \in 0..ViewBoxHeight(box)
<1>1. PICK d \in Nat : d = Span(box.x)
  BY SpanIsWide
<1>2. PICK e \in Nat : e = Span(box.y)
  BY SpanIsWide
<1>3. d > 0 /\ e > 0
  BY <1>1, <1>2, SpanIsWide
<1>4. PICK a \in Nat : a = p.x - box.x.min /\ a <= d
  BY <1>1, PointInView, SpanIsWide
<1>5. PICK b \in Nat : b = box.y.max - p.y /\ b <= e
  BY <1>2, PointInView, SpanIsWide
<1>6. PICK w \in Nat : w = ViewBoxWidth
  BY DEF ViewBoxWidth
<1>7. PICK h \in Nat : h = ViewBoxHeight(box)
  BY HeightIsToScale
<1>8. Rounded(a * w, d) \in 0..w
  <2>1. w * a <= w * d
    BY <1>4, ProductGrows
  <2>2. a * w <= d * w /\ a * w \in Nat
    BY <2>1
  <2> QED BY <2>2, <1>3, RoundedBetween
<1>9. Rounded(b * h, e) \in 0..h
  <2>1. h * b <= h * e
    BY <1>5, ProductGrows
  <2>2. b * h <= e * h /\ b * h \in Nat
    BY <2>1
  <2> QED BY <2>2, <1>3, RoundedBetween
<1>10. ProjectToViewBox(p, box).x = Rounded(a * w, d)
  BY <1>1, <1>4, <1>6, PointInView
<1>11. ProjectToViewBox(p, box).y = Rounded(b * h, e)
  BY <1>2, <1>5, <1>7, PointInView
<1> QED BY <1>6, <1>7, <1>8, <1>9, <1>10, <1>11

(* The difference of two rounded fractions is within one of the fraction   *)
(* of the difference.                                                      *)
LEMMA RoundedDifference ==
    ASSUME NEW a \in Int, NEW b \in Int, NEW d \in Nat, d > 0
    PROVE  LET gap == d * (Rounded(b, d) - Rounded(a, d)) - (b - a)
           IN  gap \in Int /\ -d <= gap /\ gap <= d
<1>1. PICK m \in Int : m = Rounded(a, d)
  BY RoundedNear
<1>2. PICK n \in Int : n = Rounded(b, d)
  BY RoundedNear
<1>3. 2 * (d * m) <= 2 * a + d /\ 2 * a - d < 2 * (d * m)
  BY <1>1, RoundedNear
<1>4. 2 * (d * n) <= 2 * b + d /\ 2 * b - d < 2 * (d * n)
  BY <1>2, RoundedNear
<1>5. d * (n - m) = d * n - d * m /\ d * n \in Int /\ d * m \in Int
  OBVIOUS
<1>6. d * (n - m) - (b - a) \in Int
  OBVIOUS
<1>7. -d <= d * (n - m) - (b - a) /\ d * (n - m) - (b - a) <= d
  BY <1>3, <1>4, <1>5
<1> QED BY <1>1, <1>2, <1>6, <1>7

(* Two points are as far apart on the view as on the floor.  down is what  *)
(* the height makes of the distance north, and the height is rounded.      *)
LEMMA DownIsToScale ==
    ASSUME NEW wide \in Nat, NEW high \in Nat, wide > 0, high > 0,
           NEW w \in Nat, NEW h \in Nat,
           2 * (wide * h) <= 2 * (w * high) + wide,
           2 * (w * high) - wide < 2 * (wide * h),
           NEW north \in Int, -high <= north, north <= high,
           NEW down \in Int,
           -high <= high * down + north * h, high * down + north * h <= high
    PROVE  /\ -(2 * wide) <= down * wide + north * w
           /\ down * wide + north * w <= 2 * wide
<1> DEFINE off == high * down + north * h
           slack == wide * h - w * high
           gap == down * wide + north * w
<1>1. off \in Int /\ slack \in Int /\ gap \in Int
  OBVIOUS
<1>2. -wide <= 2 * slack /\ 2 * slack <= wide
  <2>1. wide * h \in Int /\ w * high \in Int
    OBVIOUS
  <2> QED BY <2>1
<1>3. high * gap = wide * off - north * slack
  <2>1. /\ high * gap = high * (down * wide) + high * (north * w)
        /\ wide * off = wide * (high * down) + wide * (north * h)
        /\ north * slack = north * (wide * h) - north * (w * high)
    OBVIOUS
  <2>2. /\ high * (down * wide) = wide * (high * down)
        /\ high * (north * w) = north * (w * high)
        /\ wide * (north * h) = north * (wide * h)
    OBVIOUS
  <2>3. /\ wide * (high * down) \in Int /\ north * (w * high) \in Int
        /\ north * (wide * h) \in Int
    OBVIOUS
  <2> HIDE DEF off, slack, gap
  <2> QED BY <2>1, <2>2, <2>3, <1>1
<1>4. -high <= off /\ off <= high
  OBVIOUS
<1> HIDE DEF off, slack, gap
<1>5. -(wide * high) <= wide * off /\ wide * off <= wide * high
  BY <1>1, <1>4, ProductWithin
<1>6. -(high * wide) <= north * (2 * slack) /\ north * (2 * slack) <= high * wide
  <2>1. 2 * slack \in Int
    BY <1>1
  <2> QED BY <2>1, <1>2, ProductWithin
<1>7. /\ north * (2 * slack) = 2 * (north * slack)
      /\ high * wide = wide * high
      /\ north * slack \in Int /\ wide * off \in Int
      /\ wide * high \in Int /\ high * gap \in Int
  BY <1>1
<1>8. /\ 2 * (high * gap) <= 3 * (wide * high)
      /\ -(3 * (wide * high)) <= 2 * (high * gap)
  BY <1>3, <1>5, <1>6, <1>7
<1>9. ~(gap > 2 * wide)
  <2>1. SUFFICES ASSUME gap > 2 * wide PROVE FALSE
    OBVIOUS
  <2>2. high * (2 * wide) <= high * gap
    BY <1>1, <2>1, ProductGrows
  <2>3. high * (2 * wide) = 2 * (wide * high) /\ wide * high > 0
    OBVIOUS
  <2> QED BY <2>2, <2>3, <1>7, <1>8
<1>10. ~(gap < -(2 * wide))
  <2>1. SUFFICES ASSUME gap < -(2 * wide) PROVE FALSE
    OBVIOUS
  <2>2. high * gap <= high * (-(2 * wide))
    BY <1>1, <2>1, ProductGrows
  <2>3. high * (-(2 * wide)) = -(2 * (wide * high)) /\ wide * high > 0
    OBVIOUS
  <2> QED BY <2>2, <2>3, <1>7, <1>8
<1>11. -(2 * wide) <= gap /\ gap <= 2 * wide
  BY <1>1, <1>9, <1>10
<1> QED BY <1>11 DEF gap

LEMMA DistancesToScale ==
    ASSUME NEW p \in Position, NEW q \in Position, NEW box \in Box,
           InBox(p, box), InBox(q, box)
    PROVE  LET east == q.x - p.x
               north == q.y - p.y
               right == ProjectToViewBox(q, box).x - ProjectToViewBox(p, box).x
               down == ProjectToViewBox(q, box).y - ProjectToViewBox(p, box).y
           IN  /\ Within(right * Span(box.x) - east * ViewBoxWidth,
                         2 * Span(box.x))
               /\ Within(down * Span(box.x) + north * ViewBoxWidth,
                         2 * Span(box.x))
<1>1. PICK wide \in Nat : wide = Span(box.x) /\ wide > 0
  BY SpanIsWide
<1>2. PICK high \in Nat : high = Span(box.y) /\ high > 0
  BY SpanIsWide
<1>3. PICK w \in Nat : w = ViewBoxWidth
  BY DEF ViewBoxWidth
<1>4. PICK h \in Nat : h = ViewBoxHeight(box)
  BY HeightIsToScale
<1>5. /\ 2 * (wide * h) <= 2 * (w * high) + wide
      /\ 2 * (w * high) - wide < 2 * (wide * h)
  BY <1>1, <1>2, <1>3, <1>4, HeightIsToScale
<1>6. /\ p.x \in Int /\ p.y \in Int /\ q.x \in Int /\ q.y \in Int
      /\ box.x.min \in Int /\ box.y.max \in Int
  BY SpanIsWide DEF Position
<1>7. PICK pe \in 0..wide, pn \in 0..high, qe \in 0..wide, qn \in 0..high :
        /\ pe = p.x - box.x.min /\ pn = box.y.max - p.y
        /\ qe = q.x - box.x.min /\ qn = box.y.max - q.y
  BY <1>1, <1>2, PointInView
<1>8. PICK north \in Int : north = q.y - p.y
  BY <1>6
<1>9. PICK east \in Int : east = q.x - p.x
  BY <1>6
<1>10. east = qe - pe /\ north = pn - qn
  BY <1>6, <1>7, <1>8, <1>9
<1>11. /\ ProjectToViewBox(p, box).x = Rounded(pe * w, wide)
       /\ ProjectToViewBox(p, box).y = Rounded(pn * h, high)
  BY <1>1, <1>2, <1>3, <1>4, <1>7, PointInView
<1>12. /\ ProjectToViewBox(q, box).x = Rounded(qe * w, wide)
       /\ ProjectToViewBox(q, box).y = Rounded(qn * h, high)
  BY <1>1, <1>2, <1>3, <1>4, <1>7, PointInView
<1>13. PICK right \in Int : right = Rounded(qe * w, wide) - Rounded(pe * w, wide)
  <2>1. PICK a \in Int, b \in Int : a = pe * w /\ b = qe * w
    OBVIOUS
  <2>2. Rounded(a, wide) \in Int /\ Rounded(b, wide) \in Int
    BY <1>1, RoundedNear
  <2> QED BY <2>1, <2>2
<1>14. PICK down \in Int : down = Rounded(qn * h, high) - Rounded(pn * h, high)
  <2>1. PICK a \in Int, b \in Int : a = pn * h /\ b = qn * h
    OBVIOUS
  <2>2. Rounded(a, high) \in Int /\ Rounded(b, high) \in Int
    BY <1>2, RoundedNear
  <2> QED BY <2>1, <2>2
<1>15. Within(right * wide - east * w, 2 * wide)
  <2>1. PICK a \in Int : a = pe * w
    OBVIOUS
  <2>2. PICK b \in Int : b = qe * w
    OBVIOUS
  <2>3. -wide <= wide * right - (b - a) /\ wide * right - (b - a) <= wide
    BY <2>1, <2>2, <1>1, <1>13, RoundedDifference
  <2>4. east * w = b - a /\ right * wide = wide * right /\ wide * right \in Int
    BY <2>1, <2>2, <1>10
  <2>5. -(2 * wide) <= right * wide - east * w /\ right * wide - east * w <= 2 * wide
    BY <2>3, <2>4
  <2>6. right * wide - east * w \in Int
    OBVIOUS
  <2> QED BY <2>5, <2>6 DEF Within
<1>16. Within(down * wide + north * w, 2 * wide)
  <2>1. PICK a \in Int : a = pn * h
    OBVIOUS
  <2>2. PICK b \in Int : b = qn * h
    OBVIOUS
  <2>3. -high <= high * down - (b - a) /\ high * down - (b - a) <= high
    BY <2>1, <2>2, <1>2, <1>14, RoundedDifference
  <2>4. north * h = a - b /\ high * down \in Int
    BY <2>1, <2>2, <1>10
  <2>5. -high <= high * down + north * h /\ high * down + north * h <= high
    BY <2>3, <2>4
  <2>6. -high <= north /\ north <= high
    BY <1>7, <1>10
  <2>7. /\ -(2 * wide) <= down * wide + north * w
        /\ down * wide + north * w <= 2 * wide
    BY <1>1, <1>2, <1>5, <2>5, <2>6, DownIsToScale
  <2>8. down * wide + north * w \in Int
    OBVIOUS
  <2> QED BY <2>7, <2>8 DEF Within
<1> QED BY <1>1, <1>3, <1>8, <1>9, <1>11, <1>12, <1>13, <1>14, <1>15, <1>16

(* The map page draws the robots of its site in the frame it kept. *)
LEMMA MapIsDrawn ==
    ASSUME ViewsInv, page = "map", NEW r \in Plottable(Seen, MapPage.site)
    PROVE  /\ MapPage.frame \in Box
           /\ Robots(Seen)[r].position \in Position
           /\ InBox(Robots(Seen)[r].position, MapPage.frame)
           /\ MapPage.markers[r].at
                = ProjectToViewBox(Robots(Seen)[r].position, MapPage.frame)
           /\ ~MapPage.markers[r].hollow <=> MapPage.listed[r] = "live"
<1>1. PICK site : site = MapPage.site /\ site = SiteShown(Seen, selected)
  BY DEF MapPage
<1>2. Seen \in Fleet \cup {Null} /\ extents \in Kept /\ shown.connected \in BOOLEAN
  BY DataType DEF ViewsInv, ViewsTypeOK, Seen
<1>3. InFrame(Seen, site, extents)
  BY <1>1 DEF ViewsInv, RobotsInFrame
<1>4. r \in Plottable(Seen, site)
  BY <1>1
<1>5. site \in DOMAIN extents /\ InBox(Robots(Seen)[r].position, extents[site])
  BY <1>3, <1>4 DEF InFrame
<1>6. extents[site] \in Box
  BY <1>2, <1>5 DEF Kept
<1>7. MapPage.frame = extents[site]
  BY <1>1, <1>5 DEF MapPage
<1>8. Robots(Seen)[r].position \in Position
  BY <1>2, <1>4, PlottableFacts
<1>9. /\ MapPage.markers[r] = Marker(Robots(Seen)[r], extents[site], shown.connected)
      /\ MapPage.listed[r] = ListLabel(Robots(Seen)[r], shown.connected)
  BY <1>1, <1>4 DEF MapPage
<1>10. Null # "live"
  BY ViewsAssumption DEF Freshness
<1>11. ~MapPage.markers[r].hollow <=> MapPage.listed[r] = "live"
  <2>1. MapPage.markers[r].hollow
          = (~shown.connected \/ Robots(Seen)[r].freshness # "live")
    BY <1>9 DEF Marker
  <2>2. MapPage.listed[r]
          = IF shown.connected THEN Robots(Seen)[r].freshness ELSE Null
    BY <1>9 DEF ListLabel
  <2> QED BY <2>1, <2>2, <1>2, <1>10
<1>12. MapPage.markers[r].at = ProjectToViewBox(Robots(Seen)[r].position, extents[site])
  BY <1>9 DEF Marker
<1> QED BY <1>5, <1>6, <1>7, <1>8, <1>11, <1>12

LEMMA MapInScale ==
    ASSUME ViewsInv
    PROVE  MapIsToScale
<1>1. SUFFICES ASSUME page = "map" PROVE MapIsToScale
  BY DEF MapIsToScale
<1>2. PICK seen : seen = MapPage
  OBVIOUS
<1>3. DOMAIN seen.markers = Plottable(Seen, seen.site)
  BY <1>2 DEF MapPage
<1>4. ASSUME NEW r \in DOMAIN seen.markers
      PROVE  /\ seen.frame \in Box
             /\ Robots(Seen)[r].position \in Position
             /\ InBox(Robots(Seen)[r].position, seen.frame)
             /\ seen.markers[r].at
                  = ProjectToViewBox(Robots(Seen)[r].position, seen.frame)
             /\ ~seen.markers[r].hollow <=> seen.listed[r] = "live"
  BY <1>1, <1>2, <1>3, MapIsDrawn
<1>5. ASSUME NEW r \in DOMAIN seen.markers
      PROVE  /\ seen.markers[r].at.x \in 0..ViewBoxWidth
             /\ seen.markers[r].at.y \in 0..ViewBoxHeight(seen.frame)
             /\ ~seen.markers[r].hollow <=> seen.listed[r] = "live"
  BY <1>4, DrawnInView
<1>6. ASSUME NEW p \in DOMAIN seen.markers, NEW q \in DOMAIN seen.markers
      PROVE  LET east == Robots(Seen)[q].position.x - Robots(Seen)[p].position.x
                 north == Robots(Seen)[q].position.y - Robots(Seen)[p].position.y
                 right == seen.markers[q].at.x - seen.markers[p].at.x
                 down == seen.markers[q].at.y - seen.markers[p].at.y
             IN  /\ Within(right * Span(seen.frame.x) - east * ViewBoxWidth,
                           2 * Span(seen.frame.x))
                 /\ Within(down * Span(seen.frame.x) + north * ViewBoxWidth,
                           2 * Span(seen.frame.x))
  BY <1>4, DistancesToScale
<1> QED BY <1>1, <1>2, <1>3, <1>5, <1>6 DEF MapIsToScale

(* The map is true to scale: its robots lie in the frame, as far apart as  *)
(* on the floor by one scale in both axes, north up, and a marker says of  *)
(* its robot what the list beside it says (mapPage, mapCanvas, robotList). *)
THEOREM ViewsToScale == Spec => []MapIsToScale
BY ViewsAlways, MapInScale, PTL
-----------------------------------------------------------------------------
(* Nobody is lost. *)

(* A finite set cut into four parts has as many elements as they have.     *)
LEMMA FourParts ==
    ASSUME NEW S, IsFiniteSet(S),
           NEW A, NEW B, NEW C, NEW D,
           S = A \cup B \cup C \cup D,
           A \cap B = {}, (A \cup B) \cap C = {}, (A \cup B \cup C) \cap D = {}
    PROVE  Cardinality(A) + Cardinality(B) + Cardinality(C) + Cardinality(D)
             = Cardinality(S)
<1>1. IsFiniteSet(A) /\ IsFiniteSet(B) /\ IsFiniteSet(C) /\ IsFiniteSet(D)
  BY FS_Subset
<1>2. ASSUME NEW X, NEW Y, IsFiniteSet(X), IsFiniteSet(Y), X \cap Y = {}
      PROVE  /\ IsFiniteSet(X \cup Y)
             /\ Cardinality(X \cup Y) = Cardinality(X) + Cardinality(Y)
  <2>1. /\ IsFiniteSet(X \cup Y)
        /\ Cardinality(X \cup Y)
             = Cardinality(X) + Cardinality(Y) - Cardinality(X \cap Y)
    BY <1>2, FS_Union
  <2>2. Cardinality(X \cap Y) = 0
    BY <1>2, FS_EmptySet
  <2>3. Cardinality(X) \in Nat /\ Cardinality(Y) \in Nat
    BY <1>2, FS_CardinalityType
  <2> QED BY <2>1, <2>2, <2>3
<1>3. PICK AB : AB = A \cup B
  OBVIOUS
<1>4. PICK ABC : ABC = AB \cup C
  OBVIOUS
<1>5. IsFiniteSet(AB) /\ Cardinality(AB) = Cardinality(A) + Cardinality(B)
  BY <1>1, <1>2, <1>3
<1>6. IsFiniteSet(ABC) /\ Cardinality(ABC) = Cardinality(AB) + Cardinality(C)
  BY <1>1, <1>2, <1>3, <1>4, <1>5
<1>7. Cardinality(ABC \cup D) = Cardinality(ABC) + Cardinality(D)
  BY <1>1, <1>2, <1>3, <1>4, <1>6
<1>8. ABC \cup D = S
  BY <1>3, <1>4
<1> QED BY <1>5, <1>6, <1>7, <1>8

(* The summary counts each robot of a fleet once. *)
LEMMA SummaryCountsAll ==
    ASSUME NEW fleet \in Fleet
    PROVE  LET summary == FreshnessSummary(fleet)
           IN  summary["live"] + summary["stale"] + summary["unreachable"]
                 + summary["unknown"] = Cardinality(DOMAIN fleet.robots)
<1> DEFINE In(state) == {r \in DOMAIN fleet.robots : fleet.robots[r].freshness = state}
<1>1. Robots(fleet) = fleet.robots
  BY FleetFacts DEF Robots
<1>2. /\ FreshnessSummary(fleet)["live"] = Cardinality(In("live"))
      /\ FreshnessSummary(fleet)["stale"] = Cardinality(In("stale"))
      /\ FreshnessSummary(fleet)["unreachable"] = Cardinality(In("unreachable"))
      /\ FreshnessSummary(fleet)["unknown"] = Cardinality(In("unknown"))
  BY <1>1 DEF FreshnessSummary, Freshness
<1>3. IsFiniteSet(DOMAIN fleet.robots)
  <2>1. IsFiniteSet(Robot)
    BY ViewsAssumption
  <2> QED BY <2>1, FleetFacts, FS_Subset
<1>4. \A r \in DOMAIN fleet.robots : fleet.robots[r].freshness \in Freshness
  BY FleetFacts DEF Row
<1>5. DOMAIN fleet.robots
        = In("live") \cup In("stale") \cup In("unreachable") \cup In("unknown")
  BY <1>4 DEF Freshness
<1>6. /\ In("live") \cap In("stale") = {}
      /\ (In("live") \cup In("stale")) \cap In("unreachable") = {}
      /\ (In("live") \cup In("stale") \cup In("unreachable")) \cap In("unknown") = {}
  OBVIOUS
<1>7. PICK A, B, C, D :
        /\ A = In("live") /\ B = In("stale")
        /\ C = In("unreachable") /\ D = In("unknown")
  OBVIOUS
<1> HIDE DEF In
<1>8. Cardinality(A) + Cardinality(B) + Cardinality(C) + Cardinality(D)
        = Cardinality(DOMAIN fleet.robots)
  BY <1>3, <1>5, <1>6, <1>7, FourParts
<1> QED BY <1>2, <1>7, <1>8

LEMMA FleetPageWhole ==
    ASSUME NEW fleet \in Fleet, Seen = fleet, shown.store.rows = fleet
    PROVE  FleetPageIsWhole
<1> DEFINE robots == fleet.robots
<1>1. Seen # Null /\ Robots(Seen) = robots /\ Sites(Seen) = fleet.sites
  BY FleetFacts DEF Robots, Sites
<1>2. PICK seen : seen = FleetPage
  OBVIOUS
<1>3. /\ seen.summary = FreshnessSummary(fleet)
      /\ seen.vendors = VendorOptions(Seen)
      /\ seen.sites = Range(fleet.sites)
      /\ DOMAIN seen.rows = Listed(Seen)
  BY <1>1, <1>2 DEF FleetPage
<1>4. seen.body = CASE robots = << >> -> "no robots"
                    [] robots # << >> /\ Listed(Seen) = {} -> "no match, clear"
                    [] OTHER -> "table"
  BY <1>1, <1>2 DEF FleetPage, ClearOffered
<1>5. seen.summary["live"] + seen.summary["stale"]
        + seen.summary["unreachable"] + seen.summary["unknown"]
          = Cardinality(DOMAIN robots)
  BY <1>3, SummaryCountsAll
<1>6. \A r \in DOMAIN robots :
         robots[r].vendor \in seen.vendors /\ robots[r].site \in seen.sites
  BY <1>1, <1>3, FleetFacts DEF VendorOptions, Placed
<1>7. Listed(Seen) = {} =>
         seen.body = IF robots = << >> THEN "no robots" ELSE "no match, clear"
  BY <1>4
<1>8. ASSUME filters.site \notin seen.sites \cup {All}
      PROVE  Listed(Seen) = {}
  BY <1>1, <1>6, <1>8 DEF Listed, Matches
<1>9. filters.site \notin seen.sites \cup {All} => seen.body # "table"
  BY <1>7, <1>8
<1> QED BY <1>2, <1>3, <1>5, <1>6, <1>7, <1>9 DEF FleetPageIsWhole

LEMMA MapPageWhole ==
    ASSUME NEW fleet \in Fleet, Seen = fleet, shown.store.rows = fleet
    PROVE  MapPageIsWhole
<1>1. Robots(Seen) = fleet.robots /\ Sites(Seen) = fleet.sites /\ Seen \in Fleet \cup {Null}
  BY FleetFacts DEF Robots, Sites
<1>2. PICK seen : seen = MapPage
  OBVIOUS
<1>3. /\ seen.site = SiteShown(Seen, selected)
      /\ seen.sites = Range(fleet.sites)
      /\ DOMAIN seen.markers = Plottable(Seen, seen.site)
      /\ seen.unpositioned = Unpositioned(Seen, seen.site)
  BY <1>1, <1>2 DEF MapPage
<1>4. ASSUME NEW r \in DOMAIN fleet.robots
      PROVE  /\ seen.site \in seen.sites /\ fleet.robots[r].site \in seen.sites
             /\ fleet.robots[r].site = seen.site
                   => (r \in DOMAIN seen.markers) # (r \in seen.unpositioned)
  <2>1. fleet.robots[r].site \in seen.sites
    BY <1>3, FleetFacts DEF Placed
  <2>2. seen.site \in seen.sites
    <3>1. Sites(Seen) # << >>
      BY <1>1, <1>3, <2>1 DEF Range
    <3> QED BY <1>1, <1>3, <3>1, SiteShownType
  <2>3. ASSUME fleet.robots[r].site = seen.site
        PROVE  r \in DOMAIN seen.markers <=> r \notin seen.unpositioned
    BY <1>1, <1>3, <2>3 DEF Plottable, Unpositioned, SiteRobots
  <2> QED BY <2>1, <2>2, <2>3
<1> QED BY <1>2, <1>4 DEF MapPageIsWhole

LEMMA NobodyLost ==
    ASSUME ViewsInv
    PROVE  NobodyIsLost
<1>1. SUFFICES ASSUME shown.store.held
               PROVE  /\ Notice(shown.store) # "loading"
                      /\ FleetPageIsWhole /\ MapPageIsWhole
  BY DEF NobodyIsLost
<1>2. PICK st \in Stores : st = shown.store
  BY DEF ViewsInv, ViewsTypeOK
<1>3. Data(st) = st.rows /\ st.rows \in Fleet
  BY <1>1, <1>2, DataType
<1>4. PICK fleet \in Fleet : fleet = st.rows
  BY <1>3
<1>5. Seen = fleet /\ shown.store.rows = fleet
  BY <1>2, <1>3, <1>4 DEF Seen
<1>6. Notice(st) # "loading"
  <2>1. st.phase \in ResourcePhase /\ st.phase # "loading" /\ st.held
    BY <1>1, <1>2 DEF Stores, HeldIsShown
  <2> QED BY <2>1 DEF Notice, ResourcePhase
<1> QED BY <1>2, <1>5, <1>6, FleetPageWhole, MapPageWhole

(* No robot of the fleet is lost between the surfaces, from the first      *)
(* snapshot on: counted once and listable on the fleet page, on the map,   *)
(* in its list or on a site on offer (fleetPage, mapPage, fleetStore).     *)
THEOREM ViewsLoseNobody == Spec => []NobodyIsLost
BY ViewsAlways, NobodyLost, PTL
==============================================================================
