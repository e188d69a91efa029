----------------------------- MODULE ConsoleViews -----------------------------
(***************************************************************************)
(* The console's two fleet surfaces (web features/fleet/fleetPage,         *)
(* features/map/mapPage) over the store they subscribe to: what a frame or *)
(* a snapshot changes, when subscribers are woken, what each page keeps of *)
(* its own while it is open, and what it then shows.                       *)
(*                                                                         *)
(* Rows are held in rows.robots, the site directory in rows.sites.         *)
(* Lengths are in decimetres, view coordinates in hundredths of a unit.    *)
(***************************************************************************)
EXTENDS FleetStore, Integers, Functions

CONSTANTS
    All,         \* the filters' "all"
    Fleets,      \* the fleets a snapshot may bring
    Reports,     \* what a frame may say of a robot: freshness and position
    Searches,    \* for each text the operator may type, the ids containing it
    MaxChanges   \* bound: events of the transport

Freshness == {"live", "stale", "unreachable", "unknown"}
Page == {"fleet", "map"}

Placed(fleet) == \A r \in DOMAIN fleet.robots : fleet.robots[r].site \in Range(fleet.sites)

SiteId == UNION {Range(f.sites) : f \in Fleets}
VendorId == UNION {{f.robots[r].vendor : r \in DOMAIN f.robots} : f \in Fleets}
Position == [x : Int, y : Int]

Row == [site : SiteId, vendor : VendorId, freshness : Freshness,
        position : Position \cup {Null}]

Report == [freshness : Freshness, position : Position \cup {Null}]

Axis == [min : Int, max : Int]
Extents == [x : Axis, y : Axis]

FleetOf(known) == [robots : [known -> Row], sites : Seq(SiteId)]

(* What fleetSnapshotSchema lets through: a robot's site is in the         *)
(* directory.                                                              *)
IsFleet(f) ==
    /\ DOMAIN f.robots \subseteq Robot
    /\ f \in FleetOf(DOMAIN f.robots)
    /\ Placed(f)

(* Lengths are multiples of two metres, so that padding and centring,      *)
(* which the code does in floating point, are exact.                       *)
ASSUME ViewsAssumption ==
    /\ IsFiniteSet(Robot)
    /\ \A f \in Fleets : IsFleet(f)
    /\ Reports \subseteq Report
    /\ Null \notin SiteId \cup Position \cup Extents \cup Freshness
    /\ \A known \in SUBSET Robot : Null \notin FleetOf(known)
    /\ \A x \in Reports : x.position # Null =>
          x.position.x % 20 = 0 /\ x.position.y % 20 = 0
    /\ Searches \subseteq SUBSET Robot /\ Robot \in Searches
    /\ MaxChanges \in Nat

VARIABLES
    store,      \* the fleet store's phase and data
    connected,  \* isStreamConnected, as the transport last published it
    scheduled,  \* whether a notification of the store is due
    shown,      \* the store and the connection as last rendered
    page,       \* the route
    filters,    \* the fleet page's local state
    selected,   \* the map page's selectedSite
    extents,    \* the map page's extentsBySite
    changes     \* events of the transport so far

vars == <<store, connected, scheduled, shown, page, filters, selected,
          extents, changes>>

NoFilters == [site |-> All, vendor |-> All, freshness |-> All, search |-> Robot]
NoExtents == << >>

Init ==
    /\ store = [InitialStore EXCEPT !.rows = Null]
    /\ connected = FALSE /\ scheduled = FALSE
    /\ shown = [store |-> store, connected |-> FALSE]
    /\ page = "fleet"
    /\ filters = NoFilters /\ selected = Null /\ extents = NoExtents
    /\ changes = 0

(* buildState: what a data-bearing resource state carries. *)
Data(st) == IF st.phase = "loading" \/ ~st.held THEN Null ELSE st.rows

Robots(data) == IF data = Null THEN << >> ELSE data.robots
Sites(data) == IF data = Null THEN << >> ELSE data.sites
-----------------------------------------------------------------------------
(* The fleet page. *)

Matches(r, row, f) ==
    /\ f.site # All => row.site = f.site
    /\ f.vendor # All => row.vendor = f.vendor
    /\ f.freshness # All => row.freshness = f.freshness
    /\ r \in f.search

Listed(data) == {r \in DOMAIN Robots(data) : Matches(r, Robots(data)[r], filters)}

(* The options are the whole fleet's. *)
VendorOptions(data) == {Robots(data)[r].vendor : r \in DOMAIN Robots(data)}

(* selectFreshnessSummary, of the whole fleet whatever the filters. *)
FreshnessSummary(data) ==
    [state \in Freshness |->
        Cardinality({r \in DOMAIN Robots(data) : Robots(data)[r].freshness = state})]

ClearOffered(data) == Robots(data) # << >> /\ Listed(data) = {}
-----------------------------------------------------------------------------
(* The map page. *)

(* Mutant: a selection outlives the site it names. *)
SiteKept(data, site) ==
    IF Sites(data) = << >> THEN Null
    ELSE IF site # Null THEN site ELSE Sites(data)[1]

(* A selection the directory no longer has falls back to its first site. *)
SiteShown(data, site) ==
    IF Sites(data) = << >> THEN Null
    ELSE IF site \in Range(Sites(data)) THEN site ELSE Sites(data)[1]

SiteRobots(data, site) == {r \in DOMAIN Robots(data) : Robots(data)[r].site = site}

Plottable(data, site) ==
    {r \in SiteRobots(data, site) : Robots(data)[r].position # Null}

Unpositioned(data, site) ==
    {r \in SiteRobots(data, site) : Robots(data)[r].position = Null}

PadRatio == 10
MinExtentSpan == 100

(* A tenth on either side, and never less than the minimum span. *)
PadAxis(low, high) ==
    LET pad == (high - low) \div PadRatio
        centre == (low + high) \div 2
    IN  IF high - low + 2 * pad < MinExtentSpan
        THEN [min |-> centre - MinExtentSpan \div 2,
              max |-> centre + MinExtentSpan \div 2]
        ELSE [min |-> low - pad, max |-> high + pad]

ComputeSiteExtents(positions) ==
    IF positions = {} THEN Null
    ELSE LET xs == {p.x : p \in positions}
             ys == {p.y : p \in positions}
         IN  [x |-> PadAxis(Min(xs), Max(xs)), y |-> PadAxis(Min(ys), Max(ys))]

Union(a, b) == [min |-> Min({a.min, b.min}), max |-> Max({a.max, b.max})]

(* Mutant: the box follows the robots. *)
LatestExtents(previous, next) == IF next = Null THEN previous ELSE next

MergeExtents(previous, next) ==
    CASE previous = Null -> next
      [] previous # Null /\ next = Null -> previous
      [] OTHER -> [x |-> Union(previous.x, next.x), y |-> Union(previous.y, next.y)]

(* What a render of the map leaves in extentsBySite. *)
Persisted(data, site, kept) ==
    LET previous == IF site \in DOMAIN kept THEN kept[site] ELSE Null
        merged == MergeExtents(previous, ComputeSiteExtents(
                     {Robots(data)[r].position : r \in Plottable(data, site)}))
    IN  IF site = Null \/ merged = Null THEN kept
        ELSE [s \in DOMAIN kept \cup {site} |-> IF s = site THEN merged ELSE kept[s]]

ViewBoxWidth == 60000

Span(axis) == axis.max - axis.min

(* Math.round of a fraction. *)
Rounded(n, d) == (2 * n + d) \div (2 * d)

(* Mutant: one height for every frame. *)
ViewBoxSquare(frame) == ViewBoxWidth

ViewBoxHeight(frame) == Rounded(ViewBoxWidth * Span(frame.y), Span(frame.x))

ProjectToViewBox(p, frame) ==
    [x |-> Rounded((p.x - frame.x.min) * ViewBoxWidth, Span(frame.x)),
     y |-> Rounded((frame.y.max - p.y) * ViewBoxHeight(frame), Span(frame.y))]

Marker(row, frame, streamConnected) ==
    [at |-> ProjectToViewBox(row.position, frame),
     hollow |-> ~streamConnected \/ row.freshness # "live"]

(* RobotList: the freshness label, suppressed while the stream is down. *)
ListLabel(row, streamConnected) == IF streamConnected THEN row.freshness ELSE Null
-----------------------------------------------------------------------------
(* Rendering.  Whatever causes it, a render reads the store as it is; the  *)
(* connection is React state, and may be the one of the render before.     *)
Renders(streamConnected) ==
    /\ shown' = [store |-> store', connected |-> streamConnected]
    /\ extents' = IF page' # "map" THEN NoExtents
                  ELSE Persisted(Data(store'), SiteShown(Data(store'), selected'),
                                 extents)

Rerenders == \E c \in {connected, shown.connected} : Renders(c)

(* changed() of the store: one notification, however many changes. *)
Changed ==
    /\ scheduled' = TRUE
    /\ UNCHANGED <<shown, page, filters, selected, extents>>

Notify ==
    /\ scheduled
    /\ scheduled' = FALSE
    /\ UNCHANGED <<store, connected, page, filters, selected, changes>>
    /\ Rerenders

ConnectionRenders ==
    /\ connected # shown.connected
    /\ UNCHANGED <<store, connected, scheduled, page, filters, selected, changes>>
    /\ Renders(connected)
-----------------------------------------------------------------------------
(* What the transport reports, in the orders FleetTransport allows. *)
Event == changes < MaxChanges /\ changes' = changes + 1

Joining == store.phase \in {"loading", "refreshing"}

(* A connect, or a close that a retry will follow. *)
Attempts ==
    /\ Event
    /\ store' = SnapshotStart(store)
    /\ connected' = FALSE
    /\ Changed

Opens ==
    /\ Event
    /\ Joining /\ ~connected
    /\ connected' = TRUE
    /\ UNCHANGED <<store, scheduled, shown, page, filters, selected, extents>>

Snapshot(fleet) ==
    /\ Event
    /\ Joining /\ connected
    /\ store' = ApplySnapshot(store, fleet)
    /\ Changed
    /\ UNCHANGED connected

(* Mutant: a frame is applied and nobody is told. *)
FrameUntold(r, report) ==
    /\ Event
    /\ store.phase = "ready" /\ r \in DOMAIN store.rows.robots
    /\ store' = [store EXCEPT !.rows.robots[r].freshness = report.freshness,
                              !.rows.robots[r].position = report.position]
    /\ UNCHANGED <<scheduled, connected, shown, page, filters, selected, extents>>

(* A frame names robots of the manifest the snapshot came from. *)
Frame(r, report) ==
    /\ Event
    /\ store.phase = "ready" /\ r \in DOMAIN store.rows.robots
    /\ store' = [store EXCEPT !.rows.robots[r].freshness = report.freshness,
                              !.rows.robots[r].position = report.position]
    /\ Changed
    /\ UNCHANGED connected

(* No server in the first attempts (a server once reached is retried for   *)
(* ever), a snapshot that breaks the contract, and another server behind   *)
(* the socket: the stamp of a frame is not the snapshot's, found in the    *)
(* callback that applied the snapshot or in a later one.                   *)
Unreached == Joining /\ ~connected /\ ~store.held
Undecodable == Joining /\ connected
OtherServer == store.phase = "ready"

GivesUp ==
    /\ Event
    /\ \/ Unreached /\ store' = RecoverableFailure(store)
       \/ Undecodable /\ store' = TerminalFailure(store)
       \/ OtherServer /\ store' = RecoverableFailure(store)
    /\ connected' = FALSE
    /\ Changed
-----------------------------------------------------------------------------
(* The operator, on the page as it was last rendered. *)
Seen == Data(shown.store)

(* Leaving a page forgets its local state. *)
Open(p) ==
    /\ p # page
    /\ page' = p
    /\ filters' = NoFilters /\ selected' = Null
    /\ UNCHANGED <<store, connected, scheduled, changes>>
    /\ Rerenders

Filters(f) ==
    /\ page = "fleet" /\ Seen # Null /\ f # filters
    /\ filters' = f
    /\ UNCHANGED <<store, connected, scheduled, page, selected, changes>>
    /\ Rerenders

SetFilter ==
    \/ \E s \in Range(Sites(Seen)) \cup {All} : Filters([filters EXCEPT !.site = s])
    \/ \E v \in VendorOptions(Seen) \cup {All} : Filters([filters EXCEPT !.vendor = v])
    \/ \E x \in Freshness \cup {All} : Filters([filters EXCEPT !.freshness = x])
    \/ \E ids \in Searches : Filters([filters EXCEPT !.search = ids])

ClearFilters ==
    /\ Seen # Null /\ ClearOffered(Seen)
    /\ Filters(NoFilters)

(* A click on the site already chosen is ignored. *)
ChooseSite(s) ==
    /\ page = "map" /\ Robots(Seen) # << >>
    /\ s \in Range(Sites(Seen)) /\ s # SiteShown(Seen, selected)
    /\ selected' = s
    /\ UNCHANGED <<store, connected, scheduled, page, filters, changes>>
    /\ Rerenders
-----------------------------------------------------------------------------
Transport ==
    \/ Attempts \/ Opens \/ GivesUp
    \/ \E fleet \in Fleets : Snapshot(fleet)
    \/ \E r \in Robot, report \in Reports : Frame(r, report)

Operator ==
    \/ \E p \in Page : Open(p)
    \/ SetFilter \/ ClearFilters
    \/ \E s \in Range(Sites(Seen)) : ChooseSite(s)

Next == Transport \/ Operator \/ Notify \/ ConnectionRenders

Spec == Init /\ [][Next]_vars

(* A microtask runs, and React renders a state that was set. *)
FairSpec == Spec /\ WF_vars(Notify) /\ WF_vars(ConnectionRenders)
-----------------------------------------------------------------------------
(* What the pages show. *)

(* The notice above the data. *)
Notice(st) ==
    CASE st.phase = "terminal-error"    -> "contract failure"
      [] st.phase = "recoverable-error" -> "retry"
      [] st.phase = "refreshing" /\ st.held -> "refreshing"
      [] st.phase = "ready" /\ st.held -> "none"
      [] OTHER                          -> "loading"

TableRow(row) ==
    [vendor |-> row.vendor, site |-> row.site,
     label |-> ListLabel(row, shown.connected)]

FleetPage ==
    [notice  |-> Notice(shown.store),
     summary |-> FreshnessSummary(Seen),
     vendors |-> VendorOptions(Seen),
     sites   |-> Range(Sites(Seen)),
     body    |-> CASE Seen = Null -> "nothing"
                   [] Seen # Null /\ Robots(Seen) = << >> -> "no robots"
                   [] ClearOffered(Seen) -> "no match, clear"
                   [] OTHER -> "table",
     rows    |-> [r \in Listed(Seen) |-> TableRow(Robots(Seen)[r])]]

MapPage ==
    LET site == SiteShown(Seen, selected)
    IN  [notice  |-> Notice(shown.store),
         sites   |-> Range(Sites(Seen)),
         site    |-> site,
         frame   |-> IF site \in DOMAIN extents THEN extents[site] ELSE Null,
         markers |-> [r \in Plottable(Seen, site) |->
                        Marker(Robots(Seen)[r], extents[site], shown.connected)],
         listed  |-> [r \in Plottable(Seen, site) |->
                        ListLabel(Robots(Seen)[r], shown.connected)],
         unpositioned |-> Unpositioned(Seen, site)]

(* No robot of the fleet is lost between the surfaces, from the first      *)
(* snapshot on: an outage or a failure never blanks what is held.  On the  *)
(* fleet page each robot is counted once whatever the filters, and can be  *)
(* listed with the options on offer; when no row is, the page says so and  *)
(* offers the way back, also when a filter names a site or a vendor that   *)
(* has gone.  The map shows a site of the directory if there is one, and   *)
(* each robot is on it, in its list or on a site on offer.                 *)
FleetPageIsWhole ==
    LET robots == shown.store.rows.robots
        seen == FleetPage
    IN  /\ seen.summary["live"] + seen.summary["stale"]
             + seen.summary["unreachable"] + seen.summary["unknown"]
               = Cardinality(DOMAIN robots)
        /\ \A r \in DOMAIN robots :
              robots[r].vendor \in seen.vendors /\ robots[r].site \in seen.sites
        /\ filters.site \notin seen.sites \cup {All} => seen.body # "table"
        /\ DOMAIN seen.rows = {}
              => seen.body = IF robots = << >> THEN "no robots" ELSE "no match, clear"

MapPageIsWhole ==
    LET robots == shown.store.rows.robots
        seen == MapPage
    IN  \A r \in DOMAIN robots :
           /\ seen.site \in seen.sites /\ robots[r].site \in seen.sites
           /\ robots[r].site = seen.site
                 => (r \in DOMAIN seen.markers) # (r \in seen.unpositioned)

NobodyIsLost ==
    shown.store.held =>
        /\ Notice(shown.store) # "loading"
        /\ page = "fleet" => FleetPageIsWhole
        /\ page = "map" => MapPageIsWhole

Within(n, bound) == n \in -bound..bound

(* The map is true to scale: every positioned robot of the site lies in    *)
(* the frame, two robots are as far apart on it as on the floor, in both   *)
(* axes by one scale and with north up, up to rounding; and a marker says  *)
(* of its robot what the list beside it says: filled means labelled live.  *)
MapIsToScale ==
    page = "map" =>
        LET seen == MapPage
            frame == seen.frame
            place == [r \in Plottable(Seen, seen.site) |-> Robots(Seen)[r].position]
        IN  /\ \A r \in DOMAIN seen.markers :
                 /\ seen.markers[r].at.x \in 0..ViewBoxWidth
                 /\ seen.markers[r].at.y \in 0..ViewBoxHeight(frame)
                 /\ ~seen.markers[r].hollow <=> seen.listed[r] = "live"
            /\ \A p, q \in DOMAIN seen.markers :
                 LET east == place[q].x - place[p].x
                     north == place[q].y - place[p].y
                     right == seen.markers[q].at.x - seen.markers[p].at.x
                     down == seen.markers[q].at.y - seen.markers[p].at.y
                 IN  /\ Within(right * Span(frame.x) - east * ViewBoxWidth,
                               2 * Span(frame.x))
                     /\ Within(down * Span(frame.x) + north * ViewBoxWidth,
                               2 * Span(frame.x))

(* ADR 35: while the map is open the frame of a site only widens, however  *)
(* its robots move, and also while another site is shown: markers jump for *)
(* a robot's move, never because the frame closed in on the others.        *)
Covers(a, b) == a.min <= b.min /\ a.max >= b.max

FrameOnlyWidens ==
    [][page = "map" /\ page' = "map" =>
          \A s \in DOMAIN extents :
              /\ s \in DOMAIN extents'
              /\ Covers(extents'[s].x, extents[s].x)
              /\ Covers(extents'[s].y, extents[s].y)]_vars

(* No change of the store goes unrendered: notifications coalesce, and a   *)
(* change that falls between a notification and the next is still woken    *)
(* for; the pages end up showing the store and the connection as they are. *)
ViewsCatchUp == <>[](shown = [store |-> store, connected |-> connected])
==============================================================================
