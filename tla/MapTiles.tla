------------------------------ MODULE MapTiles ------------------------------
(***************************************************************************)
(* The map in the PDF (static_map.py): the view that frames the pins, the  *)
(* tiles it touches, and their loading - from the cache where it has them, *)
(* a few downloads at once, all of them or no picture.  A render has a     *)
(* deadline, its downloads may fail or answer with something else, and     *)
(* what is kept for a week is kept for the next map.                       *)
(*                                                                         *)
(* Points are pixels of the closest zoom; k zooms out a pixel is 2^k of    *)
(* them.  A view's corner lies between two of those: it is in halves.      *)
(***************************************************************************)
EXTENDS Integers, Sequences, FiniteSets, FiniteSetsExt

CONSTANTS
  Frames,              \* what may be framed: sets of points <<x, y>>
  LoadedFrames,        \* bound: those of them whose tiles are loaded
  SIZE, TILE_SIZE, PADDING,                \* the picture's <<width, height>>, in pixels of its zoom
  MIN_ZOOM, MAX_ZOOM, SINGLE_POINT_ZOOM,
  DOWNLOADS_AT_ONCE,
  MaxRenders           \* bound: maps drawn

VARIABLES
  frame,       \* what is framed
  tile_cache,  \* what the cache has of each tile: "none", "tile", "cut short", or "junk"
  task,        \* what the loading of each tile has come to
  in_hand,     \* what it has got
  fresh,       \* the tiles that came from the server
  render,      \* the render: "idle", "loading", "stopping", "keeping", "drawn", "failed"
  renders

tile_vars == <<frame, tile_cache, task, in_hand, fresh, render, renders>>

----------------------------------------------------------------------------
(* choose_view and tile_grid.                                              *)

Along(points, axis) == {point[axis] : point \in points}
Extent(points, axis) == Max(Along(points, axis)) - Min(Along(points, axis))
Pixel(zoom) == 2 ^ (MAX_ZOOM - zoom)
Fits(points, zoom) == \A axis \in 1..2 : Extent(points, axis) <= (SIZE[axis] - 2 * PADDING) * Pixel(zoom)

ZoomOf(points) ==
  LET first == IF Cardinality(points) = 1 THEN SINGLE_POINT_ZOOM ELSE MAX_ZOOM
      tried == {zoom \in MIN_ZOOM..first : Fits(points, zoom) \/ zoom = MIN_ZOOM}
  IN Max(tried)
\* The picture's first corner, in halves; centred on what it frames.
Corner(points, axis) ==
  Max(Along(points, axis)) + Min(Along(points, axis)) - SIZE[axis] * Pixel(ZoomOf(points))
choose_view(points) == [zoom |-> ZoomOf(points), corner |-> <<Corner(points, 1), Corner(points, 2)>>]

HalvesIn(pixels, zoom) == pixels * 2 * Pixel(zoom)
Across(view, axis) ==
  (view.corner[axis] \div HalvesIn(TILE_SIZE, view.zoom))
  ..((view.corner[axis] + HalvesIn(SIZE[axis] - 1, view.zoom)) \div HalvesIn(TILE_SIZE, view.zoom))
tile_grid(view) == {<<column, row>> \in Across(view, 1) \X Across(view, 2) : row >= 0 /\ row < 2 ^ view.zoom}
\* The world repeats sideways.
TileAt(view, place) == <<view.zoom, place[1] % 2 ^ view.zoom, place[2]>>
GridOf(points) == LET view == choose_view(points) IN {TileAt(view, place) : place \in tile_grid(view)}

\* Where a column or a row of tiles is pasted: the nearest pixel, of two the even one (Python's round).
Rounded(halves, zoom) ==
  LET whole == halves \div HalvesIn(1, zoom)
      rest == 2 * (halves % HalvesIn(1, zoom)) - HalvesIn(1, zoom)
  IN IF rest > 0 \/ (rest = 0 /\ whole % 2 = 1) THEN whole + 1 ELSE whole
PastedAt(view, axis, n) == Rounded(HalvesIn(n * TILE_SIZE, view.zoom) - view.corner[axis], view.zoom)

----------------------------------------------------------------------------
(* _load_tiles and render_static_map.                                      *)

Tiles == DOMAIN task
At(states) == {t \in Tiles : task[t] \in states}
Downloading == {"asking", "asking again"}
Working == {"looking", "waiting"} \cup Downloading
Passes(body) == body \in {"tile", "cut short"}      \* _check_tile: it opens as a picture

TilesInit ==
  /\ frame \in Frames /\ task = [t \in {} |-> ""] /\ in_hand = [t \in {} |-> ""] /\ fresh = {}
  /\ tile_cache \in {[t \in GridOf(frame) |-> IF t \in junk THEN "junk" ELSE "none"] :
                       junk \in IF frame \in LoadedFrames THEN {{}, {CHOOSE t \in GridOf(frame) : TRUE}} ELSE {{}}}
  /\ render = "idle" /\ renders = 0

render_static_map ==
  /\ render \in {"idle", "drawn", "failed"} /\ renders < MaxRenders /\ frame \in LoadedFrames
  /\ render' = "loading" /\ renders' = renders + 1 /\ fresh' = {}
  /\ task' = [t \in GridOf(frame) |-> "looking"] /\ in_hand' = [t \in GridOf(frame) |-> "none"]
  /\ UNCHANGED <<frame, tile_cache>>

\* The cache has it, or it is away or holds something that is not a tile: then it is fetched.
Look(t) ==
  /\ task[t] = "looking"
  /\ \/ Passes(tile_cache[t]) /\ task' = [task EXCEPT ![t] = "have"] /\ in_hand' = [in_hand EXCEPT ![t] = tile_cache[t]]
     \/ task' = [task EXCEPT ![t] = "waiting"] /\ UNCHANGED in_hand
  /\ UNCHANGED <<frame, tile_cache, fresh, render, renders>>
Ask(t) ==
  /\ task[t] = "waiting" /\ Cardinality(At(Downloading)) < DOWNLOADS_AT_ONCE
  /\ task' = [task EXCEPT ![t] = "asking"]
  /\ UNCHANGED <<frame, tile_cache, in_hand, fresh, render, renders>>
\* A dropped connection is worth one more try; an HTTP error is an answer, and so is a body of something else.
Dropped(t) ==
  /\ task[t] \in Downloading
  /\ task' = [task EXCEPT ![t] = IF @ = "asking" THEN "asking again" ELSE "failed"]
  /\ UNCHANGED <<frame, tile_cache, in_hand, fresh, render, renders>>
Answered(t, body) ==
  /\ task[t] \in Downloading
  /\ IF Passes(body)
     THEN task' = [task EXCEPT ![t] = "have"] /\ in_hand' = [in_hand EXCEPT ![t] = body] /\ fresh' = fresh \cup {t}
     ELSE task' = [task EXCEPT ![t] = "failed"] /\ UNCHANGED <<in_hand, fresh>>
  /\ UNCHANGED <<frame, tile_cache, render, renders>>

\* One tile failed, or the whole map timed out: stop asking for the rest, and wait until they have stopped.
GiveUp ==
  /\ render = "loading" /\ render' = "stopping"      \* at any time: the deadline
  /\ UNCHANGED <<frame, tile_cache, task, in_hand, fresh, renders>>
Cancelled(t) ==
  /\ render = "stopping" /\ task[t] \in Working /\ task' = [task EXCEPT ![t] = "cancelled"]
  /\ UNCHANGED <<frame, tile_cache, in_hand, fresh, render, renders>>
Stopped ==
  /\ render = "stopping" /\ At(Working) = {} /\ render' = "failed"
  /\ UNCHANGED <<frame, tile_cache, task, in_hand, fresh, renders>>

\* Only once the whole set is in hand is what is new kept, one after the other until a write fails.
AllHere ==
  /\ render = "loading" /\ At({"have"}) = Tiles /\ render' = "keeping"
  /\ UNCHANGED <<frame, tile_cache, task, in_hand, fresh, renders>>
Keep(t) ==
  /\ render = "keeping" /\ t \in fresh /\ fresh' = fresh \ {t}
  /\ tile_cache' = [tile_cache EXCEPT ![t] = in_hand[t]]
  /\ UNCHANGED <<frame, task, in_hand, render, renders>>
CacheAway ==
  /\ render = "keeping" /\ fresh # {} /\ fresh' = {}
  /\ UNCHANGED <<frame, tile_cache, task, in_hand, render, renders>>
\* The writes are inside the deadline as well.
TooLate ==
  /\ render = "keeping" /\ fresh # {} /\ render' = "failed" /\ fresh' = {}
  /\ UNCHANGED <<frame, tile_cache, task, in_hand, renders>>
\* A picture that was cut short opens, and cannot be drawn.
Compose ==
  /\ render = "keeping" /\ fresh = {}
  /\ render' = IF \A t \in Tiles : in_hand[t] = "tile" THEN "drawn" ELSE "failed"
  /\ UNCHANGED <<frame, tile_cache, task, in_hand, fresh, renders>>

LoadTile(t) ==
  /\ render \in {"loading", "stopping"}
  /\ Look(t) \/ Ask(t) \/ Dropped(t) \/ \E body \in {"tile", "cut short", "junk", "error"} : Answered(t, body)
TilesNext ==
  \/ render_static_map \/ GiveUp \/ Stopped \/ AllHere \/ CacheAway \/ TooLate \/ Compose
  \/ \E t \in Tiles : LoadTile(t) \/ Cancelled(t) \/ Keep(t)

----------------------------------------------------------------------------
TilesTypeOK ==
  /\ frame \in Frames /\ render \in {"idle", "loading", "stopping", "keeping", "drawn", "failed"} /\ renders \in 0..MaxRenders
  /\ \A t \in DOMAIN tile_cache : tile_cache[t] \in {"none", "tile", "cut short", "junk"}
  /\ \A t \in Tiles : task[t] \in Working \cup {"have", "failed", "cancelled"} /\ in_hand[t] \in {"none", "tile", "cut short"}
  /\ fresh \subseteq Tiles

\* The picture is of all it frames, clear of its edge, and no closer zoom would do - but for the farthest zoom,
\* where it may not fit; every pixel of it lies on a tile, where the world has any, but for the last column
\* or row of pixels when the corner falls in the second half of a pixel.
PictureFramed ==
  LET view == choose_view(frame)
      Inside(axis) ==
        \A point \in frame :
          LET from_edge == 2 * point[axis] - view.corner[axis]
          IN from_edge >= HalvesIn(PADDING, view.zoom) /\ from_edge <= HalvesIn(SIZE[axis] - PADDING, view.zoom)
      Closest(zoom) == zoom = IF Cardinality(frame) = 1 THEN SINGLE_POINT_ZOOM ELSE MAX_ZOOM
      Covered(axis, pixel) ==
        \E n \in Across(view, axis) : PastedAt(view, axis, n) <= pixel /\ pixel < PastedAt(view, axis, n) + TILE_SIZE
      LateInAPixel(axis) == 2 * (view.corner[axis] % HalvesIn(1, view.zoom)) >= HalvesIn(1, view.zoom)
  IN /\ view.zoom # MIN_ZOOM => Inside(1) /\ Inside(2)
     /\ Closest(view.zoom) \/ ~Fits(frame, view.zoom + 1)
     /\ \A axis \in 1..2 : \A pixel \in 0..(SIZE[axis] - 1) :
          Covered(axis, pixel) \/ (pixel = SIZE[axis] - 1 /\ LateInAPixel(axis))

\* A picture is drawn of every tile of its view; once a render has ended nothing of it is still being asked
\* for, and never is more asked for at once than there are downloads; a map that failed for want of a
\* tile has left nothing in the cache, which never gets what is no picture.
WholeOrNothing ==
  /\ render = "drawn" => Tiles = GridOf(frame) /\ \A t \in Tiles : in_hand[t] = "tile"
  /\ render \notin {"loading", "stopping"} => At(Working) = {}
  /\ Cardinality(At(Downloading)) <= DOWNLOADS_AT_ONCE
  /\ renders <= 1 /\ render \in {"loading", "stopping"} => \A t \in DOMAIN tile_cache : tile_cache[t] \in {"none", "junk"}
  /\ render = "failed" /\ renders = 1 /\ At({"failed", "cancelled"}) # {} =>
       \A t \in DOMAIN tile_cache : tile_cache[t] \in {"none", "junk"}

MapDrawnWell == (render = "idle" => PictureFramed) /\ WholeOrNothing
=============================================================================
