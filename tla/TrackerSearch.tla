--------------------------- MODULE TrackerSearch ---------------------------
(***************************************************************************)
(* How the tracker finds one sphere in the camera image,                   *)
(* psmove_tracker_update_controller of                                     *)
(* src/Lab5/src/tracker/psmove_tracker.c: it looks at a region of interest *)
(* (ROI) of one of several sizes, moves it over the sphere once that is    *)
(* seen, and enlarges it, or goes to the next of the tiles that cover the  *)
(* image, while it is not.                                                 *)
(*                                                                         *)
(* The image holds at most the sphere: a square of pixels of its colour,   *)
(* which moves between updates.  Pixels are few and large; the positions   *)
(* in centimetres, the colour adaptation and the position filter are left  *)
(* out.  use_fitEllipse is off, as it is by default.                       *)
(***************************************************************************)
EXTENDS Integers, FiniteSetsExt

CONSTANTS
  Width, Height,  \* of the camera image
  EnvSize,        \* PSMOVE_TRACKER_ROI_SIZE, -1 if it is not set
  Spots,          \* where the sphere may be: records x, y (upper left), d
  Hidden,         \* the sphere is not in the image
  MinArea,        \* 25: the least area of a contour that is no junk
  MaxJump,        \* 400: how far a tracked sphere moves at most
  MinSize,        \* twice tracker_quality_t3, the least radius (here diameter)
  Lag             \* how far the stored position is from the centre of the
                  \* contour's bounding box, to each side

Lesser(a, b) == IF a <= b THEN a ELSE b
Greater(a, b) == IF a >= b THEN a ELSE b

\* The sizes of the ROIs: the first is the one asked for, or half the image,
\* and each further one 70% of the one before.
ROIS == 4
LargestRoi == IF EnvSize = -1 THEN Lesser(Width, Height) \div 2 ELSE EnvSize
RoiSize[level \in 0 .. (ROIS - 1)] ==
  IF level = 0 THEN LargestRoi ELSE (RoiSize[level - 1] * 70) \div 100
Tile == RoiSize[0]

\* The size asked for is not compared with that of the image.
Fits == Tile <= Width /\ Tile <= Height

TilesAcross == (Width + Tile - 1) \div Tile
TilesDown == (Height + Tile - 1) \div Tile

\* Faulty variant of TilesCount: an even number of tiles is left as it is.
TilesCountAny == TilesAcross * TilesDown

\* Made odd, so that every second tile is every tile after two rounds.
TilesCount ==
  IF (TilesAcross * TilesDown) % 2 = 0 THEN TilesAcross * TilesDown + 1
                                       ELSE TilesAcross * TilesDown

\* psmove_tracker_new fails if a ROI is empty.  The position lags by far less
\* than a jump.
ASSUME SearchAssumption ==
  /\ Width \in Nat \ {0} /\ Height \in Nat \ {0}
  /\ EnvSize \in Nat \cup {-1}
  /\ RoiSize[ROIS - 1] > 0
  /\ Hidden \notin Spots
  /\ \A p \in Spots : /\ p.x \in Nat /\ p.y \in Nat /\ p.d \in Nat \ {0}
                      /\ p.x + p.d <= Width /\ p.y + p.d <= Height
  /\ MinArea \in Nat /\ MaxJump \in Nat \ {0} /\ MinSize \in Nat
  /\ Lag \in Nat /\ 2 * Lag * Lag < MaxJump * MaxJump

VARIABLES
  sphere,       \* in Spots, or Hidden
  roi,          \* roi_x, roi_y and roi_level
  fixed,        \* roi_level_fixed
  search_tile,
  at,           \* x, y and r (here the diameter) of the controller
  was_tracked, is_tracked,
  pc,           \* "idle", or "loop" in psmove_tracker_update_controller
  recentered,   \* roi_recentered
  contour_ok    \* contour_is_ok

image == <<sphere, fixed>>
locals == <<recentered, contour_ok>>
tracked == <<was_tracked, is_tracked>>
vars == <<image, roi, search_tile, at, tracked, pc, locals>>

Init ==
  /\ sphere \in Spots \cup {Hidden}
  /\ fixed = FALSE
  /\ roi = [x |-> 0, y |-> 0, level |-> 0]
  /\ search_tile = 0
  /\ at = [x |-> 0, y |-> 0, r |-> 0]
  /\ was_tracked = FALSE /\ is_tracked = FALSE
  /\ pc = "idle"
  /\ recentered = FALSE /\ contour_ok = TRUE

-----------------------------------------------------------------------------
(* The contour: the part of the sphere inside the ROI.                      *)

Side == RoiSize[roi.level]
Left == Greater(sphere.x, roi.x)
Top == Greater(sphere.y, roi.y)
BoxWidth == Lesser(sphere.x + sphere.d, roi.x + Side) - Left
BoxHeight == Lesser(sphere.y + sphere.d, roi.y + Side) - Top
Longer == Greater(BoxWidth, BoxHeight)
Shorter == Lesser(BoxWidth, BoxHeight)
CenterX == Left + BoxWidth \div 2
CenterY == Top + BoxHeight \div 2

Contour == sphere # Hidden /\ BoxWidth > 0 /\ BoxHeight > 0
Whole == Shorter = sphere.d
TooFar(x, y) == (x - at.x) * (x - at.x) + (y - at.y) * (y - at.y) >= MaxJump * MaxJump

Junk ==
  \/ 4 * Longer >= 5 * Shorter
  \/ is_tracked /\ TooFar(CenterX, CenterY)
  \/ BoxWidth * BoxHeight < MinArea

\* A contour of fewer than 6 points is not looked at; it is a small one.
FewPoints == BoxWidth * BoxHeight < MinArea

\* Faulty variant of SetRoi: the ROI may extend past the image.
SetRoiFree(x, y, level) ==
  roi' = [x |-> Greater(x, 0), y |-> Greater(y, 0), level |-> level]

\* psmove_tracker_set_roi.
SetRoi(x, y, level) ==
  roi' = [x |-> Lesser(Greater(x, 0), Width - RoiSize[level]),
          y |-> Lesser(Greater(y, 0), Height - RoiSize[level]),
          level |-> level]

-----------------------------------------------------------------------------
(* What happens between updates.                                            *)

Move ==
  /\ pc = "idle"
  /\ sphere' \in (Spots \cup {Hidden}) \ {sphere}
  /\ UNCHANGED <<fixed, roi, search_tile, at, tracked, pc, locals>>

\* _psmove_tracker_fix_roi_size.
FixRoiSize ==
  /\ pc = "idle"
  /\ ~fixed
  /\ fixed' = TRUE
  /\ UNCHANGED <<sphere, roi, search_tile, at, tracked, pc, locals>>

-----------------------------------------------------------------------------
(* psmove_tracker_update_controller.                                        *)

\* A ROI larger than the image ends the program: OpenCV clips it and then finds
\* that the buffer has another size.
Update ==
  /\ pc = "idle"
  /\ Fits
  /\ pc' = "loop"
  /\ recentered' = FALSE
  /\ contour_ok' = TRUE
  /\ UNCHANGED <<image, roi, search_tile, at, tracked>>

\* A contour that turns out to be junk: the next iteration will not look.
SeeJunk ==
  /\ pc = "loop" /\ Contour /\ contour_ok
  /\ Junk
  /\ contour_ok' = FALSE
  /\ UNCHANGED <<image, roi, search_tile, at, tracked, pc, recentered>>

\* The smallest ROI three times as large as the contour; if there is none
\* the size stays as it is.
Fitting == {level \in 0 .. (ROIS - 1) : RoiSize[level] >= 3 * Longer}
LevelFor ==
  IF Fitting = {} THEN roi.level
                  ELSE IF fixed THEN 0
                                ELSE Max(Fitting)

\* Faulty variant of Recenter: it does not remember that it is done.
RecenterAgain ==
  /\ pc = "loop" /\ Contour /\ contour_ok
  /\ ~Junk /\ ~recentered
  /\ SetRoi(CenterX - RoiSize[LevelFor] \div 2, CenterY - RoiSize[LevelFor] \div 2, LevelFor)
  /\ UNCHANGED <<image, search_tile, at, tracked, pc, locals>>

Recenter ==
  /\ pc = "loop" /\ Contour /\ contour_ok
  /\ ~Junk /\ ~recentered
  /\ SetRoi(CenterX - RoiSize[LevelFor] \div 2, CenterY - RoiSize[LevelFor] \div 2, LevelFor)
  /\ recentered' = TRUE
  /\ UNCHANGED <<image, search_tile, at, tracked, pc, contour_ok>>

End(found) ==
  /\ pc' = "idle"
  /\ was_tracked' = is_tracked
  /\ is_tracked' = found

\* The radius after its smoothing, which may be off: on the way from the old
\* one to the one measured.
Smoothed ==
  IF at.r = Longer THEN {Longer}
                   ELSE (Lesser(at.r, Longer) .. Greater(at.r, Longer)) \ {at.r}

\* The radius changes by less than 70%, unless the search has left tile 0.
RadiusOk(r) ==
  at.r > 0 /\ search_tile = 0 => 10 * Greater(at.r - r, r - at.r) < 7 * at.r

\* The position is the middle of the two points of the contour farthest from
\* each other, the centre of mass, or between the old position and the former:
\* near the centre of the bounding box, seldom in it.
Around(center, size) == Greater(center - Lag, 0) .. Lesser(center + Lag, size)

\* tracker_quality_t3.
SizeOk(r) == r > MinSize

\* Faulty variant of Found: the radius may be as small as it likes.
FoundSmall ==
  /\ pc = "loop" /\ Contour /\ contour_ok
  /\ ~Junk /\ recentered
  /\ \E r \in Smoothed, shape \in BOOLEAN, x \in Around(CenterX, Width), y \in Around(CenterY, Height) :
       /\ Whole => shape
       /\ at' = [x |-> x, y |-> y, r |-> r]
       /\ End(shape /\ RadiusOk(r))
  /\ UNCHANGED <<image, roi, search_tile, locals>>

\* A round contour has a good shape; of one that the ROI cuts off either may
\* come out.
Found ==
  /\ pc = "loop" /\ Contour /\ contour_ok
  /\ ~Junk /\ recentered
  /\ \E r \in Smoothed, shape \in BOOLEAN, x \in Around(CenterX, Width), y \in Around(CenterY, Height) :
       /\ Whole => shape
       /\ at' = [x |-> x, y |-> y, r |-> r]
       /\ End(shape /\ SizeOk(r) /\ RadiusOk(r))
  /\ UNCHANGED <<image, roi, search_tile, locals>>

Nothing == Contour => ~contour_ok \/ FewPoints

\* The next larger ROI, around the same centre.
Enlarge ==
  /\ pc = "loop" /\ Nothing /\ roi.level > 0
  /\ LET level == IF fixed THEN 0 ELSE roi.level - 1
     IN  SetRoi(roi.x + Side \div 2 - RoiSize[level] \div 2,
                roi.y + Side \div 2 - RoiSize[level] \div 2, level)
  /\ contour_ok' = TRUE
  /\ UNCHANGED <<image, search_tile, at, tracked, pc, recentered>>

\* Faulty variant of NextTile: the tiles do not wrap.
NextTileOn ==
  /\ pc = "loop" /\ Nothing /\ roi.level = 0
  /\ SetRoi(Tile * (search_tile % TilesAcross), Tile * (search_tile \div TilesAcross), 0)
  /\ search_tile' = search_tile + 2
  /\ End(FALSE)
  /\ UNCHANGED <<image, at, locals>>

NextTile ==
  /\ pc = "loop" /\ Nothing /\ roi.level = 0
  /\ SetRoi(Tile * (search_tile % TilesAcross), Tile * (search_tile \div TilesAcross), 0)
  /\ search_tile' = (search_tile + 2) % TilesCount
  /\ End(FALSE)
  /\ UNCHANGED <<image, at, locals>>

Step == Update \/ SeeJunk \/ Recenter \/ Found \/ Enlarge \/ NextTile
Next == Step \/ Move \/ FixRoiSize

\* The application goes on calling psmove_tracker_update, whose loop runs.
Spec == Init /\ [][Next]_vars /\ WF_vars(Step)

-----------------------------------------------------------------------------
(* Properties.                                                              *)

\* The values of the variables.
TypeOK ==
  /\ sphere \in Spots \cup {Hidden}
  /\ roi.level \in 0 .. (ROIS - 1)
  /\ fixed \in BOOLEAN
  /\ search_tile \in 0 .. (TilesCount - 1)
  /\ at.x \in 0 .. Width /\ at.y \in 0 .. Height /\ at.r \in 0 .. Tile
  /\ {was_tracked, is_tracked, recentered, contour_ok} \subseteq BOOLEAN
  /\ pc \in {"idle", "loop"}

\* What cvSetImageROI is given lies within the image and has the size of the
\* buffers of its level, however the ROI has been moved and resized before;
\* unless the environment asks for a ROI that the image has no room for.
RoiInImage ==
  Fits => /\ roi.x >= 0 /\ roi.x + Side <= Width
          /\ roi.y >= 0 /\ roi.y + Side <= Height

\* An update comes to an end: the loop recentres once and then looks at
\* larger and larger ROIs only.
UpdateEnds == pc = "loop" ~> pc = "idle"

\* A sphere that stays in one place, not across the border of two tiles, and
\* is no smaller than the thresholds allow, is found from wherever the search
\* is, and tracked from then on.
InOneTile(p) ==
  /\ p.x \div Tile = (p.x + p.d - 1) \div Tile
  /\ p.y \div Tile = (p.y + p.d - 1) \div Tile
Large(p) == p.d * p.d >= MinArea /\ SizeOk(p.d)
Resting(p) == <>[](sphere = p)
FindsSphere ==
  \A p \in Spots : Fits /\ InOneTile(p) /\ Large(p) => (Resting(p) => <>[]is_tracked)

\* One that is too small is not tracked for ever, though a larger one was seen
\* before and the smoothed radius only comes down to it ("if tracker thresholds
\* not met, sphere is deemed not to be found", psmove_tracker.h).
LosesSmall ==
  \A p \in Spots : Fits /\ ~SizeOk(p.d) => (Resting(p) => <>[]~is_tracked)
=============================================================================
