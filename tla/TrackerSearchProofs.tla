------------------------ MODULE TrackerSearchProofs ------------------------
(***************************************************************************)
(* Proofs about TrackerSearch, for an image of any size, and a sphere of   *)
(* any size at any place in it and whatever size of the region is asked    *)
(* for: the types, that the region stays in the image, that an update      *)
(* ends, and that a sphere at rest is come to and kept.                    *)
(***************************************************************************)
EXTENDS TrackerSearch, TLAPS

Levels == 0 .. (ROIS - 1)

-----------------------------------------------------------------------------
(* The sizes of the regions.                                                *)

Smaller(n) == (n * 70) \div 100

\* The recursive definition has a solution, and is it.
LEMMA RoiSizes ==
  RoiSize = [level \in Levels |->
    IF level = 0 THEN LargestRoi ELSE Smaller(RoiSize[level - 1])]
<1> DEFINE s1 == Smaller(LargestRoi)
           s2 == Smaller(s1)
           s3 == Smaller(s2)
           f == [level \in Levels |-> IF level = 0 THEN LargestRoi
                                      ELSE IF level = 1 THEN s1
                                      ELSE IF level = 2 THEN s2 ELSE s3]
           Solves(g) == g = [level \in Levels |->
                          IF level = 0 THEN LargestRoi ELSE Smaller(g[level - 1])]
<1>1. f[0] = LargestRoi /\ f[1] = s1 /\ f[2] = s2 /\ f[3] = s3
  BY DEF Levels, ROIS
<1>2. \A level \in Levels :
        f[level] = IF level = 0 THEN LargestRoi ELSE Smaller(f[level - 1])
  <2> HIDE DEF f
  <2>1. \A level \in Levels : level \in {0, 1, 2, 3}
    BY DEF Levels, ROIS
  <2> QED
    BY <1>1, <2>1
<1>3. Solves(f)
  BY <1>2
<1>4. RoiSize = CHOOSE g : Solves(g)
  BY DEF RoiSize, Levels, LargestRoi, Smaller
<1> HIDE DEF Solves, f
<1>5. Solves(CHOOSE g : Solves(g))
  BY <1>3
<1> QED
  BY <1>4, <1>5 DEF Solves

\* A region is not empty, and no larger than the first one.
LEMMA RoiSizeBounds ==
  /\ \A level \in Levels : /\ RoiSize[level] \in Nat \ {0}
                           /\ RoiSize[level] <= Tile
  /\ Tile \in Nat \ {0}
<1> USE SearchAssumption
<1>1. LargestRoi \in Nat
  BY DEF LargestRoi, Lesser
<1>2. \A n \in Nat : Smaller(n) \in Nat /\ Smaller(n) <= n
  BY DEF Smaller
<1>3. /\ RoiSize[0] = LargestRoi /\ RoiSize[1] = Smaller(RoiSize[0])
      /\ RoiSize[2] = Smaller(RoiSize[1]) /\ RoiSize[3] = Smaller(RoiSize[2])
  BY RoiSizes DEF Levels, ROIS
<1>4. /\ RoiSize[0] \in Nat /\ RoiSize[1] \in Nat /\ RoiSize[2] \in Nat
      /\ RoiSize[3] \in Nat
      /\ RoiSize[3] <= RoiSize[2] /\ RoiSize[2] <= RoiSize[1]
      /\ RoiSize[1] <= RoiSize[0]
  BY <1>1, <1>2, <1>3
<1>5. RoiSize[3] > 0
  BY DEF ROIS
<1>6. \A level \in Levels : level \in {0, 1, 2, 3}
  BY DEF Levels, ROIS
<1> QED
  BY <1>3, <1>4, <1>5, <1>6 DEF Tile

\* There is a tile at least, in each direction.
LEMMA Quotient ==
  ASSUME NEW a \in Nat, NEW b \in Nat \ {0}, b <= a
  PROVE  a \div b \in Nat \ {0}
OBVIOUS

LEMMA Product ==
  ASSUME NEW a \in Nat \ {0}, NEW b \in Nat \ {0}
  PROVE  a * b \in Nat \ {0}
OBVIOUS

LEMMA Tiles ==
  /\ TilesAcross \in Nat \ {0} /\ TilesDown \in Nat \ {0}
  /\ TilesCount \in Nat \ {0}
<1>1. Tile \in Nat \ {0}
  BY RoiSizeBounds
<1>2. /\ Width + Tile - 1 \in Nat /\ Tile <= Width + Tile - 1
      /\ Height + Tile - 1 \in Nat /\ Tile <= Height + Tile - 1
  BY <1>1, SearchAssumption
<1>3. TilesAcross \in Nat \ {0}
  BY <1>1, <1>2, Quotient DEF TilesAcross
<1>4. TilesDown \in Nat \ {0}
  BY <1>1, <1>2, Quotient DEF TilesDown
<1>5. TilesAcross * TilesDown \in Nat \ {0}
  BY <1>3, <1>4, Product
<1> QED
  BY <1>3, <1>4, <1>5 DEF TilesCount

-----------------------------------------------------------------------------
(* The region and the contour in it.                                        *)

\* Nothing is looked at in an image that has no room for the region.
RoiInv ==
  /\ roi.x \in Int /\ roi.y \in Int
  /\ RoiInImage
  /\ pc = "loop" => Fits

\* Wherever it is put, a region lies within the image.
LEMMA RoiSet ==
  ASSUME Fits, NEW x \in Int, NEW y \in Int, NEW level \in Levels, SetRoi(x, y, level)
  PROVE  RoiInv' /\ roi'.level \in Levels
<1>1. /\ RoiSize[level] \in Nat \ {0}
      /\ RoiSize[level] <= Width /\ RoiSize[level] <= Height
  BY RoiSizeBounds, SearchAssumption DEF Fits, Levels, ROIS
<1>2. /\ roi'.x = Lesser(Greater(x, 0), Width - RoiSize[level])
      /\ roi'.y = Lesser(Greater(y, 0), Height - RoiSize[level])
      /\ roi'.level = level
  BY DEF SetRoi
<1>3. /\ roi'.x \in Nat /\ roi'.x + RoiSize[level] <= Width
      /\ roi'.y \in Nat /\ roi'.y + RoiSize[level] <= Height
  BY <1>1, <1>2, SearchAssumption DEF Lesser, Greater
<1> QED
  BY <1>2, <1>3 DEF RoiInv, RoiInImage, Side, Fits

\* The part of the sphere that the region shows is within both.
LEMMA ContourInRoi ==
  ASSUME TypeOK, RoiInv, Fits, Contour
  PROVE  /\ CenterX \in 0 .. Width /\ CenterY \in 0 .. Height
         /\ Longer \in 1 .. Side /\ Side \in 1 .. Tile
<1>1. Side \in 1 .. Tile
  BY RoiSizeBounds DEF TypeOK, Side, Levels
<1>2. /\ sphere.x \in Nat /\ sphere.y \in Nat /\ sphere.d \in Nat
      /\ sphere.x + sphere.d <= Width /\ sphere.y + sphere.d <= Height
  BY SearchAssumption DEF TypeOK, Contour
<1>3. /\ roi.x \in Nat /\ roi.y \in Nat
      /\ roi.x + Side <= Width /\ roi.y + Side <= Height
  BY <1>1, RoiSizeBounds DEF RoiInv, RoiInImage
<1>4. Tile \in Nat /\ Side \in Nat
  BY <1>1, RoiSizeBounds DEF Tile, Levels, ROIS
<1>5. /\ Left \in Nat /\ BoxWidth \in 1 .. Side /\ Left + BoxWidth <= Width
      /\ Top \in Nat /\ BoxHeight \in 1 .. Side /\ Top + BoxHeight <= Height
  BY <1>2, <1>3, <1>4, SearchAssumption
  DEF Left, Top, BoxWidth, BoxHeight, Greater, Lesser, Contour
<1>6. CenterX \in 0 .. Width /\ CenterY \in 0 .. Height
  BY <1>4, <1>5, SearchAssumption DEF CenterX, CenterY
<1>7. Longer \in 1 .. Side
  BY <1>4, <1>5 DEF Longer, Greater
<1> QED
  BY <1>1, <1>6, <1>7

\* The smallest region that fits is one of those that fit.
LEMMA LargestFits ==
  ASSUME Fitting # {}
  PROVE  Max(Fitting) \in Fitting
<1>1. Fitting \subseteq {0, 1, 2, 3}
  BY DEF Fitting, ROIS
<1>2. \E m \in Fitting : \A n \in Fitting : m >= n
  <2>1. 3 >= 2 /\ 3 >= 1 /\ 3 >= 0 /\ 2 >= 1 /\ 2 >= 0 /\ 1 >= 0
        /\ 3 >= 3 /\ 2 >= 2 /\ 1 >= 1 /\ 0 >= 0
    OBVIOUS
  <2> HIDE DEF Fitting
  <2>2. CASE 3 \in Fitting
    BY <1>1, <2>1, <2>2
  <2>3. CASE 3 \notin Fitting /\ 2 \in Fitting
    BY <1>1, <2>1, <2>3
  <2>4. CASE 3 \notin Fitting /\ 2 \notin Fitting /\ 1 \in Fitting
    BY <1>1, <2>1, <2>4
  <2>5. CASE Fitting = {0}
    BY <2>1, <2>5
  <2> QED
    BY <1>1, <2>2, <2>3, <2>4, <2>5
<1> QED
  BY <1>2 DEF Max

\* There is always a size to choose.
LEMMA LevelChosen ==
  ASSUME TypeOK
  PROVE  LevelFor \in Levels
<1>1. CASE Fitting = {}
  BY <1>1 DEF TypeOK, LevelFor, Levels
<1>2. CASE Fitting # {}
  BY <1>2, LargestFits DEF LevelFor, Levels, Fitting, ROIS
<1> QED
  BY <1>1, <1>2

\* It is three times as large as what is seen, or stays as it is.
LEMMA LevelFits ==
  ASSUME TypeOK, Longer \in Int
  PROVE  LevelFor = roi.level \/ RoiSize[LevelFor] >= 3 * Longer
<1> SUFFICES ASSUME Fitting # {} PROVE RoiSize[LevelFor] >= 3 * Longer
  BY DEF LevelFor
<1>1. CASE fixed
  <2>1. LevelFor = 0
    BY <1>1 DEF LevelFor
  <2>2. PICK level \in Levels : RoiSize[level] >= 3 * Longer
    BY DEF Fitting, Levels
  <2>3. Tile >= RoiSize[level] /\ RoiSize[level] \in Nat /\ Tile \in Nat
    BY RoiSizeBounds DEF Tile, Levels, ROIS
  <2> QED
    BY <2>1, <2>2, <2>3 DEF Tile
<1>2. CASE ~fixed
  BY <1>2, LargestFits DEF LevelFor, Fitting
<1> QED
  BY <1>1, <1>2

\* The stored position is in the image and not far from that of the contour.
LEMMA AroundBounds ==
  ASSUME NEW size \in Nat, NEW center \in 0 .. size, NEW z \in Around(center, size)
  PROVE  /\ z \in 0 .. size
         /\ z - center \in (-Lag) .. Lag
BY SearchAssumption DEF Around, Greater, Lesser

-----------------------------------------------------------------------------
SearchInv == TypeOK /\ RoiInv

LEMMA InitSearch == Init => SearchInv
<1> SUFFICES ASSUME Init PROVE SearchInv
  OBVIOUS
<1>1. 0 \in Levels /\ Tile \in Nat
      /\ roi = [x |-> 0, y |-> 0, level |-> 0]
  BY RoiSizeBounds, SearchAssumption DEF Init, Tile, Levels, ROIS
<1>2. TypeOK
  <2>1. roi.level \in 0 .. (ROIS - 1) /\ search_tile \in 0 .. (TilesCount - 1)
    BY <1>1, Tiles DEF Init, Levels
  <2>2. at.x \in 0 .. Width /\ at.y \in 0 .. Height /\ at.r \in 0 .. Tile
    BY <1>1, SearchAssumption DEF Init
  <2> QED
    BY <2>1, <2>2 DEF Init, TypeOK
<1>3. RoiInv
  BY <1>1, SearchAssumption DEF Init, RoiInv, RoiInImage, Side, Tile, Fits
<1> QED
  BY <1>2, <1>3 DEF SearchInv

LEMMA StepSearch == SearchInv /\ [Next]_vars => SearchInv'
<1> SUFFICES ASSUME TypeOK, RoiInv, [Next]_vars PROVE SearchInv'
  BY DEF SearchInv
<1> USE DEF image, locals, tracked
<1>0. pc = "loop" => Fits
  BY DEF RoiInv
<1>1. ASSUME UNCHANGED roi, pc' = "loop" => Fits PROVE RoiInv'
  BY <1>1 DEF RoiInv, RoiInImage, Side, Fits
<1>2. CASE Move
  <2>1. TypeOK'
    BY <1>2 DEF Move, TypeOK
  <2> QED
    BY <1>0, <1>1, <1>2, <2>1 DEF Move, SearchInv
<1>3. CASE FixRoiSize
  <2>1. TypeOK'
    BY <1>3 DEF FixRoiSize, TypeOK
  <2> QED
    BY <1>0, <1>1, <1>3, <2>1 DEF FixRoiSize, SearchInv
<1>4. CASE Update
  <2>1. TypeOK'
    BY <1>4 DEF Update, TypeOK
  <2> QED
    BY <1>0, <1>1, <1>4, <2>1 DEF Update, SearchInv
<1>5. CASE SeeJunk
  <2>1. TypeOK'
    BY <1>5 DEF SeeJunk, TypeOK
  <2> QED
    BY <1>0, <1>1, <1>5, <2>1 DEF SeeJunk, SearchInv
<1>6. CASE Recenter
  <2> DEFINE size == RoiSize[LevelFor]
  <2>1. LevelFor \in Levels /\ size \in Nat
    BY LevelChosen, RoiSizeBounds
  <2>2. CenterX \in Int /\ CenterY \in Int
    BY <1>0, <1>6, ContourInRoi, SearchAssumption DEF Recenter
  <2>3. CenterX - size \div 2 \in Int /\ CenterY - size \div 2 \in Int
    BY <2>1, <2>2
  <2>4. SetRoi(CenterX - size \div 2, CenterY - size \div 2, LevelFor)
    BY <1>6 DEF Recenter
  <2>5. RoiInv' /\ roi'.level \in Levels
    BY <1>0, <1>6, <2>1, <2>3, <2>4, RoiSet DEF Recenter
  <2>6. TypeOK'
    BY <1>6, <2>5 DEF Recenter, TypeOK, Levels
  <2> QED
    BY <2>5, <2>6 DEF SearchInv
<1>7. CASE Found
  <2>1. PICK r \in Smoothed, shape \in BOOLEAN,
             x \in Around(CenterX, Width), y \in Around(CenterY, Height) :
          /\ at' = [x |-> x, y |-> y, r |-> r]
          /\ End(shape /\ SizeOk(r) /\ RadiusOk(r))
    BY <1>7 DEF Found
  <2>2. /\ x \in 0 .. Width /\ y \in 0 .. Height
        /\ Longer \in 0 .. Tile
    <3>1. /\ CenterX \in 0 .. Width /\ CenterY \in 0 .. Height
          /\ Longer \in 1 .. Side /\ Side \in 1 .. Tile
      BY <1>0, <1>7, ContourInRoi DEF Found
    <3> QED
      BY <3>1, RoiSizeBounds, SearchAssumption, AroundBounds
  <2>3. r \in 0 .. Tile
    BY <2>2, RoiSizeBounds DEF Smoothed, TypeOK, Lesser, Greater, Tile, Levels, ROIS
  <2>4. (shape /\ SizeOk(r) /\ RadiusOk(r)) \in BOOLEAN
    OBVIOUS
  <2>5. is_tracked' \in BOOLEAN /\ was_tracked' \in BOOLEAN /\ pc' = "idle"
    BY <2>1, <2>4 DEF End, TypeOK
  <2>6. TypeOK'
    BY <1>7, <2>1, <2>2, <2>3, <2>5 DEF Found, TypeOK
  <2> QED
    BY <1>1, <1>7, <2>5, <2>6 DEF Found, SearchInv
<1>8. CASE Enlarge
  <2> DEFINE level == IF fixed THEN 0 ELSE roi.level - 1
             x == roi.x + Side \div 2 - RoiSize[level] \div 2
             y == roi.y + Side \div 2 - RoiSize[level] \div 2
  <2>1. level \in Levels
    BY <1>8 DEF Enlarge, TypeOK, Levels, ROIS
  <2>2. Side \in Nat /\ RoiSize[level] \in Nat
    BY <2>1, RoiSizeBounds DEF Side, TypeOK, Levels
  <2>3. x \in Int /\ y \in Int
    BY <2>2 DEF RoiInv
  <2>4. SetRoi(x, y, level)
    BY <1>8 DEF Enlarge
  <2>5. RoiInv' /\ roi'.level \in Levels
    BY <1>0, <1>8, <2>1, <2>3, <2>4, RoiSet DEF Enlarge
  <2>6. TypeOK'
    BY <1>8, <2>5 DEF Enlarge, TypeOK, Levels
  <2> QED
    BY <2>5, <2>6 DEF SearchInv
<1>9. CASE NextTile
  <2> DEFINE x == Tile * (search_tile % TilesAcross)
             y == Tile * (search_tile \div TilesAcross)
  <2>1. search_tile \in Nat
    BY Tiles DEF TypeOK
  <2>2. search_tile % TilesAcross \in Nat /\ search_tile \div TilesAcross \in Nat
    BY <2>1, Tiles
  <2>3. Tile \in Nat
    BY RoiSizeBounds DEF Tile, Levels, ROIS
  <2>4. x \in Int /\ y \in Int
    BY <2>2, <2>3
  <2>5. SetRoi(x, y, 0) /\ 0 \in Levels
    BY <1>9 DEF NextTile, Levels, ROIS
  <2>6. RoiInv' /\ roi'.level \in Levels
    BY <1>0, <1>9, <2>4, <2>5, RoiSet DEF NextTile
  <2>7. (search_tile + 2) % TilesCount \in 0 .. (TilesCount - 1)
    BY <2>1, Tiles
  <2>8. TypeOK'
    BY <1>9, <2>6, <2>7 DEF NextTile, End, TypeOK, Levels
  <2> QED
    BY <2>6, <2>8 DEF SearchInv
<1>10. CASE UNCHANGED vars
  BY <1>10 DEF vars, SearchInv, TypeOK, RoiInv, RoiInImage, Side, Fits
<1> QED
  BY <1>2, <1>3, <1>4, <1>5, <1>6, <1>7, <1>8, <1>9, <1>10 DEF Next, Step

\* The position, the radius, the search tile and the size of the region stay
\* within the image, the number of tiles and the sizes there are buffers for.
THEOREM TypeCorrect == Spec => []TypeOK
<1>1. SearchInv => TypeOK
  BY DEF SearchInv
<1> QED
  BY <1>1, InitSearch, StepSearch, PTL DEF Spec

\* However it is moved, resized and recentred, the region lies in the image,
\* whatever size was asked for, if the image has room for it.
THEOREM RoiStaysInImage == Spec => []RoiInImage
<1>1. SearchInv => RoiInImage
  BY DEF SearchInv, RoiInv
<1> QED
  BY <1>1, InitSearch, StepSearch, PTL DEF Spec

-----------------------------------------------------------------------------
(* The loop of an update cannot go round for ever.                          *)

\* How often the loop may still go round: once for junk and once for a larger
\* region at each size, and, before it has recentred, for every size again.
StepsLeft ==
  (IF recentered THEN 0 ELSE 2 * ROIS) + 2 * roi.level
    + (IF contour_ok THEN 1 ELSE 0)
LoopShrinks == pc = "loop" /\ pc' = "loop" => StepsLeft' < StepsLeft

LEMMA StepsNumber ==
  ASSUME TypeOK
  PROVE  /\ StepsLeft \in 0 .. (4 * ROIS - 1) /\ roi.level \in Nat
         /\ recentered \in BOOLEAN /\ contour_ok \in BOOLEAN
<1>1. /\ roi.level \in 0 .. 3 /\ roi.level \in Nat
      /\ recentered \in BOOLEAN /\ contour_ok \in BOOLEAN
  BY DEF TypeOK, ROIS
<1> QED
  BY <1>1 DEF StepsLeft, ROIS

LEMMA StepShrinks == SearchInv /\ [Next]_vars => [LoopShrinks]_vars
<1> SUFFICES ASSUME TypeOK, SearchInv', Next, pc = "loop", pc' = "loop"
             PROVE  StepsLeft' < StepsLeft
  BY StepSearch DEF LoopShrinks, SearchInv
<1> USE DEF image, locals, tracked
<1>0. /\ roi.level \in 0 .. 3 /\ roi'.level \in 0 .. 3
      /\ {recentered, contour_ok, recentered', contour_ok'} \subseteq BOOLEAN
  BY DEF TypeOK, SearchInv, ROIS
<1>1. CASE SeeJunk
  BY <1>0, <1>1 DEF SeeJunk, StepsLeft, ROIS
<1>2. CASE Recenter
  BY <1>0, <1>2 DEF Recenter, StepsLeft, ROIS
<1>3. CASE Enlarge
  <2> DEFINE level == IF fixed THEN 0 ELSE roi.level - 1
  <2>1. roi'.level = level
    BY <1>3 DEF Enlarge, SetRoi
  <2>2. recentered' = recentered /\ contour_ok' /\ level < roi.level
    BY <1>0, <1>3 DEF Enlarge
  <2> QED
    BY <1>0, <2>1, <2>2 DEF StepsLeft, ROIS
<1>4. CASE Move \/ FixRoiSize \/ Update
  BY <1>4 DEF Move, FixRoiSize, Update
<1>5. CASE Found \/ NextTile
  BY <1>5 DEF Found, NextTile, End
<1> QED
  BY <1>1, <1>2, <1>3, <1>4, <1>5 DEF Next, Step

\* An update goes round its loop 16 times at most, wherever the sphere is and
\* whatever is taken for junk: each round that does not end the update leaves
\* fewer to come, as it recentres only once.
THEOREM UpdateIsBounded ==
  Spec => [](StepsLeft \in 0 .. (4 * ROIS - 1)) /\ [][LoopShrinks]_vars
<1>1. SearchInv => StepsLeft \in 0 .. (4 * ROIS - 1)
  BY StepsNumber DEF SearchInv
<1> QED
  BY <1>1, InitSearch, StepSearch, StepShrinks, PTL DEF Spec

-----------------------------------------------------------------------------
(* A sphere at rest that the region shows is tracked, and stays so.         *)

\* The whole sphere is in the region.
InView ==
  /\ sphere # Hidden
  /\ roi.x <= sphere.x /\ sphere.x + sphere.d <= roi.x + Side
  /\ roi.y <= sphere.y /\ sphere.y + sphere.d <= roi.y + Side

\* Nor will it be taken for junk.
Locked ==
  /\ InView /\ Large(sphere)
  /\ pc = "loop" => contour_ok
  /\ is_tracked => ~TooFar(CenterX, CenterY)

\* How far the smoothed radius is from that of the sphere, and whether it is
\* large enough, and near enough for the check against the last one.
Off == Greater(at.r - sphere.d, sphere.d - at.r)
Near ==
  /\ SizeOk(at.r)
  /\ search_tile = 0 => 10 * Off < 7 * at.r

KeepsSphere ==
  Locked /\ sphere' = sphere =>
    /\ Locked'
    /\ Off' <= Off
    /\ Near => Near' /\ (is_tracked => is_tracked')
    /\ pc = "loop" /\ pc' = "idle" =>
         (Off' < Off \/ Off = 0) /\ (Off = 0 \/ Near => is_tracked')

\* The contour is then that of the sphere, and no junk.
LEMMA WholeSeen ==
  ASSUME TypeOK, RoiInv, InView
  PROVE  /\ sphere.x \in Nat /\ sphere.y \in Nat /\ sphere.d \in Nat \ {0}
         /\ sphere.x + sphere.d <= Width /\ sphere.y + sphere.d <= Height
         /\ Contour /\ Whole /\ Longer = sphere.d
         /\ CenterX = sphere.x + sphere.d \div 2
         /\ CenterY = sphere.y + sphere.d \div 2
         /\ Locked => ~Junk /\ ~FewPoints
<1>1. /\ sphere.x \in Nat /\ sphere.y \in Nat /\ sphere.d \in Nat \ {0}
      /\ sphere.x + sphere.d <= Width /\ sphere.y + sphere.d <= Height
  BY SearchAssumption DEF TypeOK, InView
<1>2. roi.x \in Int /\ roi.y \in Int /\ Side \in Nat
  BY RoiSizeBounds DEF TypeOK, RoiInv, Side, Levels
<1>3. /\ Left = sphere.x /\ Top = sphere.y
      /\ BoxWidth = sphere.d /\ BoxHeight = sphere.d
  BY <1>1, <1>2 DEF InView, Left, Top, BoxWidth, BoxHeight, Greater, Lesser
<1>4. Longer = sphere.d /\ Shorter = sphere.d /\ Contour
  BY <1>1, <1>3 DEF InView, Longer, Shorter, Greater, Lesser, Contour
<1>5. CenterX = sphere.x + sphere.d \div 2 /\ CenterY = sphere.y + sphere.d \div 2
  BY <1>3 DEF CenterX, CenterY
<1>6. ASSUME Locked PROVE ~Junk /\ ~FewPoints
  <2>1. ~(BoxWidth * BoxHeight < MinArea)
    <3>1. sphere.d * sphere.d \in Nat /\ MinArea \in Nat
      BY <1>1, SearchAssumption
    <3> QED
      BY <1>3, <1>6, <3>1 DEF Locked, Large
  <2>2. ~(4 * Longer >= 5 * Shorter)
    BY <1>1, <1>4
  <2> QED
    BY <1>6, <2>1, <2>2 DEF Junk, FewPoints, Locked
<1> QED
  BY <1>1, <1>4, <1>5, <1>6 DEF Whole

\* A region that is put over the sphere shows it, also where the edge of the
\* image pushes it aside.
LEMMA ViewCentered ==
  ASSUME NEW x \in Nat, NEW d \in Nat, NEW size \in Nat, NEW limit \in Nat,
         d <= size, size <= limit, x + d <= limit
  PROVE  LET left == Lesser(Greater((x + d \div 2) - size \div 2, 0), limit - size)
         IN  left <= x /\ x + d <= left + size
BY DEF Lesser, Greater

LEMMA RecenterKeeps ==
  ASSUME TypeOK, RoiInv, Fits, InView, sphere' = sphere, NEW level \in Levels,
         RoiSize[level] >= sphere.d,
         SetRoi(CenterX - RoiSize[level] \div 2, CenterY - RoiSize[level] \div 2,
                level)
  PROVE  InView'
<1> DEFINE size == RoiSize[level]
<1>1. /\ size \in Nat /\ size <= Width /\ size <= Height
      /\ Width \in Nat /\ Height \in Nat
  BY RoiSizeBounds, SearchAssumption DEF Fits, Levels, ROIS
<1>2. /\ roi'.level = level
      /\ roi'.x = Lesser(Greater(CenterX - size \div 2, 0), Width - size)
      /\ roi'.y = Lesser(Greater(CenterY - size \div 2, 0), Height - size)
  BY DEF SetRoi
<1>3. Side' = size
  BY <1>2 DEF Side
<1> HIDE DEF size
<1>4. /\ roi'.x <= sphere.x /\ sphere.x + sphere.d <= roi'.x + size
      /\ roi'.y <= sphere.y /\ sphere.y + sphere.d <= roi'.y + size
  <2>1. /\ sphere.x \in Nat /\ sphere.y \in Nat /\ sphere.d \in Nat
        /\ sphere.x + sphere.d <= Width /\ sphere.y + sphere.d <= Height
        /\ CenterX = sphere.x + sphere.d \div 2
        /\ CenterY = sphere.y + sphere.d \div 2
        /\ sphere.d <= size
    BY <1>1, WholeSeen DEF size
  <2>2. roi'.x <= sphere.x /\ sphere.x + sphere.d <= roi'.x + size
    <3>1. roi'.x = Lesser(Greater((sphere.x + sphere.d \div 2) - size \div 2, 0), Width - size)
      BY <1>2, <2>1
    <3>2. PICK place \in Nat, d \in Nat, limit \in Nat :
            place = sphere.x /\ d = sphere.d /\ limit = Width
      BY <1>1, <2>1
    <3>3. LET left == Lesser(Greater((place + d \div 2) - size \div 2, 0), limit - size)
          IN  left <= place /\ place + d <= left + size
      BY <1>1, <2>1, <3>2, ViewCentered
    <3> QED
      BY <3>1, <3>2, <3>3
  <2>3. roi'.y <= sphere.y /\ sphere.y + sphere.d <= roi'.y + size
    <3>1. roi'.y = Lesser(Greater((sphere.y + sphere.d \div 2) - size \div 2, 0), Height - size)
      BY <1>2, <2>1
    <3>2. PICK place \in Nat, d \in Nat, limit \in Nat :
            place = sphere.y /\ d = sphere.d /\ limit = Height
      BY <1>1, <2>1
    <3>3. LET left == Lesser(Greater((place + d \div 2) - size \div 2, 0), limit - size)
          IN  left <= place /\ place + d <= left + size
      BY <1>1, <2>1, <3>2, ViewCentered
    <3> QED
      BY <3>1, <3>2, <3>3
  <2> QED
    BY <2>2, <2>3
<1> QED
  BY <1>3, <1>4 DEF InView

\* The radius comes closer to that of the sphere, and the check lets it.
LEMMA RadiusCloser ==
  ASSUME NEW old \in Nat, NEW d \in Nat \ {0},
         NEW r \in IF old = d THEN {d}
                   ELSE (Lesser(old, d) .. Greater(old, d)) \ {old}
  PROVE  LET off == Greater(old - d, d - old)
             new == Greater(r - d, d - r)
             change == Greater(old - r, r - old)
         IN  /\ new < off \/ off = 0
             /\ new <= off
             /\ 10 * off < 7 * old => 10 * change < 7 * old /\ 10 * new < 7 * r
             /\ off = 0 => 10 * off < 7 * old
BY DEF Lesser, Greater

LEMMA SquareBound ==
  ASSUME NEW n \in Nat, NEW z \in (-n) .. n
  PROVE  z * z <= n * n
<1>1. PICK a \in Nat : (z = a \/ z = -a) /\ a <= n
  <2>1. CASE z >= 0
    BY <2>1
  <2>2. CASE z < 0
    <3>1. -z \in Nat /\ z = -(-z) /\ -z <= n
      BY <2>2
    <3> QED
      BY <3>1
  <2> QED
    BY <2>1, <2>2
<1>2. z * z = a * a
  BY <1>1
<1>3. PICK b \in Nat : n = a + b
  <2>1. n - a \in Nat /\ n = a + (n - a)
    BY <1>1
  <2> QED
    BY <2>1
<1>4. n * n = a * a + 2 * (a * b) + b * b /\ a * b \in Nat /\ b * b \in Nat
      /\ a * a \in Nat
  BY <1>3
<1> QED
  BY <1>2, <1>4

LEMMA StepKeeps == SearchInv /\ [Next]_vars => [KeepsSphere]_vars
<1> SUFFICES ASSUME TypeOK, RoiInv, Next, Locked, sphere' = sphere
             PROVE  KeepsSphere
  BY DEF SearchInv, KeepsSphere
<1>1. TypeOK' /\ RoiInv'
  BY StepSearch DEF SearchInv
<1>2. /\ InView /\ Contour /\ ~Junk /\ ~FewPoints /\ Whole /\ Longer = sphere.d
      /\ sphere.d \in Nat \ {0} /\ sphere.d <= Side /\ Side \in Nat
  <2>1. /\ sphere.x \in Nat /\ sphere.d \in Nat \ {0} /\ roi.x \in Int
        /\ sphere.x + sphere.d <= roi.x + Side /\ roi.x <= sphere.x /\ Side \in Nat
    BY WholeSeen, RoiSizeBounds
    DEF Locked, InView, RoiInv, Side, TypeOK, Levels
  <2> QED
    BY <2>1, WholeSeen DEF Locked
<1>3. ASSUME InView' PROVE CenterX' = CenterX /\ CenterY' = CenterY
  <2>1. /\ sphere.x \in Nat /\ sphere.y \in Nat
        /\ roi'.x \in Int /\ roi'.y \in Int /\ Side' \in Nat
    BY <1>1, <1>2, WholeSeen, RoiSizeBounds DEF TypeOK, RoiInv, Side, Levels
  <2>2. /\ Left' = sphere.x /\ Top' = sphere.y
        /\ BoxWidth' = sphere.d /\ BoxHeight' = sphere.d
    BY <1>2, <1>3, <2>1
    DEF InView, Left, Top, BoxWidth, BoxHeight, Greater, Lesser
  <2>3. CenterX' = sphere.x + sphere.d \div 2 /\ CenterY' = sphere.y + sphere.d \div 2
    BY <2>2 DEF CenterX, CenterY
  <2> QED
    BY <1>2, <2>3, WholeSeen
<1>4. at.r \in Nat /\ at.x \in Int /\ at.y \in Int /\ Off \in Nat
  BY <1>2, SearchAssumption, RoiSizeBounds DEF TypeOK, Off, Greater, Tile, Levels, ROIS
<1>5. pc = "loop" => contour_ok
  BY DEF Locked
<1>6. CASE UNCHANGED <<roi, at, is_tracked, search_tile, sphere>>
           /\ (pc' = "loop" => contour_ok') /\ ~(pc = "loop" /\ pc' = "idle")
  <2>1. InView'
    BY <1>2, <1>6 DEF InView, Side
  <2>2. Locked'
    BY <1>3, <1>6, <2>1 DEF Locked, TooFar, Large
  <2>3. Off' = Off /\ Near' = Near
    BY <1>6 DEF Off, Near
  <2> QED
    BY <1>4, <1>6, <2>2, <2>3 DEF KeepsSphere
<1>7. CASE FixRoiSize \/ Update
  BY <1>5, <1>6, <1>7 DEF FixRoiSize, Update, image, tracked, locals
<1>8. CASE Recenter
  <2>1. RoiSize[LevelFor] >= sphere.d /\ LevelFor \in Levels
    <3>1. LevelFor \in Levels /\ RoiSize[LevelFor] \in Nat
      BY LevelChosen, RoiSizeBounds
    <3>2. LevelFor = roi.level \/ RoiSize[LevelFor] >= 3 * sphere.d
      BY <1>2, LevelFits
    <3> QED
      BY <1>2, <3>1, <3>2 DEF Side
  <2>2. InView'
    BY <1>2, <1>8, <2>1, RecenterKeeps DEF Recenter, RoiInv
  <2>3. UNCHANGED <<at, is_tracked, search_tile, pc, contour_ok>>
    BY <1>8 DEF Recenter, tracked
  <2>4. Locked'
    BY <1>3, <2>2, <2>3 DEF Locked, TooFar, Large
  <2>5. Off' = Off /\ Near' = Near
    BY <2>3 DEF Off, Near
  <2>6. pc' = "loop"
    BY <1>8 DEF Recenter
  <2> QED
    BY <1>4, <2>3, <2>4, <2>5, <2>6 DEF KeepsSphere
<1>9. CASE Found
  <2>1. PICK r \in Smoothed, shape \in BOOLEAN,
             x \in Around(CenterX, Width), y \in Around(CenterY, Height) :
          /\ Whole => shape
          /\ at' = [x |-> x, y |-> y, r |-> r]
          /\ End(shape /\ SizeOk(r) /\ RadiusOk(r))
    BY <1>9 DEF Found
  <2>2. r \in IF at.r = sphere.d THEN {sphere.d}
              ELSE (Lesser(at.r, sphere.d) .. Greater(at.r, sphere.d)) \ {at.r}
    BY <1>2 DEF Smoothed
  <2>3. /\ at'.r = r /\ at'.x = x /\ at'.y = y
        /\ is_tracked' = (SizeOk(r) /\ RadiusOk(r)) /\ pc' = "idle"
        /\ UNCHANGED <<roi, search_tile>>
    <3>1. is_tracked' = (shape /\ SizeOk(r) /\ RadiusOk(r)) /\ shape = TRUE
      BY <1>2, <2>1 DEF End
    <3> QED
      BY <1>9, <2>1, <3>1 DEF Found, End, RadiusOk
  <2>4. /\ Off' < Off \/ Off = 0
        /\ Off' <= Off
        /\ 10 * Off < 7 * at.r =>
             10 * Greater(at.r - r, r - at.r) < 7 * at.r /\ 10 * Off' < 7 * r
        /\ Off = 0 => 10 * Off < 7 * at.r
    <3> HIDE DEF Greater, Lesser
    <3> QED
      BY <1>2, <1>4, <2>2, <2>3, RadiusCloser DEF Off
  <2>5. Off = 0 => Near
    <3>1. Off = 0 => at.r = sphere.d
      BY <1>2, <1>4 DEF Off, Greater
    <3> QED
      BY <2>4, <3>1 DEF Near, Locked, Large, SizeOk
  <2>6. Near => Near' /\ SizeOk(r) /\ RadiusOk(r)
    <3>1. SizeOk(at.r) => SizeOk(r)
      BY <1>2, <1>4, <2>2, SearchAssumption DEF SizeOk, Locked, Large, Lesser, Greater
    <3> QED
      BY <2>3, <2>4, <3>1 DEF Near, RadiusOk, SizeOk
  <2>7. InView'
    BY <1>2, <2>3 DEF InView, Side
  <2>8. ~TooFar(CenterX, CenterY)'
    <3>1. CenterX' = CenterX /\ CenterY' = CenterY
      BY <1>3, <2>7
    <3>2. CenterX \in 0 .. Width /\ CenterY \in 0 .. Height
      BY <1>2, <1>9, ContourInRoi DEF Found, RoiInv
    <3>3. /\ x \in Int /\ x - CenterX \in (-Lag) .. Lag
          /\ y \in Int /\ y - CenterY \in (-Lag) .. Lag
      BY <3>2, AroundBounds, SearchAssumption
    <3>4. (CenterX - x) * (CenterX - x) <= Lag * Lag
          /\ (CenterY - y) * (CenterY - y) <= Lag * Lag
      <4>1. CenterX - x \in (-Lag) .. Lag /\ CenterY - y \in (-Lag) .. Lag
        BY <3>2, <3>3, SearchAssumption
      <4> QED
        BY <4>1, SquareBound, SearchAssumption
    <3>5. (CenterX - x) * (CenterX - x) + (CenterY - y) * (CenterY - y)
            < MaxJump * MaxJump
      <4>1. /\ Lag * Lag \in Int /\ 2 * Lag * Lag = Lag * Lag + Lag * Lag
            /\ MaxJump * MaxJump \in Int /\ 2 * Lag * Lag < MaxJump * MaxJump
            /\ (CenterX - x) * (CenterX - x) \in Int
            /\ (CenterY - y) * (CenterY - y) \in Int
        BY <3>2, <3>3, SearchAssumption
      <4> QED
        BY <3>4, <4>1
    <3>6. (CenterX - x) * (CenterX - x) + (CenterY - y) * (CenterY - y) \in Int
          /\ MaxJump * MaxJump \in Int
      BY <3>2, <3>3, SearchAssumption
    <3> QED
      BY <2>3, <3>1, <3>5, <3>6 DEF TooFar
  <2>9. Locked'
    BY <2>3, <2>7, <2>8 DEF Locked, Large
  <2> QED
    BY <2>3, <2>4, <2>5, <2>6, <2>9 DEF KeepsSphere
<1>10. ~Move
  BY DEF Move
<1>11. ~SeeJunk /\ ~Enlarge /\ ~NextTile
  BY <1>2, <1>5 DEF SeeJunk, Enlarge, NextTile, Nothing
<1> QED
  BY <1>7, <1>8, <1>9, <1>10, <1>11 DEF Next, Step

\* As long as the sphere rests, the region that once shows it keeps it: it is
\* never taken for junk, each update finds it and brings the radius closer,
\* and it is tracked for ever as soon as that is near.
THEOREM SphereIsKept == Spec => [][KeepsSphere]_vars
BY InitSearch, StepSearch, StepKeeps, PTL DEF Spec

-----------------------------------------------------------------------------
(* The search comes to every tile.                                          *)

\* The tile with the sphere, and how often the search has to go on before it
\* looks at that tile: it looks at every second one.
TileOf(p) == TilesAcross * (p.y \div Tile) + p.x \div Tile
Ahead(tile) == IF tile >= search_tile THEN tile - search_tile
                                      ELSE tile - search_tile + TilesCount
Turns(tile) == IF Ahead(tile) % 2 = 0 THEN Ahead(tile) \div 2
                                      ELSE (Ahead(tile) + TilesCount) \div 2

TurnsBounded ==
  \A p \in Spots : InOneTile(p) => Turns(TileOf(p)) \in 0 .. (TilesCount - 1)
TurnsShrink ==
  \A p \in Spots : InOneTile(p) =>
    IF ~NextTile THEN search_tile' = search_tile
    ELSE IF TileOf(p) # search_tile THEN Turns(TileOf(p))' = Turns(TileOf(p)) - 1
    ELSE sphere = p /\ Large(p) => Locked'

LEMMA Division ==
  ASSUME NEW n \in Nat \ {0}, NEW q \in Nat, NEW r \in 0 .. (n - 1)
  PROVE  (n * q + r) \div n = q /\ (n * q + r) % n = r
<1> DEFINE a == n * q + r
           Q == a \div n
           R == a % n
<1>1. n * q \in Nat /\ a \in Nat
  OBVIOUS
<1>2. Q \in Nat /\ R \in 0 .. (n - 1) /\ a = n * Q + R
  BY <1>1
<1>3. a = n * q + r
  OBVIOUS
<1> HIDE DEF a, Q, R
<1>4. ASSUME NEW b \in Nat, NEW c \in Nat, b < c PROVE n * b + n <= n * c
  <2>1. PICK e \in Nat : c = b + 1 + e
    <3>1. c - b - 1 \in Nat /\ c = b + 1 + (c - b - 1)
      BY <1>4
    <3> QED
      BY <3>1
  <2>2. n * c = n * b + n + n * e /\ n * e \in Nat
    BY <2>1
  <2> QED
    BY <2>2
<1>5. ~(Q < q)
  <2> SUFFICES ASSUME Q < q PROVE FALSE
    OBVIOUS
  <2>1. n * Q + n <= n * q
    BY <1>2, <1>4
  <2> QED
    BY <1>1, <1>2, <1>3, <2>1
<1>6. ~(q < Q)
  <2> SUFFICES ASSUME q < Q PROVE FALSE
    OBVIOUS
  <2>1. n * q + n <= n * Q
    BY <1>2, <1>4
  <2> QED
    BY <1>1, <1>2, <1>3, <2>1
<1>7. Q = q
  BY <1>2, <1>5, <1>6
<1>8. R = r
  BY <1>1, <1>2, <1>3, <1>7
<1> QED
  BY <1>7, <1>8 DEF a, Q, R

\* What lies below the number of tiles in a direction.
LEMMA TilesCover ==
  ASSUME NEW size \in Nat, NEW tile \in Nat \ {0}, NEW x \in Nat, x < size
  PROVE  LET n == x \div tile
         IN  /\ n \in Nat /\ n < (size + tile - 1) \div tile
             /\ tile * n <= x /\ x < tile * n + tile
<1> DEFINE n == x \div tile
           k == (size + tile - 1) \div tile
<1>1. n \in Nat /\ tile * n <= x /\ x < tile * n + tile
  OBVIOUS
<1>2. k \in Nat /\ size + tile - 1 < tile * k + tile /\ tile * k \in Nat
  OBVIOUS
<1> HIDE DEF n, k
<1>3. tile * n < tile * k
  BY <1>1, <1>2
<1>4. n < k
  <2> SUFFICES ASSUME k <= n PROVE FALSE
    BY <1>1, <1>2
  <2>1. tile * k <= tile * n
    BY <1>1, <1>2
  <2> QED
    BY <1>1, <1>2, <1>3, <2>1
<1> QED
  BY <1>1, <1>4 DEF n, k

LEMMA TilePlace ==
  ASSUME NEW p \in Spots, InOneTile(p)
  PROVE  LET column == p.x \div Tile
             row == p.y \div Tile
         IN  /\ column \in 0 .. (TilesAcross - 1) /\ row \in 0 .. (TilesDown - 1)
             /\ Tile * column <= p.x /\ p.x + p.d <= Tile * column + Tile
             /\ Tile * row <= p.y /\ p.y + p.d <= Tile * row + Tile
             /\ TileOf(p) % TilesAcross = column
             /\ TileOf(p) \div TilesAcross = row
<1> DEFINE column == p.x \div Tile
           row == p.y \div Tile
<1>1. /\ p.x \in Nat /\ p.y \in Nat /\ p.d \in Nat \ {0}
      /\ p.x + p.d <= Width /\ p.y + p.d <= Height
      /\ Width \in Nat /\ Height \in Nat
  BY SearchAssumption
<1>2. Tile \in Nat \ {0} /\ TilesAcross \in Nat \ {0} /\ TilesDown \in Nat \ {0}
  BY RoiSizeBounds, Tiles DEF Tile, Levels, ROIS
<1>3. /\ column \in Nat /\ column < TilesAcross /\ Tile * column <= p.x
      /\ row \in Nat /\ row < TilesDown /\ Tile * row <= p.y
  <2>1. p.x < Width /\ p.y < Height
    BY <1>1
  <2>2. column \in Nat /\ column < TilesAcross /\ Tile * column <= p.x
    BY <1>1, <1>2, <2>1, TilesCover DEF TilesAcross
  <2>3. row \in Nat /\ row < TilesDown /\ Tile * row <= p.y
    BY <1>1, <1>2, <2>1, TilesCover DEF TilesDown
  <2> QED
    BY <2>2, <2>3
<1>4. p.x + p.d <= Tile * column + Tile
  <2>1. p.x + p.d - 1 \in Nat /\ p.x + p.d - 1 < Width
    BY <1>1
  <2>2. p.x + p.d - 1 < Tile * ((p.x + p.d - 1) \div Tile) + Tile
    BY <1>1, <1>2, <2>1, TilesCover
  <2>3. p.x + p.d - 1 < Tile * column + Tile
    BY <2>2 DEF InOneTile
  <2>4. Tile * column \in Nat
    BY <1>2, <1>3
  <2> QED
    BY <1>1, <1>2, <2>3, <2>4
<1>5. p.y + p.d <= Tile * row + Tile
  <2>1. p.y + p.d - 1 \in Nat /\ p.y + p.d - 1 < Height
    BY <1>1
  <2>2. p.y + p.d - 1 < Tile * ((p.y + p.d - 1) \div Tile) + Tile
    BY <1>1, <1>2, <2>1, TilesCover
  <2>3. p.y + p.d - 1 < Tile * row + Tile
    BY <2>2 DEF InOneTile
  <2>4. Tile * row \in Nat
    BY <1>2, <1>3
  <2> QED
    BY <1>1, <1>2, <2>3, <2>4
<1>6. column \in 0 .. (TilesAcross - 1) /\ row \in 0 .. (TilesDown - 1)
  BY <1>2, <1>3
<1>7. TileOf(p) = TilesAcross * row + column
  BY DEF TileOf
<1> HIDE DEF column, row
<1>8. TileOf(p) % TilesAcross = column /\ TileOf(p) \div TilesAcross = row
  <2>1. /\ (TilesAcross * row + column) % TilesAcross = column
        /\ (TilesAcross * row + column) \div TilesAcross = row
    BY <1>2, <1>3, <1>6, Division
  <2> QED
    BY <1>7, <2>1
<1> QED
  BY <1>3, <1>4, <1>5, <1>6, <1>8 DEF column, row

LEMMA TileNumber ==
  ASSUME NEW p \in Spots, InOneTile(p)
  PROVE  TileOf(p) \in 0 .. (TilesCount - 1)
<1> DEFINE column == p.x \div Tile
           row == p.y \div Tile
<1>1. column \in 0 .. (TilesAcross - 1) /\ row \in 0 .. (TilesDown - 1)
  BY TilePlace
<1>2. TilesAcross \in Nat \ {0} /\ TilesDown \in Nat \ {0}
  BY Tiles
<1>3. TileOf(p) = TilesAcross * row + column
  BY DEF TileOf
<1> HIDE DEF column, row
<1>4. TilesAcross * row \in Nat
      /\ TilesAcross * row + TilesAcross <= TilesAcross * TilesDown
      /\ TilesAcross * TilesDown \in Nat
  <2>1. PICK e \in Nat : TilesDown = row + 1 + e
    <3>1. TilesDown - row - 1 \in Nat /\ TilesDown = row + 1 + (TilesDown - row - 1)
      BY <1>1, <1>2
    <3> QED
      BY <3>1
  <2>2. TilesAcross * TilesDown = TilesAcross * row + TilesAcross + TilesAcross * e
        /\ TilesAcross * e \in Nat /\ TilesAcross * row \in Nat
    BY <1>1, <1>2, <2>1
  <2> QED
    BY <1>2, <2>2
<1>5. TileOf(p) \in Nat /\ TileOf(p) < TilesAcross * TilesDown
  BY <1>1, <1>2, <1>3, <1>4
<1> QED
  BY <1>4, <1>5 DEF TilesCount

\* The tile of the sphere shows the whole of it, also where the edge of the
\* image pushes the tile aside.
LEMMA TileLocks ==
  ASSUME Fits, NextTile, sphere \in Spots, InOneTile(sphere), Large(sphere),
         search_tile = TileOf(sphere)
  PROVE  Locked'
<1> DEFINE column == sphere.x \div Tile
           row == sphere.y \div Tile
<1>1. /\ column \in 0 .. (TilesAcross - 1) /\ row \in 0 .. (TilesDown - 1)
      /\ Tile * column <= sphere.x /\ sphere.x + sphere.d <= Tile * column + Tile
      /\ Tile * row <= sphere.y /\ sphere.y + sphere.d <= Tile * row + Tile
      /\ search_tile % TilesAcross = column
      /\ search_tile \div TilesAcross = row
  BY TilePlace
<1>2. SetRoi(Tile * column, Tile * row, 0)
  BY <1>1 DEF NextTile
<1> HIDE DEF column, row
<1>3. /\ roi'.x = Lesser(Greater(Tile * column, 0), Width - Tile)
      /\ roi'.y = Lesser(Greater(Tile * row, 0), Height - Tile)
      /\ Side' = Tile
  BY <1>2 DEF SetRoi, Side, Tile
<1>4. /\ sphere.x \in Nat /\ sphere.y \in Nat /\ sphere.d \in Nat
      /\ sphere.x + sphere.d <= Width /\ sphere.y + sphere.d <= Height
      /\ Width \in Nat /\ Height \in Nat /\ Tile \in Nat \ {0}
      /\ Tile <= Width /\ Tile <= Height /\ TilesAcross \in Nat /\ TilesDown \in Nat
  BY SearchAssumption, RoiSizeBounds, Tiles DEF Fits
<1>5. Tile * column \in Nat /\ Tile * row \in Nat
  BY <1>1, <1>4
<1>6. /\ roi'.x <= sphere.x /\ sphere.x + sphere.d <= roi'.x + Tile
      /\ roi'.y <= sphere.y /\ sphere.y + sphere.d <= roi'.y + Tile
  <2>1. roi'.x <= sphere.x /\ sphere.x + sphere.d <= roi'.x + Tile
    <3>1. PICK left \in Nat : left = Tile * column
      BY <1>5
    <3> QED
      BY <1>1, <1>3, <1>4, <3>1 DEF Lesser, Greater
  <2>2. roi'.y <= sphere.y /\ sphere.y + sphere.d <= roi'.y + Tile
    <3>1. PICK top \in Nat : top = Tile * row
      BY <1>5
    <3> QED
      BY <1>1, <1>3, <1>4, <3>1 DEF Lesser, Greater
  <2> QED
    BY <2>1, <2>2
<1>7. sphere' = sphere /\ pc' = "idle" /\ is_tracked' = FALSE
  BY DEF NextTile, End, image
<1> QED
  BY <1>3, <1>6, <1>7, SearchAssumption DEF Locked, InView, Large

\* Of an odd number of tiles every one is looked at, one round or two later.
LEMMA TurnsStep ==
  ASSUME TypeOK, NEW tile \in 0 .. (TilesCount - 1)
  PROVE  /\ Turns(tile) \in 0 .. (TilesCount - 1)
         /\ NextTile /\ tile # search_tile => Turns(tile)' = Turns(tile) - 1
<1> DEFINE n == TilesCount
<1>1. n \in Nat \ {0} /\ n % 2 = 1
  <2>1. TilesAcross * TilesDown \in Nat
    BY Tiles
  <2> QED
    BY <2>1, Tiles DEF TilesCount
<1>2. search_tile \in 0 .. (n - 1)
  BY DEF TypeOK
<1> HIDE DEF n
<1>3. Ahead(tile) \in 0 .. (n - 1) /\ (Ahead(tile) = 0 <=> tile = search_tile)
  BY <1>1, <1>2 DEF Ahead, n
<1>4. Turns(tile) \in 0 .. (n - 1)
  BY <1>1, <1>3 DEF Turns, n
<1>5. ASSUME NextTile, tile # search_tile PROVE Turns(tile)' = Turns(tile) - 1
  <2>1. search_tile' = (search_tile + 2) % n
    BY <1>5 DEF NextTile, n
  <2>2. search_tile' = IF search_tile + 2 < n THEN search_tile + 2
                                              ELSE search_tile + 2 - n
    <3>1. n >= 2
      BY <1>1, <1>2, <1>5 DEF n
    <3> QED
      BY <1>1, <1>2, <2>1, <3>1
  <2>3. Ahead(tile)' = IF Ahead(tile) >= 2 THEN Ahead(tile) - 2 ELSE n - 1
    BY <1>1, <1>2, <1>3, <1>5, <2>2 DEF Ahead, n
  <2> QED
    BY <1>1, <1>3, <1>5, <2>3 DEF Turns, n
<1> QED
  BY <1>4, <1>5 DEF n

\* The search comes to every tile: however far it is, each update that finds
\* nothing brings it nearer, all of the odd number of tiles are passed, and
\* the tile in which a sphere lies shows it (SphereIsKept says what follows).
THEOREM SearchComesRound == Spec => []TurnsBounded /\ [][TurnsShrink]_vars
<1>1. SearchInv => TurnsBounded
  BY TileNumber, TurnsStep DEF SearchInv, TurnsBounded
<1>2. SearchInv /\ [Next]_vars => [TurnsShrink]_vars
  <2> SUFFICES ASSUME TypeOK, RoiInv, Next PROVE TurnsShrink
    BY DEF SearchInv
  <2>1. ~NextTile => search_tile' = search_tile
    BY DEF Next, Step, Move, FixRoiSize, Update, SeeJunk, Recenter, Found, Enlarge
  <2>2. NextTile => Fits
    BY DEF NextTile, RoiInv
  <2> QED
    BY <2>1, <2>2, TileNumber, TurnsStep, TileLocks DEF TurnsShrink
<1> QED
  BY <1>1, <1>2, InitSearch, StepSearch, PTL DEF Spec
=============================================================================
