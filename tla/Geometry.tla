------------------------------ MODULE Geometry ------------------------------
(***************************************************************************)
(* Boxes on a page (app/domain/value_objects.py), in whole pixels.  To      *)
(* stay with integers, points are given in half pixels, distances are       *)
(* squared, and a ratio is compared by cross-multiplication.               *)
(***************************************************************************)
EXTENDS Integers

BBox == [x : Nat, y : Nat, width : Nat \ {0}, height : Nat \ {0}]

Point == [x : Int, y : Int]

Area(b) == b.width * b.height

Centroid(b) == [x |-> 2 * b.x + b.width, y |-> 2 * b.y + b.height]

\* The length two intervals have in common.
Common(lo, hi, lo2, hi2) ==
  LET first == IF lo < lo2 THEN lo2 ELSE lo
      last == IF hi < hi2 THEN hi ELSE hi2
  IN  IF first < last THEN last - first ELSE 0

Intersection(a, b) ==
  Common(a.x, a.x + a.width, b.x, b.x + b.width)
    * Common(a.y, a.y + a.height, b.y, b.y + b.height)

\* iou(a, b) is below percent / 100.
IouBelow(a, b, percent) ==
  100 * Intersection(a, b) < percent * (Area(a) + Area(b) - Intersection(a, b))

\* The square of the distance, in half pixels, from a box's centroid to a point.
DistanceTo(b, point) ==
  LET dx == Centroid(b).x - point.x
      dy == Centroid(b).y - point.y
  IN  dx * dx + dy * dy
=============================================================================
