----------------------------- MODULE Inference ------------------------------
(***************************************************************************)
(* The detector (include/yolov8.hpp) and those who call it, ProcessTask and*)
(* RunBatchInference (src/udp_service.cpp), one picture after the other: a *)
(* picture is decoded, put on a square canvas, given to the engine, and the*)
(* boxes the engine leaves are taken back to the picture.  What is done to *)
(* widths is done to heights.  Floats are exact fractions here, but where  *)
(* one is half way between two numbers it may be rounded to either.        *)
(***************************************************************************)
EXTENDS Integers

CONSTANTS
  Side,      \* side of the canvas; 640 in the code
  Lengths,   \* bound: widths and heights of pictures, in pixels
  Marks,     \* bound: where the edges of an object can be in a picture
  Noise,     \* boxes the engine may find in memory that holds no picture
  Scales,    \* img_physical of an input, a fraction
  HalfInt    \* an int is in -HalfInt .. HalfInt - 1; 2^31 in the code

Axes == {"x", "y"}

(* Along an axis an edge is a fraction of the pixels of the canvas.        *)
Spans == [lo : Int, hi : Int, den : Nat \ {0}]

ASSUME InferenceAssumption ==
  /\ Side \in Nat \ {0}
  /\ Lengths \subseteq Nat \ {0}
  /\ Marks \subseteq Nat
  /\ Noise \subseteq [Axes -> Spans]
  /\ \A box \in Noise, a \in Axes : box[a].lo <= box[a].hi
  /\ \A s \in Scales : s[1] \in Int /\ s[2] \in Nat \ {0}
  /\ HalfInt \in Nat \ {0}

VARIABLE
  net   \* the program's mode and place, the picture and what is in it, its
        \* size on the canvas, the engine's output buffers, what is reported of it

Blank == [a \in Axes |-> 0]   \* the size of a picture that was not read

Sizes == [Axes -> Lengths]

(* What is in a picture: at most one object is enough.                     *)
Boxes(size) ==
  {box \in [Axes -> [lo : Marks, hi : Marks]] :
     \A a \in Axes : box[a].lo <= box[a].hi /\ box[a].hi <= size[a]}

Sights(size) == {{}} \cup {{box} : box \in Boxes(size)}

(* What the engine may find where nobody has put a picture.                *)
Guesses == {{}} \cup {{box} : box \in Noise}

(* make_pipe has warmed the engine up with memory that nobody has set.     *)
InfInit ==
  net \in [mode : {"worker", "batch"}, at : {"wait"}, size : {Blank}, sight : {{}},
           scaled : {Blank}, outputs : Guesses,
           own : {FALSE}, doomed : {FALSE}, said : {"nothing"}, defects : {{}}]

-----------------------------------------------------------------------------
(* copy_from_Mat.                                                          *)

Longest(size) == IF size["x"] >= size["y"] THEN size["x"] ELSE size["y"]

Shortest(size) == IF size["x"] >= size["y"] THEN size["y"] ELSE size["x"]

(* Variant: a fraction counts as one more.                                 *)
RoundedUp(n, d) == {k \in 0 .. Side : (k - 1) * d < n /\ n <= k * d}

(* The numbers n / d may be rounded to.                                    *)
Nearest(n, d) == {k \in 0 .. Side : 2 * n - d <= 2 * (k * d) /\ 2 * (k * d) <= 2 * n + d}

ScaledSizes(size) ==
  {s \in [Axes -> 0 .. Side] : \A a \in Axes : s[a] \in Nearest(size[a] * Side, Longest(size))}

Slack(s) == Side - s

(* Variant: the half that is left over is given to neither end.            *)
HalfSlack(s) == Slack(s) \div 2

(* Borders: half of the slack, less and more a tenth, rounded.             *)
Before(s) == (5 * Slack(s) - 1 + 5) \div 10

After(s) == (5 * Slack(s) + 1 + 5) \div 10

(* A picture in colour has three channels; the empty Mat of one that was   *)
(* not read is of type CV_8UC1.                                            *)
Channels(size) == IF size = Blank THEN 1 ELSE 3

(* The numbers blobFromImage makes of the canvas.                          *)
BlobSize(size, scaled) ==
  LET side == [a \in Axes |-> Before(scaled[a]) + scaled[a] + After(scaled[a])]
  IN  Channels(size) * (side["x"] * side["y"])

(* The numbers copied out of them: in_size.                                *)
Copied == 3 * (Side * Side)

(* What the engine finds when it works: the objects, where they are on the *)
(* canvas.                                                                 *)
OnCanvas(sight, size, scaled) ==
  {[a \in Axes |-> [lo  |-> Before(scaled[a]) * size[a] + box[a].lo * scaled[a],
                    hi  |-> Before(scaled[a]) * size[a] + box[a].hi * scaled[a],
                    den |-> size[a]]] : box \in sight}

-----------------------------------------------------------------------------
(* postprocess and BuildDefects.                                           *)

(* Variant: what lies after the picture is not cut off.                    *)
RoundedFrom(n, d, length) == IF n <= 0 THEN 0 ELSE (2 * n + d) \div (2 * d)

(* n / d clamped to 0 .. length and rounded.                               *)
RoundedIn(n, d, length) ==
  IF n <= 0 THEN 0 ELSE IF n >= length * d THEN length ELSE (2 * n + d) \div (2 * d)

(* Variant: the border is not taken off.                                   *)
EdgeOnCanvas(edge, den, size, scaled, a) ==
  RoundedIn(edge * Longest(size), den * Side, size[a])

(* An edge edge / den on the canvas: less the half slack, which need not   *)
(* be the border, by the ratio of picture and canvas.                      *)
EdgeBack(edge, den, size, scaled, a) ==
  RoundedIn((2 * edge - Slack(scaled[a]) * den) * Longest(size), 2 * (den * Side), size[a])

Defect(box, size, scaled) ==
  [a \in Axes |-> [min |-> EdgeBack(box[a].lo, box[a].den, size, scaled, a),
                   max |-> EdgeBack(box[a].hi, box[a].den, size, scaled, a)]]

(* A long that is cast to an int.                                          *)
ToInt(n) == ((n + HalfInt) % (2 * HalfInt)) - HalfInt

(* lround: a half is rounded away from zero.                               *)
Lround(n, d) == IF n >= 0 THEN (2 * n + d) \div (2 * d) ELSE -((2 * (-n) + d) \div (2 * d))

(* Variant: a scale of zero or less is a scale as well.                    *)
AlwaysScaled(coordinate, scale) == ToInt(Lround(coordinate * scale[1], scale[2]))

ComputePhysicalCoordinate(coordinate, scale) ==
  IF scale[1] <= 0 THEN coordinate ELSE ToInt(Lround(coordinate * scale[1], scale[2]))

-----------------------------------------------------------------------------
(* DecodeImage, or imread or the next picture of a video.                  *)
Decode(size, sight) ==
  /\ net.at = "wait"
  /\ net' = [net EXCEPT !.at = "decoded", !.size = size, !.sight = sight,
                        !.said = "nothing", !.defects = {}]

(* Neither the file nor the text in base64 is a picture.                   *)
RefusePicture ==
  /\ net.at = "wait" /\ net.mode = "worker"
  /\ net' = [net EXCEPT !.size = Blank, !.sight = {}, !.said = "error", !.defects = {}]

(* A batch takes what imread gives for a picture.                          *)
DecodeNothing == net.mode = "batch" /\ Decode(Blank, {})

Load(scaled) == net' = [net EXCEPT !.at = "loaded", !.scaled = scaled]

(* resize throws when a side becomes zero, and nobody catches that.        *)
CopyFromMat ==
  /\ net.at = "decoded" /\ ~net.doomed /\ net.size # Blank
  /\ \E scaled \in ScaledSizes(net.size) :
       IF \E a \in Axes : scaled[a] = 0
       THEN net' = [net EXCEPT !.at = "thrown", !.scaled = scaled]
       ELSE Load(scaled)

(* No number at all is cast to an int: either the sides differ from zero   *)
(* and resize throws, or they do not and the canvas is all border.  Then   *)
(* more is copied than there is: the program ends or takes what comes next.*)
CopyNothing ==
  /\ net.at = "decoded" /\ ~net.doomed /\ net.size = Blank
  /\ \E at \in {"thrown", "exited", "loaded"} : net' = [net EXCEPT !.at = at, !.scaled = Blank]

(* infer: enqueueV3 and the copy of the outputs.                           *)
Infer ==
  /\ net.at = "loaded" /\ net.size # Blank
  /\ net' = [net EXCEPT !.at = "ran", !.own = TRUE,
                        !.outputs = OnCanvas(net.sight, net.size, net.scaled)]

(* The engine works on what is not all a picture.                          *)
InferUnset ==
  /\ net.at = "loaded" /\ net.size = Blank
  /\ \E found \in Guesses : net' = [net EXCEPT !.at = "ran", !.own = FALSE, !.outputs = found]

(* What enqueueV3 returns is not looked at, nor what waiting for the stream*)
(* returns: the outputs are those of before.  An error in the stream stays *)
(* and ends the program at the next call that is looked at.                *)
InferInVain ==
  /\ net.at = "loaded"
  /\ \E error \in BOOLEAN : net' = [net EXCEPT !.at = "ran", !.own = FALSE, !.doomed = error]

(* A call that is looked at fails.                                         *)
CheckFails ==
  /\ net.at \in {"decoded", "loaded"}
  /\ net' = [net EXCEPT !.at = "exited"]

(* postprocess, and the defects of the result file or the boxes drawn.     *)
Postprocess ==
  /\ net.at = "ran"
  /\ net' = [net EXCEPT !.at = "wait", !.said = "defects",
                        !.defects = {Defect(box, net.size, net.scaled) : box \in net.outputs}]

(* The list or the video of a batch is at its end.                         *)
EndBatch ==
  /\ net.at = "wait" /\ net.mode = "batch"
  /\ net' = [net EXCEPT !.at = "exited"]

InfNext ==
  \/ \E size \in Sizes : \E sight \in Sights(size) : Decode(size, sight)
  \/ RefusePicture \/ DecodeNothing
  \/ CopyFromMat \/ CopyNothing
  \/ Infer \/ InferUnset \/ InferInVain \/ CheckFails
  \/ Postprocess \/ EndBatch

InfSpec == InfInit /\ [][InfNext]_net

-----------------------------------------------------------------------------
(* The blob of a picture that was read has as many numbers as are copied   *)
(* out of it, though scaled side and borders are rounded on their own.     *)
(* That of a picture that was not read has a third of them.                *)
CanvasFilled ==
  net.at \in {"loaded", "ran"} /\ net.size # Blank => BlobSize(net.size, net.scaled) = Copied

(* A picture that is longer than two canvases for every pixel of its width *)
(* ends the program, and no other picture that was read does.              *)
ShapeServed ==
  net.size # Blank =>
    /\ net.at = "thrown" => Longest(net.size) >= 2 * Side * Shortest(net.size)
    /\ net.at \in {"loaded", "ran"} => Longest(net.size) <= 2 * Side * Shortest(net.size)

(* Within a pixel of the canvas, and half a pixel for the rounding.        *)
Close(found, true, size) ==
  LET off == IF found >= true THEN found - true ELSE true - found
  IN  2 * Side * off <= 2 * Longest(size) + Side

(* When the engine has worked for a picture, the defects reported are those*)
(* in this picture and they are where they are in it, whatever the engine  *)
(* has left undone before.                                                 *)
OwnDefects ==
  net.at = "wait" /\ net.said = "defects" /\ net.own =>
    /\ \A box \in net.sight : \E d \in net.defects :
         \A a \in Axes : Close(d[a].min, box[a].lo, net.size) /\ Close(d[a].max, box[a].hi, net.size)
    /\ net.sight = {} => net.defects = {}

(* The edges of every defect are in order and in the picture it is reported*)
(* of, even when it was found in another picture or in none.               *)
InsidePicture ==
  net.at = "wait" =>
    \A d \in net.defects, a \in Axes :
      0 <= d[a].min /\ d[a].min <= d[a].max /\ d[a].max <= net.size[a]

(* The physical coordinates of a defect are in order as well, as long as   *)
(* the larger is an int before it is cast to one.                          *)
PhysicalOrdered ==
  net.at = "wait" =>
    \A d \in net.defects, s \in Scales :
      Lround(d["y"].max * s[1], s[2]) < HalfInt =>
        ComputePhysicalCoordinate(d["y"].min, s) <= ComputePhysicalCoordinate(d["y"].max, s)

=============================================================================
