------------------------------ MODULE Overlay -------------------------------
(***************************************************************************)
(* From detections to marks in the encoded picture: detect_task stores the *)
(* boxes of an inference (store_results() in task_detect.cpp), and         *)
(* video_enc copies them, draws corner marks into the frame it holds       *)
(* (osd.c), writes the touched rows back from the cache                    *)
(* (hal_vcap_publish_rows()) and lets the encoder read the frame by DMA.   *)
(*                                                                         *)
(* Pixels are luma samples <<x, y>>; the chroma byte of a pair goes with   *)
(* its luma.  The encoder sees a mark only in a row that was published.    *)
(***************************************************************************)
EXTENDS Integers, Sequences, FiniteSets, SequencesExt

CONSTANTS
    Width, Height,     \* CAM_WIDTH, CAM_HEIGHT
    Scale,             \* OSD_SCALE_X and OSD_SCALE_Y
    MaxBox,            \* DET_MAX_BOX
    CornerLen,         \* OSD_CORNER_LEN
    Thickness,         \* OSD_THICKNESS
    Found,             \* the boxes an inference can find, in detector pixels
    Short              \* a result with fewer than four coordinates

ASSUME FrameAssumption == {Width, Height, Scale, MaxBox, CornerLen, Thickness} \subseteq Nat \ {0}
ASSUME FoundAssumption == Found \subseteq [x1 : Int, y1 : Int, x2 : Int, y2 : Int]
ASSUME ShortAssumption == Short \notin Found

OSD_MAX_DIRTY_RANGES == 2 * MaxBox

VARIABLES
    box_mutex,         \* s_box_mutex: "none", "free" or its holder
    s_boxes,           \* the array, as far as it has been written
    s_box_count,
    results,           \* detect_task: the results not yet stored
    stored,            \* detect_task: `n` in store_results()
    encPc,             \* video_enc: where it is in overlay_boxes()
    boxes,             \* its copy
    drawnBoxes,        \* how many of them are drawn
    dirty,             \* osd_dirty_t: a sequence of row ranges
    drawn,             \* pixels of this frame the OSD wrote
    published,         \* rows of this frame written back from the cache
    unpublished,       \* history: rows of this frame whose write-back failed
    latest             \* history: what the last whole store_results() stored

store == <<box_mutex, s_boxes, s_box_count>>
detect == <<results, stored, latest>>
frame == <<drawnBoxes, dirty, drawn, published, unpublished>>
vars == <<store, detect, encPc, boxes, frame>>

Lesser(a, b) == IF a < b THEN a ELSE b
Greater(a, b) == IF a > b THEN a ELSE b

-----------------------------------------------------------------------------
(* osd.c: what is drawn                                                    *)

\* Mutant: no trailing pixel.
HRun_NoTrailing(y, x1, x2) ==
    LET start == x1 + (x1 % 2)
        groups == {x \in start .. x2 - 1 : (x - start) % 2 = 0} IN
    ({x1} \cup groups \cup {x + 1 : x \in groups}) \X {y}

\* draw_hrun(): an odd leading pixel, whole pairs, an even trailing pixel.
HRun(y, x1, x2) ==
    LET start == x1 + (x1 % 2)
        groups == {x \in start .. x2 - 1 : (x - start) % 2 = 0}
        stop == start + 2 * Cardinality(groups)
        leading == IF x1 # start THEN {x1} ELSE {}
        trailing == IF stop = x2 THEN {x2} ELSE {} IN
    (leading \cup groups \cup {x + 1 : x \in groups} \cup trailing) \X {y}

VRun(x, y1, y2) == {x} \X (y1 .. y2)

\* A box in frame pixels, its corners in order and clipped to the frame.
Clipped(b) ==
    [x1 |-> Greater(0, Scale * Lesser(b.x1, b.x2)),
     y1 |-> Greater(0, Scale * Lesser(b.y1, b.y2)),
     x2 |-> Lesser(Width - 1, Scale * Greater(b.x1, b.x2)),
     y2 |-> Lesser(Height - 1, Scale * Greater(b.y1, b.y2))]

Arm(c) == Lesser(CornerLen, Lesser((c.x2 - c.x1) \div 2, (c.y2 - c.y1) \div 2))
Thick(c) == Lesser(Thickness, Arm(c))

\* draw_corners() returns early for a box off the frame or without room for an arm.
Visible(c) == c.x1 <= c.x2 /\ c.y1 <= c.y2 /\ Arm(c) >= 1

Corners(c) ==
    LET arm == Arm(c) IN
    UNION {
        LET top == c.y1 + t  bot == c.y2 - t  lft == c.x1 + t  rgt == c.x2 - t IN
        UNION {HRun(top, c.x1, c.x1 + arm), HRun(top, c.x2 - arm, c.x2),
               HRun(bot, c.x1, c.x1 + arm), HRun(bot, c.x2 - arm, c.x2),
               VRun(lft, c.y1, c.y1 + arm), VRun(lft, c.y2 - arm, c.y2),
               VRun(rgt, c.y1, c.y1 + arm), VRun(rgt, c.y2 - arm, c.y2)}
        : t \in 0 .. Thick(c) - 1}

-----------------------------------------------------------------------------
(* osd.c: which rows are dirty                                             *)

\* The ranges that end before the new one begins, with a row between.
Before(d, first) == Cardinality({k \in DOMAIN d : \A m \in 1 .. k : d[m].last + 1 < first})

\* Where the new range ends when it has taken in the n ranges behind the first i.
Reach(d, i, n, last) == Max({last} \cup {d[i + k].last : k \in 1 .. n})

\* How many it takes in: each that it overlaps or abuts by then, up to the first it does not.
Absorbed(d, i, last) ==
    Cardinality({n \in 1 .. Len(d) - i :
                    \A k \in 1 .. n : d[i + k].first <= Reach(d, i, k - 1, last) + 1})

Rows(first, last) == [first |-> first, last |-> last]

\* Mutant: a range is inserted and never merged.
DirtyAdd_NoMerge(d, first, last) ==
    InsertAt(d, Before(d, first) + 1, Rows(first, last))

\* dirty_add()
DirtyAdd(d, first, last) ==
    LET i == Before(d, first)
        n == Absorbed(d, i, last)
        top == Min({first} \cup {d[i + k].first : k \in 1 .. n})
        end == d[Len(d)] IN
    IF n = 0 /\ Len(d) >= OSD_MAX_DIRTY_RANGES
    THEN [d EXCEPT ![Len(d)] = Rows(Lesser(first, end.first), Greater(last, end.last))]
    ELSE SubSeq(d, 1, i) \o <<Rows(top, Reach(d, i, n, last))>> \o SubSeq(d, i + n + 1, Len(d))

\* Mutant: the bands are one row short of the arms.
AddBands_Short(d, c) ==
    DirtyAdd(DirtyAdd(d, c.y1, c.y1 + Arm(c) - 1), c.y2 - Arm(c) + 1, c.y2)

\* Mutant: the whole height of the box, as for a closed rectangle.
AddBands_WholeBox(d, c) == DirtyAdd(d, c.y1, c.y2)

\* Two bands per box, at its top and at its bottom.
AddBands(d, c) ==
    DirtyAdd(DirtyAdd(d, c.y1, c.y1 + Arm(c)), c.y2 - Arm(c), c.y2)

-----------------------------------------------------------------------------
\* ped_start() may have failed before the mutex: then no task stores anything.
Init ==
    /\ box_mutex \in {"none", "free"}
    /\ s_boxes = <<>> /\ s_box_count = 0
    /\ results = <<>> /\ stored = 0 /\ latest = <<>>
    /\ encPc = "receive" /\ boxes = <<>>
    /\ drawnBoxes = 0 /\ dirty = <<>> /\ drawn = {} /\ published = {} /\ unpublished = {}

-----------------------------------------------------------------------------
(* detect_task: store_results(), a result at a time                        *)

\* An inference finds up to one result more than there is room for.
DetTake ==
    /\ box_mutex = "free"
    /\ box_mutex' = "detect"
    /\ results' \in UNION {[1 .. n -> Found \cup {Short}] : n \in 0 .. MaxBox + 1}
    /\ UNCHANGED <<s_boxes, s_box_count, stored, latest, encPc, boxes, frame>>

DetStoreBox ==
    /\ box_mutex = "detect"
    /\ results # <<>> /\ stored < MaxBox
    /\ IF Head(results) = Short
       THEN UNCHANGED <<s_boxes, stored>>
       ELSE /\ stored' = stored + 1
            /\ s_boxes' = IF stored < Len(s_boxes)
                          THEN [s_boxes EXCEPT ![stored + 1] = Head(results)]
                          ELSE Append(s_boxes, Head(results))
    /\ results' = Tail(results)
    /\ UNCHANGED <<box_mutex, s_box_count, latest, encPc, boxes, frame>>

DetGive ==
    /\ box_mutex = "detect"
    /\ results = <<>> \/ stored = MaxBox
    /\ s_box_count' = stored
    /\ latest' = SubSeq(s_boxes, 1, stored)
    /\ box_mutex' = "free"
    /\ results' = <<>> /\ stored' = 0
    /\ UNCHANGED <<s_boxes, encPc, boxes, frame>>

-----------------------------------------------------------------------------
(* video_enc: overlay_boxes() on the frame it holds                        *)

\* Mutant: ped_get_boxes() without the mutex.
EncTakeBoxes_NoLock ==
    /\ encPc = "receive"
    /\ boxes' = <<>>
    /\ encPc' = "copy"
    /\ UNCHANGED <<store, detect, frame>>

\* ped_get_boxes() takes the mutex; without one there are no boxes.
EncTakeBoxes ==
    /\ encPc = "receive"
    /\ boxes' = <<>>
    /\ \/ box_mutex = "none" /\ encPc' = "draw" /\ UNCHANGED box_mutex
       \/ box_mutex = "free" /\ encPc' = "copy" /\ box_mutex' = "encode"
    /\ UNCHANGED <<s_boxes, s_box_count, detect, frame>>

\* memcpy()
EncCopyBox ==
    /\ encPc = "copy" /\ Len(boxes) < s_box_count
    /\ boxes' = Append(boxes, s_boxes[Len(boxes) + 1])
    /\ UNCHANGED <<store, detect, encPc, frame>>

EncGiveBoxes ==
    /\ encPc = "copy" /\ Len(boxes) >= s_box_count
    /\ box_mutex' = IF box_mutex = "encode" THEN "free" ELSE box_mutex
    /\ encPc' = "draw"
    /\ UNCHANGED <<s_boxes, s_box_count, detect, boxes, frame>>

\* draw_corners() for the next box.
EncDraw ==
    /\ encPc = "draw" /\ drawnBoxes < Len(boxes)
    /\ LET c == Clipped(boxes[drawnBoxes + 1]) IN
       IF Visible(c)
       THEN drawn' = drawn \cup Corners(c) /\ dirty' = AddBands(dirty, c)
       ELSE UNCHANGED <<drawn, dirty>>
    /\ drawnBoxes' = drawnBoxes + 1
    /\ UNCHANGED <<store, detect, encPc, boxes, published, unpublished>>

\* The rows of a set of ranges, clipped to the frame.
FrameRows(ranges) == UNION {Greater(0, r.first) .. Lesser(Height - 1, r.last) : r \in ranges}

\* hal_vcap_publish_rows() for every dirty range; whether it fails is not looked at.
EncPublish ==
    /\ encPc = "draw" /\ drawnBoxes = Len(boxes)
    /\ \E failed \in SUBSET ToSet(dirty) :
          /\ published' = FrameRows(ToSet(dirty) \ failed)
          /\ unpublished' = FrameRows(failed)
    /\ encPc' = "encode"
    /\ UNCHANGED <<store, detect, boxes, drawnBoxes, dirty, drawn>>

\* The encoder reads the frame; the next one is a fresh picture.
EncNextFrame ==
    /\ encPc = "encode"
    /\ encPc' = "receive"
    /\ boxes' = <<>>
    /\ drawnBoxes' = 0 /\ dirty' = <<>> /\ drawn' = {} /\ published' = {} /\ unpublished' = {}
    /\ UNCHANGED <<store, detect>>

-----------------------------------------------------------------------------
Detect == DetTake \/ DetStoreBox \/ DetGive
Encode == EncTakeBoxes \/ EncCopyBox \/ EncGiveBoxes \/ EncDraw \/ EncPublish \/ EncNextFrame
Next == Detect \/ Encode

Spec == Init /\ [][Next]_vars

-----------------------------------------------------------------------------
(* Properties                                                              *)

Pixels == (0 .. Width - 1) \X (0 .. Height - 1)

\* The variables stay in their types; nothing is drawn or published off the frame.
TypeOK ==
    /\ box_mutex \in {"none", "free", "detect", "encode"}
    /\ s_boxes \in Seq(Found) /\ boxes \in Seq(Found) /\ latest \in Seq(Found)
    /\ Len(s_boxes) <= MaxBox /\ s_box_count \in 0 .. Len(s_boxes)
    /\ results \in Seq(Found \cup {Short}) /\ stored \in 0 .. MaxBox
    /\ encPc \in {"receive", "copy", "draw", "encode"}
    /\ drawnBoxes \in 0 .. Len(boxes)
    /\ dirty \in Seq([first : 0 .. Height - 1, last : 0 .. Height - 1])
    /\ drawn \subseteq Pixels
    /\ published \subseteq 0 .. Height - 1 /\ unpublished \subseteq 0 .. Height - 1

\* get_boxes() copies "the most recent boxes" (detector.h:65): all of one inference, none
\* of the next, however the copy and the store interleave.
BoxesOfOneInference ==
    encPc = "copy" /\ Len(boxes) >= s_box_count => boxes = latest

\* The list stays sorted with a clean row between ranges (osd.c:49), so no row is
\* written back twice, and it never outgrows the array.
DirtyMergedAndSorted ==
    /\ Len(dirty) <= OSD_MAX_DIRTY_RANGES
    /\ \A k \in DOMAIN dirty : dirty[k].first <= dirty[k].last
    /\ \A k \in 1 .. Len(dirty) - 1 : dirty[k].last + 1 < dirty[k + 1].first

DrawnRows == {p[2] : p \in drawn}

\* What the encoder reads shows no stale box edge (osd.c:77): every row the OSD wrote has
\* been published, whatever boxes overlap, abut or fill the list, unless the write-back of
\* its own range failed (task_video.cpp:158 goes on then).
NoStaleRow == encPc = "encode" => DrawnRows \subseteq published \cup unpublished

\* Only the rows the OSD actually wrote are written back (task_video.cpp:148).
OnlyDrawnRows == encPc = "encode" => published \subseteq DrawnRows

\* The corner marks of a box: within the stroke of an edge and within an arm of a corner.
CornerMarks(c) ==
    {p \in (c.x1 .. c.x2) \X (c.y1 .. c.y2) :
        LET dx == Lesser(p[1] - c.x1, c.x2 - p[1])
            dy == Lesser(p[2] - c.y1, c.y2 - p[2]) IN
        /\ dx <= Arm(c) /\ dy <= Arm(c)
        /\ dx < Thick(c) \/ dy < Thick(c)}

\* The runs of draw_corners() add up to the corner marks of the drawn boxes, pixel by
\* pixel, for corners in either order, at odd and even places and over the frame's edge.
DrawnAreCorners ==
    drawn = UNION {CornerMarks(c) : c \in {Clipped(boxes[k]) : k \in 1 .. drawnBoxes}}
=============================================================================
