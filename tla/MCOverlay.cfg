CONSTANTS
    Width = 16
    Height = 16
    Scale = 2
    MaxBox = 2
    CornerLen = 2
    Thickness = 1
    Found <- Boxes
    Short = Short
SPECIFICATION Spec
INVARIANTS BoxesOfOneInference DirtyMergedAndSorted NoStaleRow OnlyDrawnRows DrawnAreCorners
