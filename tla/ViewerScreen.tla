---------------------------- MODULE ViewerScreen ----------------------------
\* What the viewers do alike with monitors and bitmaps: the place of a monitor in the
\* row (repositionMonitors) and the bitmaps of a frame, the later over the earlier.
EXTENDS Naturals

\* Monitor m of a row of widths w stands right of the m - 1 before it.
LeftOf(w, m) ==
    LET sum[i \in 0 .. m - 1] == IF i = 0 THEN 0 ELSE sum[i - 1] + w[i]
    IN  sum[m - 1]

\* What a frame shows after one more bitmap.
Over(image, frame) ==
    [p \in DOMAIN image \cup DOMAIN frame |-> IF p \in DOMAIN image THEN image[p] ELSE frame[p]]
=============================================================================
