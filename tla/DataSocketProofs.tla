--------------------------- MODULE DataSocketProofs ---------------------------
(* Theorems about DataSocket, for every size of the ring, of the buffers and *)
(* of a screen, and any number of chunks and resizes.                        *)
EXTENDS DataSocket, SequenceTheorems, TLAPS

LEMMA Sizes == /\ RingMax \in Nat /\ MaxTotal \in Nat /\ MaxSize \in Nat
               /\ SnapshotSize \in Nat /\ FrameSize \in Nat /\ LowWater \in Nat
               /\ MaxSendBuffer \in Nat /\ MaxSendBuffer > 0
               /\ HighWater \in Nat /\ HighWater > 0
  BY SizesAssumption

\* What s may be: the ring, the sender, the socket and the terminal.
Fields ==
  {"total", "drawn", "mode", "sentOffset", "sendBuffer", "desynced",
   "immediate", "flushNext", "refused", "stall", "held", "buffered", "shown",
   "grid", "whole", "fits", "resumedBehind", "denied"}
Shaped(t) == t = [f \in Fields |-> t[f]]
Streams(t) ==
  /\ t.total \in Nat /\ t.sentOffset \in Nat /\ t.sendBuffer \in Nat
  /\ t.buffered \in Nat /\ t.shown \in Nat /\ t.grid \in Nat
  /\ t.drawn \in Seq(0..MaxSize) /\ t.mode \in Modes
  /\ t.refused \in Nat \cup {None} /\ t.held \in Nat \cup {None}
  /\ t.desynced \in BOOLEAN /\ t.immediate \in BOOLEAN
  /\ t.flushNext \in BOOLEAN /\ t.stall \in BOOLEAN

\* A resume was denied the screen that it needed.
Denied(t) == t.denied = TRUE

\* What is shown is right, unless so.
Sound(t) == Denied(t) \/ (t.whole = TRUE /\ t.fits = TRUE)

\* A terminal that is right so far, in a session whose grid is z.
Right(t, z) ==
  /\ Shaped(t) /\ Streams(t)
  /\ t.total <= MaxTotal /\ Len(t.drawn) = t.total
  /\ t.sentOffset <= t.total /\ t.shown <= t.total
  /\ t.grid <= z /\ t.refused <= z
  /\ Sound(t)

\* The size of the session is the terminal's, or waits.
Knows(t, z) == t.grid = z \/ t.refused = z

\* The chunks after the offset n were drawn for the grid g or a later one.
DrawnFrom(t, n, g) == \A i \in (n + 1)..t.total : t.drawn[i] >= g

\* What is not sent follows what is shown, and may be played on its grid.
Follows(t) ==
  \/ Denied(t)
  \/ t.shown = t.sentOffset /\ DrawnFrom(t, t.sentOffset, t.grid)

\* A stream that flows: what is not sent is in the buffer, unless the ring is
\* to be replayed.
Flows(t) ==
  /\ t.mode = "streaming" /\ Follows(t)
  /\ ~t.desynced => t.sentOffset + t.sendBuffer = t.total

\* A stream that was paused at the grid r.  Its terminal may learn of a newer
\* grid, but not once its bytes were dropped.
Rests(t, r) ==
  /\ t.mode = "paused" /\ t.sendBuffer = 0
  /\ \/ Denied(t)
     \/ /\ t.shown = t.sentOffset
        /\ t.desynced => DrawnFrom(t, t.sentOffset, t.grid)
        /\ ~t.desynced => DrawnFrom(t, t.sentOffset, r)

\* A stream that was attached hidden, at the grid r: it was sent no output.
Owes(t, r) ==
  /\ t.mode = "paused-snapshot-owed"
  /\ t.sendBuffer = 0 /\ ~t.desynced
  /\ t.held # None => t.held <= t.total /\ DrawnFrom(t, t.held, r)

-----------------------------------------------------------------------------
(* The operations of the sender. *)

\* The chunks, and what is sent of them, are the same in t and u.
Keeps(t, u) ==
  /\ u.total = t.total /\ u.drawn = t.drawn /\ u.mode = t.mode
  /\ u.sentOffset = t.sentOffset /\ u.sendBuffer = t.sendBuffer
  /\ u.desynced = t.desynced /\ u.held = t.held

\* What is right stays so if the chunks do and the numbers stay in bounds.
LEMMA RightFrom ==
  ASSUME NEW z \in Nat, NEW t, Right(t, z), NEW u, Shaped(u),
         u.total = t.total, u.drawn = t.drawn, Sound(u),
         u.mode \in Modes, u.sentOffset \in 0..t.total, u.sendBuffer \in Nat,
         u.shown \in 0..t.total, u.buffered \in Nat, u.grid \in 0..z,
         u.refused \in {None, t.refused}, u.held \in {None, t.held},
         u.desynced \in BOOLEAN, u.immediate \in BOOLEAN,
         u.flushNext \in BOOLEAN, u.stall \in BOOLEAN
  PROVE  Right(u, z)
<1>1. u.refused <= z
  BY DEF Right, None
<1>2. Streams(u)
  <2>1. u.sentOffset \in Nat /\ u.shown \in Nat /\ u.grid \in Nat
    BY DEF Right, Streams
  <2> QED
    BY <2>1, Zenon DEF Right, Streams
<1>3. /\ u.total <= MaxTotal /\ Len(u.drawn) = u.total
      /\ u.sentOffset <= u.total /\ u.shown <= u.total
  BY DEF Right, Streams
<1> QED
  BY <1>1, <1>2, <1>3 DEF Right

\* Chunks that follow what is shown may be played on a grid they were drawn for.
LEMMA PlayRight ==
  ASSUME NEW z \in Nat, NEW t, Right(t, z), NEW from \in Nat, NEW upto \in Nat,
         from <= upto, upto <= t.total,
         Denied(t) \/ (from = t.shown /\ DrawnFrom(t, from, t.grid))
  PROVE  LET u == Play(t, from, upto) IN
         /\ Right(u, z) /\ Keeps(t, u) /\ u.denied = t.denied
         /\ Denied(u) \/ u.shown = upto
         /\ u.grid = t.grid /\ u.refused = t.refused
<1> DEFINE u == [t EXCEPT !.shown = upto, !.buffered = @ + (upto - from),
                   !.whole = @ /\ from = t.shown,
                   !.fits = @ /\ \A i \in (from + 1)..upto : t.drawn[i] >= t.grid,
                   !.resumedBehind = FALSE]
<1>2. Shaped(u)
  BY Zenon DEF Shaped, Right, Fields
<1>4. /\ Keeps(t, u) /\ u.shown = upto /\ u.buffered = t.buffered + (upto - from)
      /\ u.grid = t.grid /\ u.refused = t.refused /\ u.stall = t.stall
      /\ u.immediate = t.immediate /\ u.flushNext = t.flushNext
      /\ u.denied = t.denied
  BY DEF Shaped, Right, Keeps, Fields
<1>3. Sound(u)
  <2>1. CASE Denied(t)
    BY <1>4, <2>1 DEF Sound, Denied
  <2>2. CASE ~(Denied(t))
    <3>1. from = t.shown /\ \A i \in (from + 1)..upto : t.drawn[i] >= t.grid
      BY <2>2 DEF DrawnFrom, Right, Streams
    <3>2. t.whole = TRUE /\ t.fits = TRUE
      BY <2>2 DEF Right, Sound, Denied
    <3>3. u.whole = TRUE /\ u.fits = TRUE
      BY <3>1, <3>2 DEF Shaped, Right, Fields
    <3> QED
      BY <3>3 DEF Sound, Denied
  <2> QED
    BY <2>1, <2>2
<1>5. u.buffered \in Nat
  BY <1>4 DEF Right, Streams
<1> HIDE DEF u
<1>6. Right(u, z)
  <2>1. u.shown \in 0..t.total /\ u.sentOffset \in 0..t.total /\ u.grid \in 0..z
    BY <1>4 DEF Keeps, Right, Streams
  <2> QED
    BY <1>2, <1>3, <1>4, <1>5, <2>1, RightFrom DEF Keeps, Right, Streams
<1>7. CASE from = upto
  <2>1. Play(t, from, upto) = t
    BY <1>7 DEF Play
  <2> QED
    BY <1>7, <2>1 DEF Keeps
<1>8. CASE from # upto
  BY <1>4, <1>6, <1>8 DEF Play, u
<1> QED
  BY <1>7, <1>8

\* A terminal that is drawn anew is right, whatever it showed.
LEMMA RedrawRight ==
  ASSUME NEW z \in Nat, NEW t, Right(t, z), NEW upto \in 0..t.total,
         NEW bytes \in Nat
  PROVE  LET u == Redraw(t, upto, bytes) IN
         /\ Right(u, z) /\ Keeps(t, u) /\ u.shown = upto
         /\ u.grid = t.grid /\ u.refused = t.refused
<1> DEFINE u == Redraw(t, upto, bytes)
<1>2. Shaped(u)
  BY Zenon DEF Shaped, Right, Fields, Redraw
<1>3. Sound(u)
  BY DEF Shaped, Right, Redraw, Fields, Sound, Denied
<1>4. /\ Keeps(t, u) /\ u.shown = upto /\ u.buffered = t.buffered + bytes
      /\ u.grid = t.grid /\ u.refused = t.refused /\ u.stall = t.stall
      /\ u.immediate = t.immediate /\ u.flushNext = t.flushNext
  BY DEF Shaped, Right, Keeps, Redraw, Fields
<1>5. u.buffered \in Nat
  BY <1>4 DEF Right, Streams
<1> HIDE DEF u
<1>6. Right(u, z)
  BY <1>2, <1>3, <1>4, <1>5, RightFrom DEF Keeps, Right, Streams
<1> QED
  BY <1>4, <1>6 DEF u

\* A size is never undone by an older one.
LEMMA SizeFrameRight ==
  ASSUME NEW z \in Nat, NEW t, Right(t, z), NEW n \in 0..z
  PROVE  LET u == SizeFrame(t, n) IN
         /\ Right(u, z) /\ Keeps(t, u) /\ u.shown = t.shown
         /\ u.refused = t.refused /\ u.denied = t.denied
         /\ u.grid >= n /\ u.grid >= t.grid
<1> DEFINE g == IF n <= t.grid THEN t.grid ELSE n
           u == SizeFrame(t, n)
<1>1. g \in 0..z /\ g >= n /\ g >= t.grid
  BY DEF Right, Streams
<1>2. u = [t EXCEPT !.buffered = t.buffered + FrameSize, !.grid = g]
  BY DEF SizeFrame
<1> HIDE DEF g, u
<1>3. Shaped(u)
  BY <1>2, Zenon DEF Shaped, Right, Fields
<1>4. /\ Keeps(t, u) /\ u.shown = t.shown /\ u.buffered = t.buffered + FrameSize
      /\ u.grid = g /\ u.refused = t.refused /\ u.stall = t.stall
      /\ u.immediate = t.immediate /\ u.flushNext = t.flushNext
      /\ u.whole = t.whole /\ u.fits = t.fits /\ u.denied = t.denied
  BY <1>2 DEF Shaped, Right, Keeps, Fields
<1>5. Sound(u)
  BY <1>4, Zenon DEF Right, Sound, Denied
<1>6. u.buffered \in Nat
  BY <1>4, Sizes DEF Right, Streams
<1>7. Right(u, z)
  BY <1>1, <1>3, <1>4, <1>5, <1>6, RightFrom DEF Keeps, Right, Streams
<1> QED
  BY <1>1, <1>4, <1>7 DEF u

\* The size that waits is told only when nothing is ahead of it.
LEMMA FlushRefusedRight ==
  ASSUME NEW z \in Nat, NEW t, Right(t, z)
  PROVE  LET u == FlushRefused(t) IN
         /\ Right(u, z) /\ Keeps(t, u) /\ u.shown = t.shown
         /\ u.denied = t.denied /\ (Knows(t, z) => Knows(u, z))
         /\ t.refused = None \/ t.desynced \/ t.sendBuffer > 0 \/ Over(t) => u = t
<1>1. CASE t.refused = None \/ t.desynced \/ t.sendBuffer > 0 \/ Over(t)
  BY <1>1 DEF FlushRefused, Keeps
<1>2. CASE ~(t.refused = None \/ t.desynced \/ t.sendBuffer > 0 \/ Over(t))
  <2> DEFINE v == [t EXCEPT !.refused = None]
  <2>1. Shaped(v)
    BY Zenon DEF Shaped, Right, Fields
  <2>2. /\ Keeps(t, v) /\ v.shown = t.shown /\ v.buffered = t.buffered
        /\ v.grid = t.grid /\ v.refused = None /\ v.stall = t.stall
        /\ v.immediate = t.immediate /\ v.flushNext = t.flushNext
        /\ v.whole = t.whole /\ v.fits = t.fits /\ v.denied = t.denied
    BY DEF Shaped, Right, Keeps, Fields
  <2> HIDE DEF v
  <2>3. Sound(v)
    BY <2>2, Zenon DEF Right, Sound, Denied
  <2>4. Right(v, z)
    <3>1. v.shown \in 0..t.total /\ v.sentOffset \in 0..t.total /\ v.grid \in 0..z
      BY <2>2 DEF Keeps, Right, Streams
    <3> QED
      BY <2>1, <2>2, <2>3, <3>1, RightFrom DEF Keeps, Right, Streams
  <2>5. t.refused \in 0..z
    BY <1>2 DEF Right, Streams
  <2> DEFINE u == SizeFrame(v, t.refused)
  <2>6. /\ Right(u, z) /\ Keeps(v, u) /\ u.shown = v.shown
        /\ u.denied = v.denied /\ u.grid >= t.refused /\ u.grid >= v.grid
    BY <2>4, <2>5, SizeFrameRight
  <2> HIDE DEF u
  <2>7. Knows(t, z) => Knows(u, z)
    BY <2>2, <2>5, <2>6 DEF Knows, Right, Streams
  <2>8. FlushRefused(t) = u
    BY <1>2 DEF FlushRefused, u, v
  <2> QED
    BY <1>2, <2>2, <2>6, <2>7, <2>8 DEF Keeps
<1> QED
  BY <1>1, <1>2

\* A stream that flows does not stop flowing when a waiting size is told.
LEMMA FlushRefusedFlows ==
  ASSUME NEW z \in Nat, NEW t, Right(t, z), Flows(t)
  PROVE  Flows(FlushRefused(t))
<1> DEFINE u == FlushRefused(t)
<1>1. Keeps(t, u) /\ u.shown = t.shown /\ u.denied = t.denied
  BY FlushRefusedRight
<1>4. t.desynced \/ t.sendBuffer > 0 => u = t
  BY DEF FlushRefused
<1> HIDE DEF u
<1>2. CASE t.desynced \/ t.sendBuffer > 0
  BY <1>2, <1>4 DEF u
<1>3. CASE ~t.desynced /\ ~(t.sendBuffer > 0)
  <2>1. t.sentOffset = t.total
    BY <1>3 DEF Flows, Right, Streams
  <2>2. DrawnFrom(u, u.sentOffset, u.grid)
    BY <1>1, <2>1 DEF DrawnFrom, Keeps, Right, Streams
  <2>3. u.mode = "streaming" /\ Follows(u)
    BY <1>1, <2>2, Zenon DEF Keeps, Flows, Follows, Denied
  <2>4. u.sentOffset + u.sendBuffer = u.total
    BY <1>1, <1>3 DEF Keeps, Flows
  <2> QED
    BY <2>3, <2>4, Zenon DEF Flows, u
<1> QED
  BY <1>2, <1>3 DEF u

\* The terminal of u is right if that of t is; it is a later state of the
\* same output.
Carries(t, u, z) ==
  /\ Right(u, z) /\ (Knows(t, z) => Knows(u, z))
  /\ u.total = t.total /\ u.drawn = t.drawn

\* A stream that was behind has everything after a refill, without a gap.
LEMMA BackfillFlows ==
  ASSUME NEW z \in Nat, NEW t, Right(t, z), Flows(t)
  PROVE  LET u == Backfill(t) IN
         /\ Carries(t, u, z) /\ Flows(u)
         /\ ~t.desynced \/ Over(t) => u = t
         /\ t.desynced /\ ~Over(t) => u.sendBuffer = 0
<1>1. CASE ~t.desynced \/ Over(t)
  BY <1>1 DEF Backfill, Carries
<1>2. CASE t.desynced /\ ~Over(t)
  <2> DEFINE w == IF t.sentOffset < RingBase(t)
                  THEN Redraw(t, t.total, t.total - RingBase(t))
                  ELSE Play(t, t.sentOffset, t.total)
             v == [w EXCEPT !.sentOffset = t.total, !.desynced = FALSE,
                            !.sendBuffer = 0, !.stall = FALSE]
             u == FlushRefused(v)
  <2>1. /\ Right(w, z) /\ Keeps(t, w) /\ (Denied(w) \/ w.shown = t.total)
        /\ w.grid = t.grid /\ w.refused = t.refused
    <3>1. CASE t.sentOffset < RingBase(t)
      <4>1. t.total \in 0..t.total /\ t.total - RingBase(t) \in Nat
        BY Sizes DEF RingBase, Right, Streams
      <4> QED
        BY <3>1, <4>1, RedrawRight
    <3>2. CASE ~(t.sentOffset < RingBase(t))
      <4>1. /\ t.sentOffset \in Nat /\ t.total \in Nat /\ t.sentOffset <= t.total
            /\ Denied(t)
                 \/ (t.sentOffset = t.shown /\ DrawnFrom(t, t.sentOffset, t.grid))
        BY DEF Right, Streams, Flows, Follows, Denied
      <4> QED
        BY <3>2, <4>1, PlayRight
    <3> QED
      BY <3>1, <3>2
  <2> HIDE DEF w
  <2>2. Shaped(v)
    BY <2>1, Zenon DEF Shaped, Right, Fields
  <2>3. /\ v.total = w.total /\ v.drawn = w.drawn /\ v.mode = w.mode
        /\ v.sentOffset = t.total /\ v.sendBuffer = 0 /\ v.desynced = FALSE
        /\ v.stall = FALSE /\ v.immediate = w.immediate
        /\ v.flushNext = w.flushNext /\ v.refused = w.refused /\ v.held = w.held
        /\ v.buffered = w.buffered /\ v.shown = w.shown /\ v.grid = w.grid
        /\ v.whole = w.whole /\ v.fits = w.fits /\ v.denied = w.denied
    BY <2>1 DEF Shaped, Right, Fields
  <2> HIDE DEF v
  <2>4. Sound(v)
    BY <2>1, <2>3, Zenon DEF Right, Sound, Denied
  <2>5. Right(v, z)
    <3>1. /\ v.shown \in 0..w.total /\ v.sentOffset \in 0..w.total
          /\ v.grid \in 0..z /\ v.sendBuffer \in Nat /\ v.buffered \in Nat
      BY <2>1, <2>3 DEF Keeps, Right, Streams
    <3>2. /\ v.mode \in Modes /\ v.desynced \in BOOLEAN /\ v.immediate \in BOOLEAN
          /\ v.flushNext \in BOOLEAN /\ v.stall \in BOOLEAN
      BY <2>1, <2>3, Zenon DEF Right, Streams
    <3> QED
      BY <2>1, <2>2, <2>3, <2>4, <3>1, <3>2, RightFrom
  <2>6. Flows(v)
    <3>1. /\ v.mode = "streaming" /\ v.sentOffset = v.total
          /\ Denied(v) \/ v.shown = v.sentOffset
      BY <2>1, <2>3 DEF Keeps, Flows, Denied
    <3>2. v.sentOffset + v.sendBuffer = v.total
      BY <2>3, <2>5, <3>1 DEF Right, Streams
    <3>3. DrawnFrom(v, v.sentOffset, v.grid)
      BY <2>5, <3>1 DEF DrawnFrom, Right, Streams
    <3> QED
      BY <3>1, <3>2, <3>3 DEF Flows, Follows, Denied
  <2>7. /\ Right(u, z) /\ Keeps(v, u) /\ (Knows(v, z) => Knows(u, z))
    BY <2>5, FlushRefusedRight
  <2>8. Flows(u)
    BY <2>5, <2>6, FlushRefusedFlows
  <2> HIDE DEF u
  <2>9. Carries(t, u, z) /\ u.sendBuffer = 0
    BY <2>1, <2>3, <2>7 DEF Carries, Knows, Keeps
  <2>10. Backfill(t) = u
    BY <1>2 DEF Backfill, u, v, w, Flows
  <2> QED
    BY <1>2, <2>8, <2>9, <2>10
<1> QED
  BY <1>1, <1>2

\* What is in the buffer follows what is shown, or it is dropped and the ring
\* is to be replayed.
LEMMA FlushBufferFlows ==
  ASSUME NEW z \in Nat, NEW t, Right(t, z), Flows(t),
         t.desynced => t.sendBuffer = 0 \/ Over(t)
  PROVE  LET u == FlushBuffer(t) IN
         Carries(t, u, z) /\ Flows(u) /\ u.sendBuffer = 0
<1>1. CASE t.sendBuffer = 0
  BY <1>1 DEF FlushBuffer, Carries
<1>2. CASE t.sendBuffer # 0 /\ Over(t)
  <2> DEFINE u == [t EXCEPT !.sendBuffer = 0, !.desynced = TRUE, !.stall = TRUE]
  <2>1. Shaped(u)
    BY Zenon DEF Shaped, Right, Fields
  <2>2. /\ u.total = t.total /\ u.drawn = t.drawn /\ u.mode = t.mode
        /\ u.sentOffset = t.sentOffset /\ u.sendBuffer = 0 /\ u.desynced = TRUE
        /\ u.stall = TRUE /\ u.immediate = t.immediate
        /\ u.flushNext = t.flushNext /\ u.refused = t.refused /\ u.held = t.held
        /\ u.buffered = t.buffered /\ u.shown = t.shown /\ u.grid = t.grid
        /\ u.whole = t.whole /\ u.fits = t.fits /\ u.denied = t.denied
    BY DEF Shaped, Right, Fields
  <2> HIDE DEF u
  <2>3. Sound(u)
    BY <2>2, Zenon DEF Right, Sound, Denied
  <2>4. Right(u, z)
    <3>1. /\ u.shown \in 0..t.total /\ u.sentOffset \in 0..t.total
          /\ u.grid \in 0..z /\ u.sendBuffer \in Nat /\ u.buffered \in Nat
      BY <2>2 DEF Right, Streams
    <3>2. /\ u.mode \in Modes /\ u.desynced \in BOOLEAN /\ u.immediate \in BOOLEAN
          /\ u.flushNext \in BOOLEAN /\ u.stall \in BOOLEAN
      BY <2>2, Zenon DEF Right, Streams
    <3> QED
      BY <2>1, <2>2, <2>3, <3>1, <3>2, RightFrom
  <2>5. Flows(u)
    BY <2>2 DEF Flows, Follows, DrawnFrom, Denied
  <2>6. FlushBuffer(t) = u
    BY <1>2 DEF FlushBuffer, u
  <2> QED
    BY <2>2, <2>4, <2>5, <2>6 DEF Carries, Knows
<1>3. CASE t.sendBuffer # 0 /\ ~Over(t)
  <2> DEFINE upto == t.sentOffset + t.sendBuffer
             w == [t EXCEPT !.sendBuffer = 0, !.stall = FALSE,
                            !.sentOffset = upto]
             v == Play(w, t.sentOffset, upto)
             u == FlushRefused(v)
  <2>1. Shaped(w)
    BY Zenon DEF Shaped, Right, Fields
  <2>2. /\ w.total = t.total /\ w.drawn = t.drawn /\ w.mode = t.mode
        /\ w.sentOffset = upto /\ w.sendBuffer = 0 /\ w.desynced = t.desynced
        /\ w.stall = FALSE /\ w.immediate = t.immediate
        /\ w.flushNext = t.flushNext /\ w.refused = t.refused /\ w.held = t.held
        /\ w.buffered = t.buffered /\ w.shown = t.shown /\ w.grid = t.grid
        /\ w.whole = t.whole /\ w.fits = t.fits /\ w.denied = t.denied
    BY DEF Shaped, Right, Fields
  <2> HIDE DEF w
  <2>3. ~t.desynced /\ upto = t.total
    BY <1>3 DEF Flows
  <2>4. Sound(w)
    BY <2>2, Zenon DEF Right, Sound, Denied
  <2>5. Right(w, z)
    <3>1. /\ w.shown \in 0..t.total /\ w.sentOffset \in 0..t.total
          /\ w.grid \in 0..z /\ w.sendBuffer \in Nat /\ w.buffered \in Nat
      BY <2>2, <2>3 DEF Right, Streams
    <3>2. /\ w.mode \in Modes /\ w.desynced \in BOOLEAN /\ w.immediate \in BOOLEAN
          /\ w.flushNext \in BOOLEAN /\ w.stall \in BOOLEAN
      BY <2>2, Zenon DEF Right, Streams
    <3> QED
      BY <2>1, <2>2, <2>4, <3>1, <3>2, RightFrom
  <2>6. /\ t.sentOffset \in Nat /\ upto \in Nat /\ t.sentOffset <= upto
        /\ upto <= w.total
    BY <2>2, <2>3 DEF Right, Streams
  <2>7. Denied(w) \/ (t.sentOffset = w.shown /\ DrawnFrom(w, t.sentOffset, w.grid))
    BY <2>2 DEF Flows, Follows, DrawnFrom, Denied
  <2> HIDE DEF upto
  <2>8. /\ Right(v, z) /\ Keeps(w, v) /\ (Denied(v) \/ v.shown = upto)
        /\ v.grid = w.grid /\ v.refused = w.refused
    BY <2>5, <2>6, <2>7, PlayRight
  <2> HIDE DEF v
  <2>9. Flows(v)
    <3>1. /\ v.mode = "streaming" /\ v.sentOffset = v.total
          /\ Denied(v) \/ v.shown = v.sentOffset
      BY <2>2, <2>3, <2>8 DEF Keeps, Flows
    <3>2. v.sentOffset + v.sendBuffer = v.total
      BY <2>2, <2>8, <3>1 DEF Keeps, Right, Streams
    <3>3. DrawnFrom(v, v.sentOffset, v.grid)
      BY <2>8, <3>1 DEF DrawnFrom, Right, Streams
    <3> QED
      BY <3>1, <3>2, <3>3 DEF Flows, Follows, Denied
  <2>10. Right(u, z) /\ Keeps(v, u) /\ (Knows(v, z) => Knows(u, z))
    BY <2>8, FlushRefusedRight
  <2>11. Flows(u)
    BY <2>8, <2>9, FlushRefusedFlows
  <2> HIDE DEF u
  <2>12. Carries(t, u, z) /\ u.sendBuffer = 0
    BY <2>2, <2>8, <2>10 DEF Carries, Knows, Keeps
  <2>13. FlushBuffer(t) = u
    BY <1>3 DEF FlushBuffer, u, v, w, upto
  <2> QED
    BY <2>11, <2>12, <2>13
<1> QED
  BY <1>1, <1>2, <1>3

\* A stream that flows has nothing in its buffer after a flush.
LEMMA FlushSendFlows ==
  ASSUME NEW z \in Nat, NEW t, Right(t, z), Flows(t)
  PROVE  LET u == FlushSend(t) IN
         Carries(t, u, z) /\ Flows(u) /\ u.sendBuffer = 0
<1> DEFINE v == Backfill(t)
           u == FlushBuffer(v)
<1>1. /\ Carries(t, v, z) /\ Flows(v)
      /\ ~t.desynced \/ Over(t) => v = t
      /\ t.desynced /\ ~Over(t) => v.sendBuffer = 0
  BY BackfillFlows
<1> HIDE DEF v
<1>2. v.desynced => v.sendBuffer = 0 \/ Over(v)
  BY <1>1
<1>3. Right(v, z)
  BY <1>1 DEF Carries
<1>4. Carries(v, u, z) /\ Flows(u) /\ u.sendBuffer = 0
  BY <1>1, <1>2, <1>3, FlushBufferFlows
<1> HIDE DEF u
<1>5. Carries(t, u, z)
  BY <1>1, <1>4 DEF Carries
<1> QED
  BY <1>4, <1>5 DEF FlushSend, u, v

\* A stream that does not flow, and has nothing in its buffer, is not flushed.
LEMMA FlushSendRests ==
  ASSUME NEW t, t.mode # "streaming", t.sendBuffer = 0
  PROVE  FlushSend(t) = t
  BY DEF FlushSend, Backfill, FlushBuffer

\* The ring and the terminal are the same in t and u; the sender is not.
Leaves(t, u) ==
  /\ Shaped(u)
  /\ u.total = t.total /\ u.drawn = t.drawn /\ u.shown = t.shown
  /\ u.grid = t.grid /\ u.buffered = t.buffered
  /\ u.whole = t.whole /\ u.fits = t.fits /\ u.denied = t.denied

\* What is right stays so, whatever the sender notes.
LEMMA LeavesRight ==
  ASSUME NEW z \in Nat, NEW t, Right(t, z), NEW u, Leaves(t, u),
         u.mode \in Modes, u.sentOffset \in 0..t.total, u.sendBuffer \in Nat,
         u.refused \in 0..z \cup {None}, u.held \in Nat \cup {None},
         u.desynced \in BOOLEAN, u.immediate \in BOOLEAN,
         u.flushNext \in BOOLEAN, u.stall \in BOOLEAN
  PROVE  Right(u, z)
<1>1. Streams(u)
  <2>1. u.sentOffset \in Nat /\ u.refused \in Nat \cup {None}
    BY DEF Right, Streams
  <2> QED
    BY <2>1, Zenon DEF Right, Streams, Leaves
<1>2. /\ u.total <= MaxTotal /\ Len(u.drawn) = u.total
      /\ u.sentOffset <= u.total /\ u.shown <= u.total
      /\ u.grid <= z /\ u.refused <= z
  BY DEF Right, Streams, Leaves, None
<1>3. Sound(u)
  BY Zenon DEF Right, Leaves, Sound, Denied
<1> QED
  BY <1>1, <1>2, <1>3, Zenon DEF Right, Leaves

\* What is right stays so in a session whose grid is newer.
LEMMA RightLater ==
  ASSUME NEW z \in Nat, NEW n \in Nat, z <= n, NEW t, Right(t, z)
  PROVE  Right(t, n)
<1>1. t.grid <= n /\ t.refused <= n
  BY DEF Right, Streams, None
<1> QED
  BY <1>1, Zenon DEF Right

\* The numbers of a stream that is right, in its range.
LEMMA RightTypes ==
  ASSUME NEW z \in Nat, NEW t, Right(t, z)
  PROVE  /\ t.mode \in Modes /\ t.sentOffset \in 0..t.total
         /\ t.sendBuffer \in Nat /\ t.refused \in 0..z \cup {None}
         /\ t.held \in Nat \cup {None} /\ t.desynced \in BOOLEAN
         /\ t.immediate \in BOOLEAN /\ t.flushNext \in BOOLEAN
         /\ t.stall \in BOOLEAN /\ t.total \in Nat /\ 0 \in 0..t.total
  BY DEF Right, Streams

\* What rests or is owed a screen in t does so in u: the same chunks, shown as
\* far, on the same grid if they were dropped.
LEMMA RestsOn ==
  ASSUME NEW t, NEW u, Keeps(t, u), u.shown = t.shown, u.denied = t.denied,
         t.desynced => u.grid = t.grid, NEW r
  PROVE  /\ Rests(t, r) => Rests(u, r)
         /\ Owes(t, r) => Owes(u, r)
<1>1. \A n, g : DrawnFrom(t, n, g) => DrawnFrom(u, n, g)
  BY DEF DrawnFrom, Keeps
<1> QED
  BY <1>1, Zenon DEF Rests, Owes, Keeps, Denied

\* A hidden stream stays hidden when a waiting size is told.
LEMMA FlushRefusedRests ==
  ASSUME NEW z \in Nat, NEW t, Right(t, z), NEW r
  PROVE  /\ Rests(t, r) => Rests(FlushRefused(t), r)
         /\ Owes(t, r) => Owes(FlushRefused(t), r)
<1> DEFINE u == FlushRefused(t)
<1>1. Keeps(t, u) /\ u.shown = t.shown /\ u.denied = t.denied
  BY FlushRefusedRight
<1>2. t.desynced => u = t
  BY DEF FlushRefused
<1> HIDE DEF u
<1>3. t.desynced => u.grid = t.grid
  BY <1>2
<1> QED
  BY <1>1, <1>3, RestsOn DEF u

\* A size follows the bytes ahead of it, or waits: the newest one is known.
LEMMA OutOfBandRight ==
  ASSUME NEW z \in Nat, NEW t, Right(t, z),
         Flows(t) \/ (t.mode # "streaming" /\ t.sendBuffer = 0)
  PROVE  LET u == OutOfBand(t, z + 1) IN
         /\ Right(u, z + 1) /\ Knows(u, z + 1) /\ u.sendBuffer = 0
         /\ Flows(t) => Flows(u)
         /\ t.mode # "streaming" => u.shown = t.shown
         /\ \A r : Rests(t, r) => Rests(u, r)
         /\ \A r : Owes(t, r) => Owes(u, r)
<1> DEFINE f == FlushSend(t)
<1>1. /\ Right(f, z) /\ f.sendBuffer = 0
      /\ Flows(t) => Flows(f)
      /\ t.mode # "streaming" => f = t
  <2>1. CASE Flows(t)
    <3>1. Carries(t, f, z) /\ Flows(f) /\ f.sendBuffer = 0
      BY <2>1, FlushSendFlows
    <3> QED
      BY <2>1, <3>1 DEF Carries, Flows
  <2>2. CASE t.mode # "streaming" /\ t.sendBuffer = 0
    BY <2>2, FlushSendRests DEF Flows
  <2> QED
    BY <2>1, <2>2
<1>2. \A r : (Rests(t, r) => Rests(f, r)) /\ (Owes(t, r) => Owes(f, r))
  BY <1>1 DEF Rests, Owes, Denied
<1> HIDE DEF f
<1>3. Right(f, z + 1) /\ z + 1 \in Nat
  BY <1>1, RightLater
<1>4. CASE f.desynced \/ f.sendBuffer > 0 \/ Over(f)
  <2> DEFINE u == [f EXCEPT !.refused = z + 1, !.stall = TRUE]
  <2>1. Shaped(u)
    BY <1>1, Zenon DEF Shaped, Right, Fields
  <2>2. /\ u.total = f.total /\ u.drawn = f.drawn /\ u.shown = f.shown
        /\ u.grid = f.grid /\ u.buffered = f.buffered /\ u.mode = f.mode
        /\ u.whole = f.whole /\ u.fits = f.fits /\ u.denied = f.denied
        /\ u.sentOffset = f.sentOffset /\ u.sendBuffer = f.sendBuffer
        /\ u.desynced = f.desynced /\ u.immediate = f.immediate
        /\ u.flushNext = f.flushNext /\ u.refused = z + 1 /\ u.stall = TRUE
        /\ u.held = f.held
    BY <1>1 DEF Shaped, Right, Fields
  <2> HIDE DEF u
  <2>3. Right(u, z + 1)
    <3>1. Leaves(f, u)
      BY <2>1, <2>2 DEF Leaves
    <3>2. u.refused \in 0..(z + 1) \cup {None}
      BY <2>2
    <3>3. /\ u.mode \in Modes /\ u.sentOffset \in 0..f.total
          /\ u.sendBuffer \in Nat /\ u.held \in Nat \cup {None}
          /\ u.desynced \in BOOLEAN /\ u.immediate \in BOOLEAN
          /\ u.flushNext \in BOOLEAN /\ u.stall \in BOOLEAN
      BY <1>3, <2>2, RightTypes
    <3> QED
      BY <1>3, <3>1, <3>2, <3>3, LeavesRight
  <2>4. Flows(f) => Flows(u)
    BY <2>2 DEF Flows, Follows, DrawnFrom, Denied
  <2>5. \A r : (Rests(f, r) => Rests(u, r)) /\ (Owes(f, r) => Owes(u, r))
    BY <2>2, RestsOn DEF Keeps
  <2>6. OutOfBand(t, z + 1) = u
    BY <1>4 DEF OutOfBand, u, f
  <2> QED
    BY <1>1, <1>2, <2>2, <2>3, <2>4, <2>5, <2>6 DEF Knows
<1>5. CASE ~f.desynced /\ ~(f.sendBuffer > 0) /\ ~Over(f)
  <2> DEFINE u == SizeFrame(f, z + 1)
  <2>1. /\ Right(u, z + 1) /\ Keeps(f, u) /\ u.shown = f.shown
        /\ u.denied = f.denied /\ u.grid >= z + 1
    BY <1>3, SizeFrameRight
  <2> HIDE DEF u
  <2>2. Knows(u, z + 1)
    BY <2>1 DEF Knows, Right, Streams
  <2>3. Flows(f) => Flows(u)
    <3>1. HAVE Flows(f)
    <3>2. f.sentOffset = f.total
      BY <1>1, <1>5, <3>1 DEF Flows, Right, Streams
    <3>3. DrawnFrom(u, u.sentOffset, u.grid)
      BY <1>1, <2>1, <3>2 DEF DrawnFrom, Keeps, Right, Streams
    <3>4. u.mode = "streaming" /\ Follows(u)
      BY <2>1, <3>1, <3>3, Zenon DEF Keeps, Flows, Follows, Denied
    <3>5. u.sentOffset + u.sendBuffer = u.total
      BY <1>5, <2>1, <3>1 DEF Keeps, Flows
    <3> QED
      BY <3>4, <3>5, Zenon DEF Flows
  <2>4. \A r : (Rests(f, r) => Rests(u, r)) /\ (Owes(f, r) => Owes(u, r))
    BY <1>5, <2>1, RestsOn
  <2>5. OutOfBand(t, z + 1) = u
    BY <1>5 DEF OutOfBand, u, f
  <2> QED
    BY <1>1, <1>2, <2>1, <2>2, <2>3, <2>4, <2>5 DEF Keeps
<1> QED
  BY <1>4, <1>5

\* A chunk of a hidden stream is dropped; of a stream that flows it is sent, or
\* follows what is in the buffer, which has room for it.
LEMMA OnDataFlows ==
  ASSUME NEW z \in Nat, NEW t, Right(t, z),
         t.mode = "streaming", Follows(t), NEW beats,
         t.sendBuffer < MaxSendBuffer,
         ~t.desynced => t.sentOffset + t.sendBuffer + 1 = t.total
  PROVE  LET u == OnData(t, beats) IN
         Carries(t, u, z) /\ Flows(u) /\ u.sendBuffer < MaxSendBuffer
<1>1. CASE t.desynced /\ ~Over(t)
  <2> DEFINE u == Backfill(t)
  <2>1. Flows(t)
    BY <1>1, Zenon DEF Flows
  <2>2. Carries(t, u, z) /\ Flows(u) /\ u.sendBuffer = 0
    BY <1>1, <2>1, BackfillFlows
  <2> HIDE DEF u
  <2>3. OnData(t, beats) = u
    BY <1>1 DEF OnData, u
  <2> QED
    BY <2>2, <2>3, Sizes
<1>2. CASE ~(t.desynced /\ ~Over(t))
  <2> DEFINE u == [t EXCEPT !.sendBuffer = @ + 1, !.flushNext = FALSE]
             v == [u EXCEPT !.immediate = TRUE]
  <2>1. Shaped(u)
    BY Zenon DEF Shaped, Right, Fields
  <2>2. /\ u.total = t.total /\ u.drawn = t.drawn /\ u.shown = t.shown
        /\ u.grid = t.grid /\ u.buffered = t.buffered /\ u.mode = t.mode
        /\ u.whole = t.whole /\ u.fits = t.fits /\ u.denied = t.denied
        /\ u.sentOffset = t.sentOffset /\ u.sendBuffer = t.sendBuffer + 1
        /\ u.desynced = t.desynced /\ u.immediate = t.immediate
        /\ u.flushNext = FALSE /\ u.refused = t.refused /\ u.stall = t.stall
        /\ u.held = t.held
    BY DEF Shaped, Right, Fields
  <2> HIDE DEF u
  <2>3. Right(u, z)
    <3>1. Leaves(t, u)
      BY <2>1, <2>2 DEF Leaves
    <3>2. /\ u.sentOffset \in 0..t.total /\ u.sendBuffer \in Nat
          /\ u.refused \in 0..z \cup {None}
      BY <2>2, RightTypes
    <3>3. /\ u.mode \in Modes /\ u.held \in Nat \cup {None}
          /\ u.desynced \in BOOLEAN /\ u.immediate \in BOOLEAN
          /\ u.flushNext \in BOOLEAN /\ u.stall \in BOOLEAN
      BY <2>2, RightTypes, Zenon
    <3> QED
      BY <3>1, <3>2, <3>3, LeavesRight
  <2>4. Flows(u)
    <3>1. Follows(u)
      BY <2>2 DEF Follows, DrawnFrom, Denied
    <3>2. ~u.desynced => u.sentOffset + u.sendBuffer = u.total
      BY <2>2 DEF Right, Streams
    <3> QED
      BY <2>2, <3>1, <3>2 DEF Flows
  <2>5. CASE t.flushNext \/ u.sendBuffer >= MaxSendBuffer
    <3>1. /\ Carries(u, FlushSend(u), z) /\ Flows(FlushSend(u))
          /\ FlushSend(u).sendBuffer = 0
      BY <2>3, <2>4, FlushSendFlows
    <3>2. OnData(t, beats) = FlushSend(u)
      BY <1>2, <2>5 DEF OnData, u
    <3>3. Carries(t, FlushSend(u), z)
      BY <2>2, <3>1 DEF Carries, Knows
    <3> QED
      BY <3>1, <3>2, <3>3, Sizes
  <2>6. CASE ~(t.flushNext \/ u.sendBuffer >= MaxSendBuffer)
    <3>1. Shaped(v)
      BY <2>1, Zenon DEF Shaped, Fields
    <3>2. /\ v.total = u.total /\ v.drawn = u.drawn /\ v.shown = u.shown
          /\ v.grid = u.grid /\ v.buffered = u.buffered /\ v.mode = u.mode
          /\ v.whole = u.whole /\ v.fits = u.fits /\ v.denied = u.denied
          /\ v.sentOffset = u.sentOffset /\ v.sendBuffer = u.sendBuffer
          /\ v.desynced = u.desynced /\ v.immediate = TRUE
          /\ v.flushNext = u.flushNext /\ v.refused = u.refused
          /\ v.stall = u.stall /\ v.held = u.held
      BY <2>1 DEF Shaped, Fields
    <3> HIDE DEF v
    <3>3. Right(v, z)
      <4>1. Leaves(u, v)
        BY <3>1, <3>2 DEF Leaves
      <4>2. /\ v.mode \in Modes /\ v.sentOffset \in 0..u.total
            /\ v.sendBuffer \in Nat /\ v.refused \in 0..z \cup {None}
            /\ v.held \in Nat \cup {None}
            /\ v.desynced \in BOOLEAN /\ v.immediate \in BOOLEAN
            /\ v.flushNext \in BOOLEAN /\ v.stall \in BOOLEAN
        BY <2>3, <3>2, RightTypes
      <4> QED
        BY <2>3, <4>1, <4>2, LeavesRight
    <3>4. Flows(v)
      BY <2>4, <3>2 DEF Flows, Follows, DrawnFrom, Denied
    <3>5. OnData(t, beats) = v
      BY <1>2, <2>6 DEF OnData, u, v
    <3>6. Carries(t, v, z)
      BY <2>2, <3>2, <3>3 DEF Carries, Knows
    <3>7. v.sendBuffer < MaxSendBuffer
      BY <2>2, <2>6, <3>2, Sizes DEF Right, Streams
    <3> QED
      BY <3>4, <3>5, <3>6, <3>7
  <2> QED
    BY <2>5, <2>6
<1> QED
  BY <1>1, <1>2

\* What was missed is played from the ring, on the grid it was drawn for.
LEMMA ReplayFlows ==
  ASSUME NEW z \in Nat, NEW t, Right(t, z), t.mode = "streaming",
         t.sendBuffer = 0, Follows(t)
  PROVE  LET u == Replay(t) IN
         Carries(t, u, z) /\ Flows(u) /\ u.sendBuffer = 0
<1> DEFINE v == [t EXCEPT !.desynced = TRUE]
           u == Backfill(v)
<1>1. Shaped(v)
  BY Zenon DEF Shaped, Right, Fields
<1>2. /\ v.total = t.total /\ v.drawn = t.drawn /\ v.shown = t.shown
      /\ v.grid = t.grid /\ v.buffered = t.buffered /\ v.mode = t.mode
      /\ v.whole = t.whole /\ v.fits = t.fits /\ v.denied = t.denied
      /\ v.sentOffset = t.sentOffset /\ v.sendBuffer = t.sendBuffer
      /\ v.desynced = TRUE /\ v.immediate = t.immediate
      /\ v.flushNext = t.flushNext /\ v.refused = t.refused
      /\ v.stall = t.stall /\ v.held = t.held
  BY DEF Shaped, Right, Fields
<1> HIDE DEF v
<1>3. Right(v, z)
  <2>1. Leaves(t, v)
    BY <1>1, <1>2 DEF Leaves
  <2>2. /\ v.mode \in Modes /\ v.sentOffset \in 0..t.total
        /\ v.sendBuffer \in Nat /\ v.refused \in 0..z \cup {None}
        /\ v.held \in Nat \cup {None}
        /\ v.desynced \in BOOLEAN /\ v.immediate \in BOOLEAN
        /\ v.flushNext \in BOOLEAN /\ v.stall \in BOOLEAN
    BY <1>2, RightTypes
  <2> QED
    BY <2>1, <2>2, LeavesRight
<1>4. Flows(v)
  BY <1>2 DEF Flows, Follows, DrawnFrom, Denied
<1>5. /\ Carries(v, u, z) /\ Flows(u)
      /\ Over(v) => u = v
      /\ ~Over(v) => u.sendBuffer = 0
  BY <1>2, <1>3, <1>4, BackfillFlows
<1> HIDE DEF u
<1>6. u.sendBuffer = 0
  BY <1>2, <1>5
<1>7. Carries(t, u, z)
  BY <1>2, <1>5 DEF Carries, Knows
<1> QED
  BY <1>5, <1>6, <1>7 DEF Replay, u, v

\* A screen is right wherever the terminal was; a socket that is full is denied
\* it, and the ring is to be replayed.
LEMMA ResetFlows ==
  ASSUME NEW z \in Nat, NEW t, Right(t, z), t.mode = "streaming",
         NEW upto \in 0..t.total
  PROVE  LET u == ResetToScreen(t, upto) IN
         /\ Carries(t, u, z) /\ u.sendBuffer = 0 /\ u.mode = "streaming"
         /\ Over(t) => Denied(u)
         /\ ~Over(t) => u.shown = u.sentOffset /\ u.sentOffset = upto
         /\ Over(t) \/ upto = t.total => Flows(u)
<1>1. CASE Over(t)
  <2> DEFINE u == [t EXCEPT !.sendBuffer = 0, !.desynced = TRUE, !.stall = TRUE,
                            !.denied = TRUE]
  <2>1. Shaped(u)
    BY Zenon DEF Shaped, Right, Fields
  <2>2. /\ u.total = t.total /\ u.drawn = t.drawn /\ u.shown = t.shown
        /\ u.grid = t.grid /\ u.buffered = t.buffered /\ u.mode = t.mode
        /\ u.denied = TRUE
        /\ u.sentOffset = t.sentOffset /\ u.sendBuffer = 0
        /\ u.desynced = TRUE /\ u.immediate = t.immediate
        /\ u.flushNext = t.flushNext /\ u.refused = t.refused
        /\ u.stall = TRUE /\ u.held = t.held
    BY DEF Shaped, Right, Fields
  <2> HIDE DEF u
  <2>3. Right(u, z)
    <3>1. Sound(u)
      BY <2>2 DEF Sound, Denied
    <3>2. /\ u.shown \in 0..t.total /\ u.sentOffset \in 0..t.total
          /\ u.grid \in 0..z /\ u.sendBuffer \in Nat /\ u.buffered \in Nat
      BY <2>2 DEF Right, Streams
    <3>3. /\ u.mode \in Modes /\ u.desynced \in BOOLEAN /\ u.immediate \in BOOLEAN
          /\ u.flushNext \in BOOLEAN /\ u.stall \in BOOLEAN
      BY <2>2, Zenon DEF Right, Streams
    <3> QED
      BY <2>1, <2>2, <3>1, <3>2, <3>3, RightFrom
  <2>4. Flows(u)
    BY <2>2 DEF Flows, Follows, Denied
  <2>5. ResetToScreen(t, upto) = u
    BY <1>1 DEF ResetToScreen, u
  <2>6. Carries(t, u, z)
    BY <2>2, <2>3 DEF Carries, Knows
  <2> QED
    BY <1>1, <2>2, <2>4, <2>5, <2>6 DEF Denied
<1>2. CASE ~Over(t)
  <2> DEFINE w == [t EXCEPT !.sendBuffer = 0, !.desynced = FALSE,
                            !.stall = FALSE, !.sentOffset = upto]
             v == Redraw(w, upto, SnapshotSize)
             u == FlushRefused(v)
  <2>1. Shaped(w)
    BY Zenon DEF Shaped, Right, Fields
  <2>2. /\ w.total = t.total /\ w.drawn = t.drawn /\ w.shown = t.shown
        /\ w.grid = t.grid /\ w.buffered = t.buffered /\ w.mode = t.mode
        /\ w.whole = t.whole /\ w.fits = t.fits /\ w.denied = t.denied
        /\ w.sentOffset = upto /\ w.sendBuffer = 0
        /\ w.desynced = FALSE /\ w.immediate = t.immediate
        /\ w.flushNext = t.flushNext /\ w.refused = t.refused
        /\ w.stall = FALSE /\ w.held = t.held
    BY DEF Shaped, Right, Fields
  <2> HIDE DEF w
  <2>3. Right(w, z)
    <3>1. Leaves(t, w)
      BY <2>1, <2>2 DEF Leaves
    <3>2. /\ w.sentOffset \in 0..t.total /\ w.sendBuffer \in Nat
          /\ w.refused \in 0..z \cup {None}
      BY <2>2, RightTypes
    <3>3. /\ w.mode \in Modes /\ w.held \in Nat \cup {None}
          /\ w.desynced \in BOOLEAN /\ w.immediate \in BOOLEAN
          /\ w.flushNext \in BOOLEAN /\ w.stall \in BOOLEAN
      BY <2>2, RightTypes, Zenon
    <3> QED
      BY <3>1, <3>2, <3>3, LeavesRight
  <2>4. /\ Right(v, z) /\ Keeps(w, v) /\ v.shown = upto
        /\ v.refused = w.refused /\ v.grid = w.grid
    BY <2>2, <2>3, Sizes, RedrawRight
  <2> HIDE DEF v
  <2>5. /\ Right(u, z) /\ Keeps(v, u) /\ u.shown = v.shown
        /\ (Knows(v, z) => Knows(u, z))
    BY <2>4, FlushRefusedRight
  <2>6. upto = t.total => Flows(u)
    <3>1. HAVE upto = t.total
    <3>2. u.mode = "streaming" /\ u.shown = u.sentOffset /\ u.sentOffset = u.total
      BY <2>2, <2>4, <2>5, <3>1 DEF Keeps
    <3>3. u.sentOffset + u.sendBuffer = u.total
      BY <2>2, <2>4, <2>5, <3>2 DEF Keeps, Right, Streams
    <3>4. DrawnFrom(u, u.sentOffset, u.grid)
      BY <2>5, <3>2 DEF DrawnFrom, Right, Streams
    <3> QED
      BY <3>2, <3>3, <3>4 DEF Flows, Follows, Denied
  <2> HIDE DEF u
  <2>7. Carries(t, u, z)
    BY <2>2, <2>4, <2>5 DEF Carries, Knows, Keeps
  <2>8. /\ u.sendBuffer = 0 /\ u.mode = "streaming" /\ u.shown = u.sentOffset
        /\ u.sentOffset = upto
    BY <2>2, <2>4, <2>5 DEF Keeps
  <2>9. ResetToScreen(t, upto) = u
    BY <1>2 DEF ResetToScreen, u, v, w
  <2> QED
    BY <1>2, <2>6, <2>7, <2>8, <2>9
<1> QED
  BY <1>1, <1>2

\* Chunks that were drawn for the grid of the session fit an older one.
LEMMA DrawnLater ==
  ASSUME NEW z \in Nat, NEW t, Right(t, z), NEW n \in Nat, DrawnFrom(t, n, z)
  PROVE  DrawnFrom(t, n, t.grid)
<1> SUFFICES ASSUME NEW i \in (n + 1)..t.total PROVE t.drawn[i] >= t.grid
  BY DEF DrawnFrom
<1>1. t.drawn[i] >= z
  BY DEF DrawnFrom
<1>2. t.drawn \in Seq(0..MaxSize) /\ Len(t.drawn) = t.total /\ t.total \in Nat
  BY Zenon DEF Right, Streams
<1>3. t.drawn[i] \in 0..MaxSize
  <2>1. i \in 1..t.total
    BY <1>2
  <2>2. i \in 1..Len(t.drawn)
    BY <1>2, <2>1, Zenon
  <2> QED
    BY <1>2, <2>2, ElementOfSeq, Zenon
<1>4. t.grid \in Nat /\ t.grid <= z
  BY DEF Right, Streams
<1> QED
  BY <1>1, <1>3, <1>4, Sizes

\* A stream that rested at the grid of the session plays what it missed, and
\* otherwise takes a screen.
LEMMA ResumeFlows ==
  ASSUME NEW z \in Nat, NEW t, Right(t, z), t.mode = "streaming",
         t.sendBuffer = 0, NEW resized,
         \/ Denied(t)
         \/ /\ t.shown = t.sentOffset
            /\ t.desynced => DrawnFrom(t, t.sentOffset, t.grid)
            /\ ~resized /\ ~t.desynced => DrawnFrom(t, t.sentOffset, z)
  PROVE  LET u == Resume(t, resized) IN
         Carries(t, u, z) /\ Flows(u) /\ u.sendBuffer = 0
<1> DEFINE missed == t.total - t.sentOffset
<1>1. CASE missed <= 0 /\ ~t.desynced
  <2>1. t.sentOffset = t.total
    BY <1>1 DEF Right, Streams
  <2>2. DrawnFrom(t, t.sentOffset, t.grid) /\ t.sentOffset + t.sendBuffer = t.total
    BY <2>1 DEF DrawnFrom, Right, Streams
  <2>3. Flows(t)
    BY <2>2, Zenon DEF Flows, Follows, Denied
  <2>4. Resume(t, resized) = t
    BY <1>1 DEF Resume
  <2> QED
    BY <2>3, <2>4 DEF Carries
<1>2. CASE ~(missed <= 0 /\ ~t.desynced) /\ ~resized /\ missed <= MaxSendBuffer
  <2>1. DrawnFrom(t, t.sentOffset, z) => DrawnFrom(t, t.sentOffset, t.grid)
    BY DrawnLater DEF Right, Streams
  <2>2. Follows(t)
    BY <1>2, <2>1 DEF Follows, Denied
  <2>3. Resume(t, resized) = Replay(t)
    BY <1>2 DEF Resume
  <2> QED
    BY <2>2, <2>3, ReplayFlows
<1>3. CASE /\ ~(missed <= 0 /\ ~t.desynced)
           /\ ~(~resized /\ missed <= MaxSendBuffer)
  <2>1. Resume(t, resized) = ResetToScreen(t, t.total)
    BY <1>3 DEF Resume
  <2>2. t.total \in 0..t.total
    BY DEF Right, Streams
  <2> QED
    BY <2>1, <2>2, ResetFlows
<1> QED
  BY <1>1, <1>2, <1>3

\* A stream that is owed a screen takes it, and plays what came after it only
\* if the session has the grid it had then.
LEMMA ResumeOwedFlows ==
  ASSUME NEW z \in Nat, NEW t, Right(t, z), t.mode = "streaming",
         NEW resized, NEW held \in Nat \cup {None},
         held # None => held <= t.total /\ (~resized => DrawnFrom(t, held, z))
  PROVE  LET u == ResumeOwed(t, held, resized) IN
         Carries(t, u, z) /\ Flows(u) /\ u.sendBuffer = 0
<1>2. CASE held = None \/ resized \/ t.total - held > MaxSendBuffer
  <2>1. ResumeOwed(t, held, resized) = ResetToScreen(t, t.total)
    BY <1>2 DEF ResumeOwed
  <2>2. t.total \in 0..t.total
    BY DEF Right, Streams
  <2> QED
    BY <2>1, <2>2, ResetFlows
<1>3. CASE ~(held = None \/ resized \/ t.total - held > MaxSendBuffer)
  <2> DEFINE u == ResetToScreen(t, held)
  <2>1. held \in 0..t.total
    BY <1>3 DEF Right, Streams
  <2>2. /\ Carries(t, u, z) /\ u.sendBuffer = 0 /\ u.mode = "streaming"
        /\ Over(t) => Denied(u) /\ Flows(u)
        /\ ~Over(t) => u.shown = u.sentOffset /\ u.sentOffset = held
    BY <2>1, ResetFlows
  <2> HIDE DEF u
  <2>3. Right(u, z)
    BY <2>2 DEF Carries
  <2>4. Follows(u)
    <3>1. CASE Over(t)
      BY <2>2, <3>1 DEF Follows, Denied
    <3>2. CASE ~Over(t)
      <4>1. DrawnFrom(t, held, z)
        BY <1>3
      <4>2. DrawnFrom(u, held, z)
        BY <2>2, <4>1 DEF Carries, DrawnFrom
      <4>3. DrawnFrom(u, held, u.grid)
        BY <1>3, <2>1, <2>3, <4>2, DrawnLater DEF Right, Streams
      <4> QED
        BY <2>2, <3>2, <4>3 DEF Follows, Denied
    <3> QED
      BY <3>1, <3>2
  <2>5. CASE t.total <= u.sentOffset
    <3>1. ResumeOwed(t, held, resized) = u
      BY <1>3, <2>5 DEF ResumeOwed, u
    <3>2. u.sentOffset + u.sendBuffer = u.total
      BY <1>3, <2>1, <2>2, <2>5 DEF Carries, Right, Streams
    <3>3. Flows(u)
      BY <2>2, <2>4, <3>2, Zenon DEF Flows
    <3> QED
      BY <2>2, <3>1, <3>3
  <2>6. CASE ~(t.total <= u.sentOffset)
    <3>1. ResumeOwed(t, held, resized) = Replay(u)
      BY <1>3, <2>6 DEF ResumeOwed, u
    <3>2. /\ Carries(u, Replay(u), z) /\ Flows(Replay(u))
          /\ Replay(u).sendBuffer = 0
      BY <2>2, <2>3, <2>4, ReplayFlows
    <3>3. Carries(t, Replay(u), z)
      BY <2>2, <3>2 DEF Carries
    <3> QED
      BY <3>1, <3>2, <3>3
  <2> QED
    BY <2>5, <2>6
<1> QED
  BY <1>2, <1>3

-----------------------------------------------------------------------------
(* The operations of the socket. *)

\* What a stream that was paused at the grid r is, and one that was not.
Runs(t, r) == IF r = None THEN Flows(t) ELSE Rests(t, r) \/ Owes(t, r)

\* A note that is neither sent nor shown changes nothing that matters.
LEMMA NotesRight ==
  ASSUME NEW z \in Nat, NEW t, Right(t, z), NEW u, Leaves(t, u), Keeps(t, u),
         u.refused = t.refused, u.immediate \in BOOLEAN,
         u.flushNext \in BOOLEAN, u.stall \in BOOLEAN
  PROVE  /\ Right(u, z) /\ (Knows(t, z) => Knows(u, z))
         /\ u.sendBuffer = t.sendBuffer /\ u.shown = t.shown /\ u.mode = t.mode
         /\ Flows(t) => Flows(u)
         /\ \A r : Runs(t, r) => Runs(u, r)
<1>1. /\ u.sentOffset \in 0..t.total /\ u.sendBuffer \in Nat
      /\ u.refused \in 0..z \cup {None}
  BY RightTypes DEF Keeps
<1>2. u.mode \in Modes /\ u.held \in Nat \cup {None} /\ u.desynced \in BOOLEAN
  BY RightTypes, Zenon DEF Keeps
<1>3. Right(u, z)
  BY <1>1, <1>2, LeavesRight
<1>4. Knows(t, z) => Knows(u, z)
  BY DEF Knows, Leaves
<1>5. Flows(t) => Flows(u)
  BY DEF Flows, Follows, Keeps, Leaves, DrawnFrom, Denied
<1>6. \A r : (Rests(t, r) => Rests(u, r)) /\ (Owes(t, r) => Owes(u, r))
  BY RestsOn DEF Leaves
<1> QED
  BY <1>3, <1>4, <1>5, <1>6 DEF Runs, Keeps, Leaves

\* What is in the socket's buffer, of whatever size, changes nothing else.
LEMMA BufferRight ==
  ASSUME NEW z \in Nat, NEW t, Right(t, z), NEW n \in Nat
  PROVE  LET u == [t EXCEPT !.buffered = n] IN
         /\ Right(u, z) /\ (Knows(t, z) => Knows(u, z))
         /\ u.sendBuffer = t.sendBuffer /\ u.shown = t.shown
         /\ \A r : Runs(t, r) => Runs(u, r)
<1> DEFINE u == [t EXCEPT !.buffered = n]
<1>1. Shaped(u)
  BY Zenon DEF Shaped, Right, Fields
<1>2. /\ Keeps(t, u) /\ u.shown = t.shown /\ u.grid = t.grid
      /\ u.buffered = n /\ u.refused = t.refused
      /\ u.stall = t.stall /\ u.immediate = t.immediate
      /\ u.flushNext = t.flushNext /\ u.whole = t.whole /\ u.fits = t.fits
      /\ u.denied = t.denied
  BY DEF Shaped, Right, Keeps, Fields
<1> HIDE DEF u
<1>3. Sound(u)
  BY <1>2, Zenon DEF Right, Sound, Denied
<1>4. Right(u, z)
  <2>1. /\ u.shown \in 0..t.total /\ u.sentOffset \in 0..t.total
        /\ u.grid \in 0..z /\ u.buffered \in Nat
    BY <1>2 DEF Keeps, Right, Streams
  <2> QED
    BY <1>1, <1>2, <1>3, <2>1, RightFrom DEF Keeps, Right, Streams
<1>6. Flows(t) => Flows(u)
  BY <1>2 DEF Flows, Follows, Keeps, DrawnFrom, Denied
<1>7. \A r : (Rests(t, r) => Rests(u, r)) /\ (Owes(t, r) => Owes(u, r))
  BY <1>2, RestsOn
<1>9. Knows(t, z) => Knows(u, z)
  BY <1>2 DEF Knows
<1> QED
  BY <1>2, <1>4, <1>6, <1>7, <1>9 DEF Runs, Keeps, u

\* A beat of output is sent to a hidden terminal, or is not.
LEMMA BeatRight ==
  ASSUME NEW z \in Nat, NEW t, Right(t, z), t.mode # "streaming", NEW beats
  PROVE  LET u == OnData(t, beats) IN
         /\ Right(u, z) /\ (Knows(t, z) => Knows(u, z))
         /\ u.sendBuffer = t.sendBuffer /\ u.shown = t.shown
         /\ \A r : Runs(t, r) => Runs(u, r)
<1>1. t.buffered + FrameSize \in Nat
  BY Sizes DEF Right, Streams
<1>2. CASE OnData(t, beats) = t
  BY <1>2
<1>3. CASE OnData(t, beats) = [t EXCEPT !.buffered = t.buffered + FrameSize]
  BY <1>1, <1>3, BufferRight
<1> QED
  BY <1>2, <1>3 DEF OnData, OutputBeat

\* A chunk is drawn for the grid of the session.
LEMMA AppendRight ==
  ASSUME NEW z \in 0..MaxSize, NEW t, Right(t, z), t.total < MaxTotal
  PROVE  LET u == [t EXCEPT !.total = @ + 1, !.drawn = Append(@, z)] IN
         /\ Right(u, z) /\ u.total = t.total + 1
         /\ u.mode = t.mode /\ u.sentOffset = t.sentOffset
         /\ u.sendBuffer = t.sendBuffer /\ u.desynced = t.desynced
         /\ u.held = t.held /\ u.shown = t.shown /\ u.grid = t.grid
         /\ u.denied = t.denied /\ u.refused = t.refused
         /\ \A n \in Nat, g \in 0..z : DrawnFrom(t, n, g) => DrawnFrom(u, n, g)
<1> DEFINE u == [t EXCEPT !.total = @ + 1, !.drawn = Append(@, z)]
<1>1. Shaped(u)
  BY Zenon DEF Shaped, Right, Fields
<1>2. /\ u.total = t.total + 1 /\ u.drawn = Append(t.drawn, z)
      /\ u.mode = t.mode /\ u.sentOffset = t.sentOffset
      /\ u.sendBuffer = t.sendBuffer /\ u.desynced = t.desynced
      /\ u.held = t.held /\ u.shown = t.shown /\ u.grid = t.grid
      /\ u.buffered = t.buffered /\ u.refused = t.refused
      /\ u.stall = t.stall /\ u.immediate = t.immediate
      /\ u.flushNext = t.flushNext /\ u.whole = t.whole /\ u.fits = t.fits /\ u.denied = t.denied
  BY DEF Shaped, Right, Fields
<1> HIDE DEF u
<1>3. t.drawn \in Seq(0..MaxSize) /\ Len(t.drawn) = t.total /\ t.total \in Nat
  BY Zenon DEF Right, Streams
<1> DEFINE d == t.drawn
<1>4. d \in Seq(0..MaxSize) /\ Len(d) = t.total
  BY <1>3
<1>5. u.drawn = Append(d, z)
  BY <1>2
<1> HIDE DEF d
<1>6. /\ Append(d, z) \in Seq(0..MaxSize) /\ Len(Append(d, z)) = Len(d) + 1
      /\ \A i \in 1..Len(d) : Append(d, z)[i] = d[i]
      /\ Append(d, z)[Len(d) + 1] = z
  BY <1>4, AppendProperties
<1>7. Streams(u)
  <2>1. u.total \in Nat /\ u.drawn \in Seq(0..MaxSize)
    BY <1>2, <1>3, <1>5, <1>6
  <2> QED
    BY <1>2, <2>1, Zenon DEF Right, Streams
<1>8. Right(u, z)
  <2>1. u.total <= MaxTotal /\ u.sentOffset <= u.total /\ u.shown <= u.total
    BY <1>2, Sizes DEF Right, Streams
  <2>2. Len(u.drawn) = u.total
    BY <1>2, <1>4, <1>5, <1>6, Zenon
  <2> QED
    BY <1>1, <1>2, <1>7, <2>1, <2>2, Zenon DEF Right, Sound, Denied
<1>9. \A n \in Nat, g \in 0..z : DrawnFrom(t, n, g) => DrawnFrom(u, n, g)
  <2> SUFFICES ASSUME NEW n \in Nat, NEW g \in 0..z, DrawnFrom(t, n, g),
                      NEW i \in (n + 1)..u.total
               PROVE  u.drawn[i] >= g
    BY DEF DrawnFrom
  <2>1. CASE i = u.total
    BY <1>2, <1>4, <1>5, <1>6, <2>1, Sizes
  <2>2. CASE i # u.total
    <3>1. i \in (n + 1)..t.total
      <4>1. u.total = t.total + 1 /\ t.total \in Nat
        BY <1>2, <1>3
      <4> QED
        BY <2>2, <4>1
    <3>2. t.drawn[i] >= g
      BY <3>1 DEF DrawnFrom
    <3>3. i \in 1..t.total
      BY <1>3, <3>1
    <3>4. u.drawn[i] = t.drawn[i]
      BY <1>4, <1>5, <1>6, <3>3, Zenon DEF d
    <3> QED
      BY <3>2, <3>4
  <2> QED
    BY <2>1, <2>2
<1> QED
  BY <1>2, <1>8, <1>9 DEF u

\* The terminal that nobody looks at is right.
LEMMA DetachedRight ==
  ASSUME NEW z \in Nat, NEW n \in 0..MaxTotal, NEW d \in Seq(0..MaxSize),
         Len(d) = n
  PROVE  Right(Detached(n, d), z)
<1> DEFINE u == Detached(n, d)
<1>1. Shaped(u)
  BY Zenon DEF Shaped, Fields, Detached
<1>2. /\ u.total = n /\ u.drawn = d /\ u.mode = "streaming"
      /\ u.sentOffset = 0 /\ u.sendBuffer = 0 /\ u.desynced = FALSE
      /\ u.immediate = FALSE /\ u.flushNext = FALSE /\ u.refused = None
      /\ u.stall = FALSE /\ u.held = None /\ u.buffered = 0 /\ u.shown = 0
      /\ u.grid = 0 /\ u.whole = TRUE /\ u.fits = TRUE
  BY DEF Detached
<1> HIDE DEF u
<1>3. Streams(u)
  <2>1. /\ u.total \in Nat /\ u.sentOffset \in Nat /\ u.sendBuffer \in Nat
        /\ u.buffered \in Nat /\ u.shown \in Nat /\ u.grid \in Nat
    BY <1>2, Sizes
  <2>2. u.mode \in Modes
    BY <1>2 DEF Modes
  <2> QED
    BY <1>2, <2>1, <2>2, Zenon DEF Streams
<1>4. /\ u.total <= MaxTotal /\ u.sentOffset <= u.total /\ u.shown <= u.total
      /\ u.grid <= z /\ u.refused <= z
  BY <1>2, Sizes DEF None
<1> QED
  BY <1>1, <1>2, <1>3, <1>4, Zenon DEF Right, Sound, u, Denied

-----------------------------------------------------------------------------
(* The invariant.  A terminal is right while what is not sent to it can be    *)
(* played on its grid, which every operation of the sender needs to know of   *)
(* the one before it.                                                         *)

StreamInv ==
  /\ size \in 0..MaxSize /\ open \in BOOLEAN
  /\ resizeAtPause \in 0..size \cup {None}
  /\ Right(s, size) /\ s.sendBuffer < MaxSendBuffer
  /\ open => Knows(s, size) /\ Runs(s, resizeAtPause)

LEMMA GoneRight ==
  ASSUME StreamInv
  PROVE  Right(Gone, size) /\ Gone.sendBuffer < MaxSendBuffer
<1>1. /\ s.total \in 0..MaxTotal /\ s.drawn \in Seq(0..MaxSize)
      /\ Len(s.drawn) = s.total /\ size \in Nat
  <2>1. s.drawn \in Seq(0..MaxSize) /\ Len(s.drawn) = s.total
    BY Zenon DEF StreamInv, Right, Streams
  <2>2. s.total \in 0..MaxTotal /\ size \in Nat
    BY Sizes DEF StreamInv, Right, Streams
  <2> QED
    BY <2>1, <2>2
<1>2. Right(Detached(s.total, s.drawn), size)
  BY <1>1, DetachedRight
<1> QED
  BY <1>2, Sizes DEF Gone, Detached

\* A hidden stream is paused, and has nothing in its buffer.
LEMMA HiddenIsPaused ==
  ASSUME StreamInv, open
  PROVE  /\ s.mode # "streaming" <=> resizeAtPause # None
         /\ s.mode # "streaming" => s.sendBuffer = 0
  BY DEF StreamInv, Runs, Flows, Rests, Owes, Denied

LEMMA StreamInit == Init => StreamInv
<1> SUFFICES ASSUME Init PROVE StreamInv
  OBVIOUS
<1>1. Right(s, size)
  <2>1. /\ 0 \in 0..MaxTotal /\ <<>> \in Seq(0..MaxSize) /\ Len(<<>>) = 0
        /\ 0 \in Nat
    BY Sizes
  <2> QED
    BY <2>1, DetachedRight DEF Init
<1>2. s.sendBuffer = 0
  BY DEF Init, Detached
<1>3. /\ size \in 0..MaxSize /\ open = FALSE
      /\ resizeAtPause \in 0..size \cup {None}
  BY Sizes DEF Init
<1> QED
  BY <1>1, <1>2, <1>3, Sizes DEF StreamInv

LEMMA AttachInv == StreamInv /\ Attach => StreamInv'
<1> SUFFICES ASSUME StreamInv, Attach PROVE StreamInv'
  OBVIOUS
<1> DEFINE framed == SizeFrame(Gone, size)
           fresh == [framed EXCEPT !.sentOffset = s.total]
<1>1. Right(Gone, size) /\ Gone.total = s.total
  BY GoneRight DEF Gone, Detached
<1>4. size \in Nat /\ s.total \in Nat
  BY DEF StreamInv, Right, Streams
<1>8. /\ Right(framed, size) /\ Keeps(Gone, framed) /\ framed.shown = 0
      /\ framed.refused = None /\ framed.grid >= size
  BY <1>1, <1>4, SizeFrameRight DEF Gone, Detached
<1>9. framed.grid = size
  BY <1>4, <1>8 DEF Right, Streams
<1>10. /\ framed.immediate = FALSE /\ framed.flushNext = FALSE /\ framed.stall = FALSE
       /\ framed.buffered = FrameSize /\ framed.whole = TRUE /\ framed.fits = TRUE
       /\ framed.denied = FALSE
  BY Sizes DEF SizeFrame, Gone, Detached
<1>11. /\ framed.total = s.total /\ framed.drawn = s.drawn /\ framed.mode = "streaming"
       /\ framed.sendBuffer = 0 /\ framed.desynced = FALSE /\ framed.held = None
  BY <1>8 DEF Keeps, Gone, Detached
<1> HIDE DEF framed
<1>2. Shaped(fresh)
  BY <1>8, Zenon DEF Shaped, Right, Fields
<1>3. /\ fresh.total = s.total /\ fresh.drawn = s.drawn
      /\ fresh.mode = "streaming" /\ fresh.sentOffset = s.total
      /\ fresh.sendBuffer = 0 /\ fresh.desynced = FALSE
      /\ fresh.immediate = FALSE /\ fresh.flushNext = FALSE
      /\ fresh.refused = None /\ fresh.stall = FALSE /\ fresh.held = None
      /\ fresh.buffered = FrameSize /\ fresh.shown = 0 /\ fresh.grid = size
      /\ fresh.whole = TRUE /\ fresh.fits = TRUE /\ fresh.denied = FALSE
  BY <1>8, <1>9, <1>10, <1>11 DEF Shaped, Right, Fields
<1> HIDE DEF fresh
<1>5. Right(fresh, size)
  <2>1. fresh.mode \in Modes /\ Sound(fresh)
    BY <1>3 DEF Modes, Sound, Denied
  <2>2. /\ fresh.sentOffset \in 0..framed.total /\ fresh.sendBuffer \in Nat
        /\ fresh.shown \in 0..framed.total /\ fresh.buffered \in Nat
        /\ fresh.grid \in 0..size
    BY <1>3, <1>4, <1>11, Sizes
  <2> QED
    BY <1>2, <1>3, <1>4, <1>8, <1>11, <2>1, <2>2, RightFrom
<1>6. CASE s' = Redraw(fresh, s.total, SnapshotSize) /\ resizeAtPause' = None
  <2> DEFINE u == Redraw(fresh, s.total, SnapshotSize)
  <2>1. /\ Right(u, size) /\ Keeps(fresh, u) /\ u.shown = s.total
        /\ u.grid = fresh.grid
    BY <1>3, <1>4, <1>5, RedrawRight, Sizes
  <2> HIDE DEF u
  <2>2. DrawnFrom(u, u.sentOffset, u.grid)
    BY <1>3, <1>4, <2>1 DEF DrawnFrom, Keeps
  <2>3. Flows(u)
    BY <1>3, <1>4, <2>1, <2>2 DEF Flows, Follows, Keeps, Denied
  <2>4. Knows(u, size) /\ u.sendBuffer = 0
    BY <1>3, <2>1 DEF Knows, Keeps
  <2> QED
    BY <1>6, <2>1, <2>3, <2>4, Sizes DEF Attach, StreamInv, Runs, u
<1>7. ASSUME NEW deep \in BOOLEAN, resizeAtPause' = size,
             s' = [fresh EXCEPT !.mode = "paused-snapshot-owed",
                                !.held = IF deep THEN s.total ELSE None]
      PROVE  StreamInv'
  <2> DEFINE u == [fresh EXCEPT !.mode = "paused-snapshot-owed",
                                !.held = IF deep THEN s.total ELSE None]
  <2>1. Shaped(u)
    BY <1>2, Zenon DEF Shaped, Fields
  <2>2. /\ u.total = fresh.total /\ u.drawn = fresh.drawn
        /\ u.shown = fresh.shown /\ u.grid = fresh.grid
        /\ u.buffered = fresh.buffered /\ u.mode = "paused-snapshot-owed"
        /\ u.whole = fresh.whole /\ u.fits = fresh.fits /\ u.denied = fresh.denied
        /\ u.sentOffset = fresh.sentOffset /\ u.sendBuffer = fresh.sendBuffer
        /\ u.desynced = fresh.desynced /\ u.immediate = fresh.immediate
        /\ u.flushNext = fresh.flushNext /\ u.refused = fresh.refused
        /\ u.stall = fresh.stall /\ u.held = IF deep THEN s.total ELSE None
    BY <1>2 DEF Shaped, Fields
  <2> HIDE DEF u
  <2>3. Right(u, size)
    <3>1. Leaves(fresh, u)
      BY <2>1, <2>2 DEF Leaves
    <3>2. /\ u.sentOffset \in 0..fresh.total /\ u.sendBuffer \in Nat
          /\ u.refused \in 0..size \cup {None} /\ u.held \in Nat \cup {None}
      BY <1>3, <1>4, <2>2
    <3>3. u.mode \in Modes
      BY <2>2 DEF Modes
    <3> QED
      BY <1>3, <1>4, <1>5, <2>2, <3>1, <3>2, <3>3, LeavesRight
  <2>4. u.held # None => u.held <= u.total /\ DrawnFrom(u, u.held, size)
    BY <1>3, <1>4, <2>2 DEF DrawnFrom
  <2>5. Owes(u, size)
    BY <1>3, <2>2, <2>4 DEF Owes
  <2>6. Knows(u, size) /\ u.sendBuffer = 0
    BY <1>3, <2>2 DEF Knows
  <2>7. Runs(u, size) /\ size # None
    BY <1>4, <2>5 DEF Runs, None
  <2>8. s' = u /\ resizeAtPause' = size /\ open' = TRUE /\ size' = size
    BY <1>7 DEF Attach, u
  <2>9. size \in 0..MaxSize /\ size \in 0..size \cup {None}
    BY <1>4 DEF StreamInv
  <2> QED
    BY <2>3, <2>6, <2>7, <2>8, <2>9, Sizes DEF StreamInv
<1> QED
  BY <1>6, <1>7 DEF Attach, fresh, framed

LEMMA CloseInv == StreamInv /\ Close => StreamInv'
  BY GoneRight DEF StreamInv, Close

LEMMA RebaselineInv == StreamInv /\ Rebaseline => StreamInv'
<1> SUFFICES ASSUME StreamInv, Rebaseline PROVE StreamInv'
  OBVIOUS
<1>1. Right(Detached(0, <<>>), size)
  <2>1. /\ 0 \in 0..MaxTotal /\ <<>> \in Seq(0..MaxSize) /\ Len(<<>>) = 0
        /\ size \in Nat
    BY Sizes DEF StreamInv
  <2> QED
    BY <2>1, DetachedRight
<1>2. Detached(0, <<>>).sendBuffer = 0
  BY DEF Detached
<1> QED
  BY <1>1, <1>2, Sizes DEF StreamInv, Rebaseline

LEMMA OutputInv ==
  StreamInv /\ Output
    => /\ StreamInv'
       /\ open /\ s.mode # "streaming" => s'.shown = s.shown
<1> SUFFICES ASSUME StreamInv, Output
             PROVE  /\ StreamInv'
                    /\ open /\ s.mode # "streaming" => s'.shown = s.shown
  OBVIOUS
<1> DEFINE t == [s EXCEPT !.total = @ + 1, !.drawn = Append(@, size)]
<1>1. size \in 0..MaxSize /\ size \in Nat /\ Right(s, size) /\ s.total < MaxTotal
  BY Sizes DEF StreamInv, Output
<1>2. /\ Right(t, size) /\ t.total = s.total + 1
      /\ t.mode = s.mode /\ t.sentOffset = s.sentOffset
      /\ t.sendBuffer = s.sendBuffer /\ t.desynced = s.desynced
      /\ t.held = s.held /\ t.shown = s.shown /\ t.grid = s.grid
      /\ t.denied = s.denied /\ t.refused = s.refused
      /\ \A n \in Nat, g \in 0..size : DrawnFrom(s, n, g) => DrawnFrom(t, n, g)
  BY <1>1, AppendRight
<1>3. /\ ~open => s' = t
      /\ open => \E beats \in BOOLEAN : s' = OnData(t, beats)
      /\ UNCHANGED <<size, open, resizeAtPause>>
  BY DEF Output
<1> HIDE DEF t
<1>4. /\ s.grid \in 0..size /\ s.sentOffset \in Nat /\ s.sendBuffer \in Nat
      /\ s.total \in Nat /\ s.sendBuffer < MaxSendBuffer
  BY DEF StreamInv, Right, Streams
<1>5. Knows(s, size) => Knows(t, size)
  BY <1>2 DEF Knows
<1>6. CASE ~open
  BY <1>2, <1>3, <1>4, <1>6 DEF StreamInv
<1>7. CASE open /\ resizeAtPause = None
  <2>1. Flows(s) /\ Knows(s, size)
    BY <1>7 DEF StreamInv, Runs
  <2>2. Follows(t)
    BY <1>2, <1>4, <2>1 DEF Flows, Follows, Denied
  <2>3. t.mode = "streaming"
    BY <1>2, <2>1 DEF Flows
  <2>4. ~t.desynced => t.sentOffset + t.sendBuffer + 1 = t.total
    BY <1>2, <1>4, <2>1 DEF Flows
  <2>5. PICK beats \in BOOLEAN : s' = OnData(t, beats)
    BY <1>3, <1>7
  <2>6. /\ Carries(t, OnData(t, beats), size) /\ Flows(OnData(t, beats))
        /\ OnData(t, beats).sendBuffer < MaxSendBuffer
    BY <1>1, <1>2, <1>4, <2>2, <2>3, <2>4, OnDataFlows
  <2> QED
    BY <1>2, <1>3, <1>5, <1>7, <2>1, <2>3, <2>5, <2>6 DEF StreamInv, Carries, Runs
<1>8. CASE open /\ resizeAtPause # None
  <2>1. Rests(s, resizeAtPause) \/ Owes(s, resizeAtPause)
    BY <1>8 DEF StreamInv, Runs
  <2>2. resizeAtPause \in 0..size
    BY <1>8 DEF StreamInv
  <2>3. t.mode # "streaming"
    BY <1>2, <1>8, HiddenIsPaused
  <2>4. PICK beats \in BOOLEAN : s' = OnData(t, beats)
    BY <1>3, <1>8
  <2>5. Rests(s, resizeAtPause) => Rests(t, resizeAtPause)
    BY <1>2, <1>4, <2>2 DEF Rests, Denied
  <2>6. Owes(s, resizeAtPause) => Owes(t, resizeAtPause)
    <3>1. s.held # None => s.held \in Nat
      BY DEF StreamInv, Right, Streams
    <3>2. t.held # None => t.held <= t.total \/ ~Owes(s, resizeAtPause)
      BY <1>2, <1>4, <3>1 DEF Owes
    <3>3. t.held # None => DrawnFrom(t, t.held, resizeAtPause) \/ ~Owes(s, resizeAtPause)
      BY <1>2, <2>2, <3>1 DEF Owes
    <3> QED
      BY <1>2, <3>2, <3>3, Zenon DEF Owes
  <2>7. Runs(t, resizeAtPause)
    BY <1>8, <2>1, <2>5, <2>6 DEF Runs
  <2>8. /\ Right(s', size) /\ (Knows(t, size) => Knows(s', size))
        /\ s'.sendBuffer = t.sendBuffer /\ s'.shown = t.shown
        /\ Runs(t, resizeAtPause) => Runs(s', resizeAtPause)
    BY <1>1, <1>2, <2>3, <2>4, BeatRight
  <2> QED
    BY <1>2, <1>3, <1>4, <1>5, <1>8, <2>7, <2>8 DEF StreamInv
<1> QED
  BY <1>6, <1>7, <1>8 DEF StreamInv

LEMMA ResizeInv ==
  StreamInv /\ Resize
    => /\ StreamInv'
       /\ open /\ s.mode # "streaming" => s'.shown = s.shown
<1> SUFFICES ASSUME StreamInv, Resize
             PROVE  /\ StreamInv'
                    /\ open /\ s.mode # "streaming" => s'.shown = s.shown
  OBVIOUS
<1>1. /\ size \in Nat /\ size' = size + 1 /\ size' \in 0..MaxSize
      /\ resizeAtPause' \in 0..size' \cup {None} /\ open' \in BOOLEAN
  BY Sizes DEF StreamInv, Resize
<1>2. CASE ~open
  <2>1. Right(s, size + 1)
    BY <1>1, RightLater DEF StreamInv
  <2> QED
    BY <1>1, <1>2, <2>1 DEF StreamInv, Resize
<1>3. CASE open
  <2> DEFINE u == OutOfBand(s, size + 1)
  <2>1. Flows(s) \/ (s.mode # "streaming" /\ s.sendBuffer = 0)
    <3>1. CASE resizeAtPause = None
      BY <1>3, <3>1 DEF StreamInv, Runs
    <3>2. CASE resizeAtPause # None
      BY <1>3, <3>2, HiddenIsPaused
    <3> QED
      BY <3>1, <3>2
  <2>2. /\ Right(u, size + 1) /\ Knows(u, size + 1) /\ u.sendBuffer = 0
        /\ Flows(s) => Flows(u)
        /\ s.mode # "streaming" => u.shown = s.shown
        /\ \A r : Rests(s, r) => Rests(u, r)
        /\ \A r : Owes(s, r) => Owes(u, r)
    BY <1>1, <2>1, OutOfBandRight DEF StreamInv
  <2> HIDE DEF u
  <2>3. Runs(s, resizeAtPause) => Runs(u, resizeAtPause)
    BY <2>2 DEF Runs
  <2>4. s' = u /\ UNCHANGED <<open, resizeAtPause>>
    BY <1>3 DEF Resize, u
  <2> QED
    BY <1>1, <1>3, <2>2, <2>3, <2>4, Sizes DEF StreamInv
<1> QED
  BY <1>2, <1>3

\* A step that keeps what matters of the stream keeps the invariant.
LEMMA SameRuns ==
  ASSUME StreamInv, UNCHANGED <<size, open, resizeAtPause>>, open,
         Right(s', size), Knows(s, size) => Knows(s', size),
         s'.sendBuffer = s.sendBuffer,
         Runs(s, resizeAtPause) => Runs(s', resizeAtPause)
  PROVE  StreamInv'
  BY DEF StreamInv

LEMMA InputInv ==
  StreamInv /\ Input => StreamInv' /\ s'.shown = s.shown
<1> SUFFICES ASSUME StreamInv, Input PROVE StreamInv' /\ s'.shown = s.shown
  OBVIOUS
<1> DEFINE u == [s EXCEPT !.flushNext = TRUE]
<1>1. /\ size \in Nat /\ Right(s, size) /\ open /\ s' = u
      /\ UNCHANGED <<size, open, resizeAtPause>>
  BY DEF StreamInv, Input
<1>2. Shaped(u)
  BY <1>1, Zenon DEF Shaped, Right, Fields
<1>3. /\ u.total = s.total /\ u.drawn = s.drawn /\ u.shown = s.shown
      /\ u.grid = s.grid /\ u.buffered = s.buffered /\ u.mode = s.mode
      /\ u.whole = s.whole /\ u.fits = s.fits /\ u.denied = s.denied
      /\ u.sentOffset = s.sentOffset /\ u.sendBuffer = s.sendBuffer
      /\ u.desynced = s.desynced /\ u.immediate = s.immediate
      /\ u.flushNext = TRUE /\ u.refused = s.refused
      /\ u.stall = s.stall /\ u.held = s.held
  BY <1>1 DEF Shaped, Right, Fields
<1> HIDE DEF u
<1>4. Leaves(s, u) /\ Keeps(s, u)
  BY <1>2, <1>3 DEF Leaves, Keeps
<1>5. u.immediate \in BOOLEAN /\ u.flushNext \in BOOLEAN /\ u.stall \in BOOLEAN
  BY <1>1, <1>3, RightTypes, Zenon
<1>6. /\ Right(u, size) /\ (Knows(s, size) => Knows(u, size))
      /\ u.sendBuffer = s.sendBuffer
      /\ Runs(s, resizeAtPause) => Runs(u, resizeAtPause)
  BY <1>1, <1>3, <1>4, <1>5, NotesRight
<1> QED
  BY <1>1, <1>3, <1>6, SameRuns

LEMMA FlushInv ==
  StreamInv /\ Flush
    => /\ StreamInv'
       /\ s.mode # "streaming" => s'.shown = s.shown
<1> SUFFICES ASSUME StreamInv, Flush
             PROVE  /\ StreamInv'
                    /\ s.mode # "streaming" => s'.shown = s.shown
  OBVIOUS
<1> DEFINE u == [s EXCEPT !.immediate = FALSE]
<1>1. /\ size \in Nat /\ Right(s, size) /\ open /\ s' = FlushSend(u)
      /\ UNCHANGED <<size, open, resizeAtPause>>
  BY DEF StreamInv, Flush
<1>2. Shaped(u)
  BY <1>1, Zenon DEF Shaped, Right, Fields
<1>3. /\ u.total = s.total /\ u.drawn = s.drawn /\ u.shown = s.shown
      /\ u.grid = s.grid /\ u.buffered = s.buffered /\ u.mode = s.mode
      /\ u.whole = s.whole /\ u.fits = s.fits /\ u.denied = s.denied
      /\ u.sentOffset = s.sentOffset /\ u.sendBuffer = s.sendBuffer
      /\ u.desynced = s.desynced /\ u.immediate = FALSE
      /\ u.flushNext = s.flushNext /\ u.refused = s.refused
      /\ u.stall = s.stall /\ u.held = s.held
  BY <1>1 DEF Shaped, Right, Fields
<1> HIDE DEF u
<1>4. Leaves(s, u) /\ Keeps(s, u)
  BY <1>2, <1>3 DEF Leaves, Keeps
<1>5. u.immediate \in BOOLEAN /\ u.flushNext \in BOOLEAN /\ u.stall \in BOOLEAN
  BY <1>1, <1>3, RightTypes, Zenon
<1>6. /\ Right(u, size) /\ (Knows(s, size) => Knows(u, size))
      /\ u.sendBuffer = s.sendBuffer
      /\ Runs(s, resizeAtPause) => Runs(u, resizeAtPause)
  BY <1>1, <1>3, <1>4, <1>5, NotesRight
<1>7. CASE s.mode = "streaming"
  <2>1. resizeAtPause = None /\ Flows(u) /\ Knows(u, size)
    BY <1>1, <1>6, <1>7, HiddenIsPaused DEF StreamInv, Runs
  <2>2. /\ Carries(u, FlushSend(u), size) /\ Flows(FlushSend(u))
        /\ FlushSend(u).sendBuffer = 0
    BY <1>1, <1>6, <2>1, FlushSendFlows
  <2> QED
    BY <1>1, <1>7, <2>1, <2>2, Sizes DEF StreamInv, Runs, Carries
<1>8. CASE s.mode # "streaming"
  <2>1. s' = u
    BY <1>1, <1>3, <1>8, HiddenIsPaused, FlushSendRests
  <2> QED
    BY <1>1, <1>3, <1>6, <2>1, SameRuns
<1> QED
  BY <1>7, <1>8

LEMMA DrainInv ==
  StreamInv /\ Drain => StreamInv' /\ s'.shown = s.shown
<1> SUFFICES ASSUME StreamInv, Drain PROVE StreamInv' /\ s'.shown = s.shown
  OBVIOUS
<1> DEFINE u == [s EXCEPT !.buffered = @ - 1]
<1>1. /\ size \in Nat /\ Right(s, size) /\ open /\ s.buffered > 0
      /\ s' = u /\ UNCHANGED <<size, open, resizeAtPause>>
  BY DEF StreamInv, Drain
<1>2. /\ Right(u, size) /\ (Knows(s, size) => Knows(u, size))
      /\ u.sendBuffer = s.sendBuffer /\ u.shown = s.shown
      /\ Runs(s, resizeAtPause) => Runs(u, resizeAtPause)
  <2>1. s.buffered - 1 \in Nat
    BY <1>1 DEF Right, Streams
  <2> QED
    BY <1>1, <2>1, BufferRight
<1> HIDE DEF u
<1> QED
  BY <1>1, <1>2, SameRuns

LEMMA PauseInv ==
  StreamInv /\ PauseOutput
    => /\ StreamInv'
       /\ s.mode # "streaming" => s'.shown = s.shown
<1> SUFFICES ASSUME StreamInv, PauseOutput
             PROVE  /\ StreamInv'
                    /\ s.mode # "streaming" => s'.shown = s.shown
  OBVIOUS
<1>1. size \in Nat /\ Right(s, size) /\ open /\ UNCHANGED <<size, open>>
  BY DEF StreamInv, PauseOutput
<1>2. CASE s.mode # "streaming"
  <2>1. s' = s /\ resizeAtPause' = resizeAtPause
    BY <1>1, <1>2, HiddenIsPaused DEF PauseOutput
  <2> QED
    BY <1>1, <2>1, SameRuns DEF StreamInv
<1>3. CASE s.mode = "streaming"
  <2> DEFINE f == FlushSend(s)
             u == [f EXCEPT !.mode = "paused"]
  <2>1. resizeAtPause = None /\ Flows(s) /\ Knows(s, size)
    BY <1>1, <1>3, HiddenIsPaused DEF StreamInv, Runs
  <2>2. Carries(s, f, size) /\ Flows(f) /\ f.sendBuffer = 0
    BY <1>1, <2>1, FlushSendFlows
  <2> HIDE DEF f
  <2>3. Right(f, size) /\ Knows(f, size)
    BY <2>1, <2>2 DEF Carries
  <2>4. Shaped(u)
    BY <2>3, Zenon DEF Shaped, Right, Fields
  <2>5. /\ u.total = f.total /\ u.drawn = f.drawn /\ u.shown = f.shown
        /\ u.grid = f.grid /\ u.buffered = f.buffered /\ u.mode = "paused"
        /\ u.whole = f.whole /\ u.fits = f.fits /\ u.denied = f.denied
        /\ u.sentOffset = f.sentOffset /\ u.sendBuffer = f.sendBuffer
        /\ u.desynced = f.desynced /\ u.immediate = f.immediate
        /\ u.flushNext = f.flushNext /\ u.refused = f.refused
        /\ u.stall = f.stall /\ u.held = f.held
    BY <2>3 DEF Shaped, Right, Fields
  <2> HIDE DEF u
  <2>6. Right(u, size)
    <3>1. Leaves(f, u)
      BY <2>4, <2>5 DEF Leaves
    <3>2. /\ u.sentOffset \in 0..f.total /\ u.sendBuffer \in Nat
          /\ u.refused \in 0..size \cup {None}
      BY <1>1, <2>3, <2>5, RightTypes
    <3>3. /\ u.held \in Nat \cup {None}
          /\ u.desynced \in BOOLEAN /\ u.immediate \in BOOLEAN
          /\ u.flushNext \in BOOLEAN /\ u.stall \in BOOLEAN
      BY <1>1, <2>3, <2>5, RightTypes, Zenon
    <3>4. u.mode \in Modes
      BY <2>5 DEF Modes
    <3> QED
      BY <1>1, <2>3, <3>1, <3>2, <3>3, <3>4, LeavesRight
  <2>7. Rests(u, size)
    <3>1. Denied(u) \/ (u.shown = u.sentOffset /\ DrawnFrom(u, u.sentOffset, u.grid))
      BY <2>2, <2>5 DEF Flows, Follows, DrawnFrom, Denied
    <3>2. ~u.desynced => DrawnFrom(u, u.sentOffset, size)
      <4>1. HAVE ~u.desynced
      <4>2. u.sentOffset = u.total /\ u.total \in Nat
        BY <2>2, <2>3, <2>5, <4>1 DEF Flows, Right, Streams
      <4> QED
        BY <4>2 DEF DrawnFrom
    <3> QED
      BY <2>2, <2>5, <3>1, <3>2 DEF Rests, Denied
  <2>8. Runs(u, size) /\ Knows(u, size) /\ u.sendBuffer < MaxSendBuffer
    BY <1>1, <2>2, <2>3, <2>5, <2>7, Sizes DEF Runs, Knows, None
  <2>9. s' = u /\ resizeAtPause' = size
    BY <1>3, <2>1 DEF PauseOutput, u, f
  <2>10. size \in 0..MaxSize /\ size \in 0..size \cup {None}
    BY <1>1 DEF StreamInv
  <2> QED
    BY <1>1, <1>3, <2>6, <2>8, <2>9, <2>10 DEF StreamInv
<1> QED
  BY <1>2, <1>3

LEMMA ResumeInv == StreamInv /\ ResumeOutput => StreamInv' /\ s'.mode = "streaming"
<1> SUFFICES ASSUME StreamInv, ResumeOutput
             PROVE  StreamInv' /\ s'.mode = "streaming"
  OBVIOUS
<1> DEFINE t == [s EXCEPT !.mode = "streaming", !.held = None]
           resized == size # resizeAtPause
           v == IF s.mode = "paused" THEN Resume(t, resized)
                ELSE ResumeOwed(t, s.held, resized)
           u == [v EXCEPT !.resumedBehind = v.desynced /\ ~v.stall]
<1>1. /\ size \in Nat /\ Right(s, size) /\ open /\ UNCHANGED <<size, open>>
      /\ s' = u /\ resizeAtPause' = None /\ resizeAtPause # None
      /\ s.mode # "streaming" /\ Knows(s, size)
  BY DEF StreamInv, ResumeOutput
<1>2. Shaped(t)
  BY <1>1, Zenon DEF Shaped, Right, Fields
<1>3. /\ t.total = s.total /\ t.drawn = s.drawn /\ t.shown = s.shown
      /\ t.grid = s.grid /\ t.buffered = s.buffered /\ t.mode = "streaming"
      /\ t.whole = s.whole /\ t.fits = s.fits /\ t.denied = s.denied
      /\ t.sentOffset = s.sentOffset /\ t.sendBuffer = s.sendBuffer
      /\ t.desynced = s.desynced /\ t.immediate = s.immediate
      /\ t.flushNext = s.flushNext /\ t.refused = s.refused
      /\ t.stall = s.stall /\ t.held = None
  BY <1>1 DEF Shaped, Right, Fields
<1> HIDE DEF t
<1>4. Right(t, size)
  <2>1. Leaves(s, t)
    BY <1>2, <1>3 DEF Leaves
  <2>2. /\ t.sentOffset \in 0..s.total /\ t.sendBuffer \in Nat
        /\ t.refused \in 0..size \cup {None} /\ t.held \in Nat \cup {None}
    BY <1>1, <1>3, RightTypes
  <2>3. /\ t.desynced \in BOOLEAN /\ t.immediate \in BOOLEAN
        /\ t.flushNext \in BOOLEAN /\ t.stall \in BOOLEAN
    BY <1>1, <1>3, RightTypes, Zenon
  <2>4. t.mode \in Modes
    BY <1>3 DEF Modes
  <2> QED
    BY <1>1, <2>1, <2>2, <2>3, <2>4, LeavesRight
<1>5. \A n, g : DrawnFrom(s, n, g) <=> DrawnFrom(t, n, g)
  BY <1>3 DEF DrawnFrom
<1>6. Carries(t, v, size) /\ Flows(v) /\ v.sendBuffer = 0
  <2>1. CASE Rests(s, resizeAtPause)
    <3>1. t.sendBuffer = 0
      BY <1>3, <2>1 DEF Rests, Denied
    <3>2. \/ Denied(t)
          \/ /\ t.shown = t.sentOffset
             /\ t.desynced => DrawnFrom(t, t.sentOffset, t.grid)
             /\ ~resized /\ ~t.desynced => DrawnFrom(t, t.sentOffset, size)
      BY <1>3, <1>5, <2>1 DEF Rests, Denied
    <3>4. v = Resume(t, resized)
      BY <2>1 DEF Rests, Denied
    <3> HIDE DEF v, resized
    <3> QED
      BY <1>1, <1>3, <1>4, <3>1, <3>2, <3>4, ResumeFlows
  <2>2. CASE Owes(s, resizeAtPause)
    <3>1. s.held \in Nat \cup {None}
      BY <1>1, RightTypes
    <3>2. s.held # None => /\ s.held <= t.total
                           /\ ~resized => DrawnFrom(t, s.held, size)
      BY <1>3, <1>5, <2>2 DEF Owes
    <3>3. v = ResumeOwed(t, s.held, resized)
      BY <2>2 DEF Owes
    <3> HIDE DEF v, resized
    <3> QED
      BY <1>1, <1>3, <1>4, <3>1, <3>2, <3>3, ResumeOwedFlows
  <2> QED
    BY <1>1, <2>1, <2>2 DEF StreamInv, Runs
<1> HIDE DEF v
<1>7. Right(v, size) /\ Knows(v, size)
  BY <1>1, <1>3, <1>6 DEF Carries, Knows
<1>8. Shaped(u)
  BY <1>7, Zenon DEF Shaped, Right, Fields
<1>9. /\ u.total = v.total /\ u.drawn = v.drawn /\ u.shown = v.shown
      /\ u.grid = v.grid /\ u.buffered = v.buffered /\ u.mode = v.mode
      /\ u.whole = v.whole /\ u.fits = v.fits /\ u.denied = v.denied
      /\ u.sentOffset = v.sentOffset /\ u.sendBuffer = v.sendBuffer
      /\ u.desynced = v.desynced /\ u.immediate = v.immediate
      /\ u.flushNext = v.flushNext /\ u.refused = v.refused
      /\ u.stall = v.stall /\ u.held = v.held
  BY <1>7 DEF Shaped, Right, Fields
<1> HIDE DEF u
<1>10. Leaves(v, u) /\ Keeps(v, u)
  BY <1>8, <1>9 DEF Leaves, Keeps
<1>11. u.immediate \in BOOLEAN /\ u.flushNext \in BOOLEAN /\ u.stall \in BOOLEAN
  BY <1>1, <1>7, <1>9, RightTypes, Zenon
<1>12. /\ Right(u, size) /\ Knows(u, size) /\ u.sendBuffer = 0 /\ Flows(u)
  BY <1>1, <1>6, <1>7, <1>9, <1>10, <1>11, NotesRight
<1>13. u.mode = "streaming" /\ None \in 0..size \cup {None}
  BY <1>12 DEF Flows
<1> QED
  BY <1>1, <1>12, <1>13, Sizes DEF StreamInv, Runs

LEMMA StallInv ==
  StreamInv /\ StallFires
    => /\ StreamInv'
       /\ open' /\ s.mode # "streaming" => s'.shown = s.shown
<1> SUFFICES ASSUME StreamInv, StallFires
             PROVE  /\ StreamInv'
                    /\ open' /\ s.mode # "streaming" => s'.shown = s.shown
  OBVIOUS
<1> DEFINE u == [s EXCEPT !.stall = FALSE]
           b == Backfill(u)
           t == FlushRefused(b)
<1>1. /\ size \in Nat /\ Right(s, size) /\ open /\ size' = size
      /\ open' = (t.buffered <= LowWater)
      /\ s' = (IF open' THEN t ELSE Gone)
      /\ resizeAtPause' = (IF open' THEN resizeAtPause ELSE None)
  BY DEF StreamInv, StallFires
<1>2. Shaped(u)
  BY <1>1, Zenon DEF Shaped, Right, Fields
<1>3. /\ u.total = s.total /\ u.drawn = s.drawn /\ u.shown = s.shown
      /\ u.grid = s.grid /\ u.buffered = s.buffered /\ u.mode = s.mode
      /\ u.whole = s.whole /\ u.fits = s.fits /\ u.denied = s.denied
      /\ u.sentOffset = s.sentOffset /\ u.sendBuffer = s.sendBuffer
      /\ u.desynced = s.desynced /\ u.immediate = s.immediate
      /\ u.flushNext = s.flushNext /\ u.refused = s.refused
      /\ u.stall = FALSE /\ u.held = s.held
  BY <1>1 DEF Shaped, Right, Fields
<1> HIDE DEF u
<1>4. Leaves(s, u) /\ Keeps(s, u)
  BY <1>2, <1>3 DEF Leaves, Keeps
<1>5. u.immediate \in BOOLEAN /\ u.flushNext \in BOOLEAN /\ u.stall \in BOOLEAN
  BY <1>1, <1>3, RightTypes, Zenon
<1>6. /\ Right(u, size) /\ Knows(u, size)
      /\ u.sendBuffer = s.sendBuffer /\ Runs(u, resizeAtPause)
  BY <1>1, <1>3, <1>4, <1>5, NotesRight DEF StreamInv
<1>7. /\ Right(b, size) /\ Knows(b, size) /\ Runs(b, resizeAtPause)
      /\ b.sendBuffer < MaxSendBuffer
      /\ s.mode # "streaming" => b = u
  <2>1. CASE s.mode = "streaming"
    <3>1. resizeAtPause = None /\ Flows(u)
      BY <1>1, <1>6, <2>1, HiddenIsPaused DEF Runs
    <3>2. /\ Carries(u, b, size) /\ Flows(b)
          /\ ~u.desynced \/ Over(u) => b = u
          /\ u.desynced /\ ~Over(u) => b.sendBuffer = 0
      BY <1>1, <1>6, <3>1, BackfillFlows
    <3> HIDE DEF b
    <3>3. b.sendBuffer < MaxSendBuffer
      BY <1>6, <3>2, Sizes DEF StreamInv
    <3> QED
      BY <1>6, <2>1, <3>1, <3>2, <3>3 DEF Carries, Runs
  <2>2. CASE s.mode # "streaming"
    <3>1. b = u
      BY <1>3, <2>2 DEF Backfill
    <3> HIDE DEF b
    <3> QED
      BY <1>6, <3>1 DEF StreamInv
  <2> QED
    BY <2>1, <2>2
<1> HIDE DEF b
<1>8. /\ Right(t, size) /\ Keeps(b, t) /\ t.shown = b.shown
      /\ (Knows(b, size) => Knows(t, size))
  BY <1>1, <1>7, FlushRefusedRight
<1>9. Runs(b, resizeAtPause) => Runs(t, resizeAtPause)
  <2>1. Flows(b) => Flows(t)
    BY <1>1, <1>7, FlushRefusedFlows
  <2>2. /\ Rests(b, resizeAtPause) => Rests(t, resizeAtPause)
        /\ Owes(b, resizeAtPause) => Owes(t, resizeAtPause)
    BY <1>1, <1>7, FlushRefusedRests
  <2> HIDE DEF t
  <2> QED
    BY <2>1, <2>2 DEF Runs
<1> HIDE DEF t
<1>10. t.sendBuffer < MaxSendBuffer /\ (s.mode # "streaming" => t.shown = s.shown)
  BY <1>3, <1>7, <1>8 DEF Keeps
<1>11. CASE open'
  BY <1>1, <1>7, <1>8, <1>9, <1>10, <1>11 DEF StreamInv
<1>12. CASE ~open'
  <2>1. open' = FALSE
    BY <1>1, <1>12
  <2> QED
    BY <1>1, <1>12, <2>1, GoneRight DEF StreamInv
<1> QED
  BY <1>11, <1>12

LEMMA StreamNext == StreamInv /\ [Next]_dataVars => StreamInv'
<1> SUFFICES ASSUME StreamInv, [Next]_dataVars PROVE StreamInv'
  OBVIOUS
<1>1. CASE UNCHANGED dataVars
  BY <1>1 DEF dataVars, StreamInv
<1> QED
  BY <1>1, AttachInv, CloseInv, RebaselineInv, OutputInv, ResizeInv, InputInv,
     FlushInv, DrainInv, PauseInv, ResumeInv, StallInv DEF Next

LEMMA StreamAlways == Spec => []StreamInv
  BY StreamInit, StreamNext, PTL DEF Spec

\* The terminal of an open socket shows the output without a gap or a repeat,
\* each chunk on a grid it was drawn for, unless its last resume needed a screen
\* and found the socket full; and it knows the session's grid, or its sender does.
THEOREM TerminalIsRight == Spec => []StreamIsRight
<1>1. StreamInv => StreamIsRight
  <2> SUFFICES ASSUME StreamInv PROVE StreamIsRight
    OBVIOUS
  <2>1. Right(s, size) /\ size \in Nat
    BY DEF StreamInv
  <2>2. TypeOK
    <3>1. /\ size \in 0..MaxSize /\ open \in BOOLEAN
          /\ resizeAtPause \in 0..MaxSize \cup {None}
      BY Sizes DEF StreamInv
    <3>2. /\ s.total \in 0..MaxTotal /\ s.sentOffset \in 0..s.total
          /\ s.shown \in 0..s.total /\ s.grid \in 0..size /\ s.buffered \in Nat
      BY <2>1, Sizes DEF Right, Streams
    <3>3. s.sendBuffer \in 0..MaxSendBuffer - 1
      BY <2>1, Sizes DEF StreamInv, Right, Streams
    <3>4. s.drawn \in Seq(0..MaxSize) /\ Len(s.drawn) = s.total /\ s.mode \in Modes
      BY <2>1, Zenon DEF Right, Streams
    <3>5. {s.held, s.refused} \subseteq Nat \cup {None}
      BY <2>1 DEF Right, Streams
    <3> QED
      BY <3>1, <3>2, <3>3, <3>4, <3>5, Zenon DEF TypeOK
  <2>3. s.denied \/ (Whole /\ MatchesGrid)
    BY <2>1, Zenon DEF Right, Sound, Whole, MatchesGrid, Denied
  <2>4. GridKnown
    BY DEF StreamInv, Knows, GridKnown
  <2> QED
    BY <2>2, <2>3, <2>4 DEF StreamIsRight
<1> QED
  BY <1>1, StreamAlways, PTL

\* No output, resize or timer brings bytes to a terminal that is hidden.
THEOREM HiddenIsQuiet == Spec => PausedIsQuiet
<1> DEFINE Quiet == open /\ open' /\ s.mode # "streaming" /\ s'.mode # "streaming"
                      => s'.shown = s.shown
<1>1. StreamInv /\ [Next]_dataVars => [Quiet]_dataVars
  <2> SUFFICES ASSUME StreamInv, Next, open, open', s.mode # "streaming",
                      s'.mode # "streaming"
               PROVE  s'.shown = s.shown
    OBVIOUS
  <2>1. ~Attach /\ ~Close /\ ~Rebaseline
    BY DEF Attach, Close, Rebaseline
  <2> QED
    BY <2>1, OutputInv, ResizeInv, InputInv, FlushInv, DrainInv, PauseInv,
       ResumeInv, StallInv DEF Next
<1> QED
  BY <1>1, StreamAlways, PTL DEF Spec, PausedIsQuiet
=============================================================================
