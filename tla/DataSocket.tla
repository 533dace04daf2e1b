----------------------------- MODULE DataSocket -----------------------------
(* One terminal stream, from a session's output ring to a browser's terminal *)
(* (createOutputRing in src/session/core/output-ring.ts, createWsSender in   *)
(* src/server/ws-sender.ts, wireDataSocket in src/server/backend/            *)
(* backend-websockets.ts).  Output is counted in chunks: chunk n is the one  *)
(* that made the ring's total n.  A socket that is behind drops what it      *)
(* cannot take and later refills from the ring; a hidden card pauses the     *)
(* stream; the size of the grid goes beside it.                              *)
EXTENDS Integers, Sequences

CONSTANTS
  RingMax,          \* chunks the ring keeps
  MaxSendBuffer,    \* chunks that force a flush, and that a resume replays
  HighWater,        \* over this much in the socket's buffer nothing is sent
  LowWater,         \* over this much a stalled socket is closed
  SnapshotSize,     \* chunks a screen takes in the socket's buffer
  FrameSize,        \* chunks that a size, or a beat of output, takes there
  MaxTotal,         \* bound on the chunks of one run of the session
  MaxSize           \* bound on the resizes

ASSUME SizesAssumption ==
  /\ {RingMax, MaxSendBuffer, HighWater, MaxTotal} \subseteq Nat \ {0}
  /\ {LowWater, SnapshotSize, FrameSize, MaxSize} \subseteq Nat
  /\ LowWater < HighWater

VARIABLES
  size,           \* _resizeSeq: the grid of the session
  open,           \* readyState is OPEN
  resizeAtPause,  \* resizeSeqAtPause
  s               \* the ring, the sender, the socket, the browser's terminal

dataVars == <<size, open, resizeAtPause, s>>

None == -1

Modes == {"streaming", "paused", "paused-snapshot-owed"}

RingBase(t) == IF t.total > RingMax THEN t.total - RingMax ELSE 0

Over(t) == t.buffered > HighWater

Streaming == open /\ s.mode = "streaming"

-----------------------------------------------------------------------------
(* The browser: bytes are written at the end of what the terminal shows, a   *)
(* reset clears it first, a size changes its grid.                           *)

Play(t, from, upto) ==
  IF from = upto THEN t
  ELSE [t EXCEPT !.shown = upto, !.buffered = @ + (upto - from),
                 !.whole = @ /\ from = t.shown,
                 !.fits = @ /\ \A i \in (from + 1)..upto : t.drawn[i] >= t.grid,
                 !.resumedBehind = FALSE]

Redraw(t, upto, bytes) ==
  [t EXCEPT !.shown = upto, !.buffered = @ + bytes,
            !.whole = TRUE, !.fits = TRUE, !.resumedBehind = FALSE, !.denied = FALSE]

SizeFrame(t, n) ==
  [t EXCEPT !.buffered = @ + FrameSize, !.grid = IF n <= @ THEN @ ELSE n]

-----------------------------------------------------------------------------
(* The sender. *)

FlushRefused(t) ==
  IF t.refused = None \/ t.desynced \/ t.sendBuffer > 0 \/ Over(t) THEN t
  ELSE SizeFrame([t EXCEPT !.refused = None], t.refused)

\* Mutant: a paused socket is refilled as well.
BackfillPaused(t) ==
  IF ~t.desynced \/ Over(t) THEN t
  ELSE FlushRefused(
         [(IF t.sentOffset < RingBase(t)
           THEN Redraw(t, t.total, t.total - RingBase(t))
           ELSE Play(t, t.sentOffset, t.total))
          EXCEPT !.sentOffset = t.total, !.desynced = FALSE,
                 !.sendBuffer = 0, !.stall = FALSE])

Backfill(t) ==
  IF ~t.desynced \/ t.mode # "streaming" \/ Over(t) THEN t
  ELSE FlushRefused(
         [(IF t.sentOffset < RingBase(t)
           THEN Redraw(t, t.total, t.total - RingBase(t))
           ELSE Play(t, t.sentOffset, t.total))
          EXCEPT !.sentOffset = t.total, !.desynced = FALSE,
                 !.sendBuffer = 0, !.stall = FALSE])

FlushBuffer(t) ==
  IF t.sendBuffer = 0 THEN t
  ELSE IF Over(t)
  THEN [t EXCEPT !.sendBuffer = 0, !.desynced = TRUE, !.stall = TRUE]
  ELSE LET upto == t.sentOffset + t.sendBuffer IN
       FlushRefused(Play([t EXCEPT !.sendBuffer = 0, !.stall = FALSE,
                                   !.sentOffset = upto],
                         t.sentOffset, upto))

FlushSend(t) == FlushBuffer(Backfill(t))

OutOfBand(t, n) ==
  LET f == FlushSend(t) IN
  IF f.desynced \/ f.sendBuffer > 0 \/ Over(f)
  THEN [f EXCEPT !.refused = n, !.stall = TRUE]
  ELSE SizeFrame(f, n)

\* sendOutputBeat: a beat is dropped where a size would be kept and sent later.
OutputBeat(t) ==
  IF t.refused # None \/ t.desynced \/ t.sendBuffer > 0 \/ Over(t) THEN t
  ELSE [t EXCEPT !.buffered = @ + FrameSize]

\* A hidden terminal is told of output now and then, and sent none.
OnData(t, beats) ==
  CASE t.mode # "streaming" -> IF beats THEN OutputBeat(t) ELSE t
    [] t.mode = "streaming" /\ t.desynced /\ ~Over(t) -> Backfill(t)
    [] OTHER ->
         LET u == [t EXCEPT !.sendBuffer = @ + 1, !.flushNext = FALSE] IN
         IF t.flushNext \/ u.sendBuffer >= MaxSendBuffer
         THEN FlushSend(u)
         ELSE [u EXCEPT !.immediate = TRUE]

ResetToScreen(t, upto) ==
  IF Over(t)
  THEN [t EXCEPT !.sendBuffer = 0, !.desynced = TRUE, !.stall = TRUE, !.denied = TRUE]
  ELSE FlushRefused(Redraw([t EXCEPT !.sendBuffer = 0, !.desynced = FALSE,
                                     !.stall = FALSE, !.sentOffset = upto],
                           upto, SnapshotSize))

Replay(t) == Backfill([t EXCEPT !.desynced = TRUE])

\* Mutant: the resize while it was paused does not count.
ResumeAtOldSize(t, resized) ==
  LET missed == t.total - t.sentOffset IN
  IF missed <= 0 /\ ~t.desynced THEN t
  ELSE IF missed <= MaxSendBuffer THEN Replay(t)
  ELSE ResetToScreen(t, t.total)

Resume(t, resized) ==
  LET missed == t.total - t.sentOffset IN
  IF missed <= 0 /\ ~t.desynced THEN t
  ELSE IF ~resized /\ missed <= MaxSendBuffer THEN Replay(t)
  ELSE ResetToScreen(t, t.total)

ResumeOwed(t, held, resized) ==
  IF held = None \/ resized \/ t.total - held > MaxSendBuffer
  THEN ResetToScreen(t, t.total)
  ELSE LET shown == ResetToScreen(t, held) IN
       IF t.total <= shown.sentOffset THEN shown ELSE Replay(shown)

-----------------------------------------------------------------------------
(* The life of the socket. *)

Detached(n, drawn) ==
        [total |-> n, drawn |-> drawn, mode |-> "streaming", sentOffset |-> 0, sendBuffer |-> 0,
         desynced |-> FALSE, immediate |-> FALSE, flushNext |-> FALSE,
         refused |-> None, stall |-> FALSE, held |-> None, buffered |-> 0,
         shown |-> 0, grid |-> 0, whole |-> TRUE, fits |-> TRUE,
         \* history: a resume left the stream behind, and no timer with it
         resumedBehind |-> FALSE,
         \* history: a resume found its socket full, and drew no screen
         denied |-> FALSE]

\* The ring outlives its sockets.
Gone == Detached(s.total, s.drawn)

Init ==
  /\ size = 0 /\ open = FALSE /\ resizeAtPause = None
  /\ s = Detached(0, <<>>)

(* The first size frame resets the terminal; a deep attach reads its screen  *)
(* in a promise, and what the client says before is kept until it is wired.  *)
Attach ==
  /\ ~open /\ open' = TRUE
  /\ LET fresh == [SizeFrame(Gone, size) EXCEPT !.sentOffset = s.total] IN
     \/ s' = Redraw(fresh, s.total, SnapshotSize) /\ resizeAtPause' = None
     \/ \E deep \in BOOLEAN :
          /\ s' = [fresh EXCEPT !.mode = "paused-snapshot-owed",
                                !.held = IF deep THEN s.total ELSE None]
          /\ resizeAtPause' = size
  /\ UNCHANGED size

\* The browser leaves, or the network breaks.
Close ==
  /\ open /\ open' = FALSE /\ s' = Gone /\ resizeAtPause' = None
  /\ UNCHANGED size

\* A start of the session: the ring is emptied and its sockets are closed.
Rebaseline ==
  /\ open' = FALSE /\ s' = Detached(0, <<>>)
  /\ resizeAtPause' = None /\ UNCHANGED size

-----------------------------------------------------------------------------
(* What the session, the client and the clock do. *)

\* The chunk is in the ring before its listeners hear of it.
Output ==
  /\ s.total < MaxTotal
  /\ LET t == [s EXCEPT !.total = @ + 1, !.drawn = Append(@, size)] IN
     \/ ~open /\ s' = t
     \/ open /\ \E beats \in BOOLEAN : s' = OnData(t, beats)
  /\ UNCHANGED <<size, open, resizeAtPause>>

Resize ==
  /\ size < MaxSize /\ size' = size + 1
  /\ s' = IF open THEN OutOfBand(s, size + 1) ELSE s
  /\ UNCHANGED <<open, resizeAtPause>>

Input ==
  /\ open /\ s' = [s EXCEPT !.flushNext = TRUE]
  /\ UNCHANGED <<size, open, resizeAtPause>>

Flush ==
  /\ open /\ s.immediate
  /\ s' = FlushSend([s EXCEPT !.immediate = FALSE])
  /\ UNCHANGED <<size, open, resizeAtPause>>

Drain ==
  /\ open /\ s.buffered > 0 /\ s' = [s EXCEPT !.buffered = @ - 1]
  /\ UNCHANGED <<size, open, resizeAtPause>>

PauseOutput ==
  /\ open
  /\ resizeAtPause' = IF resizeAtPause = None THEN size ELSE resizeAtPause
  /\ s' = IF s.mode # "streaming" THEN s
          ELSE [FlushSend(s) EXCEPT !.mode = "paused"]
  /\ UNCHANGED <<size, open>>

ResumeOutput ==
  /\ open /\ resizeAtPause # None /\ resizeAtPause' = None
  /\ s.mode # "streaming"
  /\ LET t == [s EXCEPT !.mode = "streaming", !.held = None]
         resized == size # resizeAtPause
         resumed == IF s.mode = "paused" THEN Resume(t, resized)
                    ELSE ResumeOwed(t, s.held, resized)
     IN s' = [resumed EXCEPT !.resumedBehind = resumed.desynced /\ ~resumed.stall]
  /\ UNCHANGED <<size, open>>

\* Mutant: the timer only ever closes.
StallFiresCloses ==
  /\ open /\ s.stall
  /\ LET t == [s EXCEPT !.stall = FALSE] IN
     /\ open' = (t.buffered <= LowWater)
     /\ s' = IF open' THEN t ELSE Gone
     /\ resizeAtPause' = IF open' THEN resizeAtPause ELSE None
  /\ UNCHANGED size

StallFires ==
  /\ open /\ s.stall
  /\ LET t == FlushRefused(Backfill([s EXCEPT !.stall = FALSE])) IN
     /\ open' = (t.buffered <= LowWater)
     /\ s' = IF open' THEN t ELSE Gone
     /\ resizeAtPause' = IF open' THEN resizeAtPause ELSE None
  /\ UNCHANGED size

Next ==
  \/ Attach \/ Close \/ Rebaseline
  \/ Output \/ Resize \/ Input \/ Flush \/ Drain
  \/ PauseOutput \/ ResumeOutput \/ StallFires

Spec == Init /\ [][Next]_dataVars

\* Callbacks and timers run, and the browser reads what it was sent.
FairSpec == Spec /\ WF_dataVars(Flush) /\ WF_dataVars(StallFires)
                 /\ WF_dataVars(Drain)

-----------------------------------------------------------------------------
(* Properties. *)

TypeOK ==
  /\ s.total \in 0..MaxTotal /\ size \in 0..MaxSize /\ open \in BOOLEAN
  /\ s.drawn \in Seq(0..MaxSize) /\ Len(s.drawn) = s.total
  /\ resizeAtPause \in 0..MaxSize \cup {None}
  /\ s.mode \in Modes /\ s.sentOffset \in 0..s.total /\ s.shown \in 0..s.total
  /\ s.sendBuffer \in 0..MaxSendBuffer - 1
  /\ {s.held, s.refused} \subseteq Nat \cup {None}
  /\ s.buffered \in Nat /\ s.grid \in 0..size

(* What the terminal shows is the output of the session without a gap and    *)
(* without a repeat, whatever was dropped, paused, evicted or refilled.      *)
(* (CHANGELOG.md:2092 tells of the gaps there once were.)                    *)
Whole == s.whole

(* Output that was drawn for one grid is not replayed on a newer one, unless *)
(* the screen is drawn anew: why a size waits for the bytes ahead of it, and *)
(* why a resume after a resize takes a screen.                               *)
MatchesGrid == s.fits

(* The terminal has the grid of the session, or its size waits in the        *)
(* sender: a size that could not be sent is not lost, nor undone by an older *)
(* one that is sent after it.                                                *)
GridKnown == open => s.grid = size \/ s.refused = size

(* The stream is right: the types, GridKnown, and Whole and MatchesGrid but  *)
(* for a terminal whose last resume needed a screen and found the socket     *)
(* full: what it missed is replayed instead, until a screen is drawn.        *)
StreamIsRight == TypeOK /\ GridKnown /\ (s.denied \/ (Whole /\ MatchesGrid))

\* The same after any resume.
StreamIsRightAnyhow == Whole /\ MatchesGrid

(* A paused socket carries no terminal bytes, not even what a timer or a     *)
(* resize would refill (src/server/Server.spec.md:40).                       *)
PausedIsQuiet ==
  [][open /\ open' /\ s.mode # "streaming" /\ s'.mode # "streaming"
     => s'.shown = s.shown]_dataVars

(* A stream that is behind catches up, is closed to be attached again, or is *)
(* paused, even when the session has no more to say; unless a resume left it *)
(* behind, which arms no timer, and nothing was sent since.  After a resume  *)
(* that was denied its screen all the same is sent.                          *)
CaughtUp ==
  Streaming /\ s.shown < s.total
    ~> \/ s.sentOffset = s.total /\ (s.shown = s.total \/ s.denied)
       \/ ~Streaming \/ s.resumedBehind

\* The same after any resume.
CaughtUpAnyhow ==
  Streaming /\ s.shown < s.total ~> s.shown = s.total \/ ~Streaming
=============================================================================
