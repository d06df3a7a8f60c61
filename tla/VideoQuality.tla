---------------------------- MODULE VideoQuality ----------------------------
(***************************************************************************)
(* CVideoTransformFilter (baseclasses/vtrans.cpp): which frames a decoder  *)
(* that is late leaves out.  Time is counted in frames.  The streaming     *)
(* thread decides about a frame (ShouldSkipFrame) and then decodes it; the *)
(* renderer's quality messages come at any time between.                   *)
(***************************************************************************)
EXTENDS Integers

CONSTANTS WaitFrames,  \* 30: how long to wait for a key frame
          MaxGroup,    \* bound on the frames from one key frame to the next
          Silly,       \* 30 seconds
          IntMax,      \* largest int
          Lates        \* latenesses of quality messages

VARIABLES m_itrLate, m_nKeyFramePeriod, m_nFramesSinceKeyFrame, m_bSkipping,
          slow,           \* of m_itrAvgDecode: more than a quarter of a frame
          m_nWaitForKey, vpc, frame,
          broken,         \* history: a frame was skipped and no key frame decoded since
          forgotten,      \* history: and a new input format has cleared m_bSkipping meanwhile
          orphan          \* history: of the frames shown after a skipped one of their group,
                          \* whether that was forgotten

quality   == <<m_itrLate, m_nKeyFramePeriod, m_nFramesSinceKeyFrame, m_bSkipping, slow>>
videoVars == <<quality, m_nWaitForKey, vpc, frame, broken, forgotten, orphan>>

Fresh == /\ m_itrLate' = 0 /\ m_nKeyFramePeriod' = 0 /\ m_nFramesSinceKeyFrame' = 0
         /\ m_bSkipping' = FALSE /\ slow' = TRUE

\* The constructor does not set m_nWaitForKey.
VideoInit == /\ m_itrLate = 0 /\ m_nKeyFramePeriod = 0 /\ m_nFramesSinceKeyFrame = 0
             /\ m_bSkipping = FALSE /\ slow = TRUE
             /\ m_nWaitForKey \in 0..WaitFrames /\ vpc = "idle"
             /\ frame = [sync |-> TRUE, disc |-> FALSE] /\ broken = FALSE
             /\ forgotten = FALSE /\ orphan = {}

\* Also after a flush.  Upstream goes on with a key frame.
StartStreaming == /\ vpc \in {"idle", "failed"} /\ Fresh /\ vpc' = "idle"
                  /\ broken' = FALSE /\ forgotten' = FALSE
                  /\ UNCHANGED <<m_nWaitForKey, frame, orphan>>

ToInt(late) == ((late + IntMax + 1) % (2 * (IntMax + 1))) - (IntMax + 1)

\* The message is handed on: the renderer shall do something as well.
AlterQuality == /\ \E late \in Lates : m_itrLate' = IF m_itrLate > Silly THEN Silly ELSE ToInt(late)
                /\ UNCHANGED <<m_nKeyFramePeriod, m_nFramesSinceKeyFrame, m_bSkipping, slow,
                               m_nWaitForKey, vpc, frame, broken, forgotten, orphan>>

-----------------------------------------------------------------------------
\* The greatest distance of key frames seen so far; a key frame ends it.
Period(sync) == IF m_nKeyFramePeriod < m_nFramesSinceKeyFrame /\ (sync \/ m_nKeyFramePeriod > 0)
                THEN m_nFramesSinceKeyFrame ELSE m_nKeyFramePeriod

Since(sync) == IF sync THEN 0 ELSE m_nFramesSinceKeyFrame

\* So late that the frames up to the next key frame would not make up for it.
HopelesslyLate(sync) == /\ slow /\ m_itrLate > 1 /\ Period(sync) > 0
                        /\ m_itrLate > Period(sync) - Since(sync) - 1

\* Mutant: decides frame by frame.
Skips_EachAnew(sync) == HopelesslyLate(sync)

\* Once it skips it does so up to the next key frame.
Skips(sync) == HopelesslyLate(sync) \/ (m_bSkipping /\ ~sync)

\* Receive, up to its decision.  Every frame has time stamps: one without is neither counted
\* nor ever skipped.
ShouldSkipFrame ==
  /\ vpc = "idle"
  /\ \E sync, disc \in BOOLEAN :
       /\ m_nFramesSinceKeyFrame >= MaxGroup => sync
       /\ frame' = [sync |-> sync, disc |-> disc]
       /\ m_nKeyFramePeriod' = Period(sync)
       /\ m_nFramesSinceKeyFrame' = Since(sync) + 1
       /\ m_bSkipping' = Skips(sync)
       /\ m_itrLate' = IF Skips(sync) THEN m_itrLate - 1 ELSE m_itrLate
       /\ vpc' = IF Skips(sync) THEN "idle" ELSE "decode"
       /\ broken' = (broken \/ Skips(sync))
  /\ UNCHANGED <<slow, m_nWaitForKey, forgotten, orphan>>

\* Receive of a frame that brings a new input format, a palette say: streaming is restarted and
\* with it the statistics, and the frame is counted, but not skipped, without a period.
NewInputFormat ==
  /\ vpc = "idle" /\ m_itrLate' = 0 /\ m_nKeyFramePeriod' = 0 /\ m_bSkipping' = FALSE /\ slow' = TRUE
  /\ \/ \E sync, disc \in BOOLEAN :
          /\ vpc' = "decode" /\ frame' = [sync |-> sync, disc |-> disc]
          /\ m_nFramesSinceKeyFrame' = 1
          /\ forgotten' = (forgotten \/ (broken /\ ~sync))
     \/ vpc' = "failed" /\ m_nFramesSinceKeyFrame' = 0 /\ UNCHANGED <<frame, forgotten>>
  /\ UNCHANGED <<m_nWaitForKey, broken, orphan>>

\* The buffer from downstream may ask for a new output format.
NewOutputFormat == /\ vpc = "decode" /\ Fresh
                   /\ \/ vpc' = "decode" /\ m_nWaitForKey' = WaitFrames
                      \/ vpc' = "failed" /\ UNCHANGED m_nWaitForKey
                   /\ UNCHANGED <<frame, broken, forgotten, orphan>>

\* The frames still to wait for a key frame, once this one is decoded.
StillToWait == LET wait == IF frame.disc THEN WaitFrames ELSE m_nWaitForKey
               IN IF wait = 0 \/ frame.sync THEN 0 ELSE wait - 1

\* The frame is decoded; it is shown unless a key frame is waited for, or the decoder drops it.
Decode == /\ vpc = "decode" /\ vpc' = "idle"
          /\ slow' \in BOOLEAN
          /\ m_nWaitForKey' = StillToWait
          /\ broken' = (broken /\ ~frame.sync) /\ forgotten' = (forgotten /\ ~frame.sync)
          /\ orphan' = orphan \cup (IF StillToWait = 0 /\ broken /\ ~frame.sync THEN {forgotten} ELSE {})
          /\ UNCHANGED <<m_itrLate, m_nKeyFramePeriod, m_nFramesSinceKeyFrame, m_bSkipping, frame>>

VideoNext == StartStreaming \/ AlterQuality \/ ShouldSkipFrame \/ NewInputFormat \/ NewOutputFormat \/ Decode

-----------------------------------------------------------------------------
\* vtrans.h: a frame that is no key frame "cannot be decoded unless the previous type 1 frame
\* was decoded and all type 2 frames since have been decoded": no frame is shown after one
\* of its group was skipped, whatever the quality messages, output formats and discontinuities
\* between, unless a new input format made the filter forget that it skips.
NoOrphanShown == FALSE \notin orphan
=============================================================================
