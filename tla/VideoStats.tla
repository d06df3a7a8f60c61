----------------------------- MODULE VideoStats -----------------------------
(***************************************************************************)
(* The statistics of CBaseVideoRenderer (baseclasses/renbase.cpp,          *)
(* IQualProp): how late the frames drawn were, in milliseconds.  The       *)
(* streaming thread gathers sums as it draws; the application asks for     *)
(* averages and deviations at any time.                                    *)
(***************************************************************************)
EXTENDS Integers, FiniteSetsExt

CONSTANTS Latenesses, FrameTimes,  \* measured, in milliseconds
          MaxFrames                \* bound on the frames drawn

VARIABLES m_cFramesDrawn, m_cFramesDropped,
          m_iTotAcc, m_iSumSqAcc,             \* of latenesses
          m_iSumFrameTime, m_iSumSqFrameTime  \* of times between frames

statVars == <<m_cFramesDrawn, m_cFramesDropped, m_iTotAcc, m_iSumSqAcc, m_iSumFrameTime,
              m_iSumSqFrameTime>>

StatInit == /\ m_cFramesDrawn = 0 /\ m_cFramesDropped = 0 /\ m_iTotAcc = 0 /\ m_iSumSqAcc = 0
            /\ m_iSumFrameTime = 0 /\ m_iSumSqFrameTime = 0

ResetStreamingTimes == /\ m_cFramesDrawn' = 0 /\ m_cFramesDropped' = 0 /\ m_iTotAcc' = 0 /\ m_iSumSqAcc' = 0
                       /\ m_iSumFrameTime' = 0 /\ m_iSumSqFrameTime' = 0

ScheduleSample == /\ m_cFramesDropped < 1 /\ m_cFramesDropped' = m_cFramesDropped + 1
                  /\ UNCHANGED <<m_cFramesDrawn, m_iTotAcc, m_iSumSqAcc, m_iSumFrameTime, m_iSumSqFrameTime>>

ClipAt == 1000  \* a second

\* More than a second is a second, or nothing for the first frames.
Clipped(t) == CASE t \in -ClipAt..ClipAt -> t
                [] t \notin -ClipAt..ClipAt /\ m_cFramesDrawn <= 1 -> 0
                [] OTHER -> IF t > 0 THEN ClipAt ELSE -ClipAt

ClippedFrame(t) == IF t \in 0..ClipAt THEN t ELSE ClipAt

\* Mutant: the first frames count as well.
CountsLate_All == TRUE

CountsLate == m_cFramesDrawn > 1

CountsFrame == m_cFramesDrawn > 2

RecordFrameLateness ==
  /\ m_cFramesDrawn < MaxFrames /\ m_cFramesDrawn' = m_cFramesDrawn + 1
  /\ \E late \in Latenesses, frame \in FrameTimes :
       LET l == IF CountsLate THEN Clipped(late) ELSE 0
           f == IF CountsFrame THEN ClippedFrame(frame) ELSE 0
       IN /\ m_iTotAcc' = m_iTotAcc + l /\ m_iSumSqAcc' = m_iSumSqAcc + l * l
          /\ m_iSumFrameTime' = m_iSumFrameTime + f /\ m_iSumSqFrameTime' = m_iSumSqFrameTime + f * f
  /\ UNCHANGED m_cFramesDropped

StatNext == ResetStreamingTimes \/ ScheduleSample \/ RecordFrameLateness

-----------------------------------------------------------------------------
\* Division of C, towards zero; llMulDiv(a, a, n, 0) is of something not negative.
Quotient(a, n) == IF a < 0 THEN -((-a) \div n) ELSE a \div n

\* The least power of two whose square is not less than x.
Guess(x) == CHOOSE s \in {2 ^ n : n \in 0..15} : s * s >= x /\ (s = 1 \/ (s \div 2) * (s \div 2) < x)

Newton(s, x) == (s * s + x) \div (2 * s)

isqrt(x) == IF x = 0 THEN 0 ELSE Newton(Newton(Newton(Guess(x), x), x), x)

\* (S - T^2 / N) / (N - 1)
Variance(n, sumSq, tot) == Quotient(sumSq - ((tot * tot) \div n), n - 1)

\* GetStdDev
Deviation(n, sumSq, tot) == IF n <= 1 THEN 0 ELSE isqrt(Variance(n, sumSq, tot))

-----------------------------------------------------------------------------
\* CBaseVideoRenderer::GetStdDev asserts x >= 0 of what it takes the root of, although the sums
\* are of fewer frames than it divides by; of latenesses and of times between frames.
VarianceNotNegative ==
  /\ m_cFramesDrawn > 2 => Variance(m_cFramesDrawn - 1, m_iSumSqAcc, m_iTotAcc) >= 0
  /\ m_cFramesDrawn > 3 => Variance(m_cFramesDrawn - 2, m_iSumSqFrameTime, m_iSumFrameTime) >= 0

\* isqrt: "That will give accuracy to the nearest mSec for the range in question - roughly
\* 0..1000": the deviation shown is less than a millisecond off the root of the variance.
DeviationExact ==
  m_cFramesDrawn > 2 =>
    LET x == Variance(m_cFramesDrawn - 1, m_iSumSqAcc, m_iTotAcc)
        d == Deviation(m_cFramesDrawn - 1, m_iSumSqAcc, m_iTotAcc)
    IN x >= 0 => (d + 1) * (d + 1) > x /\ (d = 0 \/ (d - 1) * (d - 1) < x)

\* The figures of the property page are what their names say.
StatisticsExact == VarianceNotNegative /\ DeviationExact
=============================================================================
