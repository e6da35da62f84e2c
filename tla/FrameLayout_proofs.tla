-------------------------- MODULE FrameLayout_proofs --------------------------
(***************************************************************************)
(* The arithmetic of I420Buffer::Create for every size, and what follows   *)
(* for a frame of any size on its way to the encoder.                      *)
(***************************************************************************)
EXTENDS FrameLayout, TLAPS

LEMMA Rounding ==
  ASSUME NEW n \in Nat
  PROVE  /\ AlignUp(n, kBufferAlignment) \in Nat
         /\ n <= AlignUp(n, kBufferAlignment)
         /\ AlignUp(n, kBufferAlignment) % kBufferAlignment = 0
         /\ n % kBufferAlignment = 0 => AlignUp(n, kBufferAlignment) = n
         /\ HalfUp(n) \in Nat
         /\ n \div 2 <= HalfUp(n)
BY DEF AlignUp, HalfUp, kBufferAlignment

LEMMA Times ==
  ASSUME NEW a \in Nat, NEW b \in Nat
  PROVE  a * b \in Nat
OBVIOUS

LEMMA TimesMonotone ==
  ASSUME NEW a \in Nat, NEW b \in Nat, NEW c \in Nat, a <= b
  PROVE  a * c <= b * c /\ c * a <= c * b
OBVIOUS

\* What Create computes, without the LETs.
LEMMA Strides ==
  ASSUME NEW w \in Nat \ {0}, NEW h \in Nat
  PROVE  LET b == Create(w, h) IN
         /\ b.w = w /\ b.h = h
         /\ b.stride_u \in Nat \ {0} /\ b.stride_v = b.stride_u
         /\ b.stride_y \in Nat /\ b.stride_y = 2 * b.stride_u
         /\ w <= b.stride_y /\ HalfUp(w) <= b.stride_u
         /\ w % kBufferAlignment = 0 =>
              w = b.stride_y /\ HalfUp(w) = b.stride_u
         /\ b.u = b.stride_y * h
         /\ b.v = b.stride_y * h + b.stride_u * HalfUp(h)
         /\ b.total = AlignUp(b.stride_y * h + b.stride_u * HalfUp(h)
                                + b.stride_u * HalfUp(h), kBufferAlignment)
<1>. DEFINE sy == Larger(AlignUp(w, kBufferAlignment), 16)
            su == sy \div 2
<1>1. /\ sy \in Nat /\ w <= sy /\ 16 <= sy /\ sy % 2 = 0
      /\ w % kBufferAlignment = 0 => w = sy
  BY DEF Larger, AlignUp, kBufferAlignment
<1>2. /\ su \in Nat \ {0} /\ sy = 2 * su /\ HalfUp(w) <= su
      /\ w % kBufferAlignment = 0 => HalfUp(w) = su
  BY <1>1 DEF HalfUp, kBufferAlignment
<1>. QED
  BY <1>1, <1>2 DEF Create

\* The planes of every I420Buffer fit, and ByteSize stays within them.
LEMMA Layout ==
  ASSUME NEW w \in Nat \ {0}, NEW h \in Nat
  PROVE  /\ Sound(Create(w, h))
         /\ ByteSize(Create(w, h)) <= Create(w, h).total
         /\ Create(w, h).total \in Nat
<1>. DEFINE b == Create(w, h)
            y == b.stride_y * h
            c == b.stride_u * HalfUp(h)
<1>1. b.stride_y \in Nat /\ b.stride_u \in Nat /\ HalfUp(h) \in Nat
  <2>1. b.stride_y \in Nat /\ b.stride_u \in Nat
    BY Strides
  <2>. QED
    BY <2>1 DEF HalfUp
<1>2. y \in Nat /\ c \in Nat
  BY <1>1, Times
<1>3. y + c + c <= b.total /\ b.total \in Nat
  <2>1. y + c + c \in Nat /\ b.total = AlignUp(y + c + c, kBufferAlignment)
    BY <1>2, Strides
  <2>. QED
    BY <2>1, Rounding
<1>4. h \div 2 \in Nat /\ b.stride_u * (h \div 2) <= c
  <2>1. h \div 2 \in Nat /\ h \div 2 <= HalfUp(h)
    BY DEF HalfUp
  <2>. QED
    BY <1>1, <2>1, TimesMonotone
<1>5. b.stride_u * (h \div 2) \in Nat
  BY <1>1, <1>4, Times
<1>6. b.u = y /\ b.v = y + c /\ b.h = h /\ b.w = w /\ b.stride_v = b.stride_u
  BY Strides
<1>7. Sound(b)
  BY <1>2, <1>3, <1>6, Strides DEF Sound
<1>8. ByteSize(b) <= b.total
  BY <1>2, <1>3, <1>4, <1>5, <1>6 DEF ByteSize
<1>. QED
  BY <1>3, <1>7, <1>8

\* A picture whose lines are no longer than the buffer's, and no more, fits.
LEMMA PictureFits ==
  ASSUME NEW w \in Nat \ {0}, NEW h \in Nat, NEW line \in Nat,
         NEW rows \in Nat, line <= Create(w, h).stride_y, rows <= h
  PROVE  I420Size(line, rows) <= Create(w, h).total
<1>. DEFINE b == Create(w, h)
            y == b.stride_y * h
            c == b.stride_u * HalfUp(h)
            p == HalfUp(line) * HalfUp(rows)
<1>1. b.stride_y \in Nat /\ b.stride_u \in Nat /\ b.stride_y = 2 * b.stride_u
  BY Strides
<1>2. /\ HalfUp(h) \in Nat /\ HalfUp(line) \in Nat /\ HalfUp(rows) \in Nat
      /\ HalfUp(line) <= b.stride_u /\ HalfUp(rows) <= HalfUp(h)
  BY <1>1 DEF HalfUp
<1>3. line * rows <= y
  <2>1. line * rows <= line * h /\ line * h <= b.stride_y * h
    BY <1>1, TimesMonotone
  <2>2. line * rows \in Nat /\ line * h \in Nat /\ y \in Nat
    BY <1>1, Times
  <2>. QED
    BY <2>1, <2>2
<1>4. p <= c
  <2>1. /\ p <= HalfUp(line) * HalfUp(h)
        /\ HalfUp(line) * HalfUp(h) <= b.stride_u * HalfUp(h)
    BY <1>1, <1>2, TimesMonotone
  <2>2. p \in Nat /\ HalfUp(line) * HalfUp(h) \in Nat /\ c \in Nat
    BY <1>1, <1>2, Times
  <2>. QED
    BY <2>1, <2>2
<1>5. y \in Nat /\ c \in Nat /\ line * rows \in Nat /\ p \in Nat
  BY <1>1, <1>2, Times
<1>6. y + c + c <= b.total
  <2>1. y + c + c \in Nat /\ b.total = AlignUp(y + c + c, kBufferAlignment)
    BY <1>5, Strides
  <2>. QED
    BY <2>1, Rounding
<1>7. I420Size(line, rows) = line * rows + 2 * p
  BY DEF I420Size
<1>8. b.total \in Nat
  BY Layout
<1>. QED
  BY <1>3, <1>4, <1>5, <1>6, <1>7, <1>8

-----------------------------------------------------------------------------
Sizes ==
  /\ width_ \in Nat /\ height_ \in Nat
  /\ camera \in Cameras
  /\ surplus \in Int

\* While the format holds, the frames are what the capturer thinks they are.
Negotiated ==
  pc \notin {"set_format", "threw"} /\ ~failed =>
    /\ camera.format = format_
    /\ camera.width = width_ /\ camera.height = height_

Converted ==
  /\ pc \in {"set_format", "next_buffer"} => i420 = NoBuffer
  /\ pc \in {"to_i420", "encode", "encoded", "overflow"} =>
       width_ > 0 /\ height_ > 0 /\ i420 = Create(width_, height_)
  /\ pc = "threw" => i420 = NoBuffer
  /\ pc \in {"encode", "encoded", "overflow"} \/ written = 0
  /\ written = 0
       \/ (format_ = "i420" /\ written = BytesUsed(camera, surplus))
  /\ pc = "encoded" => data = FillPointers(i420)

Shown ==
  pc \in {"encode", "encoded"} /\ ~failed /\ surplus >= 0
    /\ \/ camera.format = "mjpeg"
       \/ camera.format = "i420" /\ Line(camera) = i420.stride_y
    => picture = "camera"

IInv == Sizes /\ Negotiated /\ Converted /\ Shown
           /\ pc \in {"set_format", "next_buffer", "to_i420", "encode",
                      "encoded", "threw", "overflow"}

LEMMA InitInv == Init => IInv
BY SizesAssumption
  DEF Init, IInv, Sizes, Negotiated, Converted, Shown

\* An I420 picture with lines of the stride has the buffer's own layout.
LEMMA CopyAligned ==
  ASSUME NEW w \in Nat \ {0}, NEW h \in Nat, camera.format = "i420",
         camera.width = w, camera.height = h, surplus >= 0,
         Line(camera) = Create(w, h).stride_y
  PROVE  CopyKeeps(Create(w, h))
<1>. DEFINE b == Create(w, h)
<1>1. /\ b.w = w /\ b.h = h /\ b.stride_y \in Nat /\ b.stride_u \in Nat
      /\ b.stride_y = 2 * b.stride_u
      /\ b.u = b.stride_y * h /\ b.v = b.stride_y * h + b.stride_u * HalfUp(h)
  BY Strides
<1>2. HalfUp(Line(camera)) = b.stride_u
  <2>1. \A n \in Nat : HalfUp(2 * n) = n
    BY DEF HalfUp
  <2>. QED
    BY <1>1, <2>1
<1>. QED
  BY <1>1, <1>2 DEF CopyKeeps, SameSize

LEMMA InvStep == IInv /\ [Next]_vars => IInv'
<1>. SUFFICES ASSUME IInv, [Next]_vars PROVE IInv'
  OBVIOUS
<1>. USE SizesAssumption DEF IInv, Sizes, Negotiated, Converted, Shown
<1>1. CASE SetFormat
  BY <1>1 DEF SetFormat, buffer
<1>2. CASE CreateI420
  BY <1>2 DEF CreateI420, capturer
<1>3. CASE ToI420
  <2>1. CASE CopyI420
    <3>1. format_ = "i420" /\ i420 = Create(width_, height_)
      BY <1>3, <2>1 DEF CopyI420, ToI420
    <3>2. ~failed /\ surplus >= 0 /\ Line(camera) = i420.stride_y
            => CopyKeeps(i420)
      BY <1>3, <3>1, CopyAligned DEF ToI420
    <3>. QED
      BY <1>3, <2>1, <3>1, <3>2 DEF ToI420, CopyI420, capturer
  <2>2. CASE LeaveH264
    BY <1>3, <2>2 DEF ToI420, LeaveH264, capturer
  <2>3. CASE ConvertMjpeg
    <3>1. i420.w = width_ /\ i420.h = height_
      BY <1>3, Strides DEF ToI420
    <3>. QED
      BY <1>3, <2>3, <3>1 DEF ToI420, ConvertMjpeg, SameSize, capturer
  <2>. QED
    BY <1>3, <2>1, <2>2, <2>3 DEF ToI420
<1>4. CASE EncodeBuffer
  BY <1>4 DEF EncodeBuffer, capturer, buffer
<1>5. CASE UNCHANGED vars
  BY <1>5 DEF vars, capturer, buffer
<1>. QED
  BY <1>1, <1>2, <1>3, <1>4, <1>5 DEF Next, Over

THEOREM Invariance == Spec => []IInv
BY InitInv, InvStep, PTL DEF Spec

\* What TypeOK says beyond Sizes and Converted.
Kinds ==
  /\ width_ \in Widths /\ height_ \in Heights
  /\ format_ \in DriverFormats
  /\ failed \in BOOLEAN
  /\ surplus \in Surplus \cup {0}
  /\ written \in Nat
  /\ picture \in Pictures

LEMMA BytesNumber ==
  ASSUME NEW c \in Cameras, NEW extra \in Int
  PROVE  /\ BytesUsed(c, extra) \in Nat
         /\ Line(c) \in Nat /\ c.height \in Nat
         /\ c.format = "i420" =>
              /\ I420Size(Line(c), c.height) \in Nat
              /\ extra <= 0 =>
                   BytesUsed(c, extra) <= I420Size(Line(c), c.height)
<1>1. Line(c) \in Nat /\ c.height \in Nat
  <2>1. c.width \in Widths /\ c.height \in Heights /\ c.pad \in Pads
    BY DEF Cameras
  <2>2. c.width \in Nat /\ c.height \in Nat /\ c.pad \in Nat
    BY <2>1, SizesAssumption, Zenon
  <2>. QED
    BY <2>2 DEF Line
<1>2. HalfUp(Line(c)) \in Nat /\ HalfUp(c.height) \in Nat
  BY <1>1 DEF HalfUp
<1>3. /\ Line(c) * c.height \in Nat
      /\ HalfUp(Line(c)) * HalfUp(c.height) \in Nat
  BY <1>1, <1>2, Times
<1>4. I420Size(Line(c), c.height) \in Nat
  BY <1>3 DEF I420Size
<1>. QED
  BY <1>1, <1>3, <1>4 DEF BytesUsed, Larger

LEMMA KindsStep == IInv /\ Kinds /\ [Next]_vars => Kinds'
<1>. SUFFICES ASSUME IInv, Kinds, [Next]_vars PROVE Kinds'
  OBVIOUS
<1>1. CASE SetFormat
  BY <1>1 DEF SetFormat, buffer, Kinds, Cameras
<1>2. CASE CreateI420
  BY <1>2 DEF CreateI420, capturer, Kinds
<1>3. CASE ToI420
  <2>1. BytesUsed(camera, surplus) \in Nat
    BY BytesNumber DEF IInv, Sizes
  <2>. QED
    BY <1>3, <2>1
      DEF ToI420, CopyI420, LeaveH264, ConvertMjpeg, capturer, Kinds, Pictures
<1>4. CASE EncodeBuffer
  BY <1>4 DEF EncodeBuffer, capturer, buffer, Kinds
<1>5. CASE UNCHANGED vars
  BY <1>5 DEF vars, capturer, buffer, Kinds
<1>. QED
  BY <1>1, <1>2, <1>3, <1>4, <1>5 DEF Next, Over

\* Every variable keeps its type, and every I420Buffer has chroma strides of
\* half the Y stride (v4l2_frame_buffer.cpp:20-22), never 0.
THEOREM TypeCorrect == Spec => []TypeOK
<1>1. Init => Kinds
  <2>1. Init => failed \in BOOLEAN
    BY Zenon DEF Init
  <2>2. Init => written \in Nat
    BY SMT DEF Init
  <2>. QED
    BY <2>1, <2>2, Zenon DEF Init, Kinds, DriverFormats, Pictures
<1>2. IInv /\ Kinds => TypeOK
  <2>. SUFFICES ASSUME IInv, Kinds PROVE TypeOK
    OBVIOUS
  <2>1. i420 # NoBuffer =>
          i420.stride_u \in Nat \ {0} /\ i420.stride_y = 2 * i420.stride_u
    BY Strides DEF IInv, Sizes, Converted
  <2>. QED
    BY <2>1 DEF IInv, Sizes, Kinds, TypeOK
<1>. QED
  BY <1>1, <1>2, Invariance, KindsStep, PTL DEF Spec

\* I420Buffer::Create gives libav three planes inside the allocation, and an
\* AVBuffer that is no larger, at every width and height.
THEOREM PlanesCorrect == Spec => []PlanesFit
<1>1. IInv => PlanesFit
  BY Layout DEF IInv, Sizes, Converted, PlanesFit
<1>. QED
  BY <1>1, Invariance, PTL

\* libav's plane pointers are the I420Buffer's.
THEOREM PointersCorrect == Spec => []EncoderReadsPlanes
<1>1. IInv => EncoderReadsPlanes
  BY Strides DEF IInv, Sizes, Converted, EncoderReadsPlanes, FillPointers
<1>. QED
  BY <1>1, Invariance, PTL

\* ToI420's memcpy runs over the end of the buffer for the named reasons
\* only, at every size, whatever the driver answers and however it pads.
THEOREM CopyCorrect == Spec => []CopyFits
<1>1. IInv => CopyFits
  <2>. SUFFICES ASSUME IInv, i420 # NoBuffer, surplus <= 0,
                       Line(camera) <= i420.stride_y,
                       failed => camera.format = "i420"
                                   /\ camera.height <= height_
                PROVE  written <= i420.total
    <3>1. IInv /\ i420 # NoBuffer => i420.stride_y \in Nat
      BY Strides DEF IInv, Sizes, Converted
    <3>2. IInv => Line(camera) \in Nat /\ camera.height \in Nat
      BY BytesNumber DEF IInv, Sizes
    <3>3. IInv /\ i420 # NoBuffer => written \in Nat /\ i420.total \in Nat
      BY BytesNumber, Layout DEF IInv, Sizes, Converted
    <3>. QED
      BY <3>1, <3>2, <3>3 DEF CopyFits, IInv, Sizes
  <2>1. /\ width_ \in Nat \ {0} /\ height_ \in Nat
        /\ i420 = Create(width_, height_)
    BY DEF IInv, Sizes, Converted
  <2>2. i420.total \in Nat
    BY <2>1, Layout
  <2>3. CASE written = 0
    BY <2>2, <2>3
  <2>4. CASE written # 0
    <3>1. /\ written = BytesUsed(camera, surplus)
          /\ camera.format = "i420" /\ camera.height <= height_
      <4>1. ~failed => camera.format = "i420" /\ camera.height = height_
        BY <2>4 DEF IInv, Negotiated, Converted
      <4>. QED
        BY <2>1, <2>4, <4>1 DEF IInv, Sizes, Converted
    <3>2. /\ written <= I420Size(Line(camera), camera.height)
          /\ written \in Nat /\ I420Size(Line(camera), camera.height) \in Nat
          /\ Line(camera) \in Nat /\ camera.height \in Nat
      BY <3>1, BytesNumber DEF IInv, Sizes
    <3>3. I420Size(Line(camera), camera.height) <= i420.total
      BY <2>1, <3>1, <3>2, PictureFits
    <3>. QED
      BY <2>2, <3>2, <3>3
  <2>. QED
    BY <2>3, <2>4
<1>. QED
  BY <1>1, Invariance, PTL

\* A whole JPEG, and a whole I420 frame with lines of the stride, reach the
\* encoder as the camera took them.
THEOREM PictureCorrect == Spec => []PictureKept
<1>1. IInv => PictureKept
  BY DEF IInv, Shown, PictureKept
<1>. QED
  BY <1>1, Invariance, PTL
=============================================================================
