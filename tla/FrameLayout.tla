----------------------------- MODULE FrameLayout -----------------------------
(***************************************************************************)
(* A picture on its way from the camera to libav: the format that          *)
(* V4L2Capturer::SetResolution negotiates, the V4L2FrameBuffer around the  *)
(* mapped memory, the I420Buffer that ToI420 fills, and the plane pointers *)
(* that LibAvEncoder::EncodeBuffer gives to the encoder.                   *)
(*                                                                         *)
(* Memory is offsets from the start of the I420Buffer; pixels are not      *)
(* modelled, only whether the encoder finds them where the camera's bytes  *)
(* were put.  The driver may answer VIDIOC_S_FMT with another format, with *)
(* another size, or with an error; it may pad its lines, which the code    *)
(* does not look at (bytesperline, sizeimage), and a frame may have any    *)
(* bytesused.                                                              *)
(*                                                                         *)
(* libyuv and libav are not part of the repository: ConvertToI420 with     *)
(* FOURCC_MJPG decodes a JPEG of the size it is told and nothing else, and *)
(* leaves some or all of the buffer as it is when the JPEG is damaged;     *)
(* av_image_fill_pointers lays three planes out one after the other, the   *)
(* chroma planes with half the rows, rounded up.                           *)
(***************************************************************************)
EXTENDS Integers

CONSTANTS
  Widths, Heights,    \* the sizes that the options and the driver may have
  Pads,               \* the bytes by which a driver may lengthen its lines
  Surplus             \* what bytesused may have over, or under 0 be short of,
                      \* the picture's own bytes

ASSUME SizesAssumption ==
  /\ Widths \subseteq Nat /\ Heights \subseteq Nat
  /\ Pads \subseteq Nat /\ Surplus \subseteq Int

\* v4l2_fmt_table, and what else a driver may offer.
Formats == {"mjpeg", "h264", "i420", "yuyv"}
DriverFormats == Formats \cup {"other"}

kBufferAlignment == 64

AlignUp(v, a) == ((v + a - 1) \div a) * a

HalfUp(n) == (n + 1) \div 2

Larger(a, b) == IF a >= b THEN a ELSE b

\* Mutant of Create: the chroma planes have h / 2 rows, as in ByteSize.
CreateRowsDown(w, h) ==
  LET sy == Larger(AlignUp(w, kBufferAlignment), 16)
      su == sy \div 2
      raw == sy * h + 2 * su * (h \div 2)
  IN  [w |-> w, h |-> h, stride_y |-> sy, stride_u |-> su, stride_v |-> su,
       u |-> sy * h, v |-> sy * h + su * (h \div 2),
       total |-> AlignUp(raw, kBufferAlignment)]

\* I420Buffer::Create.  A product of two ints never overflows a size_t.
Create(w, h) ==
  LET sy == Larger(AlignUp(w, kBufferAlignment), 16)
      su == sy \div 2
      y_bytes == sy * h
      u_bytes == su * HalfUp(h)
      raw == y_bytes + u_bytes + u_bytes
  IN  [w |-> w, h |-> h, stride_y |-> sy, stride_u |-> su, stride_v |-> su,
       u |-> y_bytes, v |-> y_bytes + u_bytes,
       total |-> AlignUp(raw, kBufferAlignment)]

\* I420Buffer::ByteSize, the size of the AVBuffer.
ByteSize(b) ==
  b.stride_y * b.h + b.stride_u * (b.h \div 2) + b.stride_v * (b.h \div 2)

\* The bytes of an I420 picture whose lines are that long, as the driver
\* fills a buffer.
I420Size(line, h) == line * h + 2 * (HalfUp(line) * HalfUp(h))

Cameras == [format : DriverFormats, width : Widths \ {0},
            height : Heights \ {0}, pad : Pads]

Line(c) == c.width + c.pad

\* The driver's bytesused, extra bytes more than its picture has.  A frame
\* that is not I420 is only copied after S_FMT failed; it is taken for YUYV,
\* the largest of the others.
BytesUsed(c, extra) ==
  Larger(0, extra + IF c.format = "i420" THEN I420Size(Line(c), c.height)
                                         ELSE 2 * (Line(c) * c.height))

\* av_image_fill_pointers for YUV420P.
FillPointers(b) ==
  [u |-> b.stride_y * b.h, v |-> b.stride_y * b.h + b.stride_u * HalfUp(b.h)]

NoBuffer == [total |-> 0]

VARIABLES
  width_, height_, format_,     \* V4L2Capturer
  camera,                       \* driver: what its frames really are
  failed,                       \* history: VIDIOC_S_FMT failed
  surplus,                      \* driver: of the frame at hand
  i420,                         \* the I420Buffer, or NoBuffer
  written,                      \* bytes that ToI420 copied to its start
  picture,                      \* what is in it
  data,                         \* frame->data[1] and [2] of the AVFrame
  pc

capturer == <<width_, height_, format_, camera, failed>>
buffer == <<surplus, i420, written, picture>>
vars == <<capturer, buffer, data, pc>>

Pictures == {"uninitialised", "garbled", "camera"}

TypeOK ==
  /\ width_ \in Widths
  /\ height_ \in Heights
  /\ format_ \in DriverFormats
  /\ camera \in Cameras
  /\ failed \in BOOLEAN
  /\ surplus \in Surplus \cup {0}
  /\ i420 # NoBuffer =>
       i420.stride_u \in Nat \ {0} /\ i420.stride_y = 2 * i420.stride_u
  /\ written \in Nat
  /\ picture \in Pictures
  /\ pc \in {"set_format", "next_buffer", "to_i420", "encode", "encoded",
             "threw", "overflow"}

\* The options, and whatever the device was left at.
Init ==
  /\ width_ \in Widths
  /\ height_ \in Heights
  /\ format_ \in Formats
  /\ camera \in Cameras
  /\ failed = FALSE
  /\ surplus = 0
  /\ i420 = NoBuffer
  /\ written = 0
  /\ picture = "uninitialised"
  /\ data = <<>>
  /\ pc = "set_format"

-----------------------------------------------------------------------------
\* Mutant of SetFormat: format_ keeps what was asked for.
SetFormatIgnored ==
  /\ pc = "set_format"
  /\ camera' \in Cameras
  /\ pc' = IF camera'.width = width_ /\ camera'.height = height_
             THEN "next_buffer" ELSE "threw"
  /\ UNCHANGED <<width_, height_, format_, failed, buffer, data>>

\* Mutant of SetFormat: the size the driver settled on is not looked at.
SetFormatAnySize ==
  /\ pc = "set_format"
  /\ camera' \in Cameras
  /\ format_' = camera'.format
  /\ pc' = "next_buffer"
  /\ UNCHANGED <<width_, height_, failed, buffer, data>>

\* V4L2Util::SetFormat takes the driver's format over and throws at another
\* size; SetResolution goes on when it returns false.
SetFormat ==
  /\ pc = "set_format"
  /\ \/ /\ camera' \in Cameras
        /\ format_' = camera'.format
        /\ pc' = IF camera'.width = width_ /\ camera'.height = height_
                   THEN "next_buffer" ELSE "threw"
        /\ UNCHANGED failed
     \/ /\ failed' = TRUE
        /\ pc' = "next_buffer"
        /\ UNCHANGED <<camera, format_>>
  /\ UNCHANGED <<width_, height_, buffer, data>>

\* A frame arrives; ToI420 makes the buffer it converts into.
CreateI420 ==
  /\ pc = "next_buffer"
  /\ surplus' \in Surplus
  /\ IF width_ <= 0 \/ height_ <= 0
       THEN pc' = "threw" /\ UNCHANGED i420
       ELSE pc' = "to_i420" /\ i420' = Create(width_, height_)
  /\ UNCHANGED <<capturer, written, picture, data>>

SameSize(b) == camera.width = b.w /\ camera.height = b.h

\* All bytes of a picture are there, and the encoder looks for them where
\* they are, when every row of every plane starts at the same offset in both.
CopyKeeps(b) ==
  LET line == Line(camera) IN
  /\ camera.format = "i420" /\ SameSize(b) /\ surplus >= 0
  /\ \A r \in 0..(b.h - 1) : r * line = r * b.stride_y
  /\ b.u = line * b.h
  /\ b.v = b.u + HalfUp(line) * HalfUp(b.h)
  /\ \A r \in 0..(HalfUp(b.h) - 1) : r * HalfUp(line) = r * b.stride_u

\* The branches of ToI420.  A memcpy that runs over the end of the buffer
\* ends the process, or goes on.
CopyI420 ==
  /\ format_ = "i420"
  /\ written' = BytesUsed(camera, surplus)
  /\ picture' = IF CopyKeeps(i420) THEN "camera" ELSE "garbled"
  /\ \/ pc' = "encode"
     \/ written' > i420.total /\ pc' = "overflow"

LeaveH264 ==
  /\ format_ = "h264"
  /\ pc' = "encode"
  /\ UNCHANGED <<written, picture>>

\* A JPEG that cannot be decoded, or not to its end, is logged at most.
ConvertMjpeg ==
  /\ format_ \notin {"i420", "h264"}
  /\ picture' \in
       IF camera.format = "mjpeg" /\ SameSize(i420)
         THEN IF surplus >= 0 THEN {"camera"} ELSE {picture, "garbled"}
         ELSE {picture}
  /\ pc' = "encode"
  /\ UNCHANGED written

ToI420 ==
  /\ pc = "to_i420"
  /\ CopyI420 \/ LeaveH264 \/ ConvertMjpeg
  /\ UNCHANGED <<capturer, surplus, i420, data>>

EncodeBuffer ==
  /\ pc = "encode"
  /\ data' = FillPointers(i420)
  /\ pc' = "encoded"
  /\ UNCHANGED <<capturer, buffer>>

Over == pc \in {"encoded", "threw", "overflow"} /\ UNCHANGED vars

Next == SetFormat \/ CreateI420 \/ ToI420 \/ EncodeBuffer \/ Over

Spec == Init /\ [][Next]_vars

-----------------------------------------------------------------------------
\* The three planes that libav reads, with chroma rows rounded up, lie one
\* behind the other in the allocation, and no row of a plane is too short,
\* whatever the size: Create's arithmetic (v4l2_frame_buffer.cpp:20-44).  The
\* AVBuffer does not claim more than that, though ByteSize rounds chroma rows
\* down (v4l2_frame_buffer.h:35, libav_encoder.cpp:110).
Sound(b) ==
  /\ b.w <= b.stride_y /\ HalfUp(b.w) <= b.stride_u
  /\ b.stride_y * b.h <= b.u
  /\ b.u + b.stride_u * HalfUp(b.h) <= b.v
  /\ b.v + b.stride_v * HalfUp(b.h) <= b.total
PlanesFit ==
  i420 # NoBuffer => Sound(i420) /\ ByteSize(i420) <= i420.total

\* libav's idea of where U and V begin is the I420Buffer's, so that it
\* encodes what ConvertToI420 wrote (libav_encoder.cpp:101-112).
EncoderReadsPlanes ==
  pc = "encoded" => data.u = i420.u /\ data.v = i420.v

\* The memcpy of a raw frame runs over the end of the buffer for three
\* reasons only, none of which the code looks at: the driver pads its lines
\* beyond the buffer's own (bytesperline, v4l2_utils.cpp:142-175), bytesused
\* counts more than the picture (v4l2_utils.h:34), or S_FMT failed
\* (v4l2_capturer.cpp:61) and the frames have another format or more rows.
\* Lines up to the stride and frames that are short stay inside.
CopyFits ==
  i420 # NoBuffer /\ written > i420.total =>
    \/ Line(camera) > i420.stride_y
    \/ surplus > 0
    \/ failed /\ (camera.format # "i420" \/ camera.height > height_)

\* What reaches the encoder is the camera's picture for every JPEG that
\* arrives whole, and for every I420 frame that does and whose lines are as
\* long as the buffer's (an aligned width, or a driver that pads to the
\* alignment), though the driver chose the format.
PictureKept ==
  /\ pc = "encoded"
  /\ ~failed /\ surplus >= 0
  /\ \/ camera.format = "mjpeg"
     \/ camera.format = "i420" /\ Line(camera) = i420.stride_y
  => picture = "camera"

-----------------------------------------------------------------------------
\* "The input format (`i420`, `yuyv`, `mjpeg`, `h264`) of the V4L2 camera."
\* (parser.cpp:36): a format the option offers, and the driver grants, gives
\* a picture when the frame is whole.  ToI420 takes yuyv for a JPEG and
\* leaves h264 alone.
InputFormatsShown ==
  pc = "encoded" /\ ~failed /\ surplus >= 0 /\ camera.format \in Formats =>
    picture # "uninitialised"
=============================================================================
