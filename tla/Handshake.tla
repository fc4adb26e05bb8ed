------------------------------ MODULE Handshake ------------------------------
(***************************************************************************)
(* What the handshake carries: the descriptors of all buffers and the      *)
(* geometry of a frame, in one message, and what the subscriber makes of   *)
(* them.  The publisher takes the geometry from the driver, which may have *)
(* adjusted all of it, the pixel format included.                          *)
(*                                                                         *)
(* A descriptor is named by the number of its buffer.  The C++ and the     *)
(* Rust programs behave alike.                                             *)
(***************************************************************************)
EXTENDS Integers, Sequences

CONSTANTS MaxCount,               \* buffers, at most
          SendMax,                \* descriptors the kernel takes in a message (253)
          RecvMax,                \* room for descriptors in recv_handshake (32)
          Widths, Heights, Pads,  \* geometries of the driver; bytes after each line
          IntMod                  \* 2^32

GeometryAssumption == /\ MaxCount \in Nat /\ SendMax \in Nat /\ RecvMax \in Nat
                      /\ Widths \subseteq Nat /\ Heights \subseteq Nat \ {0} /\ Pads \subseteq Nat
IntAssumption == IntMod \in Nat \ {0} /\ IntMod % 2 = 0
ASSUME GeometryAssumption
ASSUME IntAssumption

-----------------------------------------------------------------------------
(* Pixel formats.                                                           *)

NoFourcc == "none"
SemiPlanar == {"NV12", "NV21"}
Yuv == SemiPlanar \union {"YUYV", "UYVY"}
Rgb == {"RGB24", "BGR24", "ABGR32", "XBGR32"}
V4l2Format == Yuv \union Rgb \union {"MJPG"}  \* MJPG: one of those nobody translates

\* a bug: the two semi-planar formats are mixed up
FourccSwapped == [f \in V4l2Format |-> CASE f = "NV12" -> "NV21" [] f = "NV21" -> "NV12"
                                         [] f = "ABGR32" -> "ARGB8888"
                                         [] f = "XBGR32" -> "XRGB8888" [] OTHER -> f]

v4l2_to_drm_fourcc == [f \in V4l2Format |->
  CASE f \in Yuv     -> f
    [] f = "RGB24"   -> "RGB888"
    [] f = "BGR24"   -> "BGR888"
    [] f = "ABGR32"  -> "ARGB8888"
    [] f = "XBGR32"  -> "XRGB8888"
    [] OTHER         -> NoFourcc]

\* the order of the components in memory, lowest address first: V4L2 names
\* formats by it, DRM names them as little-endian numbers
V4l2Bytes == [f \in V4l2Format \ {"MJPG"} |->
  CASE f = "RGB24" -> <<"R", "G", "B">>
    [] f = "BGR24" -> <<"B", "G", "R">>
    [] f = "ABGR32" -> <<"B", "G", "R", "A">>
    [] f = "XBGR32" -> <<"B", "G", "R", "X">>
    [] OTHER -> <<f>>]

DrmFourcc == Yuv \union {"RGB888", "BGR888", "ARGB8888", "XRGB8888"}
DrmBytes == [f \in DrmFourcc |->
  CASE f = "RGB888" -> <<"B", "G", "R">>
    [] f = "BGR888" -> <<"R", "G", "B">>
    [] f = "ARGB8888" -> <<"B", "G", "R", "A">>
    [] f = "XRGB8888" -> <<"B", "G", "R", "X">>
    [] OTHER -> <<f>>]

\* QuadRenderer: which formats are converted while sampling
external_target(fourcc) == fourcc \in {"YUYV", "NV12", "NV21"}

-----------------------------------------------------------------------------
(* The geometry of a frame, as the driver reports it.                       *)

PixelBytes(f) == CASE f \in {"YUYV", "UYVY"} -> 2
                   [] f \in {"RGB24", "BGR24"} -> 3
                   [] f \in {"ABGR32", "XBGR32"} -> 4
                   [] OTHER -> 1

Luma(c) == c.stride * c.height
ChromaRows(c) == (c.height + 1) \div 2
Chroma(c) == IF c.fmt \in SemiPlanar THEN c.stride * ChromaRows(c) ELSE 0

\* what S_FMT and REQBUFS leave, sizeimage apart
Geometry == {[fmt |-> f, width |-> w, height |-> h, stride |-> PixelBytes(f) * w + pad,
              count |-> n] : f \in V4l2Format, w \in Widths, h \in Heights,
                             pad \in Pads, n \in 1 .. MaxCount}

\* sizeimage has 32 bits
Size(c) == Luma(c) + Chroma(c)
Cameras == {c \in Geometry : Size(c) < IntMod}

Buffers(n) == [i \in 1 .. n |-> i - 1]

Message(c) == [buf_count |-> c.count, width |-> c.width, height |-> c.height,
               format |-> v4l2_to_drm_fourcc[c.fmt], stride |-> c.stride, size |-> Size(c)]

\* a bug: the chroma plane is looked for after width * height bytes
OffsetByWidth(m) == (m.width * m.height) % IntMod

\* uint32_t arithmetic
chroma_offset(m) == (m.stride * m.height) % IntMod

EGLint(x) == IF x < IntMod \div 2 THEN x ELSE x - IntMod

NoImage == [fourcc |-> NoFourcc, pitch |-> 0, external |-> FALSE, offset1 |-> 0]

\* the attributes import_dmabuf passes on, as far as they vary
Import(m) == [fourcc |-> m.format, pitch |-> EGLint(m.stride), external |-> external_target(m.format),
              offset1 |-> IF m.format \in SemiPlanar THEN EGLint(chroma_offset(m)) ELSE 0]

-----------------------------------------------------------------------------
VARIABLES cam,     \* what the driver gave; never changes
          pub, sub,
          wire,    \* the message under way
          table,   \* the descriptors of buffers open in the subscriber
          fds, hs, \* what recv_handshake returned
          image    \* how the subscriber imports a buffer

vars == <<cam, pub, sub, wire, table, fds, hs, image>>

Empty == [fds |-> <<>>, hs |-> [buf_count |-> 0, width |-> 0, height |-> 0,
                                format |-> NoFourcc, stride |-> 0, size |-> 0]]

Init == /\ cam \in Cameras
        /\ pub = "fourcc" /\ sub = "none" /\ wire = Empty
        /\ table = <<>> /\ fds = <<>> /\ hs = Empty.hs /\ image = NoImage

\* a format without a DRM code ends the publisher; otherwise a subscriber connects
PubFourcc ==
  /\ pub = "fourcc"
  /\ IF v4l2_to_drm_fourcc[cam.fmt] = NoFourcc
     THEN pub' = "exited" /\ UNCHANGED sub
     ELSE pub' = "send" /\ sub' = "recv"
  /\ UNCHANGED <<cam, wire, table, fds, hs, image>>

\* sendmsg: all descriptors or none
PubSend ==
  /\ pub = "send"
  /\ IF sub # "exited" /\ cam.count <= SendMax
     THEN wire' = [fds |-> Buffers(cam.count), hs |-> Message(cam)] /\ pub' = "serve"
     ELSE UNCHANGED wire /\ pub' = "exited"
  /\ UNCHANGED <<cam, sub, table, fds, hs, image>>

\* a crash, or the end of the loop; what is under way stays so
PubEnds ==
  /\ pub \in {"send", "serve"} /\ pub' = "exited"
  /\ UNCHANGED <<cam, sub, wire, table, fds, hs, image>>

-----------------------------------------------------------------------------
(* recvmsg opens as many descriptors as there is room for, in the buffer    *)
(* and in the process's table, and reports whether that was all.  Nobody    *)
(* looks at a truncated list: C++ returns at once, cmsgs() of Rust fails.   *)

Received(k, list) ==
  /\ table' = SubSeq(wire.fds, 1, k)
  /\ fds' = list /\ hs' = wire.hs /\ wire' = Empty
  /\ UNCHANGED <<cam, pub, image>>

Fits(k) == k <= Len(wire.fds) /\ k <= RecvMax

\* a bug: room for whatever comes
SubRecvUnlimited ==
  /\ sub = "recv" /\ wire # Empty
  /\ Received(Len(wire.fds), wire.fds) /\ sub' = "setup"

\* a bug: the descriptors are not counted
SubRecvUncounted ==
  /\ sub = "recv" /\ wire # Empty
  /\ \E k \in 0 .. Len(wire.fds) :
       Fits(k) /\ Received(k, SubSeq(wire.fds, 1, k)) /\ sub' = "setup"

SubRecv ==
  /\ sub = "recv" /\ wire # Empty
  /\ \E k \in 0 .. Len(wire.fds) :
       /\ Fits(k)
       /\ Received(k, IF k < Len(wire.fds) THEN <<>> ELSE wire.fds)
       /\ sub' = IF Len(fds') = wire.hs.buf_count THEN "setup" ELSE "failed"

SubRecvEof ==
  /\ sub = "recv" /\ wire = Empty /\ pub = "exited"
  /\ sub' = "failed"
  /\ UNCHANGED <<cam, pub, wire, table, fds, hs, image>>

\* the window, EGL and the renderer for this format, and the first import
SubSetup ==
  /\ sub = "setup"
  /\ \/ image' = Import(hs) /\ sub' = "serve"
     \/ UNCHANGED image /\ sub' = "failed"
  /\ UNCHANGED <<cam, pub, wire, table, fds, hs>>

\* also a crash at any step; the kernel closes what is open or under way
SubEnds ==
  /\ sub \notin {"none", "exited"} /\ sub' = "exited"
  /\ wire' = Empty /\ table' = <<>> /\ fds' = <<>> /\ image' = NoImage
  /\ UNCHANGED <<cam, pub, hs>>

Done == pub = "exited" /\ sub \in {"none", "exited"} /\ UNCHANGED vars

Next == \/ PubFourcc \/ PubSend \/ PubEnds
        \/ SubRecv \/ SubRecvEof \/ SubSetup \/ SubEnds \/ Done

Spec == Init /\ [][Next]_vars

-----------------------------------------------------------------------------
TypeOK ==
  /\ cam \in Cameras
  /\ pub \in {"fourcc", "send", "serve", "exited"}
  /\ sub \in {"none", "recv", "failed", "setup", "serve", "exited"}
  /\ wire = Empty \/ wire = [fds |-> Buffers(cam.count), hs |-> Message(cam)]
  /\ \E k \in 0 .. cam.count : k <= RecvMax /\ table = Buffers(k)
  /\ fds = <<>> \/ fds = table
  /\ hs = Empty.hs \/ hs = Message(cam)
  /\ image = NoImage \/ image = Import(hs)

(***************************************************************************)
(* The subscriber goes on only with every descriptor the publisher has, in *)
(* its order: the indices of the frames are used without a check.  Limits  *)
(* of the message, of the receiver's buffer and of its table, and a        *)
(* publisher that dies in between, are noticed.                            *)
(***************************************************************************)
CompleteOrRejected ==
  sub \in {"setup", "serve"} => fds = Buffers(cam.count) /\ table = fds

(***************************************************************************)
(* The subscriber looks for the chroma plane where the driver has written  *)
(* it, and all of it is in the buffer; and it walks the lines with the     *)
(* driver's stride.  For frames below 2^31 bytes, beyond which EGLint is   *)
(* negative.                                                               *)
(***************************************************************************)
ChromaWhereWritten ==
  image # NoImage /\ Size(cam) < IntMod \div 2 =>
    /\ image.pitch = cam.stride
    /\ cam.fmt \in SemiPlanar => /\ image.offset1 = Luma(cam)
                                 /\ image.offset1 + Chroma(cam) <= Size(cam)

(***************************************************************************)
(* The inductive invariant behind these: what is known at each step.       *)
(***************************************************************************)
StepsAgree ==
  /\ sub \in {"setup", "serve"} => hs = Message(cam)
  /\ sub # "none" \/ pub \in {"send", "serve"} => cam.fmt # "MJPG"
  /\ sub = "none" => wire = Empty /\ pub \in {"fourcc", "exited"}
  /\ pub = "fourcc" => sub = "none"
  /\ image # NoImage => sub = "serve"

IInv == TypeOK /\ CompleteOrRejected /\ StepsAgree

SameLayout == DrmBytes[image.fourcc] = V4l2Bytes[cam.fmt]
SampledAsIs == image.external <=> cam.fmt \in Yuv

(***************************************************************************)
(* A format is shown as the driver wrote it: the components in the same    *)
(* order, and converted if and only if they are not red, green and blue.   *)
(***************************************************************************)
ShownAsWritten == image # NoImage => SameLayout /\ SampledAsIs

(***************************************************************************)
(* It is for YUYV and NV12, which a user can ask for, and for all but      *)
(* three of the others that v4l2_to_drm_fourcc lets through.               *)
(***************************************************************************)
ShownRight == cam.fmt \notin {"UYVY", "RGB24", "BGR24"} => ShownAsWritten
=============================================================================
