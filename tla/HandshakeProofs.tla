--------------------------- MODULE HandshakeProofs ---------------------------
(* Proofs about Handshake.tla, for any limits, geometries and integer width. *)
EXTENDS Handshake, TLAPS

(* The prefix of a list of descriptors is the list of fewer of them. *)
LEMMA PrefixOfBuffers ==
  ASSUME NEW n \in Nat, NEW k \in 0 .. n
  PROVE  /\ Len(Buffers(n)) = n
         /\ SubSeq(Buffers(n), 1, k) = Buffers(k)
         /\ Buffers(0) = <<>>
BY DEF Buffers

(* What every camera that the model starts with looks like. *)
LEMMA CameraType ==
  ASSUME NEW c \in Cameras
  PROVE  /\ c.fmt \in V4l2Format /\ c.width \in Nat /\ c.height \in Nat \ {0}
         /\ c.stride \in Nat /\ c.count \in 1 .. MaxCount
         /\ Size(c) < IntMod
<1>1. PICK f \in V4l2Format, w \in Widths, h \in Heights, pad \in Pads, n \in 1 .. MaxCount :
        c = [fmt |-> f, width |-> w, height |-> h, stride |-> PixelBytes(f) * w + pad, count |-> n]
  BY DEF Cameras, Geometry
<1>2. PixelBytes(f) \in Nat
  BY DEF PixelBytes
<1>3. w \in Nat /\ h \in Nat \ {0} /\ pad \in Nat
  BY GeometryAssumption DEF GeometryAssumption
<1>4. PixelBytes(f) * w + pad \in Nat
  BY <1>2, <1>3
<1> QED
  BY <1>1, <1>3, <1>4 DEF Cameras

(* The message is not the empty one: it announces a buffer. *)
LEMMA MessageNotEmpty ==
  ASSUME NEW c \in Cameras
  PROVE  /\ Message(c).buf_count = c.count
         /\ Message(c) # Empty.hs
         /\ [fds |-> Buffers(c.count), hs |-> Message(c)] # Empty
<1>1. c.count >= 1
  BY CameraType
<1>2. Message(c).buf_count = c.count /\ Empty.hs.buf_count = 0
  BY DEF Message, Empty
<1>3. Message(c) # Empty.hs
  BY <1>1, <1>2
<1> QED
  BY <1>2, <1>3

(* The inductive invariant. *)
THEOREM Inductive == Spec => []IInv
<1>1. Init => IInv
  <2> SUFFICES ASSUME Init PROVE IInv
    OBVIOUS
  <2>1. cam.count \in 1 .. MaxCount
    BY CameraType DEF Init
  <2>2. Buffers(0) = <<>>
    BY PrefixOfBuffers
  <2> QED
    BY <2>1, <2>2, GeometryAssumption
    DEF GeometryAssumption, Init, IInv, TypeOK, CompleteOrRejected, StepsAgree
<1>2. IInv /\ [Next]_vars => IInv'
  <2> SUFFICES ASSUME IInv, [Next]_vars PROVE IInv'
    OBVIOUS
  <2> USE DEF IInv, TypeOK, CompleteOrRejected, StepsAgree
  <2>0. /\ cam.count \in 1 .. MaxCount /\ cam.count \in Nat /\ RecvMax \in Nat
        /\ Buffers(0) = <<>> /\ Len(Buffers(cam.count)) = cam.count
        /\ cam.fmt \in V4l2Format
    BY CameraType, PrefixOfBuffers, GeometryAssumption DEF GeometryAssumption
  <2>1. CASE PubFourcc
    <3>1. cam.fmt = "MJPG" => v4l2_to_drm_fourcc[cam.fmt] = NoFourcc
      BY <2>0 DEF v4l2_to_drm_fourcc, V4l2Format, Yuv, SemiPlanar, Rgb
    <3>2. /\ sub = "none" /\ image = NoImage /\ wire = Empty
          /\ UNCHANGED <<cam, wire, table, fds, hs, image>>
      BY <2>1 DEF PubFourcc
    <3>3. CASE cam.fmt = "MJPG"
      BY <2>0, <2>1, <3>1, <3>2, <3>3 DEF PubFourcc
    <3>4. CASE cam.fmt # "MJPG"
      BY <2>0, <2>1, <3>2, <3>4 DEF PubFourcc
    <3> QED
      BY <3>3, <3>4
  <2>2. CASE PubSend
    BY <2>2 DEF PubSend
  <2>3. CASE PubEnds
    BY <2>3 DEF PubEnds
  <2>4. CASE SubRecv
    <3>1. wire = [fds |-> Buffers(cam.count), hs |-> Message(cam)]
      BY <2>4 DEF SubRecv
    <3>2. PICK k \in 0 .. cam.count :
            /\ Fits(k) /\ Received(k, IF k < cam.count THEN <<>> ELSE Buffers(cam.count))
            /\ sub' = IF Len(fds') = wire.hs.buf_count THEN "setup" ELSE "failed"
      BY <2>0, <2>4, <3>1 DEF SubRecv
    <3>3. /\ table' = Buffers(k) /\ k <= RecvMax /\ hs' = Message(cam) /\ wire' = Empty
          /\ UNCHANGED <<cam, pub, image>>
      BY <2>0, <3>1, <3>2, PrefixOfBuffers DEF Fits, Received
    <3>4. fds' = IF k < cam.count THEN <<>> ELSE Buffers(cam.count)
      BY <3>2 DEF Received
    <3>5. wire.hs.buf_count = cam.count
      BY <3>1, MessageNotEmpty
    <3>6. sub' \in {"setup", "failed"} /\ (sub' = "setup" => k = cam.count)
      BY <2>0, <3>2, <3>4, <3>5
    <3>7. image = NoImage
      BY <2>4 DEF SubRecv
    <3>8. k = cam.count \/ fds' = <<>>
      BY <2>0, <3>4
    <3>9. k = cam.count => fds' = Buffers(cam.count)
      BY <2>0, <3>4
    <3>10. cam.fmt # "MJPG"
      BY <2>4 DEF SubRecv
    <3>11. TypeOK'
      BY <2>0, <3>3, <3>6, <3>7, <3>8, <3>9
    <3>12. CompleteOrRejected'
      BY <2>0, <3>3, <3>6, <3>9
    <3>13. wire' = Empty /\ pub' = pub /\ sub' # "none" /\ image' = NoImage
      BY <3>3, <3>6, <3>7
    <3>14. pub # "fourcc"
      BY <2>4 DEF SubRecv
    <3>15. StepsAgree'
      BY <3>3, <3>6, <3>10, <3>13, <3>14
    <3> QED
      BY <3>11, <3>12, <3>15
  <2>5. CASE SubRecvEof
    BY <2>5 DEF SubRecvEof
  <2>6. CASE SubSetup
    BY <2>6 DEF SubSetup
  <2>7. CASE SubEnds
    <3>1. \E k \in 0 .. cam'.count : k <= RecvMax /\ table' = Buffers(k)
      BY <2>0, <2>7 DEF SubEnds
    <3> QED
      BY <2>7, <3>1 DEF SubEnds
  <2>8. CASE Done
    BY <2>8 DEF Done, vars
  <2>9. CASE UNCHANGED vars
    BY <2>9 DEF vars
  <2> QED
    BY <2>1, <2>2, <2>3, <2>4, <2>5, <2>6, <2>7, <2>8, <2>9 DEF Next
<1> QED
  BY <1>1, <1>2, PTL DEF Spec

(* Types, and no more descriptors than there is room for. *)
THEOREM TypeCorrect == Spec => []TypeOK
<1>1. IInv => TypeOK
  BY DEF IInv
<1> QED
  BY <1>1, Inductive, PTL

(* The subscriber goes on only with all descriptors, in order. *)
THEOREM Complete == Spec => []CompleteOrRejected
<1>1. IInv => CompleteOrRejected
  BY DEF IInv
<1> QED
  BY <1>1, Inductive, PTL

(* A non-negative number below half the modulus survives the conversions. *)
LEMMA SmallIsExact ==
  ASSUME NEW x \in Nat, x < IntMod \div 2
  PROVE  x % IntMod = x /\ EGLint(x) = x
<1>1. IntMod \div 2 < IntMod /\ IntMod \div 2 \in Nat
  BY IntAssumption DEF IntAssumption
<1>2. x % IntMod = x
  BY <1>1, IntAssumption DEF IntAssumption
<1> QED
  BY <1>2 DEF EGLint

(* A plane is at least one line long. *)
LEMMA LumaBounds ==
  ASSUME NEW c \in Cameras
  PROVE  /\ Luma(c) \in Nat /\ Chroma(c) \in Nat
         /\ c.stride <= Luma(c)
         /\ Size(c) = Luma(c) + Chroma(c)
<1>1. c.stride \in Nat /\ c.height \in Nat \ {0}
  BY CameraType
<1>2. Luma(c) \in Nat /\ c.stride <= Luma(c)
  <2> DEFINE s == c.stride  h == c.height
  <2>1. s \in Nat /\ h \in Nat /\ h >= 1
    BY <1>1
  <2> HIDE DEF s, h
  <2>2. s * h \in Nat /\ s <= s * h
    BY <2>1
  <2> QED
    BY <2>2 DEF Luma, s, h
<1>3. ChromaRows(c) \in Nat
  BY <1>1 DEF ChromaRows
<1>4. Chroma(c) \in Nat
  BY <1>1, <1>3 DEF Chroma
<1> QED
  BY <1>2, <1>4 DEF Size

(* The subscriber finds the chroma plane. *)
THEOREM ChromaFound == Spec => []ChromaWhereWritten
<1>1. IInv => ChromaWhereWritten
  <2> SUFFICES ASSUME IInv, image # NoImage, Size(cam) < IntMod \div 2
               PROVE  /\ image.pitch = cam.stride
                      /\ cam.fmt \in SemiPlanar =>
                           /\ image.offset1 = Luma(cam)
                           /\ image.offset1 + Chroma(cam) <= Size(cam)
    BY DEF ChromaWhereWritten
  <2>1. cam \in Cameras /\ image = Import(Message(cam))
    BY DEF IInv, TypeOK, StepsAgree
  <2>2. /\ Luma(cam) \in Nat /\ Chroma(cam) \in Nat /\ cam.stride <= Luma(cam)
        /\ Size(cam) = Luma(cam) + Chroma(cam) /\ cam.stride \in Nat
    BY <2>1, LumaBounds, CameraType
  <2>3. IntMod \div 2 \in Nat
    BY IntAssumption DEF IntAssumption
  <2>4. Luma(cam) < IntMod \div 2 /\ cam.stride < IntMod \div 2
    BY <2>2, <2>3
  <2>5. EGLint(cam.stride) = cam.stride
    BY <2>2, <2>4, SmallIsExact
  <2>6. EGLint(Luma(cam) % IntMod) = Luma(cam)
    BY <2>2, <2>4, SmallIsExact
  <2>7. image.pitch = cam.stride
    BY <2>1, <2>5 DEF Import, Message
  <2>8. ASSUME cam.fmt \in SemiPlanar PROVE image.offset1 = Luma(cam)
    <3>1. v4l2_to_drm_fourcc[cam.fmt] = cam.fmt
      BY <2>8 DEF v4l2_to_drm_fourcc, V4l2Format, Yuv, SemiPlanar
    <3>2. Message(cam).format = cam.fmt
      BY <3>1 DEF Message
    <3>3. chroma_offset(Message(cam)) = Luma(cam) % IntMod
      BY DEF chroma_offset, Message, Luma
    <3> QED
      BY <2>1, <2>6, <2>8, <3>2, <3>3 DEF Import
  <2> QED
    BY <2>2, <2>7, <2>8
<1> QED
  BY <1>1, Inductive, PTL

(* The formats a user can ask for, and all but three others, are shown right. *)
THEOREM FormatsShownRight == Spec => []ShownRight
<1>1. IInv => ShownRight
  <2> SUFFICES ASSUME IInv, cam.fmt \notin {"UYVY", "RGB24", "BGR24"}, image # NoImage
               PROVE  /\ DrmBytes[image.fourcc] = V4l2Bytes[cam.fmt]
                      /\ image.external <=> cam.fmt \in Yuv
    BY DEF ShownRight, ShownAsWritten, SameLayout, SampledAsIs
  <2>1. cam.fmt \in {"YUYV", "NV12", "NV21", "ABGR32", "XBGR32"}
    BY CameraType DEF IInv, TypeOK, StepsAgree, V4l2Format, Yuv, SemiPlanar, Rgb
  <2>2. image = Import(Message(cam))
    BY DEF IInv, TypeOK, StepsAgree
  <2>3. image.fourcc = v4l2_to_drm_fourcc[cam.fmt]
    BY <2>2 DEF Import, Message
  <2>4. image.external = external_target(v4l2_to_drm_fourcc[cam.fmt])
    BY <2>2 DEF Import, Message
  <2> QED
    BY <2>1, <2>3, <2>4 DEF v4l2_to_drm_fourcc, DrmBytes, V4l2Bytes, external_target,
       V4l2Format, DrmFourcc, Yuv, SemiPlanar, Rgb
<1> QED
  BY <1>1, Inductive, PTL
=============================================================================
