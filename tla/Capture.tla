------------------------------- MODULE Capture -------------------------------
(***************************************************************************)
(* The life of the capture device in the publisher: open, request buffers, *)
(* get a dma-buf descriptor for each, queue them, stream, and take all of  *)
(* it down again from wherever a call failed.                              *)
(*                                                                         *)
(* There are two ways to the descriptors.  publisher (C++ and Rust) lets   *)
(* the driver allocate and exports its buffers ("mmap"); publisher_dma     *)
(* (Rust) allocates from a DMA heap and imports ("dmabuf").  A descriptor  *)
(* is named by the memory it stands for: the driver's i-th buffer or the   *)
(* heap's i-th allocation.                                                 *)
(***************************************************************************)
EXTENDS Integers, Sequences, SequencesExt, FiniteSets

CONSTANTS Count,    \* buffers asked for (4, or --bufs)
          MaxGrant  \* most buffers the driver gives

CountAssumption == Count \in Nat /\ MaxGrant \in Nat
ASSUME CountAssumption

VARIABLES
  memory,                      \* "mmap" or "dmabuf"; never changes
  step,                        \* of the publisher
  dev, heap, files,            \* open: the device, the heap, buffer descriptors
  local, buffers, streaming,   \* Vec of heap descriptors, V4l2Capture::buffers_, streaming_
  granted, backing, queue, on  \* driver: buffers, what each one writes to, queued, streaming

process == <<dev, heap, files, local, buffers, streaming>>
driver == <<granted, backing, queue, on>>
vars == <<memory, step, process, driver>>

Step == {"open", "configure", "fourcc", "heap", "request", "fill", "qbuf", "running",
         "holding", "streamoff", "closefds", "free", "close", "closed"}

NoMemory == -1
NoBuffers == [i \in {} |-> NoMemory]

Init == /\ memory \in {"mmap", "dmabuf"} /\ step = "open"
        /\ dev = FALSE /\ heap = FALSE /\ files = {}
        /\ local = <<>> /\ buffers = <<>> /\ streaming = FALSE
        /\ granted = 0 /\ backing = NoBuffers /\ queue = {} /\ on = FALSE

-----------------------------------------------------------------------------
(* An early return: the descriptors the function owns close, and then the   *)
(* destructor (Drop) of the capture object runs.                            *)

Goto(next) == step' = next /\ UNCHANGED memory

Fail == /\ Goto("streamoff")
        /\ files' = files \ ToSet(local) /\ local' = <<>>
        /\ UNCHANGED <<dev, buffers, streaming>>

Open ==
  /\ step = "open"
  /\ \/ dev' = TRUE /\ Goto("configure")
     \/ UNCHANGED dev /\ Goto("closed")
  /\ UNCHANGED <<heap, files, local, buffers, streaming, driver>>

\* QUERYCAP and S_FMT; if one fails the Rust programs close the device at
\* once, the C++ one leaves it to the destructor
Configure ==
  /\ step = "configure"
  /\ \/ Goto(IF memory = "mmap" THEN "request" ELSE "fourcc") /\ UNCHANGED dev
     \/ memory = "mmap" /\ Goto("streamoff") /\ UNCHANGED dev
     \/ Goto("closed") /\ dev' = FALSE
  /\ UNCHANGED <<heap, files, local, buffers, streaming, driver>>

\* the DRM fourcc of the format: looked up before the heap, or after start()
Fourcc ==
  /\ step = "fourcc"
  /\ \/ Goto(IF memory = "mmap" THEN "running" ELSE "heap") /\ UNCHANGED process
     \/ Fail /\ UNCHANGED heap
  /\ UNCHANGED driver

-----------------------------------------------------------------------------
(* alloc_dma_heap                                                           *)

HeapOpen ==
  /\ step = "heap" /\ ~heap
  /\ \/ heap' = TRUE /\ UNCHANGED <<memory, step, dev, files, local, buffers, streaming>>
     \/ Fail /\ UNCHANGED heap
  /\ UNCHANGED driver

\* a bug: the heap stays open after a failed allocation
HeapAllocLeaks ==
  /\ step = "heap" /\ heap /\ Len(local) < Count
  /\ \/ /\ local' = Append(local, Len(local)) /\ files' = files \union {Len(local)}
        /\ UNCHANGED <<memory, step, dev, heap, buffers, streaming>>
     \/ UNCHANGED heap /\ Fail
  /\ UNCHANGED driver

HeapAlloc ==
  /\ step = "heap" /\ heap /\ Len(local) < Count
  /\ \/ /\ local' = Append(local, Len(local)) /\ files' = files \union {Len(local)}
        /\ UNCHANGED <<memory, step, dev, heap, buffers, streaming>>
     \/ heap' = FALSE /\ Fail
  /\ UNCHANGED driver

HeapDone ==
  /\ step = "heap" /\ heap /\ Len(local) = Count
  /\ heap' = FALSE /\ Goto("request")
  /\ UNCHANGED <<dev, files, local, buffers, streaming, driver>>

-----------------------------------------------------------------------------
(* start()                                                                  *)

\* REQBUFS: the driver gives what it can, fewer or more than asked
Grant(n) == /\ granted' = n
            /\ backing' = [i \in 0 .. n - 1 |-> IF memory = "mmap" THEN i ELSE NoMemory]
            /\ UNCHANGED <<queue, on>>

\* a bug: start() does not check how many buffers were granted
RequestAny ==
  /\ step = "request" /\ UNCHANGED heap
  /\ \/ \E n \in 0 .. MaxGrant : Grant(n) /\ Goto("fill")
        /\ UNCHANGED <<dev, files, local, buffers, streaming>>
     \/ Fail /\ UNCHANGED driver

Request ==
  /\ step = "request" /\ UNCHANGED heap
  /\ \/ \E n \in 2 .. MaxGrant : Grant(n) /\ Goto("fill")
        /\ UNCHANGED <<dev, files, local, buffers, streaming>>
     \/ \E n \in 0 .. MaxGrant : n < 2 /\ Grant(n) /\ Fail
     \/ Fail /\ UNCHANGED driver

\* a bug: as many buffers are exported as were asked for
ExportAsAsked ==
  /\ step = "fill" /\ memory = "mmap" /\ Len(buffers) < Count /\ UNCHANGED <<heap, driver>>
  /\ \/ /\ buffers' = Append(buffers, Len(buffers)) /\ files' = files \union {Len(buffers)}
        /\ Goto("qbuf") /\ UNCHANGED <<dev, local, streaming>>
     \/ Fail

\* QUERYBUF, EXPBUF
Export ==
  /\ step = "fill" /\ memory = "mmap" /\ Len(buffers) < granted /\ UNCHANGED <<heap, driver>>
  /\ \/ /\ buffers' = Append(buffers, Len(buffers)) /\ files' = files \union {Len(buffers)}
        /\ Goto("qbuf") /\ UNCHANGED <<dev, local, streaming>>
     \/ Fail

\* a bug: a failed QBUF is ignored
QueueExportedAnyhow ==
  /\ step = "qbuf" /\ UNCHANGED <<heap, granted, backing, on>>
  /\ \/ queue' = queue \union {Len(buffers) - 1} \/ UNCHANGED queue
  /\ Goto("fill") /\ UNCHANGED <<dev, files, local, buffers, streaming>>

\* QBUF of the buffer just exported
QueueExported ==
  /\ step = "qbuf" /\ UNCHANGED <<heap, granted, backing, on>>
  /\ \/ /\ queue' = queue \union {Len(buffers) - 1}
        /\ Goto("fill") /\ UNCHANGED <<dev, files, local, buffers, streaming>>
     \/ Fail /\ UNCHANGED queue

\* QBUF with the next heap descriptor; the driver refuses an index it did not grant
QueueImported ==
  /\ step = "fill" /\ memory = "dmabuf" /\ local # <<>> /\ UNCHANGED <<heap, granted, on>>
  /\ \/ LET i == Len(buffers) IN
        /\ i < granted
        /\ backing' = [backing EXCEPT ![i] = Head(local)] /\ queue' = queue \union {i}
        /\ buffers' = Append(buffers, Head(local)) /\ local' = Tail(local)
        /\ UNCHANGED <<memory, step, dev, files, streaming>>
     \/ Fail /\ UNCHANGED <<backing, queue>>

Filled == IF memory = "mmap" THEN Len(buffers) = granted ELSE local = <<>>

StreamOn ==
  /\ step = "fill" /\ Filled /\ UNCHANGED <<heap, granted, backing, queue>>
  /\ \/ /\ on' = TRUE /\ streaming' = TRUE
        /\ Goto(IF memory = "mmap" THEN "fourcc" ELSE "running")
        /\ UNCHANGED <<dev, files, local, buffers>>
     \/ Fail /\ UNCHANGED on

-----------------------------------------------------------------------------
(* The loop of the publisher, as far as the device sees it: one buffer is   *)
(* out at a time (Session.tla).                                             *)

Dequeue ==
  /\ step = "running" /\ Goto("holding")
  /\ \E i \in queue : queue' = queue \ {i}
  /\ UNCHANGED <<process, granted, backing, on>>

\* a bug: every buffer is requeued with the first descriptor
RequeueFirst ==
  /\ step = "holding"
  /\ \/ /\ Goto("running")
        /\ \E i \in 0 .. Len(buffers) - 1 :
             /\ i \notin queue /\ queue' = queue \union {i}
             /\ IF memory = "mmap" THEN UNCHANGED backing
                ELSE backing' = [backing EXCEPT ![i] = buffers[1]]
     \/ Goto("streamoff") /\ UNCHANGED <<queue, backing>>
  /\ UNCHANGED <<process, granted, on>>

\* an imported buffer is queued with its descriptor again
Requeue ==
  /\ step = "holding"
  /\ \/ /\ Goto("running")
        /\ \E i \in 0 .. Len(buffers) - 1 :
             /\ i \notin queue /\ queue' = queue \union {i}
             /\ IF memory = "mmap" THEN UNCHANGED backing
                ELSE backing' = [backing EXCEPT ![i] = buffers[i + 1]]
     \/ Goto("streamoff") /\ UNCHANGED <<queue, backing>>
  /\ UNCHANGED <<process, granted, on>>

\* the loop or what is before it ends: a signal, a stall, the peer is gone
LoopEnds ==
  /\ step = "running" /\ Goto("streamoff")
  /\ UNCHANGED <<process, driver>>

-----------------------------------------------------------------------------
(* stop() and the destructor.  No result is looked at.                      *)

StreamOff ==
  /\ step = "streamoff" /\ Goto("closefds")
  /\ IF streaming THEN streaming' = FALSE /\ on' = FALSE /\ queue' = {}
                  ELSE UNCHANGED <<streaming, on, queue>>
  /\ UNCHANGED <<dev, heap, files, local, buffers, granted, backing>>

\* a bug: stop() clears buffers_ without closing them
CloseFdsNot ==
  /\ step = "closefds" /\ Goto("free")
  /\ buffers' = <<>>
  /\ UNCHANGED <<dev, heap, files, local, streaming, driver>>

CloseFds ==
  /\ step = "closefds" /\ Goto("free")
  /\ files' = files \ ToSet(buffers) /\ buffers' = <<>>
  /\ UNCHANGED <<dev, heap, local, streaming, driver>>

\* REQBUFS(0): an old driver refuses while the subscriber has descriptors
Free ==
  /\ step = "free" /\ Goto("close")
  /\ \/ granted' = 0 /\ backing' = NoBuffers /\ queue' = {} /\ UNCHANGED on
     \/ UNCHANGED driver
  /\ UNCHANGED process

\* the last descriptor of the device: the driver lets go of everything
Close ==
  /\ step = "close" /\ Goto("closed")
  /\ dev' = FALSE
  /\ granted' = 0 /\ backing' = NoBuffers /\ queue' = {} /\ on' = FALSE
  /\ UNCHANGED <<heap, files, local, buffers, streaming>>

Done == step = "closed" /\ UNCHANGED vars

-----------------------------------------------------------------------------
Start == \/ Request \/ Export \/ QueueExported \/ QueueImported \/ StreamOn
Heap == HeapOpen \/ HeapAlloc \/ HeapDone
Loop == Dequeue \/ Requeue \/ LoopEnds
Stop == StreamOff \/ CloseFds \/ Free \/ Close

Next == Open \/ Configure \/ Fourcc \/ Heap \/ Start \/ Loop \/ Stop \/ Done

Spec == Init /\ [][Next]_vars

-----------------------------------------------------------------------------
Mem == 0 .. (IF Count >= MaxGrant THEN Count ELSE MaxGrant) - 1

TypeOK ==
  /\ memory \in {"mmap", "dmabuf"} /\ step \in Step
  /\ dev \in BOOLEAN /\ heap \in BOOLEAN /\ files \subseteq Mem
  /\ local \in Seq(Mem) /\ buffers \in Seq(Mem) /\ streaming \in BOOLEAN
  /\ granted \in 0 .. MaxGrant /\ backing \in [0 .. granted - 1 -> Mem \union {NoMemory}]
  /\ queue \subseteq 0 .. granted - 1 /\ on \in BOOLEAN

(***************************************************************************)
(* Every open buffer descriptor belongs to exactly one vector, which will  *)
(* close it: whichever call fails, none is leaked and none is closed twice *)
(* (the second close could hit a descriptor opened meanwhile).             *)
(***************************************************************************)
DescriptorsOwned ==
  /\ files = ToSet(local) \union ToSet(buffers)
  /\ ToSet(local) \intersect ToSet(buffers) = {}
  /\ IsInjective(local) /\ IsInjective(buffers)

(***************************************************************************)
(* After the destructor nothing is open, from whichever step it started.   *)
(***************************************************************************)
NothingLeftOpen == step = "closed" => ~dev /\ ~heap /\ files = {}

(***************************************************************************)
(* The loop starts, and every round of it, with all buffers in the driver: *)
(* the initial state Session.tla assumes.                                  *)
(***************************************************************************)
FullQueue == step = "running" => queue = 0 .. Len(buffers) - 1

(***************************************************************************)
(* The camera writes buffer i into the memory whose descriptor the         *)
(* subscriber got as number i, also after a buffer was queued again, and   *)
(* an index from DQBUF is always within the vector.                        *)
(***************************************************************************)
RightMemory ==
  on => \A i \in queue : i < Len(buffers) /\ backing[i] = buffers[i + 1]

(***************************************************************************)
(* The inductive invariant behind these.  Buffers are numbered in the      *)
(* order they are got, across the two vectors; the driver has those that   *)
(* start() has queued, all but the one the loop holds afterwards.          *)
(***************************************************************************)
NumberedFrom(k, s) == \A j \in DOMAIN s : s[j] = k + j - 1

Numbered ==
  /\ NumberedFrom(0, buffers) /\ NumberedFrom(Len(buffers), local)
  /\ files = 0 .. Len(buffers) + Len(local) - 1
  /\ memory = "mmap" => local = <<>>
  /\ memory = "dmabuf" => Len(buffers) + Len(local) <= Count

Started == step \in {"running", "holding"} \/ (step = "fourcc" /\ memory = "mmap")

Held(s) == 0 .. Len(s) - 1

QueuedSoFar ==
  /\ step = "fill" => queue = Held(buffers)
  /\ step = "qbuf" => buffers # <<>> /\ queue = Held(buffers) \ {Len(buffers) - 1}
  /\ Started /\ step # "holding" => queue = Held(buffers)
  /\ step = "holding" => \E i \in Held(buffers) : queue = Held(buffers) \ {i}
  /\ on \/ step \in {"fill", "qbuf"} =>
       /\ queue \subseteq Held(buffers) /\ Len(buffers) <= granted
       /\ \A i \in queue : backing[i] = i
  /\ memory = "mmap" => \A i \in 0 .. granted - 1 : backing[i] = i

StepsAgree ==
  /\ dev <=> step \notin {"open", "closed"}
  /\ heap => step = "heap"
  /\ local # <<>> => step \in {"heap", "request", "fill"}
  /\ buffers # <<>> => Started \/ step \in {"fill", "qbuf", "streamoff", "closefds"}
  /\ streaming <=> on
  /\ Started => on
  /\ on => Started \/ step = "streamoff"
  /\ memory = "mmap" /\ (Started \/ step \in {"fill", "qbuf"}) => granted >= 2
  /\ memory = "mmap" /\ Started => Len(buffers) = granted
  /\ step = "qbuf" => memory = "mmap"
  /\ step = "heap" => memory = "dmabuf"
  /\ step \in {"open", "configure", "heap", "request"} => granted = 0 /\ queue = {}
  /\ step = "fourcc" /\ memory = "dmabuf" => granted = 0 /\ queue = {}

IInv == TypeOK /\ Numbered /\ QueuedSoFar /\ StepsAgree

(***************************************************************************)
(* "need >= 2 buffers": with one, the camera has nowhere to write while    *)
(* the subscriber draws.  start() checks what the driver granted, which    *)
(* for exported buffers is what the loop will use.                         *)
(***************************************************************************)
AtLeastTwoExported == memory = "mmap" /\ step = "running" => Len(buffers) >= 2

(***************************************************************************)
(* The same for both programs, as the message of both start() functions    *)
(* says.                                                                   *)
(***************************************************************************)
AtLeastTwo == step = "running" => Len(buffers) >= 2

-----------------------------------------------------------------------------
(* The device, as the loop of Session.tla sees it.                          *)

Capturing == INSTANCE Device
  WITH Index <- 0 .. MaxGrant - 1,
       state <- IF on THEN "streaming"
                ELSE IF step \in {"streamoff", "closefds", "free", "close", "closed"}
                     THEN "stopped" ELSE "idle",
       all <- IF on THEN Held(buffers) ELSE {},
       inside <- IF on THEN queue ELSE {}

(***************************************************************************)
(* The loop gets a device with all its buffers queued; it takes one at a   *)
(* time; and from whatever call the program leaves, the camera is stopped, *)
(* for good, while the descriptors of its buffers are still held.          *)
(***************************************************************************)
ProvidesDevice == Capturing!Spec
=============================================================================
