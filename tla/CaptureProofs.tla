---------------------------- MODULE CaptureProofs ----------------------------
(***************************************************************************)
(* What Capture.tla keeps for every number of buffers asked for and        *)
(* granted, wherever a call fails.                                         *)
(*                                                                         *)
(* IInv is inductive because buffers are numbered in the order they are    *)
(* got: the two vectors split an initial segment of the descriptors, so a  *)
(* descriptor has one owner and an index means the same memory to the      *)
(* driver and to the vector.                                               *)
(***************************************************************************)
EXTENDS Capture, SequenceTheorems, TLAPS

USE CountAssumption DEF CountAssumption

-----------------------------------------------------------------------------
(* Numbered sequences.                                                      *)

LEMMA NumberedSet ==
  ASSUME NEW S, NEW s \in Seq(S), NEW k \in Nat, NumberedFrom(k, s)
  PROVE  ToSet(s) = k .. k + Len(s) - 1
<1>1. DOMAIN s = 1 .. Len(s) /\ Len(s) \in Nat BY LenProperties
<1>2. ASSUME NEW x \in ToSet(s) PROVE x \in k .. k + Len(s) - 1
  <2> PICK j \in 1 .. Len(s) : x = s[j] BY <1>1 DEF ToSet
  <2> QED BY <1>1 DEF NumberedFrom
<1>3. ASSUME NEW x \in k .. k + Len(s) - 1 PROVE x \in ToSet(s)
  <2>1. x - k + 1 \in 1 .. Len(s) BY <1>1
  <2>2. s[x - k + 1] = x BY <1>1, <2>1 DEF NumberedFrom
  <2> QED BY <1>1, <2>1, <2>2 DEF ToSet
<1> QED BY <1>2, <1>3

LEMMA NumberedAppend ==
  ASSUME NEW S, NEW s \in Seq(S), NEW k \in Nat, NumberedFrom(k, s), k + Len(s) \in S
  PROVE  /\ Append(s, k + Len(s)) \in Seq(S)
         /\ Len(Append(s, k + Len(s))) = Len(s) + 1
         /\ NumberedFrom(k, Append(s, k + Len(s)))
<1> DEFINE t == Append(s, k + Len(s))
<1>1. /\ t \in Seq(S) /\ Len(t) = Len(s) + 1 /\ Len(s) \in Nat
      /\ DOMAIN s = 1 .. Len(s) /\ DOMAIN t = 1 .. Len(s) + 1
      /\ t[Len(s) + 1] = k + Len(s) /\ \A j \in 1 .. Len(s) : t[j] = s[j]
  BY AppendProperties, LenProperties
<1>2. ASSUME NEW j \in DOMAIN t PROVE t[j] = k + j - 1
  <2>1. CASE j \in 1 .. Len(s) BY <1>1, <2>1 DEF NumberedFrom
  <2>2. CASE j = Len(s) + 1 BY <1>1, <2>2
  <2> QED BY <1>1, <2>1, <2>2
<1> QED BY <1>1, <1>2 DEF NumberedFrom

LEMMA NumberedTail ==
  ASSUME NEW S, NEW s \in Seq(S), NEW k \in Nat, NumberedFrom(k, s), s # <<>>
  PROVE  /\ Head(s) = k /\ Head(s) \in S
         /\ Tail(s) \in Seq(S) /\ Len(Tail(s)) = Len(s) - 1 /\ Len(s) >= 1
         /\ NumberedFrom(k + 1, Tail(s))
<1>1. /\ Tail(s) \in Seq(S) /\ Len(Tail(s)) = Len(s) - 1 /\ Len(s) \in Nat \ {0}
      /\ DOMAIN s = 1 .. Len(s) /\ DOMAIN Tail(s) = 1 .. Len(s) - 1
      /\ Head(s) = s[1] /\ Head(s) \in S
      /\ \A j \in 1 .. Len(s) - 1 : Tail(s)[j] = s[j + 1]
  BY HeadTailProperties, EmptySeq, LenProperties
<1>2. 1 \in DOMAIN s BY <1>1
<1>3. ASSUME NEW j \in 1 .. Len(s) - 1 PROVE Tail(s)[j] = k + 1 + j - 1
  <2>1. j + 1 \in DOMAIN s BY <1>1
  <2>2. s[j + 1] = k + (j + 1) - 1 BY <2>1 DEF NumberedFrom
  <2>3. Tail(s)[j] = s[j + 1] BY <1>1
  <2> QED BY <1>1, <2>2, <2>3
<1> QED BY <1>1, <1>2, <1>3 DEF NumberedFrom

-----------------------------------------------------------------------------
(* The parts of IInv that a step needs spelled out.                         *)

LEMMA FailKeepsIInv ==
  ASSUME IInv, Fail, heap' = FALSE, ~streaming,
         step \in {"fourcc", "heap", "request", "fill", "qbuf"},
         granted' \in 0 .. MaxGrant, backing' \in [0 .. granted' - 1 -> Mem \union {NoMemory}],
         queue' \subseteq 0 .. granted' - 1, on' = FALSE,
         memory = "mmap" => \A i \in 0 .. granted' - 1 : backing'[i] = i
  PROVE  IInv'
<1> USE DEF IInv, StepsAgree
<1> DEFINE n == Len(buffers)
<1>1. /\ n \in Nat /\ Len(local) \in Nat
      /\ ToSet(local) = n .. n + Len(local) - 1
  <2> n \in Nat BY LenProperties DEF TypeOK
  <2> QED BY NumberedSet, LenProperties DEF TypeOK, Numbered
<1>2. files' = 0 .. n - 1
  BY <1>1 DEF Fail, Numbered
<1>3. local' = <<>> /\ Len(local') = 0 /\ DOMAIN local' = {} /\ local' \in Seq(Mem)
  BY DEF Fail
<1>4. TypeOK'
  BY <1>1, <1>2, <1>3 DEF TypeOK, Fail, Goto, Step, Numbered
<1>5. Numbered'
  BY <1>1, <1>2, <1>3 DEF Fail, Goto, Numbered, NumberedFrom
<1>6. QueuedSoFar'
  BY DEF QueuedSoFar, Fail, Goto, Started
<1>7. StepsAgree'
  BY <1>3 DEF Fail, Goto, Started
<1> QED BY <1>4, <1>5, <1>6, <1>7

LEMMA InitIInv == Init => IInv
<1> SUFFICES ASSUME Init PROVE IInv OBVIOUS
<1> DOMAIN buffers = {} /\ DOMAIN local = {} /\ Len(buffers) = 0 /\ Len(local) = 0
  BY DEF Init
<1>1. TypeOK
  <2>1. granted = 0 /\ 0 .. granted - 1 = {} /\ backing = NoBuffers BY DEF Init
  <2>2. NoBuffers \in [{} -> Mem \union {NoMemory}] BY DEF NoBuffers
  <2>3. backing \in [0 .. granted - 1 -> Mem \union {NoMemory}]
    <3> HIDE DEF NoBuffers
    <3> QED BY <2>1, <2>2
  <2>4. granted \in 0 .. MaxGrant /\ local \in Seq(Mem) /\ buffers \in Seq(Mem)
    BY <2>1, EmptySeq DEF Init
  <2> QED BY <2>3, <2>4 DEF Init, TypeOK, Step
<1>2. Numbered BY DEF Init, Numbered, NumberedFrom
<1>3. QueuedSoFar /\ StepsAgree BY DEF Init, QueuedSoFar, StepsAgree, Started
<1> QED BY <1>1, <1>2, <1>3 DEF IInv

-----------------------------------------------------------------------------
(* Opening the device and the heap.                                         *)

LEMMA OpenKeepsIInv == IInv /\ (Open \/ Configure \/ Fourcc) => IInv'
<1> SUFFICES ASSUME IInv, Open \/ Configure \/ Fourcc PROVE IInv' OBVIOUS
<1> USE DEF IInv, Goto, driver, process
<1>1. CASE Open
  <2>1. ~on /\ buffers = <<>> /\ local = <<>> /\ ~heap
    BY <1>1 DEF Open, StepsAgree, Started
  <2>2. TypeOK' BY <1>1 DEF Open, TypeOK, Step
  <2>3. Numbered' BY <1>1 DEF Open, Numbered
  <2>4. QueuedSoFar' BY <1>1, <2>1 DEF Open, QueuedSoFar, Started
  <2>5. StepsAgree' BY <1>1, <2>1 DEF Open, StepsAgree, Started
  <2> QED BY <2>2, <2>3, <2>4, <2>5
<1>2. CASE Configure
  BY <1>2 DEF Configure, TypeOK, Step, Numbered, QueuedSoFar, StepsAgree, Started
<1>3. CASE Fourcc /\ step' # "streamoff"
  <2>1. /\ step = "fourcc" /\ step' = IF memory = "mmap" THEN "running" ELSE "heap"
        /\ UNCHANGED <<memory, process, driver>>
    BY <1>3 DEF Fourcc, Fail
  <2>2. TypeOK' BY <2>1 DEF TypeOK, Step
  <2>3. Numbered' BY <2>1 DEF Numbered
  <2>4. QueuedSoFar' BY <2>1 DEF QueuedSoFar, StepsAgree, Started
  <2>5. StepsAgree' BY <2>1 DEF StepsAgree, TypeOK, Started
  <2> QED BY <2>2, <2>3, <2>4, <2>5
<1>4. CASE Fourcc /\ step' = "streamoff"
  <2>1. memory = "mmap" \/ memory = "dmabuf" BY DEF TypeOK
  <2>2. ToSet(local) \subseteq ToSet(local) /\ local = <<>>
    BY <1>4 DEF Fourcc, StepsAgree
  <2>3. files \ ToSet(<<>>) = files BY DEF ToSet
  <2>4. Fail BY <1>4 DEF Fourcc
  <2> QED
    BY <1>4, <2>1, <2>2, <2>3, <2>4
       DEF Fourcc, Fail, TypeOK, Step, Numbered, QueuedSoFar, StepsAgree, Started
<1> QED BY <1>1, <1>2, <1>3, <1>4

LEMMA HeapKeepsIInv == IInv /\ Heap => IInv'
<1> SUFFICES ASSUME IInv, Heap PROVE IInv' OBVIOUS
<1> DEFINE n == Len(local)
<1>1. step = "heap" BY DEF Heap, HeapOpen, HeapAlloc, HeapDone
<1>2. /\ buffers = <<>> /\ Len(buffers) = 0 /\ n \in Nat
      /\ ~streaming /\ ~on
  BY <1>1, LenProperties DEF IInv, StepsAgree, TypeOK, Started
<1>3. CASE Fail /\ heap' = FALSE /\ UNCHANGED driver
  <2> on' = FALSE BY <1>2, <1>3 DEF driver, IInv, TypeOK
  <2> QED BY <1>1, <1>2, <1>3, FailKeepsIInv DEF driver, IInv, TypeOK, QueuedSoFar
<1>4. CASE HeapOpen /\ ~Fail
  <2>1. heap' = TRUE /\ UNCHANGED <<memory, step, dev, files, local, buffers, streaming, driver>>
    BY <1>4 DEF HeapOpen
  <2>2. TypeOK' BY <2>1 DEF IInv, TypeOK, driver
  <2>3. Numbered' BY <2>1 DEF IInv, Numbered
  <2>4. QueuedSoFar' BY <1>1, <1>2, <2>1 DEF IInv, QueuedSoFar, Started, driver
  <2>5. StepsAgree' BY <1>1, <2>1 DEF IInv, StepsAgree, Started, driver
  <2> QED BY <2>2, <2>3, <2>4, <2>5 DEF IInv
<1>5. CASE HeapAlloc /\ ~Fail
  <2>1. /\ n < Count /\ local' = Append(local, n) /\ files' = files \union {n}
        /\ UNCHANGED <<memory, step, dev, heap, buffers, streaming, driver>>
    BY <1>5 DEF HeapAlloc
  <2>2. /\ local' \in Seq(Mem) /\ Len(local') = n + 1 /\ NumberedFrom(0, local')
    <3> n \in Mem BY <1>2, <2>1 DEF Mem
    <3> NumberedFrom(0, local) /\ local \in Seq(Mem) BY <1>2 DEF IInv, Numbered, TypeOK
    <3> 0 + n = n BY <1>2
    <3> QED BY <1>2, <2>1, NumberedAppend
  <2>3. files' = 0 .. n /\ files' \subseteq Mem
    <3> files = 0 .. n - 1 BY <1>2 DEF IInv, Numbered
    <3> QED BY <1>2, <2>1 DEF Mem
  <2>4. memory = "dmabuf"
    BY <1>1 DEF IInv, StepsAgree
  <2>5. TypeOK' BY <2>1, <2>2, <2>3 DEF IInv, TypeOK, driver
  <2>6. Numbered' BY <1>2, <2>1, <2>2, <2>3, <2>4 DEF IInv, Numbered
  <2>7. QueuedSoFar' BY <1>1, <1>2, <2>1 DEF IInv, QueuedSoFar, Started, driver
  <2>8. StepsAgree' BY <1>1, <1>2, <2>1 DEF IInv, StepsAgree, Started, driver
  <2> QED BY <2>5, <2>6, <2>7, <2>8 DEF IInv
<1>6. CASE HeapDone
  BY <1>1, <1>2, <1>6 DEF HeapDone, driver, Goto, IInv, TypeOK, Step, Numbered,
                          QueuedSoFar, StepsAgree, Started
<1>7. HeapOpen /\ Fail => heap' = FALSE
  <2>1. HeapOpen /\ Fail => ~heap /\ heap' = heap
    BY <1>1 DEF HeapOpen, Fail, Goto
  <2>2. ~heap => heap = FALSE BY DEF IInv, TypeOK
  <2> QED BY <2>1, <2>2
<1>8. HeapAlloc /\ Fail => heap' = FALSE
  BY <1>1 DEF HeapAlloc, Fail, Goto
<1> QED BY <1>3, <1>4, <1>5, <1>6, <1>7, <1>8 DEF Heap, HeapOpen, HeapAlloc

-----------------------------------------------------------------------------
(* start()                                                                  *)

LEMMA RequestKeepsIInv == IInv /\ Request => IInv'
<1> SUFFICES ASSUME IInv, Request PROVE IInv' OBVIOUS
<1>1. /\ step = "request" /\ ~on /\ on = FALSE /\ ~streaming /\ ~heap /\ heap = FALSE
      /\ heap' = FALSE /\ queue = {} /\ buffers = <<>> /\ Len(buffers) = 0
  BY EmptySeq DEF Request, IInv, StepsAgree, Started, TypeOK
<1>2. ASSUME NEW n \in 0 .. MaxGrant, Grant(n)
      PROVE  /\ granted' \in 0 .. MaxGrant
             /\ backing' \in [0 .. granted' - 1 -> Mem \union {NoMemory}]
             /\ queue' = {} /\ on' = FALSE
             /\ memory = "mmap" => \A i \in 0 .. granted' - 1 : backing'[i] = i
  BY <1>1, <1>2 DEF Grant, Mem
<1>3. CASE \E n \in 0 .. MaxGrant : n < 2 /\ Grant(n) /\ Fail
  BY <1>1, <1>2, <1>3, FailKeepsIInv
<1>4. CASE Fail /\ UNCHANGED driver
  BY <1>1, <1>4, FailKeepsIInv DEF driver, IInv, TypeOK, QueuedSoFar
<1>5. ASSUME NEW n \in 2 .. MaxGrant, Grant(n), Goto("fill"),
             UNCHANGED <<dev, files, local, buffers, streaming>>
      PROVE  IInv'
  <2>1. granted' \in 0 .. MaxGrant /\ granted' >= 2
        /\ backing' \in [0 .. granted' - 1 -> Mem \union {NoMemory}]
        /\ queue' = {} /\ on' = FALSE
    <3> n \in 0 .. MaxGrant /\ n >= 2 OBVIOUS
    <3> QED BY <1>2, <1>5 DEF Grant
  <2>2. TypeOK' BY <1>1, <1>5, <2>1 DEF IInv, TypeOK, Step, Goto
  <2>3. Numbered' BY <1>5 DEF IInv, Numbered, Goto
  <2>4. QueuedSoFar'
    <3>1. memory' = "mmap" => \A i \in 0 .. granted' - 1 : backing'[i] = i
      BY <1>5 DEF Grant, Goto
    <3>2. Held(buffers') = {} /\ Len(buffers') <= granted' /\ step' = "fill" /\ ~on'
      BY <1>1, <1>5, <2>1 DEF Held, Goto
    <3> QED BY <2>1, <3>1, <3>2 DEF QueuedSoFar, Started
  <2>5. StepsAgree' BY <1>1, <1>5, <2>1 DEF IInv, StepsAgree, Started, Goto
  <2> QED BY <2>2, <2>3, <2>4, <2>5 DEF IInv
<1> QED BY <1>3, <1>4, <1>5 DEF Request

LEMMA ExportKeepsIInv == IInv /\ Export => IInv'
<1> SUFFICES ASSUME IInv, Export PROVE IInv' OBVIOUS
<1> DEFINE n == Len(buffers)
<1>1. /\ step = "fill" /\ memory = "mmap" /\ UNCHANGED <<heap, driver>>
      /\ n \in Nat /\ granted \in Nat /\ n < granted /\ ~on /\ on' = FALSE /\ ~streaming /\ heap' = FALSE /\ local = <<>> /\ Len(local) = 0
  BY LenProperties, EmptySeq DEF Export, IInv, StepsAgree, Started, TypeOK, Numbered, driver
<1>2. CASE Fail
  BY <1>1, <1>2, FailKeepsIInv DEF driver, IInv, TypeOK, QueuedSoFar
<1>3. CASE /\ buffers' = Append(buffers, n) /\ files' = files \union {n}
           /\ Goto("qbuf") /\ UNCHANGED <<dev, local, streaming>>
  <2>1. n \in Mem BY <1>1 DEF Mem, IInv, TypeOK
  <2>2. buffers' \in Seq(Mem) /\ Len(buffers') = n + 1 /\ NumberedFrom(0, buffers')
    <3> NumberedFrom(0, buffers) /\ buffers \in Seq(Mem) BY DEF IInv, Numbered, TypeOK
    <3> 0 + n = n BY <1>1
    <3> QED BY <1>3, <2>1, NumberedAppend
  <2>3. files' = 0 .. n + 1 + 0 - 1
    <3> files = 0 .. n + 0 - 1 BY <1>1 DEF IInv, Numbered
    <3> QED BY <1>1, <1>3
  <2>4. buffers' # <<>> BY <1>1, <2>2, EmptySeq
  <2>5. Held(buffers) = Held(buffers') \ {n} BY <1>1, <2>2 DEF Held
  <2>6. TypeOK' BY <1>1, <1>3, <2>1, <2>2 DEF IInv, TypeOK, Step, Goto, driver
  <2>7. Numbered'
    <3> NumberedFrom(n + 1, local) BY <1>1 DEF NumberedFrom
    <3> QED BY <1>1, <1>3, <2>2, <2>3 DEF Numbered, Goto
  <2>8. QueuedSoFar'
    <3> queue' = Held(buffers) /\ queue' \subseteq Held(buffers') /\ \A i \in queue' : backing'[i] = i
      BY <1>1, <2>5 DEF IInv, QueuedSoFar, driver
    <3>1. memory' = "mmap" => \A i \in 0 .. granted' - 1 : backing'[i] = i
      BY <1>1, <1>3 DEF IInv, QueuedSoFar, Goto, driver
    <3>2. queue' = Held(buffers') \ {Len(buffers') - 1}
      BY <1>1, <2>2, <2>5, queue' = Held(buffers)
    <3>3. step' = "qbuf" /\ ~on' /\ Len(buffers') <= granted'
      BY <1>1, <1>3, <2>2 DEF Goto, driver
    <3> QED BY <2>4, <3>1, <3>2, <3>3 DEF QueuedSoFar, Started
  <2>9. StepsAgree' BY <1>1, <1>3 DEF IInv, StepsAgree, Started, Goto, driver
  <2> QED BY <2>6, <2>7, <2>8, <2>9 DEF IInv
<1> QED BY <1>2, <1>3 DEF Export

LEMMA QueueExportedKeepsIInv == IInv /\ QueueExported => IInv'
<1> SUFFICES ASSUME IInv, QueueExported PROVE IInv' OBVIOUS
<1> DEFINE n == Len(buffers)
<1>1. /\ step = "qbuf" /\ memory = "mmap" /\ UNCHANGED <<heap, granted, backing, on>>
      /\ n \in Nat \ {0} /\ n <= granted
      /\ ~on /\ on' = FALSE /\ ~streaming /\ heap' = FALSE
  BY LenProperties, EmptySeq
     DEF QueueExported, IInv, StepsAgree, Started, TypeOK, QueuedSoFar
<1>2. CASE Fail /\ UNCHANGED queue
  BY <1>1, <1>2, FailKeepsIInv DEF IInv, TypeOK, QueuedSoFar
<1>3. CASE /\ queue' = queue \union {n - 1} /\ Goto("fill")
           /\ UNCHANGED <<dev, files, local, buffers, streaming>>
  <2>1. queue' = Held(buffers) /\ n - 1 \in Held(buffers) /\ queue = Held(buffers) \ {n - 1}
    BY <1>1, <1>3 DEF IInv, QueuedSoFar, Held
  <2>2. backing[n - 1] = n - 1
    <3> n - 1 \in 0 .. granted - 1 BY <1>1 DEF IInv, TypeOK
    <3> QED BY <1>1 DEF IInv, QueuedSoFar
  <2>3. TypeOK' BY <1>1, <1>3, <2>1 DEF IInv, TypeOK, Step, Goto, Held
  <2>4. Numbered' BY <1>3 DEF IInv, Numbered, Goto
  <2>5. QueuedSoFar'
    BY <1>1, <1>3, <2>1, <2>2 DEF IInv, QueuedSoFar, Started, Goto
  <2>6. StepsAgree' BY <1>1, <1>3 DEF IInv, StepsAgree, Started, Goto
  <2> QED BY <2>3, <2>4, <2>5, <2>6 DEF IInv
<1> QED BY <1>2, <1>3 DEF QueueExported

LEMMA QueueImportedKeepsIInv == IInv /\ QueueImported => IInv'
<1> SUFFICES ASSUME IInv, QueueImported PROVE IInv' OBVIOUS
<1> DEFINE n == Len(buffers)
           m == Len(local)
<1>1. /\ step = "fill" /\ memory = "dmabuf" /\ local # <<>> /\ UNCHANGED <<heap, granted, on>>
      /\ n \in Nat /\ m \in Nat /\ n + m <= Count /\ granted \in Nat
      /\ ~on /\ on' = FALSE /\ ~streaming /\ heap' = FALSE
  BY LenProperties DEF QueueImported, IInv, StepsAgree, Started, TypeOK, Numbered
<1>2. CASE Fail /\ UNCHANGED <<backing, queue>>
  BY <1>1, <1>2, FailKeepsIInv DEF IInv, TypeOK
<1>3. CASE /\ n < granted
           /\ backing' = [backing EXCEPT ![n] = Head(local)] /\ queue' = queue \union {n}
           /\ buffers' = Append(buffers, Head(local)) /\ local' = Tail(local)
           /\ UNCHANGED <<memory, step, dev, files, streaming>>
  <2>1. /\ Head(local) = n /\ n \in Mem /\ local' \in Seq(Mem) /\ m >= 1
        /\ Len(local') = m - 1 /\ NumberedFrom(n + 1, local')
    <3> NumberedFrom(n, local) /\ local \in Seq(Mem) BY DEF IInv, Numbered, TypeOK
    <3> QED BY <1>1, <1>3, NumberedTail
  <2>2. buffers' \in Seq(Mem) /\ Len(buffers') = n + 1 /\ NumberedFrom(0, buffers')
    <3> NumberedFrom(0, buffers) /\ buffers \in Seq(Mem) BY DEF IInv, Numbered, TypeOK
    <3> 0 + n = n BY <1>1
    <3> QED BY <1>3, <2>1, NumberedAppend
  <2>3. Held(buffers') = Held(buffers) \union {n} BY <1>1, <2>2 DEF Held
  <2>4. queue = Held(buffers) BY <1>1 DEF IInv, QueuedSoFar
  <2>5. n \in DOMAIN backing /\ \A i \in Held(buffers) : backing[i] = i /\ i # n
    BY <1>1, <1>3, <2>4 DEF IInv, TypeOK, QueuedSoFar, Held
  <2>6. TypeOK'
    <3> backing' \in [0 .. granted' - 1 -> Mem \union {NoMemory}]
      BY <1>1, <1>3, <2>1 DEF IInv, TypeOK
    <3> queue' \subseteq 0 .. granted' - 1
      <4> n \in 0 .. granted - 1 BY <1>1, <1>3
      <4> queue \subseteq 0 .. granted - 1 BY DEF IInv, TypeOK
      <4> QED BY <1>1, <1>3
    <3> QED BY <1>1, <1>3, <2>1, <2>2 DEF IInv, TypeOK
  <2>7. Numbered'
    <3>1. n + m - 1 = (n + 1) + (m - 1) - 1 /\ (n + 1) + (m - 1) <= Count BY <1>1
    <3> QED BY <1>1, <1>3, <2>1, <2>2, <3>1 DEF IInv, Numbered
  <2>8. QueuedSoFar'
    <3>1. queue' = Held(buffers') BY <1>3, <2>3, <2>4
    <3>2. \A i \in queue' : backing'[i] = i
      BY <1>3, <2>1, <2>3, <2>5, <3>1
    <3>3. step' = "fill" /\ ~on' /\ Len(buffers') <= granted' /\ memory' # "mmap"
      BY <1>1, <1>3, <2>2
    <3> QED BY <3>1, <3>2, <3>3 DEF QueuedSoFar, Started
  <2>9. StepsAgree' BY <1>1, <1>3 DEF IInv, StepsAgree, Started
  <2> QED BY <2>6, <2>7, <2>8, <2>9 DEF IInv
<1> QED BY <1>2, <1>3 DEF QueueImported

LEMMA StreamOnKeepsIInv == IInv /\ StreamOn => IInv'
<1> SUFFICES ASSUME IInv, StreamOn PROVE IInv' OBVIOUS
<1>1. /\ step = "fill" /\ Filled /\ UNCHANGED <<heap, granted, backing, queue>>
      /\ ~on /\ on = FALSE /\ ~streaming /\ heap' = FALSE
      /\ memory = "mmap" \/ memory = "dmabuf"
  BY DEF StreamOn, IInv, StepsAgree, Started, TypeOK
<1>2. CASE Fail /\ UNCHANGED on
  BY <1>1, <1>2, FailKeepsIInv DEF IInv, TypeOK, QueuedSoFar
<1>3. CASE /\ on' = TRUE /\ streaming' = TRUE
           /\ Goto(IF memory = "mmap" THEN "fourcc" ELSE "running")
           /\ UNCHANGED <<dev, files, local, buffers>>
  <2>1. local = <<>> /\ (memory = "mmap" => Len(buffers) = granted)
    BY <1>1 DEF IInv, Numbered, Filled
  <2>2. TypeOK' BY <1>1, <1>3 DEF IInv, TypeOK, Step, Goto
  <2>3. Numbered' BY <1>3 DEF IInv, Numbered, Goto
  <2>4. QueuedSoFar'
    BY <1>1, <1>3 DEF IInv, QueuedSoFar, Started, Goto
  <2>5. StepsAgree' BY <1>1, <1>3, <2>1 DEF IInv, StepsAgree, Started, Goto
  <2> QED BY <2>2, <2>3, <2>4, <2>5 DEF IInv
<1> QED BY <1>2, <1>3 DEF StreamOn

-----------------------------------------------------------------------------
(* The loop, stop() and the destructor.                                     *)

LEMMA LoopKeepsIInv == IInv /\ Loop => IInv'
<1> SUFFICES ASSUME IInv, Loop PROVE IInv' OBVIOUS
<1>1. /\ on /\ Len(buffers) \in Nat /\ Len(buffers) <= granted /\ granted \in Nat
      /\ queue \subseteq Held(buffers) /\ \A i \in queue : backing[i] = i
  BY LenProperties DEF Loop, Dequeue, Requeue, LoopEnds, IInv, TypeOK, StepsAgree, Started, QueuedSoFar
<1>2. CASE Dequeue
  <2>1. PICK i \in queue : queue' = queue \ {i} BY <1>2 DEF Dequeue
  <2>2. queue = Held(buffers) BY <1>2 DEF Dequeue, IInv, QueuedSoFar, Started
  <2>3. TypeOK' BY <1>2, <2>1 DEF Dequeue, Goto, process, IInv, TypeOK, Step
  <2>4. Numbered' BY <1>2 DEF Dequeue, Goto, process, IInv, Numbered
  <2>5. QueuedSoFar'
    BY <1>1, <1>2, <2>1, <2>2 DEF Dequeue, Goto, process, IInv, QueuedSoFar, Started
  <2>6. StepsAgree' BY <1>2 DEF Dequeue, Goto, process, IInv, StepsAgree, Started
  <2> QED BY <2>3, <2>4, <2>5, <2>6 DEF IInv
<1>3. CASE Requeue /\ step' = "running"
  <2>1. PICK i \in Held(buffers) :
          /\ i \notin queue /\ queue' = queue \union {i}
          /\ IF memory = "mmap" THEN UNCHANGED backing
             ELSE backing' = [backing EXCEPT ![i] = buffers[i + 1]]
    BY <1>3 DEF Requeue, Goto, Held
  <2>2. PICK j \in Held(buffers) : queue = Held(buffers) \ {j}
    BY <1>3 DEF Requeue, IInv, QueuedSoFar
  <2>3. queue' = Held(buffers) BY <2>1, <2>2
  <2>4. i \in 0 .. granted - 1 /\ i \in Nat /\ i + 1 \in DOMAIN buffers
    BY <1>1, <2>1, LenProperties DEF Held, IInv, TypeOK
  <2>5. buffers[i + 1] = i /\ buffers[i + 1] \in Mem
    BY <2>4, ElementOfSeq, LenProperties DEF IInv, Numbered, NumberedFrom, TypeOK
  <2>6. memory = "mmap" => backing[i] = i
    BY <2>4 DEF IInv, QueuedSoFar
  <2>7. /\ backing' \in [0 .. granted - 1 -> Mem \union {NoMemory}]
        /\ \A k \in queue' : backing'[k] = k
        /\ memory = "mmap" => backing' = backing
    BY <1>1, <2>1, <2>4, <2>5, <2>6 DEF IInv, TypeOK
  <2>8. /\ step = "holding" /\ step' = "running"
        /\ UNCHANGED <<memory, process, granted, on>>
    BY <1>3 DEF Requeue, Goto
  <2>9. TypeOK'
    <3> queue' \subseteq 0 .. granted - 1 BY <2>1, <2>4 DEF IInv, TypeOK
    <3> QED BY <2>7, <2>8 DEF process, IInv, TypeOK, Step
  <2>10. Numbered' BY <2>8 DEF process, IInv, Numbered
  <2>11. QueuedSoFar'
    BY <1>1, <2>3, <2>7, <2>8 DEF process, IInv, QueuedSoFar, Started
  <2>12. StepsAgree' BY <2>8 DEF process, IInv, StepsAgree, Started
  <2> QED BY <2>9, <2>10, <2>11, <2>12 DEF IInv
<1>4. CASE (Requeue /\ step' # "running") \/ LoopEnds
  <2>1. /\ step \in {"running", "holding"} /\ step' = "streamoff"
        /\ UNCHANGED <<memory, process, driver>>
    BY <1>4 DEF Requeue, LoopEnds, Goto, driver
  <2>2. TypeOK' BY <2>1 DEF process, driver, IInv, TypeOK, Step
  <2>3. Numbered' BY <2>1 DEF process, IInv, Numbered
  <2>4. QueuedSoFar' BY <1>1, <2>1 DEF process, driver, IInv, QueuedSoFar, Started
  <2>5. StepsAgree' BY <2>1 DEF process, driver, IInv, StepsAgree, Started
  <2> QED BY <2>2, <2>3, <2>4, <2>5 DEF IInv
<1> QED BY <1>2, <1>3, <1>4 DEF Loop

LEMMA StopKeepsIInv == IInv /\ Stop => IInv'
<1> SUFFICES ASSUME IInv, Stop PROVE IInv' OBVIOUS
<1>1. local = <<>> /\ Len(local) = 0 /\ Len(buffers) \in Nat
  BY LenProperties, EmptySeq
     DEF Stop, StreamOff, CloseFds, Free, Close, IInv, StepsAgree, TypeOK
<1>2. CASE StreamOff
  <2>1. /\ step = "streamoff" /\ step' = "closefds"
        /\ streaming' = FALSE /\ on' = FALSE /\ queue' \subseteq queue
        /\ UNCHANGED <<memory, dev, heap, files, local, buffers, granted, backing>>
    BY <1>2 DEF StreamOff, Goto, IInv, StepsAgree, TypeOK
  <2>2. TypeOK' BY <2>1 DEF IInv, TypeOK, Step
  <2>3. Numbered' BY <2>1 DEF IInv, Numbered
  <2>4. QueuedSoFar' BY <2>1 DEF IInv, QueuedSoFar, Started
  <2>5. StepsAgree' BY <2>1 DEF IInv, StepsAgree, Started
  <2> QED BY <2>2, <2>3, <2>4, <2>5 DEF IInv
<1>3. CASE CloseFds
  <2>1. /\ step = "closefds" /\ step' = "free"
        /\ files' = {} /\ buffers' = <<>> /\ Len(buffers') = 0 /\ DOMAIN buffers' = {}
        /\ UNCHANGED <<memory, dev, heap, local, streaming, driver>>
    <3> ToSet(buffers) = 0 .. 0 + Len(buffers) - 1 /\ files = 0 .. Len(buffers) + 0 - 1
      BY <1>1, NumberedSet DEF IInv, Numbered, TypeOK
    <3> QED BY <1>1, <1>3 DEF CloseFds, Goto
  <2>2. TypeOK' BY <2>1, EmptySeq DEF driver, IInv, TypeOK, Step
  <2>3. Numbered'
    BY <1>1, <2>1 DEF IInv, Numbered, NumberedFrom
  <2>4. QueuedSoFar' BY <2>1 DEF driver, IInv, QueuedSoFar, StepsAgree, Started
  <2>5. StepsAgree' BY <2>1 DEF driver, IInv, StepsAgree, Started
  <2> QED BY <2>2, <2>3, <2>4, <2>5 DEF IInv
<1>4. CASE Free \/ Close
  <2>1. /\ step \in {"free", "close"} /\ ~on /\ on' = FALSE
        /\ step' = (IF step = "free" THEN "close" ELSE "closed")
        /\ dev' = (step = "free")
        /\ UNCHANGED <<memory, heap, files, local, buffers, streaming>>
    BY <1>4 DEF Free, Close, Goto, process, driver, IInv, StepsAgree, TypeOK, Started
  <2>2. \/ granted' = 0 /\ backing' = NoBuffers /\ queue' = {}
        \/ UNCHANGED <<granted, backing, queue>>
    BY <1>4 DEF Free, Close, driver
  <2>3. /\ granted' \in 0 .. MaxGrant /\ queue' \subseteq 0 .. granted' - 1
        /\ backing' \in [0 .. granted' - 1 -> Mem \union {NoMemory}]
        /\ memory = "mmap" => \A i \in 0 .. granted' - 1 : backing'[i] = i
    <3>1. CASE granted' = 0 /\ backing' = NoBuffers /\ queue' = {}
      <4> 0 .. granted' - 1 = {} BY <3>1
      <4> NoBuffers \in [{} -> Mem \union {NoMemory}] BY DEF NoBuffers
      <4> HIDE DEF NoBuffers
      <4> QED BY <3>1
    <3>2. CASE UNCHANGED <<granted, backing, queue>>
      BY <3>2 DEF IInv, TypeOK, QueuedSoFar
    <3> QED BY <2>2, <3>1, <3>2
  <2>4. TypeOK' BY <2>1, <2>3 DEF IInv, TypeOK, Step
  <2>5. Numbered' BY <2>1 DEF IInv, Numbered
  <2>6. QueuedSoFar' BY <2>1, <2>3 DEF QueuedSoFar, Started
  <2>7. StepsAgree' BY <2>1 DEF IInv, StepsAgree, Started
  <2> QED BY <2>4, <2>5, <2>6, <2>7 DEF IInv
<1> QED BY <1>2, <1>3, <1>4 DEF Stop

-----------------------------------------------------------------------------
(***************************************************************************)
(* IInv holds in every state, whichever call fails and when.               *)
(***************************************************************************)
THEOREM Inductive == Spec => []IInv
<1>1. IInv /\ [Next]_vars => IInv'
  <2> SUFFICES ASSUME IInv, [Next]_vars PROVE IInv' OBVIOUS
  <2>1. CASE UNCHANGED vars
    BY <2>1 DEF vars, process, driver, IInv, TypeOK, Numbered, NumberedFrom,
                QueuedSoFar, StepsAgree, Started
  <2>2. CASE Open \/ Configure \/ Fourcc BY <2>2, OpenKeepsIInv
  <2>3. CASE Heap BY <2>3, HeapKeepsIInv
  <2>4. CASE Start
    BY <2>4, RequestKeepsIInv, ExportKeepsIInv, QueueExportedKeepsIInv,
       QueueImportedKeepsIInv, StreamOnKeepsIInv DEF Start
  <2>5. CASE Loop BY <2>5, LoopKeepsIInv
  <2>6. CASE Stop BY <2>6, StopKeepsIInv
  <2> QED BY <2>1, <2>2, <2>3, <2>4, <2>5, <2>6 DEF Next, Done
<1> QED BY InitIInv, <1>1, PTL DEF Spec

(***************************************************************************)
(* Types; in particular no index reaches the driver that it did not grant. *)
(***************************************************************************)
THEOREM TypeCorrect == Spec => []TypeOK
<1>1. IInv => TypeOK BY DEF IInv
<1> QED BY Inductive, <1>1, PTL

(***************************************************************************)
(* No descriptor is leaked or closed twice by a failing call.              *)
(***************************************************************************)
THEOREM EveryDescriptorOwned == Spec => []DescriptorsOwned
<1>1. IInv => DescriptorsOwned
  <2> SUFFICES ASSUME IInv PROVE DescriptorsOwned OBVIOUS
  <2> DEFINE n == Len(buffers)
             m == Len(local)
  <2>1. /\ n \in Nat /\ m \in Nat
        /\ NumberedFrom(0, buffers) /\ NumberedFrom(n, local)
        /\ files = 0 .. n + m - 1
    BY LenProperties DEF IInv, Numbered, TypeOK
  <2>2. ToSet(buffers) = 0 .. 0 + n - 1 /\ ToSet(local) = n .. n + m - 1
    BY <2>1, NumberedSet DEF IInv, TypeOK
  <2>3. IsInjective(buffers) /\ IsInjective(local)
    <3> DOMAIN buffers = 1 .. n /\ DOMAIN local = 1 .. m
      BY LenProperties DEF IInv, TypeOK
    <3> QED BY <2>1 DEF IsInjective, NumberedFrom
  <2> QED BY <2>1, <2>2, <2>3 DEF DescriptorsOwned
<1> QED BY Inductive, <1>1, PTL

(***************************************************************************)
(* After the destructor nothing is open.                                   *)
(***************************************************************************)
THEOREM AllClosed == Spec => []NothingLeftOpen
<1>1. IInv => NothingLeftOpen
  <2> SUFFICES ASSUME IInv, step = "closed" PROVE ~dev /\ ~heap /\ files = {}
    BY DEF NothingLeftOpen
  <2>1. ~dev /\ ~heap /\ buffers = <<>> /\ local = <<>>
    BY DEF IInv, StepsAgree, Started
  <2>2. files = 0 .. 0 + 0 - 1 BY <2>1, EmptySeq DEF IInv, Numbered
  <2> QED BY <2>1, <2>2
<1> QED BY Inductive, <1>1, PTL

(***************************************************************************)
(* Every round of the loop starts with all buffers in the driver.          *)
(***************************************************************************)
THEOREM RoundsStartFull == Spec => []FullQueue
<1>1. IInv => FullQueue
  BY DEF IInv, QueuedSoFar, Started, FullQueue, Held
<1> QED BY Inductive, <1>1, PTL

(***************************************************************************)
(* The camera writes where the subscriber will read.                       *)
(***************************************************************************)
THEOREM WritesWhereRead == Spec => []RightMemory
<1>1. IInv => RightMemory
  <2> SUFFICES ASSUME IInv, on, NEW i \in queue
               PROVE  i < Len(buffers) /\ backing[i] = buffers[i + 1]
    BY DEF RightMemory
  <2>1. Len(buffers) \in Nat /\ DOMAIN buffers = 1 .. Len(buffers)
    BY LenProperties DEF IInv, TypeOK
  <2>2. i \in 0 .. Len(buffers) - 1 /\ backing[i] = i
    BY DEF IInv, QueuedSoFar, Held
  <2>3. i + 1 \in DOMAIN buffers /\ 0 + (i + 1) - 1 = i BY <2>1, <2>2
  <2>4. buffers[i + 1] = i BY <2>3 DEF IInv, Numbered, NumberedFrom
  <2> QED BY <2>1, <2>2, <2>4
<1> QED BY Inductive, <1>1, PTL

(***************************************************************************)
(* publisher streams with two buffers or more.                             *)
(***************************************************************************)
THEOREM ExportsTwo == Spec => []AtLeastTwoExported
<1>1. IInv => AtLeastTwoExported
  BY DEF IInv, StepsAgree, Started, AtLeastTwoExported
<1> QED BY Inductive, <1>1, PTL

-----------------------------------------------------------------------------
(* The device that Session.tla takes over.                                  *)

\* no descriptor of the heap is left behind on the way to the loop
AllImported ==
  memory = "dmabuf" /\ step \in {"request", "fill", "running", "holding"} =>
    Len(buffers) + Len(local) = Count

LEMMA InitAllImported == Init => AllImported
BY DEF Init, AllImported

LEMMA NextAllImported == IInv /\ AllImported /\ [Next]_vars => AllImported'
<1> SUFFICES ASSUME IInv, AllImported, [Next]_vars, memory' = "dmabuf",
                    step' \in {"request", "fill", "running", "holding"}
             PROVE  Len(buffers') + Len(local') = Count
  BY DEF AllImported
<1> USE DEF AllImported, Goto, process, driver
<1>1. CASE UNCHANGED vars BY <1>1 DEF vars
<1>2. CASE Open \/ Configure \/ Fourcc BY <1>2 DEF Open, Configure, Fourcc, Fail
<1>3. CASE Heap
  <2>1. HeapDone BY <1>3 DEF Heap, HeapOpen, HeapAlloc, HeapDone, Fail
  <2>2. buffers = <<>> BY <2>1 DEF HeapDone, IInv, StepsAgree, Started
  <2> QED BY <2>1, <2>2 DEF HeapDone
<1>4. CASE Request \/ StreamOn BY <1>4 DEF Request, StreamOn, Fail, Grant
<1>5. CASE Export \/ QueueExported
  <2>1. memory = "mmap" BY <1>5 DEF Export, QueueExported, IInv, StepsAgree
  <2>2. memory' = memory BY <1>5 DEF Export, QueueExported, Fail
  <2> QED BY <2>1, <2>2
<1>6. CASE QueueImported
  <2>1. /\ step = "fill" /\ local # <<>> /\ memory = "dmabuf"
        /\ buffers' = Append(buffers, Head(local)) /\ local' = Tail(local)
    BY <1>6 DEF QueueImported, Fail
  <2>2. /\ local \in Seq(Mem) /\ Len(buffers') = Len(buffers) + 1 /\ Len(buffers) \in Nat
        /\ Len(local') = Len(local) - 1 /\ Len(local) \in Nat
    <3>1. local \in Seq(Mem) /\ buffers \in Seq(Mem) BY DEF IInv, TypeOK
    <3>2. Head(local) \in Mem /\ Len(Tail(local)) = Len(local) - 1
      BY <2>1, <3>1, HeadTailProperties
    <3>3. Len(Append(buffers, Head(local))) = Len(buffers) + 1
      BY <3>1, <3>2, AppendProperties
    <3>4. Len(buffers) \in Nat /\ Len(local) \in Nat BY <3>1, LenProperties
    <3> QED BY <2>1, <3>1, <3>2, <3>3, <3>4
  <2>3. Len(buffers) + Len(local) = Count BY <2>1
  <2>4. \A a, b \in Nat : (a + 1) + (b - 1) = a + b OBVIOUS
  <2> QED BY <2>2, <2>3, <2>4
<1>7. CASE Loop BY <1>7 DEF Loop, Dequeue, Requeue, LoopEnds
<1>8. CASE Stop BY <1>8 DEF Stop, StreamOff, CloseFds, Free, Close
<1> QED BY <1>1, <1>2, <1>3, <1>4, <1>5, <1>6, <1>7, <1>8 DEF Next, Start, Done

(***************************************************************************)
(* The loop is entered, and every round begins, in the state in which      *)
(* Session.tla starts, with a buffer at least.                             *)
(***************************************************************************)
THEOREM HandsOver ==
  ASSUME Count > 0
  PROVE  Spec => [](step = "running" => Capturing!Running)
<1>1. IInv /\ AllImported => (step = "running" => Capturing!Running)
  <2> SUFFICES ASSUME IInv, AllImported, step = "running" PROVE Capturing!Running OBVIOUS
  <2>1. on /\ queue = Held(buffers) /\ memory \in {"mmap", "dmabuf"}
    BY DEF IInv, TypeOK, StepsAgree, QueuedSoFar, Started
  <2>2. Len(buffers) \in Nat /\ Len(buffers) > 0
    <3>1. Len(buffers) \in Nat BY LenProperties DEF IInv, TypeOK
    <3>2. local = <<>> BY DEF IInv, StepsAgree
    <3>3. CASE memory = "mmap" BY <3>1, <3>3 DEF IInv, StepsAgree, Started, TypeOK
    <3>4. CASE memory = "dmabuf" BY <3>1, <3>2, <3>4, Count > 0 DEF AllImported
    <3> QED BY <2>1, <3>1, <3>3, <3>4
  <2>3. 0 \in Held(buffers) BY <2>2 DEF Held
  <2> QED BY <2>1, <2>3 DEF Capturing!Running
<1> QED BY Inductive, InitAllImported, NextAllImported, <1>1, PTL DEF Spec

Ended == step \in {"streamoff", "closefds", "free", "close", "closed"}

(***************************************************************************)
(* The set-up, the loop's sketch and the destructor implement Device.tla:  *)
(* streaming starts once with all buffers queued, one buffer is out at a   *)
(* time, and from whatever call the program leaves, the camera is stopped  *)
(* for good before a descriptor is closed.                                 *)
(***************************************************************************)
THEOREM ProvidesTheDevice == Spec => ProvidesDevice
<1> USE DEF Capturing!vars
<1>1. Init => Capturing!Init
  BY DEF Init, Capturing!Init
<1>2. IInv /\ IInv' /\ [Next]_vars => [Capturing!Next]_(Capturing!vars)
  <2> SUFFICES ASSUME IInv, IInv', [Next]_vars
               PROVE  Capturing!Next \/ UNCHANGED Capturing!vars
    OBVIOUS
  <2>1. /\ on \in BOOLEAN /\ on' \in BOOLEAN
        /\ (on => Started \/ step = "streamoff") /\ (on' => Started' \/ step' = "streamoff")
    BY DEF IInv, TypeOK, StepsAgree
  <2>2. CASE on /\ on' /\ UNCHANGED <<buffers, queue>>
    BY <2>2
  <2>3. CASE ~on /\ ~on' /\ (Ended' <=> Ended)
    BY <2>1, <2>3 DEF Ended
  <2>4. CASE ~Ended /\ Ended' /\ ~on'
    BY <2>1, <2>4 DEF Ended, Capturing!Next, Capturing!StreamOff
  <2>5. CASE on /\ ~on' /\ Ended'
    BY <2>1, <2>5 DEF Ended, Capturing!Next, Capturing!StreamOff
  <2>6. CASE UNCHANGED vars BY <2>6 DEF vars, process, driver
  <2> USE DEF Goto, process, driver
  <2>7. CASE Open \/ Configure \/ Fourcc \/ Heap \/ Request \/ Export \/ QueueExported \/ QueueImported
    <3>1. UNCHANGED on
      BY <2>7 DEF Open, Configure, Fourcc, Heap, HeapOpen, HeapAlloc, HeapDone, Request, Grant,
                  Export, QueueExported, QueueImported
    <3>2. on => UNCHANGED <<buffers, queue>>
      BY <2>1, <2>7 DEF Started, Open, Configure, Fourcc, Fail, Heap, HeapOpen, HeapAlloc, HeapDone, Request,
                  Export, QueueExported, QueueImported, IInv, StepsAgree
    <3>3. ~Ended
      BY <2>7 DEF Ended, Open, Configure, Fourcc, Heap, HeapOpen, HeapAlloc, HeapDone, Request,
                  Export, QueueExported, QueueImported
    <3> QED BY <2>1, <2>2, <2>3, <2>4, <3>1, <3>2, <3>3
  <2>8. CASE StreamOn
    <3>1. CASE Fail
      <4>1. ~on /\ ~on' /\ Ended' /\ ~Ended
        BY <2>8, <3>1 DEF StreamOn, Fail, Ended, IInv, StepsAgree, Started
      <4> QED BY <2>4, <4>1
    <3>2. CASE ~Fail
      <4>1. /\ on' = TRUE /\ UNCHANGED <<buffers, queue>> /\ queue = Held(buffers)
            /\ ~on /\ ~Ended
        BY <2>8, <3>2 DEF StreamOn, Ended, IInv, StepsAgree, QueuedSoFar, Started
      <4>2. Held(buffers) \in SUBSET (0 .. MaxGrant - 1)
        BY <4>1 DEF IInv, TypeOK
      <4> QED BY <4>1, <4>2 DEF Ended, Capturing!Next, Capturing!StreamOn, Held
    <3> QED BY <3>1, <3>2
  <2>9. CASE Dequeue
    <3>1. /\ on /\ on' /\ UNCHANGED buffers /\ queue = Held(buffers)
          /\ \E i \in queue : queue' = queue \ {i}
      BY <2>9 DEF Dequeue, IInv, StepsAgree, QueuedSoFar, Started
    <3> QED BY <3>1 DEF Capturing!Next, Capturing!Dequeue, Held
  <2>10. CASE Requeue \/ LoopEnds
    <3>1. on /\ on' /\ UNCHANGED buffers
      BY <2>10 DEF Requeue, LoopEnds, IInv, StepsAgree, Started
    <3>2. CASE UNCHANGED queue BY <2>2, <3>1, <3>2
    <3>3. CASE ~UNCHANGED queue
      <4>1. step = "holding" /\ step' = "running" BY <2>10, <3>3 DEF Requeue, LoopEnds
      <4>2. queue # Held(buffers) /\ queue' = Held(buffers)
        BY <4>1, <3>1 DEF IInv, QueuedSoFar, Started, Held
      <4> QED BY <3>1, <4>2 DEF Capturing!Next, Capturing!Queue, Held
    <3> QED BY <3>2, <3>3
  <2>11. CASE Stop
    <3>1. Ended /\ Ended' /\ ~on'
      BY <2>11 DEF Stop, StreamOff, CloseFds, Free, Close, Ended, IInv, StepsAgree, Started
    <3> QED BY <2>1, <2>3, <2>5, <3>1
  <2> QED BY <2>6, <2>7, <2>8, <2>9, <2>10, <2>11 DEF Next, Start, Loop, Done
<1> QED BY <1>1, <1>2, Inductive, PTL DEF Spec, ProvidesDevice, Capturing!Spec
=============================================================================
