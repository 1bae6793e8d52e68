---------------------------- MODULE ImagesProofs ----------------------------
(***************************************************************************)
(* Theorems about Images, for any number of handlers, names and images: a  *)
(* file that no second upload overlaps is the image its client was told is *)
(* stored, and is sent entire.  Both rest on ImageInv, which says what the *)
(* file holds of an upload after each of its blocks.                       *)
(***************************************************************************)
EXTENDS Images, TLAPS

----------------------------------------------------------------------------
(* Sequences of two blocks at most.                                          *)

\* What a member of AtMostTwo(S) is.
LEMMA ShortIsSeq ==
    ASSUME NEW S, NEW f \in AtMostTwo(S)
    PROVE  /\ Len(f) \in 0..2 /\ f = [k \in 1..Len(f) |-> f[k]]
           /\ \A k \in 1..Len(f) : f[k] \in S
<1>1. CASE f = <<>>
    BY <1>1
<1>2. ASSUME NEW a \in S, f = <<a>>
      PROVE  /\ Len(f) = 1 /\ f = [k \in 1..Len(f) |-> f[k]]
             /\ \A k \in 1..Len(f) : f[k] \in S
    BY <1>2
<1>3. ASSUME NEW a \in S, NEW b \in S, f = <<a, b>>
      PROVE  /\ Len(f) = 2 /\ f = [k \in 1..Len(f) |-> f[k]]
             /\ \A k \in 1..Len(f) : f[k] \in S
    BY <1>3
<1> QED BY <1>1, <1>2, <1>3 DEF AtMostTwo

LEMMA SeqIsShort ==
    ASSUME NEW S, NEW n \in 0..2, NEW f, f = [k \in 1..n |-> f[k]],
           \A k \in 1..n : f[k] \in S
    PROVE  f \in AtMostTwo(S) /\ Len(f) = n
<1>1. f \in Seq(S) /\ Len(f) = n
    OBVIOUS
<1>2. CASE n = 0
    BY <1>1, <1>2 DEF AtMostTwo
<1>3. CASE n = 1
  <2>1. f = <<f[1]>> /\ f[1] \in S
      BY <1>1, <1>3
  <2> QED BY <1>1, <2>1 DEF AtMostTwo
<1>4. CASE n = 2
  <2>1. f = <<f[1], f[2]>> /\ f[1] \in S /\ f[2] \in S
      BY <1>1, <1>4
  <2> QED BY <1>1, <2>1 DEF AtMostTwo
<1> QED BY <1>2, <1>3, <1>4

\* How many blocks an image has, and which.
LEMMA ContentsOfImage ==
    ASSUME NEW i
    PROVE  /\ Len(Contents(i)) \in 0..2
           /\ i \notin Images => Len(Contents(i)) = 0
           /\ Contents(i) = [k \in 1..Len(Contents(i)) |-> i]
<1>1. CASE i \in Long
  <2>1. i \in Images /\ Contents(i) = <<i, i>>
      BY <1>1, LongAssumption DEF Contents
  <2> QED BY <2>1
<1>2. CASE i \notin Long /\ i \in Images
  <2>1. Contents(i) = <<i>>
      BY <1>2 DEF Contents
  <2> QED BY <1>2, <2>1
<1>3. CASE i \notin Images
  <2>1. Contents(i) = <<>>
      BY <1>3, LongAssumption DEF Contents
  <2> QED BY <1>3, <2>1
<1> QED BY <1>1, <1>2, <1>3

\* A block put at an offset below two leaves a file of two blocks at most.
LEMMA PutShort ==
    ASSUME NEW f \in AtMostTwo(Images \cup {Zeros}), NEW p \in 0..1, NEW b \in Images
    PROVE  Put(f, p, b) \in AtMostTwo(Images \cup {Zeros})
<1> DEFINE n == IF Len(f) > p THEN Len(f) ELSE p + 1
           g == Put(f, p, b)
<1>1. Len(f) \in 0..2 /\ \A k \in 1..Len(f) : f[k] \in Images \cup {Zeros}
    BY ShortIsSeq
<1>2. n \in 0..2
    BY <1>1
<1>3. g = [k \in 1..n |-> IF k = p + 1 THEN b ELSE IF k <= Len(f) THEN f[k] ELSE Zeros]
    BY DEF Put
<1> HIDE DEF n, g
<1>4. g = [k \in 1..n |-> g[k]]
    BY <1>3
<1>5. \A k \in 1..n : g[k] \in Images \cup {Zeros}
    BY <1>1, <1>2, <1>3
<1>6. g \in AtMostTwo(Images \cup {Zeros})
    BY <1>2, <1>4, <1>5, SeqIsShort
<1> QED BY <1>6 DEF g

\* The block of an image put after the ones before it.
LEMMA PutNext ==
    ASSUME NEW p \in 0..1, NEW i, NEW g, g = [k \in 1..p |-> i]
    PROVE  Put(g, p, i) = [k \in 1..(p + 1) |-> i]
<1>1. Len(g) = p
    OBVIOUS
<1> QED BY <1>1 DEF Put

----------------------------------------------------------------------------
(* The steps of the handlers.                                                *)

SameHandler(s) ==
    /\ pc'[s] = pc[s] /\ name'[s] = name[s] /\ image'[s] = image[s]
    /\ pos'[s] = pos[s] /\ data'[s] = data[s]

\* A step that leaves s and, while s is alone, its file alone.
LEMMA StillKnows ==
    ASSUME NEW s \in Threads, HandlerKnows(s), SameHandler(s), exists \subseteq exists',
           pc[s] = "write" => stored'[name[s]] = Nothing,
           alone'[s] /\ pc[s] \in {"write", "read"} =>
               alone[s] /\ NoOther(s)' /\ file'[name[s]] = file[name[s]]
    PROVE  HandlerKnows(s)'
<1>1. name'[s] = name[s] /\ pc'[s] = pc[s] /\ pos'[s] = pos[s] /\ data'[s] = data[s]
      /\ image'[s] = image[s]
    BY DEF SameHandler
<1>2. CASE alone'[s] /\ pc[s] \in {"write", "read"}
  <2>1. alone[s] /\ NoOther(s)' /\ file'[name[s]] = file[name[s]]
      BY <1>2
  <2>2. Written(s)' = Written(s) /\ SoFar(s)' = SoFar(s)
      BY <1>1, <2>1 DEF Written, SoFar
  <2> QED BY <1>1, <2>1, <2>2 DEF HandlerKnows
<1>3. CASE ~(alone'[s] /\ pc[s] \in {"write", "read"})
    BY <1>1, <1>3 DEF HandlerKnows
<1> QED BY <1>2, <1>3

\* A handler that is alone, whose file no other handler begins to write, stays
\* without another writer.
LEMMA StillNoOther ==
    ASSUME FilesKnown, NEW t \in Threads, NEW s \in Threads \ {t}, alone[s],
           pc[s] \in {"write", "read"},
           name'[s] = name[s], \A u \in Threads \ {t} : SameHandler(u),
           pc'[t] = "write" => name'[t] # name[s]
    PROVE  NoOther(s)'
<1>1. NoOther(s)
    BY DEF FilesKnown, HandlerKnows
<1> QED BY <1>1 DEF NoOther, SameHandler

\* Whose file another handler writes, is not alone.
LEMMA NotAlone ==
    ASSUME FilesKnown, NEW t \in Threads, pc[t] = "write",
           NEW s \in Threads \ {t}, pc[s] \in {"write", "read"}, name[s] = name[t]
    PROVE  ~alone[s]
BY DEF FilesKnown, HandlerKnows, NoOther

\* What Close leaves behind.
LEMMA Closed ==
    ASSUME TypeOK, NEW t \in Threads, Close(t)
    PROVE  /\ pc' \in [Threads -> {"idle", "write", "read"}]
           /\ name' \in [Threads -> Names \cup {Nothing}]
           /\ image' \in [Threads -> Images \cup {Nothing}]
           /\ pos' \in [Threads -> 0..2]
           /\ data' \in [Threads -> AtMostTwo(Blocks)]
           /\ alone' \in [Threads -> BOOLEAN]
           /\ pc'[t] = "idle"
           /\ \A s \in Threads \ {t} : SameHandler(s) /\ alone'[s] = alone[s]
<1>1. alone' \in [Threads -> BOOLEAN]
  <2>1. alone \in [Threads -> BOOLEAN]
      BY DEF TypeOK
  <2> QED BY <2>1, Zenon DEF Close
<1>2. data' \in [Threads -> AtMostTwo(Blocks)]
  <2>1. <<>> \in AtMostTwo(Blocks)
      BY DEF AtMostTwo
  <2> QED BY <2>1 DEF TypeOK, Close
<1>3. /\ pc' \in [Threads -> {"idle", "write", "read"}]
      /\ name' \in [Threads -> Names \cup {Nothing}]
      /\ image' \in [Threads -> Images \cup {Nothing}]
      /\ pos' \in [Threads -> 0..2]
      /\ pc'[t] = "idle"
    BY DEF TypeOK, Close
<1>4. \A s \in Threads \ {t} : SameHandler(s) /\ alone'[s] = alone[s]
    BY DEF TypeOK, Close, SameHandler
<1> QED BY <1>1, <1>2, <1>3, <1>4

\* A handler that closes its file leaves to the others what they know, unless it
\* was told that an image is stored in a file that they write.
LEMMA CloseKnows ==
    ASSUME ImageInv, NEW t \in Threads, Close(t), exists' = exists, file' = file,
           \A s \in Threads \ {t} : pc[s] = "write" => stored'[name[s]] = Nothing
    PROVE  \A s \in Threads : HandlerKnows(s)'
<1>1. TypeOK /\ FilesKnown
    BY DEF ImageInv
<1>2. pc'[t] = "idle" /\ \A s \in Threads \ {t} : SameHandler(s) /\ alone'[s] = alone[s]
    BY <1>1, Closed
<1>3. ASSUME NEW s \in Threads
      PROVE  HandlerKnows(s)'
  <2>1. CASE s = t
      BY <1>2, <2>1 DEF HandlerKnows
  <2>2. CASE s # t
    <3>1. HandlerKnows(s) /\ SameHandler(s) /\ alone'[s] = alone[s]
        BY <1>1, <1>2, <2>2 DEF FilesKnown
    <3>2. name'[s] = name[s]
        BY <3>1 DEF SameHandler
    <3>3. alone'[s] /\ pc[s] \in {"write", "read"} => NoOther(s)'
        BY <1>1, <1>2, <2>2, <3>1, <3>2, StillNoOther
    <3> QED BY <2>2, <3>1, <3>3, StillKnows
  <2> QED BY <2>1, <2>2
<1> QED BY <1>3

\* A handler closes its file and tells the client nothing new about it.
LEMMA CloseInv ==
    ASSUME ImageInv, NEW t \in Threads, SendBlockFails(t) \/ ReadFails(t) \/ ReadSend(t)
    PROVE  ImageInv'
<1>1. TypeOK /\ FilesKnown
    BY DEF ImageInv
<1>2. Close(t) /\ exists' = exists /\ file' = file /\ stored' = stored
    BY DEF SendBlockFails, ReadFails, ReadSend, fileVars
<1>3. \A s \in Threads \ {t} : pc[s] = "write" => stored'[name[s]] = Nothing
    BY <1>1, <1>2 DEF FilesKnown, HandlerKnows
<1>4. \A s \in Threads : HandlerKnows(s)'
    BY <1>2, <1>3, CloseKnows
<1>5. TypeOK'
    BY <1>1, <1>2, Closed DEF TypeOK
<1> QED BY <1>1, <1>2, <1>4, <1>5 DEF ImageInv, FilesKnown

\* The upload is complete: alone, it has written the whole image.
LEMMA SendCloseInv ==
    ASSUME ImageInv, NEW t \in Threads, SendClose(t)
    PROVE  ImageInv'
<1>1. TypeOK /\ FilesKnown /\ HandlerKnows(t)
    BY DEF ImageInv, FilesKnown
<1>2. /\ Close(t) /\ exists' = exists /\ file' = file
      /\ pc[t] = "write" /\ pos[t] = Len(Contents(image[t]))
      /\ stored' = [stored EXCEPT ![name[t]] = IF alone[t] THEN image[t] ELSE Nothing]
    BY DEF SendClose, fileVars
<1>3. name[t] \in exists /\ name[t] \in Names
    BY <1>1, <1>2 DEF HandlerKnows, TypeOK
<1>4. stored' \in [Names -> Images \cup {Nothing}]
    BY <1>1, <1>2 DEF TypeOK
<1>5. ASSUME NEW s \in Threads \ {t}, pc[s] = "write"
      PROVE  stored'[name[s]] = Nothing
  <2>1. stored[name[s]] = Nothing /\ name[s] \in Names
      BY <1>1, <1>5 DEF FilesKnown, HandlerKnows, TypeOK
  <2>2. name[s] = name[t] => ~alone[t]
      BY <1>1, <1>2, <1>5 DEF HandlerKnows, NoOther
  <2> QED BY <1>1, <1>2, <2>1, <2>2 DEF TypeOK
<1>6. ASSUME NEW n \in Names, stored'[n] # Nothing
      PROVE  n \in exists /\ file[n] = Contents(stored'[n])
  <2>1. CASE n = name[t]
    <3>1. alone[t] /\ stored'[n] = image[t]
        BY <1>1, <1>2, <1>6, <2>1 DEF TypeOK
    <3>2. file[n] = [k \in 1..Len(Contents(image[t])) |-> image[t]]
        BY <1>1, <1>2, <2>1, <3>1 DEF HandlerKnows, Written
    <3> QED BY <1>3, <2>1, <3>1, <3>2, ContentsOfImage
  <2>2. CASE n # name[t]
      BY <1>1, <1>2, <1>6, <2>2 DEF FilesKnown, TypeOK
  <2> QED BY <2>1, <2>2
<1>7. \A s \in Threads : HandlerKnows(s)'
    BY <1>2, <1>5, CloseKnows
<1>8. TypeOK'
    BY <1>1, <1>2, <1>4, Closed DEF TypeOK
<1> QED BY <1>2, <1>6, <1>7, <1>8 DEF ImageInv, FilesKnown

\* An upload opens its file: every other handler of that file is disturbed.
LEMMA SendOpenInv ==
    ASSUME ImageInv, NEW t \in Threads, NEW n \in Names, NEW i \in Images \cup {Nothing},
           SendOpen(t, n, i)
    PROVE  ImageInv'
<1>1. TypeOK /\ FilesKnown
    BY DEF ImageInv
<1>2. /\ pc[t] = "idle" /\ exists' = exists \cup {n} /\ data' = data
      /\ pc' = [pc EXCEPT ![t] = "write"]
      /\ name' = [name EXCEPT ![t] = n]
      /\ pos' = [pos EXCEPT ![t] = 0]
      /\ image' = [image EXCEPT ![t] = i]
      /\ file' = [file EXCEPT ![n] = <<>>]
      /\ stored' = [stored EXCEPT ![n] = Nothing]
      /\ alone' = [u \in Threads |-> IF u = t THEN Writers(n) = {}
                                              ELSE alone[u] /\ name[u] # n]
    BY DEF SendOpen, Open, Overlap
<1>3. /\ pc'[t] = "write" /\ name'[t] = n /\ pos'[t] = 0 /\ image'[t] = i
      /\ file'[n] = <<>> /\ stored'[n] = Nothing
      /\ alone'[t] => Writers(n) = {}
      /\ \A s \in Threads \ {t} : /\ SameHandler(s)
                                  /\ alone'[s] => alone[s] /\ name[s] # n
    BY <1>1, <1>2 DEF TypeOK, SameHandler
<1>4. TypeOK'
  <2>1. alone' \in [Threads -> BOOLEAN]
    <3>1. alone \in [Threads -> BOOLEAN]
        BY <1>1 DEF TypeOK
    <3> QED BY <1>2, <3>1, Zenon
  <2>2. file' \in [Names -> AtMostTwo(Images \cup {Zeros})]
    <3>1. <<>> \in AtMostTwo(Images \cup {Zeros})
        BY DEF AtMostTwo
    <3> QED BY <1>1, <1>2, <3>1 DEF TypeOK
  <2>3. /\ exists' \subseteq Names /\ pc' \in [Threads -> {"idle", "write", "read"}]
        /\ name' \in [Threads -> Names \cup {Nothing}]
        /\ image' \in [Threads -> Images \cup {Nothing}]
        /\ pos' \in [Threads -> 0..2] /\ data' \in [Threads -> AtMostTwo(Blocks)]
        /\ stored' \in [Names -> Images \cup {Nothing}]
      BY <1>1, <1>2 DEF TypeOK
  <2> QED BY <2>1, <2>2, <2>3 DEF TypeOK
<1>5. HandlerKnows(t)'
  <2>1. 0 <= Len(Contents(i))
      BY ContentsOfImage
  <2>2. alone'[t] => NoOther(t)'
      BY <1>3 DEF NoOther, SameHandler, Writers, Using
  <2>3. Written(t)' = <<>>
      BY <1>3 DEF Written
  <2> QED BY <1>2, <1>3, <2>1, <2>2, <2>3 DEF HandlerKnows
<1>6. ASSUME NEW s \in Threads \ {t}
      PROVE  HandlerKnows(s)'
  <2>1. HandlerKnows(s) /\ SameHandler(s) /\ name'[s] = name[s]
      BY <1>1, <1>3 DEF FilesKnown, SameHandler
  <2>2. alone'[s] /\ pc[s] \in {"write", "read"} => NoOther(s)'
      BY <1>1, <1>3, <2>1, StillNoOther
  <2>3. name[s] # n => file'[name[s]] = file[name[s]]
      BY <1>1, <1>2, <2>1 DEF TypeOK, HandlerKnows
  <2>4. pc[s] = "write" => stored'[name[s]] = Nothing
      BY <1>1, <1>2, <2>1 DEF TypeOK, HandlerKnows
  <2>5. alone'[s] /\ pc[s] \in {"write", "read"} => file'[name[s]] = file[name[s]]
    <3>1. pc[s] \in {"write", "read"} => name[s] \in Names
        BY <1>1, <2>1 DEF HandlerKnows, TypeOK
    <3> QED BY <1>1, <1>2, <1>3, <3>1 DEF TypeOK
  <2> QED BY <1>2, <1>3, <2>1, <2>2, <2>4, <2>5, StillKnows
<1>7. \A m \in Names : stored'[m] # Nothing => m \in exists' /\ file'[m] = Contents(stored'[m])
    BY <1>1, <1>2 DEF FilesKnown, TypeOK
<1> QED BY <1>4, <1>5, <1>6, <1>7 DEF ImageInv, FilesKnown

\* An upload writes its next block, after the ones before if it is alone.
LEMMA SendBlockInv ==
    ASSUME ImageInv, NEW t \in Threads, SendBlock(t)
    PROVE  ImageInv'
<1>1. TypeOK /\ FilesKnown /\ HandlerKnows(t)
    BY DEF ImageInv, FilesKnown
<1> PICK n, i, p : n = name[t] /\ i = image[t] /\ p = pos[t]
    OBVIOUS
<1>2. /\ pc[t] = "write" /\ p < Len(Contents(i))
      /\ file' = [file EXCEPT ![n] = Put(file[n], p, i)]
      /\ pos' = [pos EXCEPT ![t] = p + 1]
      /\ exists' = exists /\ pc' = pc /\ name' = name /\ image' = image /\ data' = data
      /\ alone' = alone /\ stored' = stored
    BY DEF SendBlock, histVars
<1>3. /\ n \in exists /\ n \in Names /\ stored[n] = Nothing
      /\ p \in 0..2 /\ Len(Contents(i)) \in 0..2
      /\ i \in Images /\ p \in 0..1 /\ p + 1 <= Len(Contents(i)) /\ p + 1 \in 0..2
  <2>1. n \in exists /\ n \in Names /\ stored[n] = Nothing /\ p \in 0..2
      BY <1>1, <1>2 DEF HandlerKnows, TypeOK
  <2>2. Len(Contents(i)) \in 0..2 /\ (i \notin Images => Len(Contents(i)) = 0)
      BY ContentsOfImage
  <2>3. \A c \in 0..2 : p < c /\ p \in 0..2 => p \in 0..1 /\ p + 1 <= c /\ p + 1 \in 0..2
      OBVIOUS
  <2>4. p \in 0..1 /\ p + 1 <= Len(Contents(i)) /\ p + 1 \in 0..2
      BY <1>2, <2>1, <2>2, <2>3
  <2>5. i \in Images
      BY <1>2, <2>1, <2>2
  <2> QED BY <2>1, <2>2, <2>4, <2>5
<1>4. TypeOK'
  <2>1. Put(file[n], p, i) \in AtMostTwo(Images \cup {Zeros})
      BY <1>1, <1>3, PutShort DEF TypeOK
  <2> QED BY <1>1, <1>2, <1>3, <2>1 DEF TypeOK
<1>5. pos'[t] = p + 1 /\ file'[n] = Put(file[n], p, i) /\ \A s \in Threads \ {t} : SameHandler(s)
    BY <1>1, <1>2, <1>3 DEF TypeOK, SameHandler
<1>6. HandlerKnows(t)'
  <2>1. alone[t] => file'[n] = [k \in 1..(p + 1) |-> i]
    <3> PICK g : g = [k \in 1..p |-> i]
        OBVIOUS
    <3>1. alone[t] => file[n] = g
        BY <1>1, <1>2 DEF HandlerKnows, Written
    <3>2. Put(g, p, i) = [k \in 1..(p + 1) |-> i]
        BY <1>3, PutNext
    <3> QED BY <1>5, <3>1, <3>2
  <2>2. alone[t] => file'[n] = Written(t)'
      BY <1>2, <1>5, <2>1 DEF Written
  <2>3. NoOther(t)' <=> NoOther(t)
      BY <1>2 DEF NoOther
  <2> QED BY <1>1, <1>2, <1>3, <1>5, <2>2, <2>3 DEF HandlerKnows
<1>7. ASSUME NEW s \in Threads \ {t}
      PROVE  HandlerKnows(s)'
  <2>1. HandlerKnows(s) /\ SameHandler(s) /\ alone'[s] = alone[s] /\ name'[s] = name[s]
      BY <1>1, <1>2, <1>5 DEF FilesKnown
  <2>2. CASE alone[s] /\ pc[s] \in {"write", "read"}
    <3>1. name[s] # n /\ name[s] \in Names
        BY <1>1, <1>2, <2>1, <2>2, NotAlone DEF HandlerKnows, TypeOK
    <3>2. file'[name[s]] = file[name[s]]
        BY <1>1, <1>2, <3>1 DEF TypeOK
    <3>3. NoOther(s)'
        BY <1>1, <1>2, <1>5, <2>1, <2>2, <3>1, StillNoOther
    <3> QED BY <1>2, <2>1, <3>2, <3>3, StillKnows DEF HandlerKnows
  <2>3. CASE ~(alone[s] /\ pc[s] \in {"write", "read"})
      BY <1>2, <2>1, <2>3, StillKnows DEF HandlerKnows
  <2> QED BY <2>2, <2>3
<1>8. \A m \in Names : stored'[m] # Nothing => m \in exists' /\ file'[m] = Contents(stored'[m])
    BY <1>1, <1>2, <1>3 DEF FilesKnown, TypeOK
<1> QED BY <1>4, <1>6, <1>7, <1>8 DEF ImageInv, FilesKnown

\* A download asks for the length of its file.
LEMMA ReadOpenInv ==
    ASSUME ImageInv, NEW t \in Threads, NEW n \in Names, ReadOpen(t, n)
    PROVE  ImageInv'
<1>1. TypeOK /\ FilesKnown
    BY DEF ImageInv
<1> PICK d : d = [k \in 1..Len(file[n]) |-> Garbage]
    OBVIOUS
<1>2. /\ pc[t] = "idle" /\ n \in exists /\ exists' = exists /\ file' = file
      /\ image' = image /\ stored' = stored
      /\ pc' = [pc EXCEPT ![t] = "read"]
      /\ name' = [name EXCEPT ![t] = n]
      /\ pos' = [pos EXCEPT ![t] = 0]
      /\ data' = [data EXCEPT ![t] = d]
      /\ alone' = [alone EXCEPT ![t] = Writers(n) = {}]
    BY DEF ReadOpen, Open, fileVars
<1>3. /\ pc'[t] = "read" /\ name'[t] = n /\ pos'[t] = 0 /\ data'[t] = d
      /\ alone'[t] => Writers(n) = {}
      /\ \A s \in Threads \ {t} : SameHandler(s) /\ alone'[s] = alone[s]
    BY <1>1, <1>2 DEF TypeOK, SameHandler
<1>4. Len(file[n]) \in 0..2 /\ Len(d) = Len(file[n]) /\ d \in AtMostTwo(Blocks)
  <2>1. Len(file[n]) \in 0..2
      BY <1>1, ShortIsSeq DEF TypeOK
  <2>2. /\ d = [k \in 1..Len(file[n]) |-> d[k]]
        /\ \A k \in 1..Len(file[n]) : d[k] \in Blocks
      BY DEF Blocks
  <2> QED BY <2>1, <2>2, SeqIsShort
<1>5. TypeOK'
  <2>1. alone' \in [Threads -> BOOLEAN]
    <3>1. alone \in [Threads -> BOOLEAN] /\ (Writers(n) = {}) \in BOOLEAN
        BY <1>1 DEF TypeOK
    <3> QED BY <1>2, <3>1, Zenon
  <2>2. /\ exists' \subseteq Names /\ pc' \in [Threads -> {"idle", "write", "read"}]
        /\ name' \in [Threads -> Names \cup {Nothing}]
        /\ image' \in [Threads -> Images \cup {Nothing}]
        /\ pos' \in [Threads -> 0..2] /\ data' \in [Threads -> AtMostTwo(Blocks)]
      BY <1>1, <1>2, <1>4 DEF TypeOK
  <2> QED BY <1>1, <1>2, <2>1, <2>2 DEF TypeOK
<1>6. HandlerKnows(t)'
  <2>1. alone'[t] => NoOther(t)'
      BY <1>3 DEF NoOther, SameHandler, Writers, Using
  <2>2. SoFar(t)' = d
      BY <1>2, <1>3, <1>4 DEF SoFar
  <2> QED BY <1>2, <1>3, <1>4, <2>1, <2>2 DEF HandlerKnows
<1>7. ASSUME NEW s \in Threads \ {t}
      PROVE  HandlerKnows(s)'
  <2>1. HandlerKnows(s) /\ SameHandler(s) /\ alone'[s] = alone[s] /\ name'[s] = name[s]
      BY <1>1, <1>3 DEF FilesKnown, SameHandler
  <2>2. alone'[s] /\ pc[s] \in {"write", "read"} => NoOther(s)'
      BY <1>1, <1>3, <2>1, StillNoOther
  <2> QED BY <1>2, <2>1, <2>2, StillKnows DEF HandlerKnows
<1> QED BY <1>1, <1>2, <1>5, <1>6, <1>7 DEF ImageInv, FilesKnown

\* A download reads the next block, which is there if it is alone.
LEMMA ReadBlockInv ==
    ASSUME ImageInv, NEW t \in Threads, ReadBlock(t)
    PROVE  ImageInv'
<1>1. TypeOK /\ FilesKnown /\ HandlerKnows(t)
    BY DEF ImageInv, FilesKnown
<1> PICK n, p, d, f : n = name[t] /\ p = pos[t] /\ d = data[t] /\ f = file[name[t]]
    OBVIOUS
<1>2. /\ pc[t] = "read" /\ p < Len(d)
      /\ exists' = exists /\ file' = file /\ pc' = pc /\ name' = name /\ image' = image
      /\ alone' = alone /\ stored' = stored
      /\ IF p < Len(f)
         THEN /\ data' = [data EXCEPT ![t][p + 1] = f[p + 1]]
              /\ pos' = [pos EXCEPT ![t] = p + 1]
         ELSE data' = data /\ pos' = [pos EXCEPT ![t] = Len(d)]
    BY DEF ReadBlock, fileVars, histVars
<1>3. /\ n \in Names /\ p \in 0..2
      /\ Len(d) \in 0..2 /\ d = [k \in 1..Len(d) |-> d[k]] /\ \A k \in 1..Len(d) : d[k] \in Blocks
      /\ Len(f) \in 0..2 /\ \A k \in 1..Len(f) : f[k] \in Blocks
  <2>1. n \in Names /\ p \in 0..2 /\ d \in AtMostTwo(Blocks)
      BY <1>1, <1>2 DEF HandlerKnows, TypeOK
  <2>2. f \in AtMostTwo(Images \cup {Zeros})
      BY <1>1, <2>1 DEF TypeOK
  <2>3. /\ Len(d) \in 0..2 /\ d = [k \in 1..Len(d) |-> d[k]]
        /\ \A k \in 1..Len(d) : d[k] \in Blocks
      BY <2>1, ShortIsSeq
  <2>4. Len(f) \in 0..2 /\ \A k \in 1..Len(f) : f[k] \in Images \cup {Zeros}
      BY <2>2, ShortIsSeq
  <2> QED BY <2>1, <2>3, <2>4 DEF Blocks
<1>4. \A s \in Threads \ {t} : SameHandler(s)
    BY <1>1, <1>2 DEF TypeOK, SameHandler
<1>5. CASE p < Len(f)
  <2> PICK e : e = [d EXCEPT ![p + 1] = f[p + 1]]
      OBVIOUS
  <2>1. data' = [data EXCEPT ![t] = e] /\ pos' = [pos EXCEPT ![t] = p + 1]
      BY <1>2, <1>5
  <2>2. e = [k \in 1..Len(d) |-> IF k = p + 1 THEN f[p + 1] ELSE d[k]]
      BY <1>3
  <2>3. e = [k \in 1..Len(d) |-> e[k]] /\ \A k \in 1..Len(d) : e[k] \in Blocks
      BY <1>3, <1>5, <2>2
  <2>4. e \in AtMostTwo(Blocks) /\ Len(e) = Len(d)
      BY <1>3, <2>3, SeqIsShort
  <2>5. p + 1 \in 0..2 /\ p + 1 <= Len(e)
      BY <1>2, <1>3, <2>4
  <2>6. data'[t] = e /\ pos'[t] = p + 1
      BY <1>1, <2>1 DEF TypeOK
  <2>7. TypeOK'
      BY <1>1, <1>2, <2>1, <2>4, <2>5 DEF TypeOK
  <2>8. alone[t] => e = SoFar(t)'
    <3> SUFFICES ASSUME alone[t] PROVE e = SoFar(t)'
        OBVIOUS
    <3>1. d = [k \in 1..Len(f) |-> IF k <= p THEN f[k] ELSE Garbage]
        BY <1>1, <1>2 DEF HandlerKnows, SoFar
    <3>2. Len(d) = Len(f)
        BY <1>3, <3>1
    <3>3. e = [k \in 1..Len(f) |-> IF k <= p + 1 THEN f[k] ELSE Garbage]
      <4>1. ASSUME NEW k \in 1..Len(f)
            PROVE  (IF k = p + 1 THEN f[p + 1] ELSE d[k]) = IF k <= p + 1 THEN f[k] ELSE Garbage
          BY <1>3, <3>1
      <4> QED BY <2>2, <3>2, <4>1
    <3> QED BY <1>2, <2>6, <3>3 DEF SoFar
  <2>9. HandlerKnows(t)'
      BY <1>1, <1>2, <2>5, <2>6, <2>8 DEF HandlerKnows, NoOther
  <2> QED BY <1>1, <1>2, <1>4, <2>7, <2>9, StillKnows DEF ImageInv, FilesKnown, HandlerKnows, NoOther
<1>6. CASE ~(p < Len(f))
  <2>1. data' = data /\ pos' = [pos EXCEPT ![t] = Len(d)] /\ pos'[t] = Len(d)
      BY <1>1, <1>2, <1>6 DEF TypeOK
  <2>2. TypeOK'
      BY <1>1, <1>2, <1>3, <2>1 DEF TypeOK
  <2>3. ~alone[t]
    <3> SUFFICES ASSUME alone[t] PROVE FALSE
        OBVIOUS
    <3>1. d = [k \in 1..Len(f) |-> IF k <= p THEN f[k] ELSE Garbage]
        BY <1>1, <1>2 DEF HandlerKnows, SoFar
    <3>2. Len(d) = Len(f)
        BY <1>3, <3>1
    <3> QED BY <1>2, <1>3, <1>6, <3>2
  <2>4. HandlerKnows(t)'
      BY <1>1, <1>2, <1>3, <2>1, <2>3 DEF HandlerKnows
  <2> QED BY <1>1, <1>2, <1>4, <2>2, <2>4, StillKnows DEF ImageInv, FilesKnown, HandlerKnows, NoOther
<1> QED BY <1>5, <1>6

----------------------------------------------------------------------------

\* At first no image is stored, and no handler runs.
LEMMA InitInv == Init => ImageInv
<1> SUFFICES ASSUME Init PROVE ImageInv
    OBVIOUS
<1>1. \A S : <<>> \in AtMostTwo(S)
    BY DEF AtMostTwo
<1>2. TypeOK
    BY <1>1 DEF Init, TypeOK
<1>3. FilesKnown
    BY DEF Init, FilesKnown, HandlerKnows
<1> QED BY <1>2, <1>3 DEF ImageInv

LEMMA EndInv ==
    ASSUME ImageInv, ProcessEnds
    PROVE  ImageInv'
<1>1. <<>> \in AtMostTwo(Blocks)
    BY DEF AtMostTwo
<1>2. TypeOK'
  <2>1. alone' \in [Threads -> BOOLEAN]
      BY Zenon DEF ProcessEnds
  <2>2. data' \in [Threads -> AtMostTwo(Blocks)]
      BY <1>1 DEF ProcessEnds
  <2>3. /\ pc' \in [Threads -> {"idle", "write", "read"}]
        /\ name' \in [Threads -> Names \cup {Nothing}]
        /\ image' \in [Threads -> Images \cup {Nothing}]
        /\ pos' \in [Threads -> 0..2]
      BY DEF ProcessEnds
  <2> QED BY <2>1, <2>2, <2>3 DEF ImageInv, TypeOK, ProcessEnds, fileVars
<1>3. FilesKnown'
    BY DEF ImageInv, FilesKnown, HandlerKnows, ProcessEnds, fileVars
<1> QED BY <1>2, <1>3 DEF ImageInv

\* Every access to a file, and the end of the process, preserves the invariant.
LEMMA NextInv == ImageInv /\ [Next]_vars => ImageInv'
<1> SUFFICES ASSUME ImageInv, [Next]_vars PROVE ImageInv'
    OBVIOUS
<1>1. ASSUME NEW t \in Threads, NEW n \in Names, NEW i \in Images \cup {Nothing},
             SendOpen(t, n, i)
      PROVE  ImageInv'
    BY <1>1, SendOpenInv
<1>2. ASSUME NEW t \in Threads, NEW n \in Names, ReadOpen(t, n)
      PROVE  ImageInv'
    BY <1>2, ReadOpenInv
<1>3. ASSUME NEW t \in Threads,
             \/ SendBlock(t) \/ SendBlockFails(t) \/ SendClose(t)
             \/ ReadBlock(t) \/ ReadFails(t) \/ ReadSend(t)
      PROVE  ImageInv'
    BY <1>3, SendBlockInv, CloseInv, SendCloseInv, ReadBlockInv
<1>4. CASE ProcessEnds
    BY <1>4, EndInv
<1>5. CASE UNCHANGED vars
  <2>1. TypeOK'
      BY <1>5 DEF vars, fileVars, threadVars, histVars, ImageInv, TypeOK
  <2>2. ASSUME NEW t \in Threads
        PROVE  HandlerKnows(t)'
      BY <1>5 DEF vars, fileVars, threadVars, histVars, ImageInv, FilesKnown, HandlerKnows,
                  NoOther, Written, SoFar
  <2>3. FilesKnown'
      BY <1>5, <2>2 DEF vars, fileVars, histVars, ImageInv, FilesKnown
  <2> QED BY <2>1, <2>3 DEF ImageInv
<1> QED BY <1>1, <1>2, <1>3, <1>4, <1>5 DEF Next

LEMMA Invariants == Spec => []ImageInv
BY InitInv, NextInv, PTL DEF Spec

\* The variables of the model of Send_Img and Receive_Img keep their types: no
\* file and no answer has more than two blocks.
THEOREM TypeCorrect == Spec => []TypeOK
BY Invariants, PTL DEF ImageInv

\* The inductive invariant of the image files: what an upload that nobody overlaps
\* has written, and what a download that nobody overlaps has read.
THEOREM ImageInvariant == Spec => []ImageInv
BY Invariants, PTL

\* StoredWhole for all handlers, names and images: an image that a client was told
\* is stored is in its file, entire, until the next upload of that name begins.
THEOREM Stored == Spec => []StoredWhole
<1>1. ImageInv => StoredWhole
    BY DEF ImageInv, FilesKnown, StoredWhole
<1> QED BY <1>1, Invariants, PTL

\* SentWhole for all handlers, names and images: a download that no upload
\* overlaps sends the image that was stored, and nothing of its buffer's memory.
THEOREM Sent == Spec => []SentWhole
<1>1. ASSUME ImageInv PROVE SentWhole
  <2> SUFFICES ASSUME NEW t \in Threads, pc[t] = "read", pos[t] = Len(data[t]), alone[t],
                      stored[name[t]] # Nothing
               PROVE  data[t] = Contents(stored[name[t]])
      BY DEF SentWhole
  <2> PICK f, d : f = file[name[t]] /\ d = data[t]
      OBVIOUS
  <2>1. /\ d = [k \in 1..Len(f) |-> IF k <= Len(d) THEN f[k] ELSE Garbage]
        /\ name[t] \in Names
      BY <1>1 DEF ImageInv, FilesKnown, HandlerKnows, SoFar, TypeOK
  <2>2. Len(f) \in 0..2 /\ f = [k \in 1..Len(f) |-> f[k]]
    <3>1. f \in AtMostTwo(Images \cup {Zeros})
        BY <1>1, <2>1 DEF ImageInv, TypeOK
    <3> QED BY <3>1, ShortIsSeq
  <2>3. Len(d) = Len(f)
      BY <2>1, <2>2
  <2>4. d = [k \in 1..Len(f) |-> f[k]]
      BY <2>1, <2>2, <2>3
  <2>5. f = Contents(stored[name[t]])
      BY <1>1, <2>1 DEF ImageInv, FilesKnown
  <2> QED BY <2>2, <2>4, <2>5
<1> QED BY <1>1, Invariants, PTL
=============================================================================
