------------------------------- MODULE Images -------------------------------
(***************************************************************************)
(* The image files that Send_Img writes and Receive_Img reads, both of     *)
(* iShare_server.cc, one access to the file at a time.                     *)
(*                                                                         *)
(* Send_Img empties the file when it opens it, writes the whole blocks of  *)
(* the image with fwrite and the rest with fclose, through an offset of    *)
(* its own.  Nothing keeps two uploads of one name, or an upload and a     *)
(* download, apart.  It does not look at what Read, fopen and fwrite       *)
(* return: of a stream that breaks it stores an empty image.               *)
(*                                                                         *)
(* Receive_Img asks for the length of the file first and reads that many   *)
(* bytes afterwards, into memory that is not initialised.                  *)
(*                                                                         *)
(* A file is the sequence of its blocks, each of them the image it comes   *)
(* from; long images have two.                                             *)
(***************************************************************************)
EXTENDS Integers, Sequences

CONSTANTS Threads,  \* handler threads
          Names,    \* folder and name of an image
          Images,   \* what clients send
          Long,     \* the images of two blocks
          Nothing,  \* no image: no file, or nothing stored on purpose
          Zeros,    \* a block nobody wrote, before one that was written
          Garbage,  \* what the memory held before
          Faults    \* streams break, writes fail, the process crashes

ASSUME LongAssumption == Long \subseteq Images
ASSUME MarksAssumption == {Nothing, Zeros, Garbage} \cap Images = {}
ASSUME FaultsAssumption == Faults \in BOOLEAN

VARIABLES
    exists, \* the names of which there is a file
    file,   \* file[n]: the blocks of the file n
    pc,     \* pc[t]: "idle", or "write" in Send_Img, or "read" in Receive_Img
    name,   \* name[t]: the file t has open, or Nothing
    image,  \* image[t]: the image t stores; Nothing when its stream broke
    pos,    \* pos[t]: t's offset in the file
    data,   \* data[t]: the blocks t has read, of flen
    alone,  \* alone[t]: no other upload of t's file since before t opened it
    stored  \* stored[n]: the image a client was told is in n, Nothing if spoilt

fileVars == <<exists, file>>
threadVars == <<pc, name, image, pos, data>>
histVars == <<alone, stored>>
vars == <<fileVars, threadVars, histVars>>

Contents(i) == IF i \in Long THEN <<i, i>> ELSE IF i \in Images THEN <<i>> ELSE <<>>

Blocks == Images \cup {Zeros, Garbage}
AtMostTwo(S) == {<<>>} \cup {<<a>> : a \in S} \cup {<<a, b>> : a, b \in S}

TypeOK ==
    /\ exists \subseteq Names
    /\ file \in [Names -> AtMostTwo(Images \cup {Zeros})]
    /\ pc \in [Threads -> {"idle", "write", "read"}]
    /\ name \in [Threads -> Names \cup {Nothing}]
    /\ image \in [Threads -> Images \cup {Nothing}]
    /\ pos \in [Threads -> 0..2]
    /\ data \in [Threads -> AtMostTwo(Blocks)]
    /\ alone \in [Threads -> BOOLEAN]
    /\ stored \in [Names -> Images \cup {Nothing}]

Init ==
    /\ exists = {}
    /\ file = [n \in Names |-> <<>>]
    /\ pc = [t \in Threads |-> "idle"]
    /\ name = [t \in Threads |-> Nothing]
    /\ image = [t \in Threads |-> Nothing]
    /\ pos = [t \in Threads |-> 0]
    /\ data = [t \in Threads |-> <<>>]
    /\ alone = [t \in Threads |-> FALSE]
    /\ stored = [n \in Names |-> Nothing]

Using(n) == {t \in Threads : name[t] = n}
Writers(n) == {t \in Using(n) : pc[t] = "write"}

\* fopen
Open(t, n, step) ==
    /\ pc[t] = "idle"
    /\ pc' = [pc EXCEPT ![t] = step]
    /\ name' = [name EXCEPT ![t] = n]
    /\ pos' = [pos EXCEPT ![t] = 0]

Close(t) ==
    /\ pc' = [pc EXCEPT ![t] = "idle"]
    /\ name' = [name EXCEPT ![t] = Nothing]
    /\ image' = [image EXCEPT ![t] = Nothing]
    /\ pos' = [pos EXCEPT ![t] = 0]
    /\ data' = [data EXCEPT ![t] = <<>>]
    /\ alone' = [alone EXCEPT ![t] = FALSE]

\* t opens n for writing.
Overlap(t, n) ==
    alone' = [u \in Threads |-> IF u = t THEN Writers(n) = {}
                                        ELSE alone[u] /\ name[u] # n]

----------------------------------------------------------------------------
(* Send_Img *)

\* Mutant: the file is opened with "r+".
SendOpenKeeps(t, n, i) ==
    /\ Open(t, n, "write")
    /\ i = Nothing => Faults
    /\ exists' = exists \cup {n}
    /\ UNCHANGED file
    /\ image' = [image EXCEPT ![t] = i]
    /\ Overlap(t, n)
    /\ stored' = [stored EXCEPT ![n] = Nothing]
    /\ UNCHANGED data

\* fopen(path, "w+"), before the image itself is read from the stream.
SendOpen(t, n, i) ==
    /\ Open(t, n, "write")
    /\ i = Nothing => Faults
    /\ exists' = exists \cup {n}
    /\ file' = [file EXCEPT ![n] = <<>>]
    /\ image' = [image EXCEPT ![t] = i]
    /\ Overlap(t, n)
    /\ stored' = [stored EXCEPT ![n] = Nothing]
    /\ UNCHANGED data

\* The file f with the block b at offset p.
Put(f, p, b) ==
    [k \in 1..(IF Len(f) > p THEN Len(f) ELSE p + 1) |->
        IF k = p + 1 THEN b ELSE IF k <= Len(f) THEN f[k] ELSE Zeros]

\* Mutant: each block is written at the start of the file.
SendBlockRewinds(t) ==
    /\ pc[t] = "write"
    /\ pos[t] < Len(Contents(image[t]))
    /\ file' = [file EXCEPT ![name[t]] = Put(@, 0, image[t])]
    /\ pos' = [pos EXCEPT ![t] = @ + 1]
    /\ UNCHANGED <<exists, pc, name, image, data, histVars>>

\* fwrite, and for the last block fclose.
SendBlock(t) ==
    /\ pc[t] = "write"
    /\ pos[t] < Len(Contents(image[t]))
    /\ file' = [file EXCEPT ![name[t]] = Put(@, pos[t], image[t])]
    /\ pos' = [pos EXCEPT ![t] = @ + 1]
    /\ UNCHANGED <<exists, pc, name, image, data, histVars>>

\* "Get image" is answered.
SendClose(t) ==
    /\ pc[t] = "write"
    /\ pos[t] = Len(Contents(image[t]))
    /\ stored' = [stored EXCEPT ![name[t]] = IF alone[t] THEN image[t] ELSE Nothing]
    /\ Close(t)
    /\ UNCHANGED fileVars

\* The disk is full: "Get image" is answered all the same.
SendBlockFails(t) ==
    /\ Faults
    /\ pc[t] = "write"
    /\ pos[t] < Len(Contents(image[t]))
    /\ Close(t)
    /\ UNCHANGED <<fileVars, stored>>

----------------------------------------------------------------------------
(* Receive_Img, for one of the names it is asked for; a name without a file  *)
(* is skipped.                                                               *)

\* Mutant: the buffer's terminating zero is counted as well.
ReadOpenLong(t, n) ==
    /\ n \in exists
    /\ Len(file[n]) < 2
    /\ Open(t, n, "read")
    /\ data' = [data EXCEPT ![t] = [k \in 1..(Len(file[n]) + 1) |-> Garbage]]
    /\ alone' = [alone EXCEPT ![t] = Writers(n) = {}]
    /\ UNCHANGED <<fileVars, image, stored>>

\* fopen, ftell at the end, new char[flen + 1].
ReadOpen(t, n) ==
    /\ n \in exists
    /\ Open(t, n, "read")
    /\ data' = [data EXCEPT ![t] = [k \in 1..Len(file[n]) |-> Garbage]]
    /\ alone' = [alone EXCEPT ![t] = Writers(n) = {}]
    /\ UNCHANGED <<fileVars, image, stored>>

\* fread, which stops for good at the end of the file.
ReadBlock(t) ==
    /\ pc[t] = "read"
    /\ pos[t] < Len(data[t])
    /\ IF pos[t] < Len(file[name[t]])
       THEN /\ data' = [data EXCEPT ![t][pos[t] + 1] = file[name[t]][pos[t] + 1]]
            /\ pos' = [pos EXCEPT ![t] = @ + 1]
       ELSE /\ pos' = [pos EXCEPT ![t] = Len(data[t])]
            /\ UNCHANGED data
    /\ UNCHANGED <<fileVars, pc, name, image, histVars>>

\* ferror: the image is left out of the answer.
ReadFails(t) ==
    /\ Faults
    /\ pc[t] = "read"
    /\ Close(t)
    /\ UNCHANGED <<fileVars, stored>>

\* reply->Write
ReadSend(t) ==
    /\ pc[t] = "read"
    /\ pos[t] = Len(data[t])
    /\ Close(t)
    /\ UNCHANGED <<fileVars, stored>>

----------------------------------------------------------------------------

\* The process ends: it crashes, or an image is sent for a folder that does not
\* exist, and fwrite is called with the NULL of fopen.
ProcessEnds ==
    /\ Faults
    /\ \E t \in Threads : pc[t] # "idle"
    /\ pc' = [t \in Threads |-> "idle"]
    /\ name' = [t \in Threads |-> Nothing]
    /\ image' = [t \in Threads |-> Nothing]
    /\ pos' = [t \in Threads |-> 0]
    /\ data' = [t \in Threads |-> <<>>]
    /\ alone' = [t \in Threads |-> FALSE]
    /\ UNCHANGED <<fileVars, stored>>

Next ==
    \/ \E t \in Threads :
          \/ \E n \in Names :
                \/ \E i \in Images \cup {Nothing} : SendOpen(t, n, i)
                \/ ReadOpen(t, n)
          \/ SendBlock(t) \/ SendBlockFails(t) \/ SendClose(t)
          \/ ReadBlock(t) \/ ReadFails(t) \/ ReadSend(t)
    \/ ProcessEnds

Spec == Init /\ [][Next]_vars

----------------------------------------------------------------------------
(* The inductive invariant behind StoredWhole and SentWhole.                 *)

Written(t) == [k \in 1..pos[t] |-> image[t]]

\* The first pos[t] blocks of t's file, and memory that was never written.
SoFar(t) ==
    [k \in 1..Len(file[name[t]]) |-> IF k <= pos[t] THEN file[name[t]][k] ELSE Garbage]

\* No other handler writes t's file.
NoOther(t) == \A u \in Threads \ {t} : ~(pc[u] = "write" /\ name[u] = name[t])

\* What t's handler relies on, as long as no upload overlaps it.
HandlerKnows(t) ==
    /\ pc[t] # "idle" => name[t] \in exists
    /\ pc[t] = "write" =>
          /\ stored[name[t]] = Nothing
          /\ pos[t] <= Len(Contents(image[t]))
          /\ alone[t] => NoOther(t) /\ file[name[t]] = Written(t)
    /\ pc[t] = "read" =>
          /\ pos[t] <= Len(data[t])
          /\ alone[t] => NoOther(t) /\ data[t] = SoFar(t)

FilesKnown ==
    /\ \A t \in Threads : HandlerKnows(t)
    /\ \A n \in Names : stored[n] # Nothing => n \in exists /\ file[n] = Contents(stored[n])

ImageInv == TypeOK /\ FilesKnown

----------------------------------------------------------------------------
(* Properties *)

\* The image that a client was told the server has is in its file, entire and
\* with nothing of earlier images, until the next upload of that name begins;
\* the exceptions are uploads that overlapped, and streams and writes that fail,
\* which the client is not told of.
StoredWhole ==
    \A n \in Names : stored[n] # Nothing => n \in exists /\ file[n] = Contents(stored[n])

\* What Receive_Img is about to send is the image that was stored, with no byte
\* of uninitialised memory, unless an upload of that name overlapped it.
SentWhole ==
    \A t \in Threads :
        (pc[t] = "read" /\ pos[t] = Len(data[t]) /\ alone[t]) =>
            (stored[name[t]] # Nothing => data[t] = Contents(stored[name[t]]))
=============================================================================
