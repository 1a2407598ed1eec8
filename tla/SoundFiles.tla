------------------------------ MODULE SoundFiles ------------------------------
(* Sound files (lib/audio/sound.c over snd.c, voc.c, wave.c, aiff.c, 8svx.c):*)
(* a program creates a sound, writes its samples and closes it, which fills  *)
(* in the sizes that the header left open; or it dies before that.  Later    *)
(* the file is opened, and which of the five formats it has, its header and  *)
(* where the samples start are found from its bytes.                         *)
(*                                                                           *)
(* A file is a sequence of bytes.  Those of a number or of an identifier     *)
(* name what they belong to, its width and their place in it.  Pipes, bytes  *)
(* of more than one order and files of other programs are left out.          *)
EXTENDS Integers, Sequences, SequencesExt, FiniteSetsExt

CONSTANTS Formats,      \* the file formats
          Rates,        \* the sample rates
          Comments,     \* the lengths of comments
          Chunks,       \* how many bytes a call writes or reads
          LongSize,     \* sizeof(long)
          MaxData,      \* bound: the bytes of sound in a file
          MayCrash,     \* the formats whose files may be left unfinished
          Sized, Placed \* the formats whose length, and whose position, comes back

ASSUME SoundFilesAssumption ==
    /\ Formats \subseteq {"snd", "voc", "wave", "aiff", "8svx"}
    /\ Chunks \subseteq Nat \ {0} /\ LongSize \in {4, 8}

VARIABLES mode,     \* "none", "writing", "written", "reading", "refused"
          file,     \* the bytes of the file
          pos,      \* the position in it
          sound,    \* the Sound and its formatInfo
          made,     \* history: the sound as it was created
          written,  \* history: the bytes of sound written
          closed,   \* history: SoundCloseFile has returned
          told      \* history: the offset that the reader of the file is at

vars == <<mode, file, pos, sound, made, written, closed, told>>

DataFormats == [snd  |-> {"ulaw8", "u8", "s16msb"}, voc |-> {"u8"}, wave |-> {"u8", "s16lsb"},
                aiff |-> {"s8", "s16msb"}, svx8 |-> {"s8"}]
Valid(f) == DataFormats[IF f = "8svx" THEN "svx8" ELSE f]
BytesPerSample(d) == IF d \in {"s16msb", "s16lsb"} THEN 2 ELSE 1
FrameSize(s) == s.tracks * BytesPerSample(s.data)
Unknown == -1                 \* SoundUnknownNumSamples, SND_DATA_SIZE_UNKNOWN
FromName == <<0>>             \* the comment of a file that has none: its name

-----------------------------------------------------------------------------
(* Bytes.                                                                    *)
Field(id, n, w) == [i \in 1 .. w |-> [id |-> id, n |-> n, w |-> w, i |-> i]]
Id(id) == Field(id, 0, 4)
Code(id) == Field(id, 0, 1)
Num(n, w) == Field("", n, w)
Text(c) == [i \in DOMAIN c |-> [id |-> "text", n |-> c[i], w |-> 1, i |-> 1]]
Samples(from, n) == [i \in 1 .. n |-> [id |-> "sound", n |-> from + i, w |-> 1, i |-> 1]]
Pad2(n) == n + (n % 2)
Padding(n) == IF n % 2 = 1 THEN Num(0, 1) ELSE <<>>

\* The field of w bytes at position p; junk if there is none.
At(p, w) == IF p >= 0 /\ p + w <= Len(file) /\ file[p + 1].i = 1 /\ file[p + 1].w = w
              THEN [id |-> file[p + 1].id, n |-> file[p + 1].n] ELSE [id |-> "junk", n |-> 0]
CommentAt(p, n) == LET text == SelectSeq(SubSeq(file, p + 1, p + n), LAMBDA b : b.id = "text")
                   IN  [i \in DOMAIN text |-> text[i].n]
Overwrite(f, p, n, w) == SubSeq(f, 1, p) \o Num(n, w) \o SubSeq(f, p + w + 1, Len(f))

-----------------------------------------------------------------------------
(* The headers.  Chunks have an identifier, a size and a body.               *)
Chunk(id, size, body) == Id(id) \o Num(size, 4) \o body
SndFormat == [ulaw8 |-> 1, u8 |-> 2, s16msb |-> 3]

\* The rate of a VOC file is kept as a divisor of one byte, or of two in stereo.
VocDivisor(s) == IF s.tracks = 2 THEN (65536 - 256000000 \div (s.rate * 2)) % 65536
                 ELSE (256 - 1000000 \div s.rate) % 256

SndHeader(s) == Id(".snd") \o Num(24 + Len(s.comment), 4) \o Num(s.samples, 4)
                \o Num(SndFormat[s.data], 4) \o Num(s.rate, 4) \o Num(s.tracks, 4) \o Text(s.comment)

VocHeader(s) ==
    LET n == Len(s.comment) + 1
    IN  Field("Creative", 0, 20) \o Num(26, 2) \o Num(266, 2) \o Num(4393, 2)
        \o (IF n = 1 THEN <<>> ELSE Code("TEXT") \o Num(n, 3) \o Text(s.comment) \o Num(0, 1))
        \o (IF s.tracks # 2 THEN <<>>
            ELSE Code("EXTENDED") \o Num(4, 3) \o Num(VocDivisor(s), 2) \o Num(0, 1) \o Num(1, 1))
        \o Code("DATA") \o Num(0, 3)
        \o Num((256 - 1000000 \div s.rate) % 256, 1) \o Num(0, 1)

WaveHeader(s) ==
    LET n == Len(s.comment) + 1
        bytes == BytesPerSample(s.data)
    IN  Chunk("RIFF", 0, Id("WAVE"))
        \o (IF n = 1 THEN <<>>
            ELSE Chunk("LIST", 12 + Pad2(n),
                       Id("INFO") \o Chunk("ICMT", n, Text(s.comment) \o Num(0, 1) \o Padding(n))))
        \o Chunk("fmt ", 16, Num(1, 2) \o Num(s.tracks, 2) \o Num(s.rate, 4)
                             \o Num(s.tracks * s.rate * bytes, 4) \o Num(s.tracks * bytes, 2)
                             \o Num(bytes * 8, 2))
        \o Chunk("data", 0, <<>>)

AiffHeader(s) ==
    LET n == Len(s.comment) + 1
    IN  Chunk("FORM", 0, Id("AIFF"))
        \o (IF n = 1 THEN <<>>
            ELSE Chunk("COMT", 10 + Pad2(n), Num(1, 2) \o Num(0, 4) \o Num(0, 2) \o Num(n, 2)
                                             \o Text(s.comment) \o Num(0, 1) \o Padding(n)))
        \o Chunk("COMM", 18, Num(s.tracks, 2) \o Num(0, 4) \o Num(BytesPerSample(s.data) * 8, 2)
                             \o Num(s.rate, 10))
        \o Chunk("SSND", 0, Num(0, 4) \o Num(0, 4))

SvxHeader(s) ==
    LET n == Len(s.comment)
    IN  Chunk("FORM", 0, Id("8SVX"))
        \o (IF n = 0 THEN <<>> ELSE Chunk("NAME", n, Text(s.comment)))
        \o Chunk("VHDR", 20, Num(0, 4) \o Num(0, 4) \o Num(0, 4) \o Num(s.rate % 65536, 2)
                             \o Num(0, 2) \o Num(65536, 4))
        \o Chunk("BODY", 0, <<>>)

Header(s) == CASE s.format = "snd"  -> SndHeader(s)
               [] s.format = "voc"  -> VocHeader(s)
               [] s.format = "wave" -> WaveHeader(s)
               [] s.format = "aiff" -> AiffHeader(s)
               [] s.format = "8svx" -> SvxHeader(s)

-----------------------------------------------------------------------------
(* Closing: n bytes of sound have been written behind the header h.          *)
SndClosed(f, h, n) == Overwrite(f, 8, n, 4)
VocClosed(f, h, n) == Overwrite(f \o Code("END"), h - 5, n + 2, 3)

\* Mutant: the size of the chunk with the sound is left open.
WaveClosedUnsized(f, h, n) == Overwrite(f \o Padding(n), 4, h - 8 + Pad2(n), 4)

WaveClosed(f, h, n) ==
    Overwrite(Overwrite(f \o Padding(n), 4, h - 8 + Pad2(n), 4), h - 4, n, 4)
AiffClosed(f, h, n) ==
    Overwrite(Overwrite(f \o Padding(n), 4, h - 8 + Pad2(n), 4), h - 12, n, 4)
SvxClosed(f, h, n) == Overwrite(Overwrite(f, 4, h - 8 + n, 4), h - 4, n, 4)

Closed(f, s) ==
    LET h == Len(Header(s))
        n == Len(f) - h
    IN  CASE s.format = "snd"  -> SndClosed(f, h, n)
          [] s.format = "voc"  -> VocClosed(f, h, n)
          [] s.format = "wave" -> WaveClosed(f, h, n)
          [] s.format = "aiff" -> AiffClosed(f, h, n)
          [] s.format = "8svx" -> SvxClosed(f, h, n)

-----------------------------------------------------------------------------
(* Opening for reading.  What is found: start is where the sound begins, and *)
(* size how many bytes of it there are.                                      *)
Refused == [format |-> "none", start |-> 0]
Found == [format |-> "none", data |-> "", tracks |-> 1, rate |-> 0, comment |-> FromName,
          start |-> 0, size |-> 0]

\* Mutant: the size in the header is taken for what the file has.
SndSizeTrusted(size, header) == header

\* The bytes of sound that there are, if the header is unknown or says more.
SndSize(size, header) == IF header = Unknown \/ size < header THEN size ELSE header

SndOpened ==
    LET offset == At(4, 4).n
        formats == {d \in DOMAIN SndFormat : SndFormat[d] = At(12, 4).n}
    IN  IF Len(file) < 24 \/ At(0, 4).id # ".snd" \/ Len(file) < offset THEN Refused
        ELSE [format |-> "snd", data |-> CHOOSE d \in formats : TRUE, tracks |-> At(20, 4).n,
              rate |-> At(16, 4).n, start |-> offset, size |-> SndSize(Len(file) - offset, At(8, 4).n),
              comment |-> IF offset = 24 THEN FromName ELSE CommentAt(24, offset - 24)]

(* A VOC file is a row of blocks: st is what was found up to a block, and    *)
(* going says whether the terminator is still to come.                       *)
VocBlock(st) ==
    LET code == At(st.pos, 1).id
        n == At(st.pos + 1, 3).n
        body == st.pos + 4
        next == [st EXCEPT !.pos = body + n]
    IN  CASE code = "END" -> [st EXCEPT !.going = FALSE]
          [] code = "DATA" /\ n >= 2 ->
                [next EXCEPT !.s.rate = IF st.extended THEN @ ELSE 1000000 \div (256 - At(body, 1).n),
                             !.s.start = body + 2, !.s.size = n - 2]
          [] code = "TEXT" /\ body + n <= Len(file) -> [next EXCEPT !.s.comment = CommentAt(body, n)]
          [] code = "EXTENDED" /\ n = 4 /\ At(body + 3, 1).id # "junk" ->
                [next EXCEPT !.extended = TRUE, !.s.tracks = At(body + 3, 1).n + 1,
                             !.s.rate = (256000000 \div (65536 - At(body, 2).n))
                                            \div (At(body + 3, 1).n + 1)]
          [] OTHER -> [st EXCEPT !.going = FALSE, !.s = Refused]

MaxBlocks == 1 .. 6          \* more than a file that Header has begun can have

VocOpened ==
    LET st == FoldLeft(LAMBDA x, i : IF x.going THEN VocBlock(x) ELSE x,
                       [pos |-> 26, going |-> TRUE, extended |-> FALSE,
                        s |-> [Found EXCEPT !.format = "voc", !.data = "u8"]],
                       [i \in MaxBlocks |-> i])
    IN  IF At(0, 20).id # "Creative" \/ Len(file) < 26 \/ st.s.start = 0 THEN Refused ELSE st.s

(* In the other files st.left is what is left of the outermost chunk.        *)
WaveChunk(st) ==
    LET id == At(st.pos, 4).id
        size == At(st.pos + 4, 4).n
        body == st.pos + 8
        there == Min({size, Len(file) - body})
        next == [st EXCEPT !.pos = body + Pad2(size), !.left = @ - 8 - Pad2(size)]
    IN  CASE id = "LIST" -> [next EXCEPT !.s.comment = CommentAt(body + 12, At(body + 8, 4).n)]
          [] id = "fmt " -> [next EXCEPT !.s.tracks = At(body + 2, 2).n, !.s.rate = At(body + 4, 4).n,
                                         !.bits = At(body + 14, 2).n]
          [] id = "data" -> [next EXCEPT !.s.start = body, !.s.size = there,
                                         !.pos = IF @ > Len(file) THEN Len(file) ELSE @]
          [] OTHER -> next

AiffChunk(st) ==
    LET id == At(st.pos, 4).id
        size == At(st.pos + 4, 4).n
        body == st.pos + 8
        next == [st EXCEPT !.pos = body + Pad2(size), !.left = @ - 8 - Pad2(size)]
    IN  CASE id = "COMT" -> [next EXCEPT !.s.comment = CommentAt(body + 10, At(body + 8, 2).n)]
          [] id = "COMM" -> [next EXCEPT !.s.tracks = At(body, 2).n, !.s.rate = At(body + 8, 10).n,
                                         !.bits = At(body + 6, 2).n]
          [] id = "SSND" -> [next EXCEPT !.s.start = body + 8, !.s.size = size - 8]
          [] OTHER -> next

SvxChunk(st) ==
    LET id == At(st.pos, 4).id
        size == At(st.pos + 4, 4).n
        body == st.pos + 8
        next == [st EXCEPT !.pos = body + size, !.left = @ - 8 - size]
    IN  CASE id = "NAME" -> [next EXCEPT !.s.comment = CommentAt(body, size)]
          [] id = "VHDR" -> [next EXCEPT !.s.rate = At(body + 12, 2).n]
          [] id = "BODY" -> [next EXCEPT !.s.start = body, !.s.size = size]
          [] OTHER -> next

\* A negative rest is unsigned in the comparisons of AIFF and 8SVX.
MoreChunks(f, left) == IF f = "wave" THEN left >= 8 ELSE left > 8 \/ left < 0

\* What a file of chunks begins with, and the size of what follows.
Outer(f) == CASE f = "wave" -> <<"RIFF", "WAVE">>
              [] f = "aiff" -> <<"FORM", "AIFF">>
              [] f = "8svx" -> <<"FORM", "8SVX">>

OuterSize(f) == IF f = "8svx" THEN At(4, 4).n ELSE Pad2(At(4, 4).n)

\* One turn of the loop over chunks; a chunk beyond the end is an error.
ReadChunk(f, st) ==
    IF st.s = Refused \/ ~MoreChunks(f, st.left) THEN st
    ELSE IF st.pos + 8 > Len(file) THEN [st EXCEPT !.s = Refused]
    ELSE CASE f = "wave" -> WaveChunk(st)
           [] f = "aiff" -> AiffChunk(st)
           [] f = "8svx" -> SvxChunk(st)

ChunksOpened(f) ==
    LET end == FoldLeft(LAMBDA st, i : ReadChunk(f, st),
                        [pos |-> 12, left |-> OuterSize(f) - 4, bits |-> 8,
                         s |-> [Found EXCEPT !.format = f]],
                        [i \in MaxBlocks |-> i])
    IN  IF Len(file) < 12 \/ <<At(0, 4).id, At(8, 4).id>> # Outer(f) \/ end.s.start = 0 THEN Refused
        ELSE [end.s EXCEPT !.data = CASE f = "wave" -> IF end.bits = 16 THEN "s16lsb" ELSE "u8"
                                      [] OTHER      -> IF end.bits = 16 THEN "s16msb" ELSE "s8"]

Opened(f) ==
    CASE f = "snd"  -> SndOpened
      [] f = "voc"  -> VocOpened
      [] OTHER      -> ChunksOpened(f)

InOrder == <<"snd", "voc", "wave", "aiff", "8svx">>      \* _SoundFileInfo

NumSamples(s) == (s.size \div s.tracks) \div BytesPerSample(s.data)

-----------------------------------------------------------------------------
Init ==
    /\ mode = "none" /\ file = <<>> /\ pos = 0
    /\ sound = Refused /\ made = Refused /\ written = 0
    /\ closed = FALSE /\ told = 0

(* SoundCreate and SoundOpenFileForWriting.  8SVX files have one track.      *)
Create(f, d, tracks, rate, comment, samples) ==
    /\ mode = "none" /\ d \in Valid(f) /\ (f = "8svx" => tracks = 1)
    /\ sound' = [format |-> f, data |-> d, tracks |-> tracks, rate |-> rate,
                 comment |-> [i \in 1 .. comment |-> i], samples |-> samples]
    /\ made' = sound'
    /\ file' = Header(sound')
    /\ mode' = "writing"
    /\ UNCHANGED <<pos, written, closed, told>>

SoundWriteFile(n) ==
    /\ mode = "writing" /\ written + n <= MaxData
    /\ file' = file \o Samples(written, n)
    /\ written' = written + n
    /\ UNCHANGED <<mode, pos, sound, made, closed, told>>

SoundCloseFile ==
    /\ mode = "writing"
    /\ file' = Closed(file, sound)
    /\ mode' = "written" /\ closed' = TRUE
    /\ UNCHANGED <<pos, sound, made, written, told>>

\* The program dies: what stdio had not written yet is lost.
Crash(k) ==
    /\ mode = "writing" /\ sound.format \in MayCrash
    /\ file' = SubSeq(file, 1, k)
    /\ mode' = "written"
    /\ UNCHANGED <<pos, sound, made, written, closed, told>>

\* Mutant: the header of an AIFF file's sound is not skipped.
OriginInChunk(s) == CASE s.format = "aiff" -> s.start - 8
                      [] s.format = "voc" -> s.start + 3 [] s.format = "8svx" -> s.start + LongSize
                      [] OTHER -> s.start

(* Where reading begins: VOC and 8SVX skip the size of the block once more.  *)
Origin(s) == CASE s.format = "voc"  -> s.start + 3
               [] s.format = "8svx" -> s.start + LongSize
               [] OTHER             -> s.start

SoundOpenFileForReading ==
    /\ mode = "written"
    /\ LET readable == SelectSeq(InOrder, LAMBDA f : Opened(f) # Refused)
       IN  IF readable = <<>> THEN mode' = "refused" /\ UNCHANGED <<sound, pos>>
           ELSE /\ mode' = "reading"
                /\ sound' = Opened(readable[1])
                /\ pos' = Origin(sound')
    /\ UNCHANGED <<file, made, written, closed, told>>

SoundSeekFile(n) ==
    /\ mode = "reading"
    /\ pos' = Origin(sound) + n
    /\ told' = n
    /\ UNCHANGED <<mode, file, sound, made, written, closed>>

SoundTellFile == pos - Origin(sound)

SoundReadFile(n) ==
    /\ mode = "reading"
    /\ LET num == Max({Min({n, Len(file) - pos}), 0})
       IN  pos' = pos + num /\ told' = told + num
    /\ UNCHANGED <<mode, file, sound, made, written, closed>>

Next ==
    \/ \E f \in Formats, tracks \in 1 .. 2, rate \in Rates, c \in Comments, samples \in {Unknown, 0, 1} :
         \E d \in Valid(f) : Create(f, d, tracks, rate, c, samples)
    \/ \E n \in Chunks : SoundWriteFile(n)
    \/ SoundCloseFile
    \/ \E k \in 0 .. Len(file) : Crash(k)
    \/ SoundOpenFileForReading
    \/ \E n \in 0 .. MaxData : SoundSeekFile(n)      \* SoundRewindFile is SoundSeekFile(0)
    \/ \E n \in Chunks : SoundReadFile(n)

Spec == Init /\ [][Next]_vars

-----------------------------------------------------------------------------
TypeOK ==
    /\ mode \in {"none", "writing", "written", "reading", "refused"} /\ pos \in Nat /\ told \in Nat
    /\ written \in 0 .. MaxData /\ \A i \in DOMAIN file : file[i].i \in 1 .. file[i].w

\* How precisely a file keeps a rate: of a VOC file, its divisor.
KeptRate(format, tracks, rate) ==
    IF format # "voc" THEN rate ELSE IF tracks = 2 THEN 128000000 \div rate ELSE 1000000 \div rate

(* A file that was closed is found again as it was created: in its format,   *)
(* with its tracks, rate, comment and as many samples as were written,       *)
(* whatever the parity of its parts (SoundOpenFileForReading); only an 8SVX  *)
(* file without sound is not (its loop stops at a rest of 8 bytes).          *)
ReadsBack ==
    /\ TypeOK
    /\ closed /\ (made.format = "8svx" => written > 0) => mode # "refused"
    /\ closed /\ mode = "reading" =>
         /\ sound.format = made.format /\ sound.data = made.data /\ sound.tracks = made.tracks
         /\ KeptRate(sound.format, sound.tracks, sound.rate) = KeptRate(made.format, made.tracks, made.rate)
         /\ sound.comment = IF made.comment = <<>> THEN FromName ELSE made.comment
         /\ sound.format \in Sized => NumSamples(sound) = written \div FrameSize(made)

(* "returns the offset (in bytes) of the next byte to be read, relative to   *)
(* the beginning of the audio" (SoTlFile.man:39): SoundTellFile, after any   *)
(* reading, seeking and rewinding.                                           *)
TellLocatesAudio ==
    LET there == Len(file) - Len(Header(made))
    IN  mode = "reading" /\ sound.format \in Placed =>
          /\ SoundTellFile = told
          /\ told < Min({written, there}) => /\ pos < Len(file)
                                             /\ file[pos + 1] = Samples(told, 1)[1]

(* An unfinished file is refused, or has the samples that it announces; of a *)
(* recording, whose length is unknown at first, all that were flushed        *)
(* (SndOpenFileForReading).                                                  *)
NothingInvented ==
    LET there == (Len(file) - Len(Header(made))) \div FrameSize(made)
    IN  mode = "reading" /\ ~closed =>
          /\ sound.format = made.format /\ sound.data = made.data /\ sound.tracks = made.tracks
          /\ NumSamples(sound) <= there
          /\ made.samples = Unknown => NumSamples(sound) = there
=============================================================================
